------------------------------ MODULE WakePath ------------------------------
(***************************************************************************)
(* Requests for live data (server/internal/api/routes.go,                  *)
(* executeDeviceCommand): the handler first makes sure that the device is  *)
(* connected, waking it with an FCM push if need be (hub.go, EnsureOnline  *)
(* and WakeDevice), and then calls SendCommand.                            *)
(***************************************************************************)
EXTENDS Hub

CONSTANT PushEnabled    \* are FCM credentials configured?

ASSUME PushAssumption == PushEnabled \in BOOLEAN

VARIABLES
    ensure,     \* where a command's EnsureOnline is, "none" for a plain call
    wanted,     \* the device it is for
    hasToken    \* does devices.fcm_token hold a token?

wakeVars == <<ensure, wanted, hasToken>>
wakeAllVars == <<vars, wakeVars>>

WakeInit ==
    /\ Init
    /\ ensure = [c \in Cmd |-> "none"]
    /\ wanted = [c \in Cmd |-> None]
    /\ hasToken = [d \in Device |-> FALSE]

IsDeviceOnline(d) == clients[d] # None

Ensure(c, from, to) ==
    /\ ensure[c] = from
    /\ ensure' = [ensure EXCEPT ![c] = to]
    /\ UNCHANGED <<vars, hasToken>>

\* The device's token arrives, by WebSocket or HTTP: the UPDATE changes
\* nothing for a device that has no row.
StoreToken(d) ==
    /\ d \in known
    /\ hasToken' = [hasToken EXCEPT ![d] = TRUE]
    /\ UNCHANGED <<vars, ensure, wanted>>

EnsureOnline(c, d) ==
    /\ caller[c] = "idle"
    /\ Ensure(c, "none", IF IsDeviceOnline(d) THEN "ready" ELSE "waking")
    /\ wanted' = [wanted EXCEPT ![c] = d]

\* WakeDevice looks again, and does nothing if the device is there by now or
\* cannot be pushed to.
WakeDevice(c) ==
    /\ Ensure(c, "waking", IF \/ IsDeviceOnline(wanted[c])
                              \/ ~PushEnabled
                              \/ ~hasToken[wanted[c]]
                           THEN "polling" ELSE "pushing")
    /\ UNCHANGED wanted

\* SendWake returns within 12 seconds; an error is only logged.
SendWake(c) == Ensure(c, "pushing", "polling") /\ UNCHANGED wanted

PollOnline(c) ==
    /\ Ensure(c, "polling", "ready")
    /\ IsDeviceOnline(wanted[c])
    /\ UNCHANGED wanted

\* Mutant of PollDeadline: the loop has no deadline.
PollForever(c) ==
    /\ Ensure(c, "polling", "ready")
    /\ IsDeviceOnline(wanted[c])
    /\ UNCHANGED wanted

\* The deadline passes; the result is a last look at the registry.
PollDeadline(c) ==
    /\ Ensure(c, "polling", IF IsDeviceOnline(wanted[c]) THEN "ready" ELSE "absent")
    /\ UNCHANGED wanted

\* Mutant of LiveCall: what EnsureOnline returns is not looked at.
LiveCallAnyway(c) ==
    /\ ensure[c] \in {"ready", "absent"}
    /\ \/ CallOffline(c, wanted[c]) \/ CallInsertFails(c, wanted[c])
       \/ CallBegins(c, wanted[c], TRUE)
    /\ UNCHANGED wakeVars

\* executeDeviceCommand calls SendCommand, with a positive timeout.
LiveCall(c) ==
    /\ ensure[c] = "ready"
    /\ \/ CallOffline(c, wanted[c]) \/ CallInsertFails(c, wanted[c])
       \/ CallBegins(c, wanted[c], TRUE)
    /\ UNCHANGED wakeVars

EnsureStep(c) ==
    WakeDevice(c) \/ SendWake(c) \/ PollOnline(c) \/ PollDeadline(c) \/ LiveCall(c)

WakeNext ==
    \/ (ConnNext \/ \E c \in Cmd : CallStep(c)) /\ UNCHANGED wakeVars
    \/ \E c \in Cmd, d \in Device :
          \/ ensure[c] = "none" /\ NewCall(c, d) /\ UNCHANGED wakeVars
          \/ EnsureOnline(c, d)
    \/ \E c \in Cmd : EnsureStep(c)
    \/ \E d \in Device : StoreToken(d) \/ (IngestOverHTTP(d) /\ UNCHANGED wakeVars)

WakeSafety == WakeInit /\ [][WakeNext]_wakeAllVars

\* EnsureOnline's sleeps and deadlines end; the rest is as in Hub.
WakeSpec ==
    /\ WakeSafety
    /\ \A k \in Conn : WF_wakeAllVars(ReaderStep(k) /\ UNCHANGED wakeVars)
                       /\ WF_wakeAllVars(WriterStep(k) /\ UNCHANGED wakeVars)
    /\ \A c \in Cmd : WF_wakeAllVars(CallStep(c) /\ UNCHANGED wakeVars)
                      /\ WF_wakeAllVars(EnsureStep(c))

-----------------------------------------------------------------------------
(* Properties.                                                             *)

\* The stages of a request, and the device it names, are what they are said to be.
WakeTypeOK ==
    /\ TypeOK
    /\ ensure \in [Cmd -> {"none", "waking", "pushing", "polling", "ready", "absent"}]
    /\ wanted \in [Cmd -> Device \cup {None}]
    /\ hasToken \in [Device -> BOOLEAN]

\* A request whose device has not been found online leaves no trace: no row, nothing in
\* a queue, nothing run, neither while it waits nor after it gave the device up. One whose
\* device was found is sent to that device. (routes.go:598-623)
OnlyFoundDevicesAreAsked ==
    \A c \in Cmd :
        /\ ensure[c] \notin {"none", "ready"} =>
               row[c] = "none" /\ c \notin delivered /\ \A k \in Conn : ~Queued(c, k)
        /\ ensure[c] # "none" /\ caller[c] # "idle" => target[c] = wanted[c]

\* A request for live data ends, by giving the device up or by the end of its
\* call, although EnsureOnline and SendCommand look the device up separately
\* and it may come and go in between. (hub.go:422-439, routes.go:598-623)
LiveRequestsEnd ==
    \A c \in Cmd : ensure[c] # "none" ~> ensure[c] = "absent" \/ caller[c] = "done"

\* A device is attached when a connection of its own is registered and idle:
\* its readPump is in ReadMessage, on a socket that works.
Attached(d) == \E k \in Conn : devOf[k] = d /\ reader[k] = "reading" /\ link[k]

\* What WakeDevice is documented to be: a no-op when the device is already
\* online. (hub.go:391-393)
WakeIsNoOpWhenOnline ==
    [][\A c \in Cmd : ensure[c] = "waking" /\ ensure'[c] = "pushing"
          => ~Attached(wanted[c])]_wakeAllVars
=============================================================================
