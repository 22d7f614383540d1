---------------------------- MODULE DeviceRecords ----------------------------
(***************************************************************************)
(* What the server keeps about a device (server/internal/db/db.go) and how *)
(* the hub's message handlers write it (server/internal/ws/hub.go): the    *)
(* rows of devices, one statement at a time, beside the registry of        *)
(* connections.  Queues and commands are left to Hub.  Statements may fail *)
(* and the server may be killed; what the database holds survives, the     *)
(* registry does not.                                                      *)
(***************************************************************************)
EXTENDS Naturals, FiniteSets

CONSTANTS Device,       \* device identities
          Beating,      \* those that register with every heartbeat, as desktop agents do
          Conn,         \* connections accepted, each used once
          None,         \* no device or connection
          MaxTroubles   \* bound on the statements that fail and the server's restarts

ASSUME NoneAssumption == None \notin Device \cup Conn
ASSUME BeatingAssumption == Beating \subseteq Device
ASSUME TroubleAssumption == MaxTroubles \in Nat

VARIABLES
    \* Database.
    details,    \* who the device is: a row's name, hostname, os and platform
    status,     \* devices.status
    \* The hub, lost in a restart.
    reader,     \* where a connection's readPump is
    agent,      \* the device whose agent opened the connection
    devOf,      \* DeviceConn.DeviceID, None before "register"
    link,       \* can the socket still carry messages?
    mark,       \* the status that the message being handled ends with
    clients,    \* Hub.clients
    \* History and bounds.
    by,         \* the connection that last wrote a device's status, if one did
    unmarked,   \* connections that ended without storing their device as offline
    troubles    \* statements that failed and restarts, so far

dbVars == <<details, status>>
connVars == <<reader, agent, devOf, link, mark>>
vars == <<dbVars, connVars, clients, by, unmarked, troubles>>

Details == {"none", "placeholder", "registered"}
Stage == {"unused", "reading", "profiling", "adding", "marking", "removing",
          "leaving", "ended"}

Init ==
    /\ details = [d \in Device |-> "none"]
    /\ status = [d \in Device |-> "offline"]
    /\ reader = [k \in Conn |-> "unused"]
    /\ agent = [k \in Conn |-> None]
    /\ devOf = [k \in Conn |-> None]
    /\ link = [k \in Conn |-> FALSE]
    /\ mark = [k \in Conn |-> "online"]
    /\ clients = [d \in Device |-> None]
    /\ by = [d \in Device |-> None]
    /\ unmarked = {}
    /\ troubles = 0

-----------------------------------------------------------------------------
(* Statements. One that fails changes nothing.                             *)

Known(d) == details[d] # "none"

Trouble == troubles < MaxTroubles /\ troubles' = troubles + 1

Fails == Trouble /\ UNCHANGED <<dbVars, by>>

Works == UNCHANGED troubles

\* Mutant of Upsert: a conflict leaves the identity as it is.
UpsertKeepsDetails(d, as, writer) ==
    /\ details' = [details EXCEPT ![d] = IF Known(d) THEN @ ELSE as]
    /\ status' = [status EXCEPT ![d] = "online"]
    /\ by' = [by EXCEPT ![d] = writer]

\* UpsertDevice: every column is replaced (the token, which it leaves alone, is
\* in WakePath).
Upsert(d, as, writer) ==
    /\ details' = [details EXCEPT ![d] = as]
    /\ status' = [status EXCEPT ![d] = "online"]
    /\ by' = [by EXCEPT ![d] = writer]

UpsertDevice(d, as, writer) == Fails \/ (Works /\ Upsert(d, as, writer))

\* ensureDeviceExists: the identity is made up from the id, whatever the row
\* held, and an error is dropped. A message that names no device, on a
\* connection that has none, stops here.
EnsureDeviceExists(d, writer) == UpsertDevice(d, "placeholder", writer)

\* UpdateDeviceStatus changes nothing where there is no row.
SetStatus(d, s, writer) ==
    /\ status' = IF d \in Device /\ Known(d) THEN [status EXCEPT ![d] = s] ELSE status
    /\ by' = IF d \in Device /\ Known(d) THEN [by EXCEPT ![d] = writer] ELSE by
    /\ UNCHANGED details

UpdateDeviceStatus(d, s, writer) == Fails \/ (Works /\ SetStatus(d, s, writer))

-----------------------------------------------------------------------------
(* Connections and their readPump.                                         *)

Step(k, from, to) ==
    /\ reader[k] = from
    /\ reader' = [reader EXCEPT ![k] = to]

Reading(k) == reader[k] = "reading" /\ link[k]

\* Connections are used in a fixed order: which one comes next is of no account.
NextConn == CHOOSE k \in Conn : reader[k] = "unused"

HandleWebSocket(k, d) ==
    /\ Step(k, "unused", "reading")
    /\ k = NextConn
    /\ agent' = [agent EXCEPT ![k] = d]
    /\ link' = [link EXCEPT ![k] = TRUE]
    /\ UNCHANGED <<dbVars, devOf, mark, clients, by, unmarked, troubles>>

\* The peer closes or vanishes, 60 seconds pass without a message, or a
\* message exceeds the read limit of 1 MB.
LinkBreaks(k) ==
    /\ link[k]
    /\ link' = [link EXCEPT ![k] = FALSE]
    /\ UNCHANGED <<dbVars, reader, agent, devOf, mark, clients, by, unmarked, troubles>>

\* Mutant of ReadRegister: a heartbeat's registration does not reach AddClient.
ReadRegisterOnce(k) ==
    /\ Reading(k)
    /\ agent[k] \in Beating \/ devOf[k] = None
    /\ Step(k, "reading", IF devOf[k] = None THEN "profiling" ELSE "reading")
    /\ devOf' = [devOf EXCEPT ![k] = agent[k]]
    /\ UpsertDevice(agent[k], "registered", k)
    /\ UNCHANGED <<agent, link, mark, clients, unmarked>>

\* "register": desktop agents send it on connecting and with every heartbeat, the
\* Android client in onOpen only. Errors are only logged.
ReadRegister(k) ==
    /\ Reading(k)
    /\ agent[k] \in Beating \/ devOf[k] = None
    /\ Step(k, "reading", "profiling")
    /\ devOf' = [devOf EXCEPT ![k] = agent[k]]
    /\ UpsertDevice(agent[k], "registered", k)
    /\ UNCHANGED <<agent, link, mark, clients, unmarked>>

\* UpsertSystemInfo: a row of its own, which no other step reads.
StoreProfile(k) ==
    /\ Step(k, "profiling", "adding")
    /\ Fails \/ (Works /\ UNCHANGED <<dbVars, by>>)
    /\ UNCHANGED <<agent, devOf, link, mark, clients, unmarked>>

AddClient(k) ==
    /\ Step(k, "adding", "reading")
    /\ clients' = [clients EXCEPT ![devOf[k]] = k]
    /\ UNCHANGED <<dbVars, agent, devOf, link, mark, by, unmarked, troubles>>

\* "telemetry" and "event": the device named by the message is made sure of,
\* the row is inserted, and the connection's device is marked: offline by
\* client_stopping, else online. An agent's monitors may send an event before
\* the connection is registered.
ReadReport(k) ==
    /\ Reading(k)
    /\ Step(k, "reading", "marking")
    /\ \E s \in {"online", "offline"} : mark' = [mark EXCEPT ![k] = s]
    /\ EnsureDeviceExists(agent[k], k)
    /\ UNCHANGED <<agent, devOf, link, clients, unmarked>>

MarkReport(k) ==
    /\ Step(k, "marking", "reading")
    /\ mark' = [mark EXCEPT ![k] = "online"]
    /\ UpdateDeviceStatus(devOf[k], mark[k], k)
    /\ UNCHANGED <<agent, devOf, link, clients, unmarked>>

\* "notification", "sms", and each record of the two syncs: no mark follows.
ReadForward(k) ==
    /\ Reading(k)
    /\ EnsureDeviceExists(agent[k], k)
    /\ UNCHANGED <<connVars, clients, unmarked>>

\* ReadMessage fails; readPump's deferred function runs if it has a device.
ReadError(k) ==
    /\ ~link[k]
    /\ Step(k, "reading", IF devOf[k] = None THEN "ended" ELSE "removing")
    /\ unmarked' = IF devOf[k] = None THEN unmarked \cup {k} ELSE unmarked
    /\ UNCHANGED <<dbVars, agent, devOf, link, mark, clients, by, troubles>>

RemoveClient(k) ==
    /\ Step(k, "removing", "leaving")
    /\ clients' = [clients EXCEPT ![devOf[k]] = None]
    /\ UNCHANGED <<dbVars, agent, devOf, link, mark, by, unmarked, troubles>>

\* Mutant of MarkOffline: only a device that is gone from the registry is marked.
MarkOfflineIfGone(k) ==
    /\ Step(k, "leaving", "ended")
    /\ IF clients[devOf[k]] = None THEN SetStatus(devOf[k], "offline", k)
                                   ELSE UNCHANGED <<dbVars, by>>
    /\ UNCHANGED <<agent, devOf, link, mark, clients, unmarked, troubles>>

\* The device is stored as offline, whichever connection it uses by now.
MarkOffline(k) ==
    /\ Step(k, "leaving", "ended")
    /\ \/ Works /\ SetStatus(devOf[k], "offline", k) /\ UNCHANGED unmarked
       \/ Fails /\ unmarked' = unmarked \cup {k}
    /\ UNCHANGED <<agent, devOf, link, mark, clients>>

\* The server ends and starts again: no deferred function runs. Ending on a
\* signal is no different, since Shutdown leaves upgraded connections alone.
Restart ==
    /\ Trouble
    /\ reader' = [k \in Conn |-> IF reader[k] = "unused" THEN "unused" ELSE "ended"]
    /\ unmarked' = unmarked \cup {k \in Conn : reader[k] \notin {"unused", "ended"}}
    /\ link' = [k \in Conn |-> FALSE]
    /\ clients' = [d \in Device |-> None]
    /\ UNCHANGED <<dbVars, agent, devOf, mark, by>>

ReaderStep(k) ==
    \/ StoreProfile(k) \/ AddClient(k) \/ MarkReport(k)
    \/ ReadError(k) \/ RemoveClient(k) \/ MarkOffline(k)

ConnNext ==
    \E k \in Conn :
        \/ \E d \in Device : HandleWebSocket(k, d)
        \/ LinkBreaks(k)
        \/ ReadRegister(k) \/ ReadReport(k) \/ ReadForward(k)
        \/ ReaderStep(k)

-----------------------------------------------------------------------------
(* Properties.                                                             *)

\* Rows and connections hold what they are said to hold.
RecordsTypeOK ==
    /\ details \in [Device -> Details]
    /\ status \in [Device -> {"online", "offline"}]
    /\ reader \in [Conn -> Stage]
    /\ agent \in [Conn -> Device \cup {None}]
    /\ devOf \in [Conn -> Device \cup {None}]
    /\ link \in [Conn -> BOOLEAN]
    /\ mark \in [Conn -> {"online", "offline"}]
    /\ clients \in [Device -> Conn \cup {None}]
    /\ by \in [Device -> Conn \cup {None}]
    /\ unmarked \subseteq Conn
    /\ troubles \in Nat

\* A connection that is over leaves no device stored as online on its account,
\* except when its offline mark could not be stored: it never registered, the
\* statement failed, or the server was killed. (hub.go:82-93, 165-197)
OnlineHasASource ==
    \A d \in Device :
        status[d] = "online" /\ by[d] # None
            => reader[by[d]] # "ended" \/ by[d] \in unmarked

\* The device's agent stays connected by k.
Stays(k, d) == agent[k] = d /\ link[k] /\ reader[k] \notin {"removing", "leaving", "ended"}

\* Whatever older connections, failed statements and reports over HTTP leave
\* behind, a desktop agent that stays connected ends up in the registry, and is
\* stored as online again and again. (hub.go:82-93, 137-150)
ConnectedSettles ==
    \A d \in Beating :
        <>[](\E k \in Conn : Stays(k, d))
            => <>[](clients[d] # None) /\ []<>(status[d] = "online")

\* The placeholders that every report writes over a device's identity do not stay
\* while a desktop agent is connected: the next heartbeat restores it. (db.go:260-267)
IdentityReturns ==
    \A d \in Beating :
        <>[](\E k \in Conn : Stays(k, d)) => []<>(details[d] = "registered")
=============================================================================
