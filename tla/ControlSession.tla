--------------------------- MODULE ControlSession ---------------------------
(***************************************************************************)
(* The control session of the Android client                               *)
(* (services/ControlSessionManager.kt): opened by the user or by an FCM    *)
(* push, if need be after the user's consent, and closed by a stop order,  *)
(* by the inactivity watchdog or by the end of the connection. The public  *)
(* methods are @Synchronized; OkHttp calls back on threads of its own, and *)
(* the watchdog runs on the main looper.                                   *)
(***************************************************************************)
EXTENDS Naturals, FiniteSets

CONSTANTS Socket,     \* the WebSockets created, each used once
          None        \* no WebSocket

ASSUME SocketAssumption == None \notin Socket

VARIABLES
    \* Fields of ControlSessionManager, and PreferencesManager.controlMode.
    webSocket, isSessionActive, sessionApproved, wakeLock, controlMode,
    \* The copies of inactivityRunnable in the looper's queue: how many count down,
    \* and how many have done so; is one running, waiting for the lock of stopSession?
    posted, due, fired,
    \* The consent notification is on display.
    prompt,
    \* Per socket: its state at OkHttp, whether close() was called, where its onOpen
    \* or onMessage is, whether its final callback waits for the lock of stopSession.
    sock, closeAsked, callback, ending,
    \* History: sockets that carried a registration; who opened the last
    \* session, and in which mode.
    registered, opener, openedIn

fieldVars == <<webSocket, isSessionActive, sessionApproved, wakeLock>>
watchdog == <<posted, due>>
sockVars == <<sock, closeAsked, callback, ending, registered>>
openVars == <<opener, openedIn>>
vars == <<fieldVars, controlMode, watchdog, fired, prompt, sockVars, openVars>>

Init ==
    /\ webSocket = None
    /\ isSessionActive = FALSE
    /\ sessionApproved = FALSE
    /\ wakeLock = "released"
    /\ controlMode = "consent"
    /\ posted = 0
    /\ due = 0
    /\ fired = FALSE
    /\ prompt = FALSE
    /\ sock = [s \in Socket |-> "unused"]
    /\ closeAsked = [s \in Socket |-> FALSE]
    /\ callback = [s \in Socket |-> "idle"]
    /\ ending = {}
    /\ registered = {}
    /\ opener = "nobody"
    /\ openedIn = "consent"

-----------------------------------------------------------------------------
(* The synchronized methods. Each is one step: what other threads do to    *)
(* the looper's queue meanwhile could as well come before or after it.     *)

\* handler.removeCallbacks, and resetInactivityWatchdog in one go.
RemoveCallbacks == posted' = 0 /\ due' = 0
RestartWatchdog == posted' = 1 /\ due' = 0

\* connectWebSocket: newWebSocket starts connecting, the field refers to it.
ConnectWebSocket(s) ==
    /\ sock[s] = "unused"
    /\ sock' = [sock EXCEPT ![s] = "connecting"]
    /\ webSocket' = s
    /\ UNCHANGED <<closeAsked, callback, ending, registered>>

AlreadyRunning == isSessionActive /\ webSocket # None

\* The tail of startSession, past its two early returns. who: "user" or "remote".
OpenSession(who) ==
    /\ ~AlreadyRunning
    /\ wakeLock' = "held"
    /\ isSessionActive' = TRUE
    /\ RestartWatchdog
    /\ \E s \in Socket : ConnectWebSocket(s)
    /\ opener' = who
    /\ openedIn' = controlMode
    /\ UNCHANGED <<controlMode, fired>>

KeepSession ==
    /\ AlreadyRunning
    /\ RestartWatchdog
    /\ UNCHANGED <<webSocket, isSessionActive, wakeLock, controlMode, fired, sockVars,
                   openVars>>

\* startSession("manual_button"), from the app.
StartManually ==
    /\ KeepSession \/ OpenSession("user")
    /\ UNCHANGED <<sessionApproved, prompt>>

\* startSession("fcm_push" or "fcm_sync"), from a push of the server: in consent
\* mode, without approval, it only shows the notification.
StartRemotely ==
    /\ \/ KeepSession /\ UNCHANGED prompt
       \/ /\ ~AlreadyRunning
          /\ controlMode = "consent" /\ ~sessionApproved
          /\ prompt' = TRUE
          /\ UNCHANGED <<webSocket, isSessionActive, wakeLock, controlMode, watchdog, fired,
                         sockVars, openVars>>
       \/ /\ controlMode = "auto" \/ sessionApproved
          /\ OpenSession("remote")
          /\ UNCHANGED prompt
    /\ UNCHANGED sessionApproved

\* "Permitir": ControlConsentReceiver cancels the notification and approves.
ApproveControlRequest ==
    /\ prompt
    /\ prompt' = FALSE
    /\ sessionApproved' = TRUE
    /\ KeepSession \/ OpenSession("user")

\* "Denegar".
DenyControlRequest ==
    /\ prompt
    /\ prompt' = FALSE
    /\ sessionApproved' = FALSE
    /\ UNCHANGED <<webSocket, isSessionActive, wakeLock, controlMode, watchdog, fired,
                   sockVars, openVars>>

\* Mutants of StopSession: the approval, the socket or the wake lock is left as it is.
StopKeepsApproval ==
    IF ~isSessionActive
    THEN UNCHANGED <<fieldVars, watchdog, closeAsked>>
    ELSE /\ RemoveCallbacks
         /\ closeAsked' = [s \in Socket |-> closeAsked[s] \/ s = webSocket]
         /\ webSocket' = None
         /\ isSessionActive' = FALSE
         /\ wakeLock' = "released"
         /\ UNCHANGED sessionApproved

StopKeepsSocket ==
    IF ~isSessionActive
    THEN UNCHANGED <<fieldVars, watchdog, closeAsked>>
    ELSE /\ RemoveCallbacks
         /\ webSocket' = None
         /\ isSessionActive' = FALSE
         /\ sessionApproved' = FALSE
         /\ wakeLock' = "released"
         /\ UNCHANGED closeAsked

StopKeepsWakeLock ==
    IF ~isSessionActive
    THEN UNCHANGED <<fieldVars, watchdog, closeAsked>>
    ELSE /\ RemoveCallbacks
         /\ closeAsked' = [s \in Socket |-> closeAsked[s] \/ s = webSocket]
         /\ webSocket' = None
         /\ isSessionActive' = FALSE
         /\ sessionApproved' = FALSE
         /\ UNCHANGED wakeLock

\* stopSession: nothing without a session; otherwise the socket in the field is
\* asked to close and everything the session holds is given back.
StopSession ==
    IF ~isSessionActive
    THEN UNCHANGED <<fieldVars, watchdog, closeAsked>>
    ELSE /\ RemoveCallbacks
         /\ closeAsked' = [s \in Socket |-> closeAsked[s] \/ s = webSocket]
         /\ webSocket' = None
         /\ isSessionActive' = FALSE
         /\ sessionApproved' = FALSE
         /\ wakeLock' = "released"

\* stopSession("fcm_push").
StopRemotely ==
    /\ StopSession
    /\ UNCHANGED <<controlMode, fired, prompt, sock, callback, ending, registered,
                   openVars>>

-----------------------------------------------------------------------------
(* The watchdog.                                                           *)

SixtySecondsPass ==
    /\ posted > 0
    /\ posted' = posted - 1
    /\ due' = due + 1
    /\ UNCHANGED <<fieldVars, controlMode, fired, prompt, sockVars, openVars>>

\* The looper starts a copy: from here on it can no longer be removed ...
WatchdogFires ==
    /\ due > 0
    /\ ~fired
    /\ due' = due - 1
    /\ fired' = TRUE
    /\ UNCHANGED <<fieldVars, controlMode, posted, prompt, sockVars, openVars>>

\* Mutant of WatchdogStops: only a session that reached the server is stopped.
WatchdogStopsOpenOnly ==
    /\ fired
    /\ fired' = FALSE
    /\ IF webSocket \in registered THEN StopSession
       ELSE UNCHANGED <<fieldVars, watchdog, closeAsked>>
    /\ UNCHANGED <<controlMode, prompt, sock, callback, ending, registered,
                   openVars>>

\* ... and gets the lock later.
WatchdogStops ==
    /\ fired
    /\ fired' = FALSE
    /\ StopSession
    /\ UNCHANGED <<controlMode, prompt, sock, callback, ending, registered,
                   openVars>>

\* The wake lock is acquired for at most ten minutes.
WakeLockExpires ==
    /\ wakeLock = "held"
    /\ wakeLock' = "released"
    /\ UNCHANGED <<webSocket, isSessionActive, sessionApproved, controlMode, watchdog,
                   fired, prompt, sockVars, openVars>>

-----------------------------------------------------------------------------
(* Callbacks of a socket, on a thread of OkHttp. They use the field         *)
(* webSocket, whichever socket that is by then, and restart the watchdog   *)
(* without the lock, in two steps: one callback may remove what another    *)
(* has just posted, and two that removed first both post.                  *)

Callback(s, from, to) ==
    /\ callback[s] = from
    /\ callback' = [callback EXCEPT ![s] = to]

\* onOpen: the registration, token, pending items and client_started are sent ...
OnOpen(s) ==
    /\ sock[s] = "connecting"
    /\ sock' = [sock EXCEPT ![s] = "open"]
    /\ Callback(s, "idle", "opened")
    /\ registered' = registered \cup ({webSocket} \ {None})
    /\ UNCHANGED <<fieldVars, controlMode, watchdog, fired, prompt, closeAsked, ending,
                   openVars>>

\* ... and then the watchdog restarts; it does so first thing in onMessage, ...
OnOpenRemoves(s) ==
    /\ Callback(s, "opened", "posting")
    /\ RemoveCallbacks
    /\ UNCHANGED <<fieldVars, controlMode, fired, prompt, sock, closeAsked, ending,
                   registered, openVars>>

OnMessage(s) ==
    /\ sock[s] = "open"
    /\ Callback(s, "idle", "message")
    /\ RemoveCallbacks
    /\ UNCHANGED <<fieldVars, controlMode, fired, prompt, sock, closeAsked, ending,
                   registered, openVars>>

\* Mutant of PostDelayed: the callback of a socket no longer in use posts nothing.
PostDelayedInUse(s) ==
    /\ \/ Callback(s, "posting", "idle")
       \/ Callback(s, "message", "handling")
    /\ posted' = IF s = webSocket THEN posted + 1 ELSE posted
    /\ UNCHANGED <<fieldVars, controlMode, due, fired, prompt, sock, closeAsked, ending,
                   registered, openVars>>

PostDelayed(s) ==
    /\ \/ Callback(s, "posting", "idle")
       \/ Callback(s, "message", "handling")
    /\ posted' = posted + 1
    /\ UNCHANGED <<fieldVars, controlMode, due, fired, prompt, sock, closeAsked, ending,
                   registered, openVars>>

\* ... before the message is handled: a command may change the mode, ...
HandleMessage(s) ==
    /\ Callback(s, "handling", "idle")
    /\ controlMode' \in {"consent", "auto"}
    /\ UNCHANGED <<fieldVars, watchdog, fired, prompt, sock, closeAsked, ending,
                   registered, openVars>>

\* ... and "stop_control" stops the session.
HandleStopControl(s) ==
    /\ Callback(s, "handling", "idle")
    /\ StopSession
    /\ UNCHANGED <<controlMode, fired, prompt, sock, ending, registered, openVars>>

\* The connection closes or fails: onClosed or onFailure is called once, onFailure
\* maybe by another thread while a message is handled ...
SocketEnds(s) ==
    /\ sock[s] \in {"connecting", "open"}
    /\ sock' = [sock EXCEPT ![s] = "ended"]
    /\ ending' = ending \cup {s}
    /\ UNCHANGED <<fieldVars, controlMode, watchdog, fired, prompt, closeAsked, callback,
                   registered, openVars>>

\* ... and calls stopSession, whichever session is running by then.
OnEnd(s) ==
    /\ s \in ending
    /\ ending' = ending \ {s}
    /\ StopSession
    /\ UNCHANGED <<controlMode, fired, prompt, sock, callback, registered, openVars>>

-----------------------------------------------------------------------------
\* The mode switch of the app.
SwitchMode ==
    /\ controlMode' \in {"consent", "auto"} \ {controlMode}
    /\ UNCHANGED <<fieldVars, watchdog, fired, prompt, sockVars, openVars>>

Next ==
    \/ StartManually \/ StartRemotely \/ ApproveControlRequest \/ DenyControlRequest
    \/ StopRemotely \/ SixtySecondsPass \/ WatchdogFires \/ WatchdogStops
    \/ WakeLockExpires \/ SwitchMode
    \/ \E s \in Socket : \/ OnOpen(s) \/ OnOpenRemoves(s) \/ OnMessage(s)
                         \/ PostDelayed(s) \/ HandleMessage(s) \/ HandleStopControl(s)
                         \/ SocketEnds(s) \/ OnEnd(s)

\* Time passes, the looper and OkHttp's threads run, and a socket asked to close
\* ends (OkHttp cancels it after a minute). Nothing is assumed of users and server.
Fairness ==
    /\ WF_vars(SixtySecondsPass) /\ WF_vars(WatchdogFires) /\ WF_vars(WatchdogStops)
    /\ \A s \in Socket : /\ WF_vars(OnEnd(s)) /\ WF_vars(OnOpenRemoves(s))
                         /\ WF_vars(PostDelayed(s))
                         /\ WF_vars(closeAsked[s] /\ SocketEnds(s))

Spec == Init /\ [][Next]_vars
FairSpec == Spec /\ Fairness

-----------------------------------------------------------------------------
(* Properties.                                                             *)

\* The values each field may take.
TypeOK ==
    /\ webSocket \in Socket \cup {None}
    /\ isSessionActive \in BOOLEAN
    /\ sessionApproved \in BOOLEAN
    /\ wakeLock \in {"released", "held"}
    /\ controlMode \in {"consent", "auto"}
    /\ posted \in Nat
    /\ due \in Nat
    /\ fired \in BOOLEAN
    /\ prompt \in BOOLEAN
    /\ sock \in [Socket -> {"unused", "connecting", "open", "ended"}]
    /\ closeAsked \in [Socket -> BOOLEAN]
    /\ callback \in [Socket -> {"idle", "opened", "posting", "message", "handling"}]
    /\ ending \subseteq Socket
    /\ registered \subseteq Socket
    /\ opener \in {"nobody", "user", "remote"}
    /\ openedIn \in {"consent", "auto"}

\* A push of the server never opens a session by itself in consent mode, not
\* even after the user approved an earlier one. (ControlSessionManager.kt:60-67, 110)
ConsentIsAskedEachTime == opener = "remote" => openedIn = "auto"

\* At most one socket is in use: any other that is alive was asked to close, so
\* the server never keeps two connections of the device. (:72-73, 101-107)
NoOrphanSocket ==
    \A s \in Socket : sock[s] \in {"connecting", "open"} /\ s # webSocket => closeAsked[s]

\* A running session always has its watchdog: a copy of the runnable in the queue, one
\* that has started and waits for the lock, or a callback that has removed the copies
\* and is about to post one, however many of them interleave with each other and with
\* the synchronized methods. Otherwise the session outlives its last order.
\* (:55-75, 93-99, 125-137, 478-481)
ActiveSessionIsWatched ==
    isSessionActive => \/ posted + due > 0 \/ fired
                       \/ \E s \in Socket : callback[s] \in {"posting", "message"}

\* No session, no wake lock: it is given back by whichever way the session ended.
WakeLockNeedsSession == wakeLock = "held" => isSessionActive

\* When orders stop coming, the session ends and stays ended. (README.md:482-483)
QuietSessionsEnd == <>[](posted = 0) => <>[]~isSessionActive

\* A session is ended by the watchdog, by a stop order or by the end of its own
\* connection, and not by the late end of an earlier one. (README.md:482-483)
OnlyItsOwnSocketEndsASession ==
    [][\A s \in Socket : s \in ending \ ending' /\ isSessionActive /\ ~isSessionActive'
          => s = webSocket]_vars
=============================================================================
