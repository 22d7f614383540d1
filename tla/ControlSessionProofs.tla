------------------------ MODULE ControlSessionProofs ------------------------
(***************************************************************************)
(* Safety of the Android control session for any number of sockets. The    *)
(* inductive invariant adds to the properties of ControlSession what the   *)
(* fields say of each other between two calls of its methods.              *)
(***************************************************************************)
EXTENDS ControlSession, TLAPS

\* The fields agree: a session is active when it has a socket, the socket was
\* created, and an approval belongs to the session it opened.
FieldsAgree ==
    /\ isSessionActive <=> webSocket # None
    /\ webSocket # None => sock[webSocket] # "unused"
    /\ sessionApproved => isSessionActive

SessionInv ==
    /\ TypeOK
    /\ FieldsAgree
    /\ ConsentIsAskedEachTime
    /\ NoOrphanSocket
    /\ ActiveSessionIsWatched
    /\ WakeLockNeedsSession

-----------------------------------------------------------------------------
(* What the two ways through startSession, and stopSession, preserve: each *)
(* is part of several actions.                                             *)

\* startSession opens a session: the socket it creates is the only one not asked to close.
LEMMA OpenSessionKeeps ==
    ASSUME SessionInv, NEW who \in {"user", "remote"}, OpenSession(who),
           prompt' \in BOOLEAN, sessionApproved' \in BOOLEAN,
           who = "remote" => controlMode = "auto"
    PROVE  SessionInv'
<1>1. PICK s \in Socket : ConnectWebSocket(s)
  BY DEF OpenSession
<1>2. webSocket = None
  BY DEF OpenSession, AlreadyRunning, SessionInv, FieldsAgree
<1>3. /\ sock[s] = "unused" /\ webSocket' = s /\ s # None
      /\ sock' = [sock EXCEPT ![s] = "connecting"]
      /\ UNCHANGED <<closeAsked, callback, ending, registered>>
  BY <1>1, SocketAssumption DEF ConnectWebSocket
<1>4. TypeOK'
  BY <1>3 DEF SessionInv, TypeOK, OpenSession, RestartWatchdog
<1>5. FieldsAgree'
  BY <1>3 DEF SessionInv, TypeOK, FieldsAgree, OpenSession
<1>6. NoOrphanSocket'
  BY <1>2, <1>3, SocketAssumption DEF SessionInv, TypeOK, NoOrphanSocket
<1>7. (ConsentIsAskedEachTime /\ ActiveSessionIsWatched /\ WakeLockNeedsSession)'
  BY DEF OpenSession, RestartWatchdog, ConsentIsAskedEachTime, ActiveSessionIsWatched,
         WakeLockNeedsSession
<1> QED
  BY <1>4, <1>5, <1>6, <1>7 DEF SessionInv

\* startSession finds a session running: only the watchdog restarts.
LEMMA KeepSessionKeeps ==
    ASSUME SessionInv, KeepSession, prompt' \in BOOLEAN, sessionApproved' \in BOOLEAN
    PROVE  SessionInv'
  BY DEF SessionInv, KeepSession, RestartWatchdog, AlreadyRunning, TypeOK, FieldsAgree,
         sockVars, openVars, ConsentIsAskedEachTime, NoOrphanSocket,
         ActiveSessionIsWatched, WakeLockNeedsSession, watchdog

\* stopSession gives everything back at once, or does nothing without a session.
LEMMA StopSessionKeeps ==
    ASSUME SessionInv, StopSession, fired' \in BOOLEAN,
           UNCHANGED <<controlMode, prompt, registered, opener, openedIn>>,
           ending' \subseteq Socket, UNCHANGED sock,
           callback' \in [Socket -> {"idle", "opened", "posting", "message", "handling"}]
    PROVE  SessionInv'
<1>1. CASE ~isSessionActive
  BY <1>1 DEF SessionInv, StopSession, RemoveCallbacks, TypeOK, FieldsAgree, fieldVars,
              openVars, ConsentIsAskedEachTime, NoOrphanSocket, ActiveSessionIsWatched,
              WakeLockNeedsSession, watchdog
<1>2. CASE isSessionActive
  <2>1. TypeOK'
    <3>1. /\ webSocket' = None /\ isSessionActive' = FALSE /\ sessionApproved' = FALSE
          /\ wakeLock' = "released" /\ posted' = 0 /\ due' = 0
      BY <1>2 DEF StopSession, RemoveCallbacks
    <3>2. closeAsked' \in [Socket -> BOOLEAN]
      <4>1. closeAsked' = [s \in Socket |-> closeAsked[s] \/ s = webSocket]
        BY <1>2, Zenon DEF StopSession
      <4> QED
        BY <4>1, Zenon
    <3>3. isSessionActive' \in BOOLEAN /\ sessionApproved' \in BOOLEAN
      BY <3>1, Zenon
    <3> QED
      BY <3>1, <3>2, <3>3 DEF SessionInv, TypeOK
  <2>2. FieldsAgree' /\ ActiveSessionIsWatched' /\ WakeLockNeedsSession'
    BY <1>2 DEF StopSession, FieldsAgree, ActiveSessionIsWatched, WakeLockNeedsSession
  <2>3. ConsentIsAskedEachTime' /\ NoOrphanSocket'
    BY <1>2 DEF SessionInv, StopSession, ConsentIsAskedEachTime, NoOrphanSocket, TypeOK
  <2> QED
    BY <2>1, <2>2, <2>3 DEF SessionInv
<1> QED
  BY <1>1, <1>2 DEF SessionInv, TypeOK

-----------------------------------------------------------------------------
\* The manager starts without a session.
LEMMA SessionInit == Init => SessionInv
<1> SUFFICES ASSUME Init PROVE SessionInv
  OBVIOUS
<1>1. TypeOK
  BY DEF Init, TypeOK
<1>2. FieldsAgree /\ ConsentIsAskedEachTime /\ ActiveSessionIsWatched
  BY DEF Init, FieldsAgree, ConsentIsAskedEachTime, ActiveSessionIsWatched
<1>3. NoOrphanSocket /\ WakeLockNeedsSession
  BY DEF Init, NoOrphanSocket, WakeLockNeedsSession
<1> QED
  BY <1>1, <1>2, <1>3 DEF SessionInv

\* No step of the user, the server, the watchdog or a socket breaks the invariant.
LEMMA SessionStep == SessionInv /\ [Next]_vars => SessionInv'
<1> SUFFICES ASSUME SessionInv, [Next]_vars PROVE SessionInv'
  OBVIOUS
<1> USE DEF SessionInv
<1>1. CASE StartManually
  BY <1>1, OpenSessionKeeps, KeepSessionKeeps DEF StartManually, TypeOK
<1>2. CASE StartRemotely
  <2>1. CASE KeepSession /\ UNCHANGED <<prompt, sessionApproved>>
    BY <2>1, KeepSessionKeeps DEF TypeOK
  <2>2. CASE /\ prompt' = TRUE
             /\ UNCHANGED <<fieldVars, controlMode, watchdog, fired, sockVars, openVars>>
    BY <2>2 DEF TypeOK, FieldsAgree, fieldVars, sockVars, openVars,
                ConsentIsAskedEachTime, NoOrphanSocket, ActiveSessionIsWatched,
                WakeLockNeedsSession, watchdog
  <2>3. CASE /\ controlMode = "auto" \/ sessionApproved
             /\ OpenSession("remote")
             /\ UNCHANGED <<prompt, sessionApproved>>
    \* An approval belongs to a running session, so it cannot open another one.
    <3>1. controlMode = "auto"
      BY <2>3 DEF OpenSession, AlreadyRunning, FieldsAgree
    <3> QED
      BY <2>3, <3>1, OpenSessionKeeps DEF TypeOK
  <2> QED
    BY <1>2, <2>1, <2>2, <2>3 DEF StartRemotely, fieldVars
<1>3. CASE ApproveControlRequest
  BY <1>3, OpenSessionKeeps, KeepSessionKeeps DEF ApproveControlRequest
<1>4. CASE DenyControlRequest
  BY <1>4 DEF DenyControlRequest, TypeOK, FieldsAgree, sockVars, openVars,
              ConsentIsAskedEachTime, NoOrphanSocket, ActiveSessionIsWatched,
              WakeLockNeedsSession, watchdog
<1>5. CASE StopRemotely
  <2>1. /\ StopSession
        /\ UNCHANGED <<controlMode, fired, prompt, sock, callback, ending, registered,
                       opener, openedIn>>
    BY <1>5 DEF StopRemotely, openVars
  <2>2. /\ fired' \in BOOLEAN /\ ending' \subseteq Socket
        /\ callback' \in [Socket -> {"idle", "opened", "posting", "message", "handling"}]
    BY <2>1 DEF TypeOK
  <2> QED
    BY <2>1, <2>2, StopSessionKeeps
<1>6. CASE SixtySecondsPass \/ WakeLockExpires \/ SwitchMode
  <2> USE DEF TypeOK, FieldsAgree, fieldVars, sockVars, openVars, ConsentIsAskedEachTime,
              NoOrphanSocket, ActiveSessionIsWatched, WakeLockNeedsSession
  <2>1. CASE SixtySecondsPass
    BY <2>1 DEF SixtySecondsPass
  <2>2. CASE WakeLockExpires
    BY <2>2 DEF WakeLockExpires, watchdog
  <2>3. CASE SwitchMode
    BY <2>3 DEF SwitchMode, watchdog
  <2> QED
    BY <1>6, <2>1, <2>2, <2>3
<1>7. CASE WatchdogFires
  BY <1>7 DEF WatchdogFires, TypeOK, FieldsAgree, fieldVars, sockVars, openVars,
              ConsentIsAskedEachTime, NoOrphanSocket, ActiveSessionIsWatched,
              WakeLockNeedsSession, watchdog
<1>8. CASE WatchdogStops
  <2>1. /\ StopSession
        /\ fired' = FALSE
        /\ UNCHANGED <<controlMode, prompt, sock, callback, ending, registered, opener,
                       openedIn>>
    BY <1>8 DEF WatchdogStops, openVars
  <2>2. /\ fired' \in BOOLEAN /\ ending' \subseteq Socket
        /\ callback' \in [Socket -> {"idle", "opened", "posting", "message", "handling"}]
    BY <2>1 DEF TypeOK
  <2> QED
    BY <2>1, <2>2, StopSessionKeeps
<1>9. ASSUME NEW s \in Socket,
             \/ OnOpen(s) \/ OnOpenRemoves(s) \/ OnMessage(s) \/ PostDelayed(s)
             \/ HandleMessage(s) \/ SocketEnds(s)
      PROVE  SessionInv'
  <2> USE DEF TypeOK, FieldsAgree, fieldVars, openVars, ConsentIsAskedEachTime,
              NoOrphanSocket, WakeLockNeedsSession, watchdog, Callback
  <2>1. CASE OnOpen(s)
    BY <2>1 DEF OnOpen, ActiveSessionIsWatched
  <2>2. CASE OnOpenRemoves(s) \/ OnMessage(s)
    \* The callback that has removed the copies will post one.
    <3>1. callback'[s] \in {"posting", "message"}
      BY <2>2 DEF OnOpenRemoves, OnMessage
    <3> QED
      BY <2>2, <3>1 DEF OnOpenRemoves, OnMessage, RemoveCallbacks, ActiveSessionIsWatched
  <2>3. CASE PostDelayed(s)
    BY <2>3 DEF PostDelayed, ActiveSessionIsWatched
  <2>4. CASE HandleMessage(s)
    BY <2>4 DEF HandleMessage, ActiveSessionIsWatched
  <2>5. CASE SocketEnds(s)
    BY <2>5 DEF SocketEnds, ActiveSessionIsWatched
  <2> QED
    BY <1>9, <2>1, <2>2, <2>3, <2>4, <2>5
<1>10. ASSUME NEW s \in Socket, HandleStopControl(s) \/ OnEnd(s)
       PROVE  SessionInv'
  <2>1. /\ StopSession
        /\ UNCHANGED <<controlMode, fired, prompt, sock, registered, opener, openedIn>>
        /\ ending' \subseteq ending
    BY <1>10 DEF HandleStopControl, OnEnd, openVars
  <2>2. /\ fired' \in BOOLEAN /\ ending' \subseteq Socket
        /\ callback' \in [Socket -> {"idle", "opened", "posting", "message", "handling"}]
    BY <1>10, <2>1 DEF TypeOK, HandleStopControl, OnEnd, Callback
  <2> QED
    BY <2>1, <2>2, StopSessionKeeps
<1>11. CASE UNCHANGED vars
  BY <1>11 DEF vars, TypeOK, FieldsAgree, fieldVars, sockVars, openVars,
               ConsentIsAskedEachTime, NoOrphanSocket, ActiveSessionIsWatched,
               WakeLockNeedsSession, watchdog
<1> QED
  BY <1>1, <1>2, <1>3, <1>4, <1>5, <1>6, <1>7, <1>8, <1>9, <1>10, <1>11 DEF Next

\* The fields of the session manager always agree.
THEOREM SessionInvariant == Spec => []SessionInv
  BY SessionInit, SessionStep, PTL DEF Spec

\* Consent is asked for every remote session in consent mode.
THEOREM Consent == Spec => []ConsentIsAskedEachTime
<1>1. SessionInv => ConsentIsAskedEachTime
  BY DEF SessionInv
<1> QED
  BY <1>1, SessionInvariant, PTL

\* No socket is left open behind the field.
THEOREM NoOrphan == Spec => []NoOrphanSocket
<1>1. SessionInv => NoOrphanSocket
  BY DEF SessionInv
<1> QED
  BY <1>1, SessionInvariant, PTL

\* A running session has a copy of its watchdog in the queue, one that is about to end it,
\* or a callback about to post one.
THEOREM Watched == Spec => []ActiveSessionIsWatched
<1>1. SessionInv => ActiveSessionIsWatched
  BY DEF SessionInv
<1> QED
  BY <1>1, SessionInvariant, PTL

\* The wake lock is never held without a session.
THEOREM WakeLock == Spec => []WakeLockNeedsSession
<1>1. SessionInv => WakeLockNeedsSession
  BY DEF SessionInv
<1> QED
  BY <1>1, SessionInvariant, PTL
=============================================================================
