---------------------------- MODULE HubRefinement ----------------------------
(***************************************************************************)
(* Hub implements CommandLifecycle, for any number of devices, connections *)
(* and commands: its first states map to first states, and every step maps *)
(* to a step of the abstract specification or to a stutter.                *)
(***************************************************************************)
EXTENDS HubProofs, WakePath

\* What the abstract specification sees of a command's call.
Reply == [c \in Cmd |-> IF caller[c] = "expired" THEN "expired" ELSE outcome[c]]
Seen == <<row, unsaved, Reply, delivered>>

\* The first state maps to the first state.
LEMMA LifecycleInit == Init => Lifecycle!Init
<1> SUFFICES ASSUME Init PROVE Lifecycle!Init
  OBVIOUS
<1>1. Reply = [c \in Cmd |-> "none"]
  BY DEF Init, Reply
<1> QED
  BY <1>1 DEF Init, Lifecycle!Init, Reply

\* What a step of the call of c does to the reply: nothing to those of other calls.
LEMMA ReplyOfCall ==
    ASSUME HubInv, NEW c \in Cmd, NEW from, NEW to, NEW result,
           Call(c, from, to, result)
    PROVE  Reply' = [Reply EXCEPT ![c] = IF to = "expired" THEN "expired" ELSE result]
  BY DEF Call, Reply, HubInv, TypeOK

\* A new call is refused or admitted.
LEMMA NewCallMaps ==
    ASSUME HubInv, NEW c \in Cmd, NEW d \in Device, NewCall(c, d)
    PROVE  Lifecycle!Refuse(c) \/ Lifecycle!Admit(c)
<1>1. ASSUME caller[c] = "idle" PROVE Reply[c] = "none"
  BY <1>1 DEF Reply, HubInv, CallsKnow
<1>2. CASE CallOffline(c, d)
  <2>1. /\ caller[c] = "idle" /\ UNCHANGED <<unsaved, delivered>>
        /\ row' \in {row, [row EXCEPT ![c] = "failed"]}
    BY <1>2 DEF CallOffline, Call, agentVars
  <2>2. Reply' = [Reply EXCEPT ![c] = "refused"]
    BY <1>2, ReplyOfCall DEF CallOffline
  <2> QED
    BY <1>1, <2>1, <2>2 DEF Lifecycle!Refuse, Reply
<1>3. CASE CallInsertFails(c, d)
  <2>1. caller[c] = "idle" /\ UNCHANGED <<row, unsaved, delivered>>
    BY <1>3 DEF CallInsertFails, Call, agentVars, dbVars, rowVars
  <2>2. Reply' = [Reply EXCEPT ![c] = "error"]
    BY <1>3, ReplyOfCall DEF CallInsertFails
  <2> QED
    BY <1>1, <2>1, <2>2 DEF Lifecycle!Refuse, Reply
<1>4. ASSUME NEW w \in BOOLEAN, CallBegins(c, d, w) PROVE Lifecycle!Admit(c)
  <2>1. caller[c] = "idle" /\ UNCHANGED <<unsaved, delivered>> /\ row' = [row EXCEPT ![c] = "pending"]
    BY <1>4 DEF CallBegins, Call, agentVars
  <2>2. Reply' = [Reply EXCEPT ![c] = "open"]
    BY <1>4, ReplyOfCall DEF CallBegins
  <2> QED
    BY <1>1, <2>1, <2>2 DEF Lifecycle!Admit, Reply
<1> QED
  BY <1>2, <1>3, <1>4 DEF NewCall

\* What a call under way does: it abandons, detaches, settles, expires or records
\* that it has; queueing a command to wait for, and the deferred function, are stutters.
LEMMA CallStepMaps ==
    ASSUME HubInv, NEW c \in Cmd, CallStep(c)
    PROVE  Lifecycle!Finish(c) \/ UNCHANGED Seen
<1>1. ASSUME caller[c] \in {"dispatching", "waiting"} PROVE Reply[c] = "open"
  BY <1>1 DEF Reply, HubInv, CallsKnow
<1>2. ASSUME caller[c] = "dispatching" PROVE c \notin delivered
  BY <1>2 DEF HubInv, SentWasQueued, Sent
<1>3. CASE Dispatch(c)
  <2>1. caller[c] = "dispatching" /\ UNCHANGED <<row, unsaved, delivered>>
    BY <1>3 DEF Dispatch, Call, agentVars, dbVars, rowVars
  <2>2. CASE Call(c, "dispatching", "waiting", "open")
    <3>1. Reply' = [Reply EXCEPT ![c] = "open"]
      BY <2>2, ReplyOfCall
    <3> QED
      BY <1>1, <2>1, <3>1 DEF Seen, Reply
  <2>3. CASE Call(c, "dispatching", "returning", "queued")
    <3>1. Reply' = [Reply EXCEPT ![c] = "queued"]
      BY <2>3, ReplyOfCall
    <3> QED
      BY <1>1, <2>1, <3>1 DEF Lifecycle!Finish, Lifecycle!Detach, Reply
  <2> QED
    BY <1>3, <2>2, <2>3 DEF Dispatch
<1>4. CASE DispatchPanics(c)
  <2>1. caller[c] = "dispatching" /\ UNCHANGED <<row, unsaved, delivered>>
    BY <1>4 DEF DispatchPanics, Call, agentVars, dbVars, rowVars
  <2>2. Reply' = [Reply EXCEPT ![c] = "panic"]
    BY <1>4, ReplyOfCall DEF DispatchPanics
  <2> QED
    BY <1>1, <1>2, <2>1, <2>2 DEF Lifecycle!Finish, Lifecycle!Abandon, Reply
<1>5. CASE DispatchTimesOut(c)
  <2>1. /\ caller[c] = "dispatching" /\ UNCHANGED delivered
        /\ Lifecycle!Save(c, "failed")
    BY <1>5 DEF DispatchTimesOut, UpdateCommand, Call, agentVars, Lifecycle!Save
  <2>2. Reply' = [Reply EXCEPT ![c] = "refused"]
    BY <1>5, ReplyOfCall DEF DispatchTimesOut
  <2> QED
    BY <1>1, <1>2, <2>1, <2>2 DEF Lifecycle!Finish, Lifecycle!Abandon, Reply
<1>6. CASE TakeResponse(c)
  <2>1. /\ caller[c] = "waiting" /\ UNCHANGED <<row, unsaved, delivered>>
        /\ Call(c, "waiting", "returning", respChan[c]) /\ respChan[c] # Unread
    BY <1>6 DEF TakeResponse, Call, agentVars, dbVars, rowVars
  <2>2. Due(c, respChan[c]) /\ respChan[c] # "expired" /\ c \in delivered
    BY <2>1 DEF HubInv, TypeOK, RowStatus, AnswersMatch, SentWasQueued
  <2>3. Reply' = [Reply EXCEPT ![c] = respChan[c]]
    BY <2>1, ReplyOfCall
  <2> QED
    BY <1>1, <2>1, <2>2, <2>3 DEF Lifecycle!Finish, Lifecycle!Settle, Due, Reply
<1>7. CASE TimerFires(c)
  <2>1. caller[c] = "waiting" /\ UNCHANGED <<row, unsaved, delivered>>
    BY <1>7 DEF TimerFires, Call, agentVars, dbVars, rowVars
  <2>2. Reply' = [Reply EXCEPT ![c] = "expired"]
    BY <1>7, ReplyOfCall DEF TimerFires
  <2> QED
    BY <1>1, <2>1, <2>2 DEF Lifecycle!Finish, Lifecycle!Expire, Reply
<1>8. CASE RecordTimeout(c)
  <2>1. /\ caller[c] = "expired" /\ UNCHANGED delivered
        /\ Lifecycle!Save(c, "timeout")
    BY <1>8 DEF RecordTimeout, UpdateCommand, Call, agentVars, Lifecycle!Save
  <2>2. Reply' = [Reply EXCEPT ![c] = "timeout"]
    BY <1>8, ReplyOfCall DEF RecordTimeout
  <2> QED
    BY <2>1, <2>2 DEF Lifecycle!Finish, Lifecycle!RecordExpiry, Reply
<1>9. CASE Return(c)
  <2>1. caller[c] = "returning" /\ UNCHANGED <<row, unsaved, delivered>>
    BY <1>9 DEF Return, Call, agentVars, dbVars, rowVars
  <2>2. Reply' = [Reply EXCEPT ![c] = outcome[c]]
    BY <1>9, ReplyOfCall DEF Return
  <2> QED
    BY <2>1, <2>2 DEF Seen, Reply
<1> QED
  BY <1>3, <1>4, <1>5, <1>6, <1>7, <1>8, <1>9 DEF CallStep

\* A response that is read is stored for a command that ran and is still open.
LEMMA ResponseMaps ==
    ASSUME HubInv, NEW k \in Conn, NEW c \in Cmd, NEW a \in Answer, ReadResponse(k, c, a)
    PROVE  Lifecycle!Store(c, a)
<1>1. /\ c \in delivered /\ c \notin answered /\ Lifecycle!Save(c, a)
      /\ UNCHANGED <<caller, outcome, delivered>>
  BY DEF ReadResponse, UpdateCommand, callVars, Lifecycle!Save
<1>2. row[c] \in {"pending", "timeout"}
  BY <1>1 DEF HubInv, SentIsOpen, Sent
<1> QED
  BY <1>1, <1>2 DEF Lifecycle!Store, Reply

\* What writePump writes is lost, or is a command that runs after its call queued it.
LEMMA WriteMaps ==
    ASSUME HubInv, NEW k \in Conn, WriteMessage(k)
    PROVE  (\E c \in Cmd : Lifecycle!Run(c)) \/ UNCHANGED Seen
<1>1. /\ UNCHANGED <<row, unsaved, caller, outcome>>
      /\ delivered' \in {delivered, delivered \cup ({hand[k]} \ {Notice})}
      /\ hand[k] \in Cmd \cup {Notice}
  BY DEF WriteMessage, callVars, dbVars, rowVars, HubInv, PumpsKnow, Message
<1>2. UNCHANGED Reply
  BY <1>1 DEF Reply
<1>3. CASE delivered' = delivered
  BY <1>1, <1>2, <1>3 DEF Seen
<1>4. CASE hand[k] \in Cmd /\ hand[k] \notin delivered /\ delivered' = delivered \cup {hand[k]}
  <2>1. Sent(hand[k])
    BY <1>4 DEF Sent, Queued
  <2>2. Reply[hand[k]] \notin {"none", "refused", "error", "panic"}
    BY <1>4, <2>1 DEF HubInv, SentWasQueued, CallsKnow, Reply
  <2>3. Lifecycle!Run(hand[k])
    BY <1>1, <1>2, <1>4, <2>2 DEF Lifecycle!Run, Reply
  <2> QED
    BY <1>4, <2>3
<1> QED
  BY <1>1, <1>3, <1>4

\* Every step of the hub is one of the abstract specification, or a stutter.
LEMMA LifecycleStep == HubInv /\ [Next]_vars => [Lifecycle!Next]_(Lifecycle!vars)
<1> SUFFICES ASSUME HubInv, [Next]_vars PROVE Lifecycle!Next \/ UNCHANGED Seen
  BY DEF Lifecycle!vars, Seen, Reply
<1>1. ASSUME NEW c \in Cmd, CallStep(c) PROVE Lifecycle!Next \/ UNCHANGED Seen
  BY <1>1, CallStepMaps DEF Lifecycle!Next
<1>2. ASSUME NEW c \in Cmd, NEW d \in Device, NewCall(c, d) PROVE Lifecycle!Next
  BY <1>2, NewCallMaps DEF Lifecycle!Next
<1>3. ASSUME NEW k \in Conn, NEW c \in Cmd, NEW a \in Answer, ReadResponse(k, c, a)
      PROVE  Lifecycle!Next
  BY <1>3, ResponseMaps DEF Lifecycle!Next
<1>4. ASSUME NEW k \in Conn, WriteMessage(k) PROVE Lifecycle!Next \/ UNCHANGED Seen
  BY <1>4, WriteMaps DEF Lifecycle!Next
<1>5. CASE UNCHANGED <<row, unsaved, caller, outcome, delivered>>
  BY <1>5 DEF Seen, Reply
<1> QED
  BY <1>1, <1>2, <1>3, <1>4, <1>5
  DEF Next, ConnNext, Incoming, ReaderStep, WriterStep, vars, readVars, writeVars,
      hubVars, callVars, agentVars, dbVars, rowVars, HandleWebSocket, LinkBreaks,
      ReadRegister, ReadReport, ReadPing, AddClient, SendAck, LoadCommand,
      DeliverResponse, ReadError, RemoveClient, TakeMessage, WriteError, WriterEnds,
      IngestOverHTTP

\* The hub keeps the promise of CommandLifecycle about every command, whatever the
\* connections, the queues and the other calls do.
THEOREM Implements == Spec => ImplementsLifecycleSafety
  BY LifecycleInit, LifecycleStep, HubInvariant, PTL
  DEF Spec, ImplementsLifecycleSafety, Lifecycle!Safety

-----------------------------------------------------------------------------
(* Requests for live data run on top of the hub: for the hub, their steps  *)
(* are calls of SendCommand or nothing at all.                             *)

\* EnsureOnline knows its device, and there is no call before it has found it.
EnsureKnows ==
    \A c \in Cmd :
        /\ ensure[c] # "none" => wanted[c] \in Device
        /\ ensure[c] \notin {"none", "ready"} => caller[c] = "idle"
        /\ ensure[c] # "none" /\ caller[c] # "idle" => target[c] = wanted[c]

WakeTyping ==
    /\ ensure \in [Cmd -> {"none", "waking", "pushing", "polling", "ready", "absent"}]
    /\ wanted \in [Cmd -> Device \cup {None}]
    /\ hasToken \in [Device -> BOOLEAN]

WakeInv == HubInv /\ WakeTyping /\ EnsureKnows

\* A call keeps its device, and only a new one leaves "idle".
LEMMA CallsKeepTarget ==
    ASSUME HubInv, ConnNext \/ \E c \in Cmd : CallStep(c)
    PROVE  target' = target /\ \A c \in Cmd : caller[c] = "idle" <=> caller'[c] = "idle"
<1>1. CASE ConnNext
  <2>1. UNCHANGED <<target, caller>>
    BY <1>1 DEF ConnNext, Incoming, ReaderStep, WriterStep, callVars, HandleWebSocket,
                LinkBreaks, ReadRegister, ReadReport, ReadPing, ReadResponse, AddClient,
                SendAck, LoadCommand, DeliverResponse, ReadError, RemoveClient,
                TakeMessage, WriteMessage, WriteError, WriterEnds
  <2> QED
    BY <2>1
<1>2. ASSUME NEW c \in Cmd, CallStep(c)
      PROVE  target' = target /\ \A e \in Cmd : caller[e] = "idle" <=> caller'[e] = "idle"
  <2>1. target' = target /\ \E to \in {"waiting", "returning", "expired", "done"} :
            caller[c] # "idle" /\ caller' = [caller EXCEPT ![c] = to]
    BY <1>2 DEF CallStep, Dispatch, DispatchPanics, DispatchTimesOut, TakeResponse,
                TimerFires, RecordTimeout, Return, Call
  <2> QED
    BY <2>1 DEF HubInv, TypeOK
<1> QED
  BY <1>1, <1>2

\* A new call is no longer idle, and is for the device it was made for.
LEMMA NewCallStarts ==
    ASSUME HubInv, NEW c \in Cmd, NEW d \in Device, NewCall(c, d)
    PROVE  /\ caller[c] = "idle"
           /\ target' = [target EXCEPT ![c] = d]
           /\ \A e \in Cmd \ {c} : caller'[e] = caller[e] /\ target'[e] = target[e]
           /\ caller'[c] # "idle" /\ target'[c] = d
<1>1. caller[c] = "idle" /\ target' = [target EXCEPT ![c] = d]
      /\ \E to \in {"done", "dispatching"} : caller' = [caller EXCEPT ![c] = to]
  BY DEF NewCall, CallOffline, CallInsertFails, CallBegins, Call
<1> QED
  BY <1>1 DEF HubInv, TypeOK

\* What a step of EnsureOnline does to its own request, and to nothing else.
LEMMA EnsureSteps ==
    ASSUME WakeInv, NEW c \in Cmd,
           \/ \E d \in Device : EnsureOnline(c, d)
           \/ WakeDevice(c) \/ SendWake(c) \/ PollOnline(c) \/ PollDeadline(c)
    PROVE  UNCHANGED vars /\ WakeTyping' /\ EnsureKnows'
<1> USE DEF WakeInv, WakeTyping, EnsureKnows
<1>1. UNCHANGED <<vars, hasToken>>
  BY DEF EnsureOnline, WakeDevice, SendWake, PollOnline, PollDeadline, Ensure
<1>2. UNCHANGED <<caller, target>>
  BY <1>1 DEF vars, callVars
<1>3. ASSUME NEW d \in Device, EnsureOnline(c, d)
      PROVE  WakeTyping' /\ EnsureKnows'
  <2>1. PICK to \in {"ready", "waking"} :
            ensure' = [ensure EXCEPT ![c] = to] /\ wanted' = [wanted EXCEPT ![c] = d]
    BY <1>3 DEF EnsureOnline, Ensure
  <2>2. caller[c] = "idle"
    BY <1>3 DEF EnsureOnline
  <2> QED
    BY <1>1, <1>2, <2>1, <2>2
<1>4. CASE WakeDevice(c) \/ SendWake(c) \/ PollOnline(c) \/ PollDeadline(c)
  <2>1. PICK to \in {"polling", "pushing", "ready", "absent"} :
            ensure' = [ensure EXCEPT ![c] = to]
    BY <1>4 DEF WakeDevice, SendWake, PollOnline, PollDeadline, Ensure
  <2>2. wanted' = wanted /\ ensure[c] \in {"waking", "pushing", "polling"}
    BY <1>4 DEF WakeDevice, SendWake, PollOnline, PollDeadline, Ensure
  <2>3. caller[c] = "idle" /\ wanted[c] \in Device
    BY <2>2
  <2> QED
    BY <1>1, <1>2, <2>1, <2>2, <2>3
<1> QED
  BY <1>1, <1>3, <1>4

LEMMA WakeInitInv == WakeInit => WakeInv
<1> SUFFICES ASSUME WakeInit
             PROVE  WakeInv
  OBVIOUS
<1>1. HubInv
  BY HubInit DEF WakeInit
<1>2. WakeTyping /\ EnsureKnows
  BY DEF WakeInit, WakeTyping, EnsureKnows
<1> QED
  BY <1>1, <1>2 DEF WakeInv

\* For the hub, a step of a request is a step of its own or none.
LEMMA WakeStepMaps == WakeInv /\ [WakeNext]_wakeAllVars => [Next]_vars
<1> SUFFICES ASSUME WakeInv, [WakeNext]_wakeAllVars
             PROVE  [Next]_vars
  OBVIOUS
<1>1. ASSUME NEW c \in Cmd, EnsureStep(c)
      PROVE  [Next]_vars
  <2>1. CASE LiveCall(c)
    <3>1. wanted[c] \in Device
      BY <2>1 DEF LiveCall, WakeInv, EnsureKnows
    <3>2. NewCall(c, wanted[c])
      BY <2>1 DEF LiveCall, NewCall
    <3> QED
      BY <3>1, <3>2 DEF Next
  <2>2. CASE WakeDevice(c) \/ SendWake(c) \/ PollOnline(c) \/ PollDeadline(c)
    BY <2>2, EnsureSteps
  <2> QED
    BY <1>1, <2>1, <2>2 DEF EnsureStep
<1>2. ASSUME NEW c \in Cmd, NEW d \in Device, EnsureOnline(c, d)
      PROVE  UNCHANGED vars
  BY <1>2, EnsureSteps
<1>3. ASSUME NEW d \in Device, StoreToken(d)
      PROVE  UNCHANGED vars
  BY <1>3 DEF StoreToken
<1> QED
  BY <1>1, <1>2, <1>3 DEF WakeNext, Next, wakeAllVars

LEMMA WakeStepInv == WakeInv /\ [WakeNext]_wakeAllVars => WakeInv'
<1> SUFFICES ASSUME WakeInv, [WakeNext]_wakeAllVars
             PROVE  WakeTyping' /\ EnsureKnows'
  BY WakeStepMaps, HubStep DEF WakeInv
<1>1. ASSUME NEW c \in Cmd, NEW d \in Device, NewCall(c, d), UNCHANGED wakeVars,
             ensure[c] = "none" \/ (ensure[c] = "ready" /\ wanted[c] = d)
      PROVE  WakeTyping' /\ EnsureKnows'
  <2>1. UNCHANGED <<ensure, wanted, hasToken>>
    BY <1>1 DEF wakeVars
  <2>2. WakeTyping'
    BY <2>1 DEF WakeInv, WakeTyping
  <2>3. /\ \A e \in Cmd \ {c} : caller'[e] = caller[e] /\ target'[e] = target[e]
        /\ caller'[c] # "idle" /\ target'[c] = d
    BY <1>1, NewCallStarts DEF WakeInv
  <2>4. ASSUME NEW e \in Cmd
        PROVE  /\ ensure[e] # "none" => wanted[e] \in Device
               /\ ensure[e] \notin {"none", "ready"} => caller'[e] = "idle"
               /\ ensure[e] # "none" /\ caller'[e] # "idle" => target'[e] = wanted[e]
    <3>1. CASE e = c
      BY <1>1, <2>3, <3>1 DEF WakeInv, EnsureKnows
    <3>2. CASE e # c
      BY <2>3, <3>2 DEF WakeInv, EnsureKnows
    <3> QED
      BY <3>1, <3>2
  <2> QED
    BY <2>1, <2>2, <2>4 DEF EnsureKnows
<1>2. CASE (ConnNext \/ \E c \in Cmd : CallStep(c)) /\ UNCHANGED wakeVars
  BY <1>2, CallsKeepTarget DEF WakeInv, WakeTyping, EnsureKnows, wakeVars
<1>3. ASSUME NEW c \in Cmd, EnsureStep(c)
      PROVE  WakeTyping' /\ EnsureKnows'
  <2>1. CASE LiveCall(c)
    <3>1. /\ wanted[c] \in Device /\ ensure[c] = "ready" /\ UNCHANGED wakeVars
          /\ NewCall(c, wanted[c])
      BY <2>1 DEF LiveCall, NewCall, WakeInv, EnsureKnows
    <3> QED
      BY <1>1, <3>1
  <2>2. CASE WakeDevice(c) \/ SendWake(c) \/ PollOnline(c) \/ PollDeadline(c)
    BY <2>2, EnsureSteps
  <2> QED
    BY <1>3, <2>1, <2>2 DEF EnsureStep
<1>4. ASSUME NEW c \in Cmd, NEW d \in Device, EnsureOnline(c, d)
      PROVE  WakeTyping' /\ EnsureKnows'
  BY <1>4, EnsureSteps
<1>5. ASSUME NEW d \in Device, StoreToken(d) \/ (IngestOverHTTP(d) /\ UNCHANGED wakeVars)
      PROVE  WakeTyping' /\ EnsureKnows'
  <2>1. UNCHANGED <<ensure, wanted, caller, target>>
    BY <1>5 DEF StoreToken, IngestOverHTTP, wakeVars, vars, callVars
  <2>2. hasToken' \in [Device -> BOOLEAN]
    BY <1>5 DEF StoreToken, IngestOverHTTP, wakeVars, WakeInv, WakeTyping
  <2> QED
    BY <2>1, <2>2 DEF WakeInv, WakeTyping, EnsureKnows
<1>6. CASE UNCHANGED wakeAllVars
  <2>1. UNCHANGED <<ensure, wanted, hasToken, caller, target>>
    BY <1>6, Zenon DEF wakeAllVars, wakeVars, vars, callVars
  <2> QED
    BY <2>1 DEF WakeInv, WakeTyping, EnsureKnows
<1>7. CASE WakeNext
  <2>1. ASSUME NEW c \in Cmd, NEW d \in Device,
               ensure[c] = "none" /\ NewCall(c, d) /\ UNCHANGED wakeVars
        PROVE  WakeTyping' /\ EnsureKnows'
    BY <1>1, <2>1
  <2> QED
    BY <1>2, <1>3, <1>4, <1>5, <1>7, <2>1, Zenon DEF WakeNext
<1> QED
  BY <1>6, <1>7

LEMMA WakeInvariant == WakeSafety => []WakeInv
  BY WakeInitInv, WakeStepInv, PTL DEF WakeSafety

\* Everything that is proved of the hub is true of it under requests for live data: they
\* implement it. (routes.go:598-623, hub.go:395-439)
THEOREM WakeImplementsHub == WakeSafety => Spec
<1>1. WakeInit => Init
  BY DEF WakeInit
<1> QED
  BY <1>1, WakeInvariant, WakeStepMaps, PTL DEF WakeSafety, Spec

\* In particular a command sent after waking its device keeps the promise of
\* CommandLifecycle.
THEOREM WakeImplements == WakeSafety => ImplementsLifecycleSafety
  BY WakeImplementsHub, Implements, PTL

\* The stages of a request and its device are what they are said to be.
THEOREM WakeTypes == WakeSafety => []WakeTypeOK
<1>1. WakeInv => WakeTypeOK
  BY DEF WakeInv, HubInv, WakeTyping, WakeTypeOK
<1> QED
  BY <1>1, WakeInvariant, PTL

\* A request leaves no trace unless its device was found online, and then goes to that
\* device. (routes.go:598-623)
THEOREM FoundDevices == WakeSafety => []OnlyFoundDevicesAreAsked
<1>1. WakeInv => OnlyFoundDevicesAreAsked
  <2> SUFFICES ASSUME WakeInv, NEW c \in Cmd
               PROVE  /\ ensure[c] \notin {"none", "ready"} =>
                             /\ row[c] = "none" /\ c \notin delivered
                             /\ \A k \in Conn : ~Queued(c, k)
                      /\ ensure[c] # "none" /\ caller[c] # "idle" => target[c] = wanted[c]
    BY DEF OnlyFoundDevicesAreAsked
  <2>1. caller[c] = "idle" => row[c] = "none" /\ ~Sent(c)
    BY DEF WakeInv, HubInv, CallsKnow, SentWasQueued
  <2> QED
    BY <2>1 DEF WakeInv, EnsureKnows, Sent
<1> QED
  BY <1>1, WakeInvariant, PTL
=============================================================================
