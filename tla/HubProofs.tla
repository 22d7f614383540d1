------------------------------ MODULE HubProofs ------------------------------
(***************************************************************************)
(* Safety of the hub for any number of devices, connections and commands:  *)
(* the invariants of module Hub, and that Hub implements CommandLifecycle. *)
(***************************************************************************)
EXTENDS Hub, TLAPS

\* What a goroutine of connection k knows between two of its steps: a readPump
\* that registered has a device, one that handles a response has a command that
\* was answered, and a writePump that writes has a message.
PumpsKnow ==
    \A k \in Conn :
        /\ reader[k] \in {"registering", "acking", "removing"}
               => devOf[k] \in Device
        /\ reader[k] \in {"loading", "delivering"} => found[k] \in answered
        /\ writer[k] = "writing" => hand[k] \in Message

\* Where a command is when its call is at a given place: before it is queued
\* nobody else has it, and the connection to use is one of its device.
CallsKnow ==
    \A c \in Cmd :
        /\ caller[c] = "idle" => outcome[c] = "none" /\ row[c] = "none"
        /\ caller[c] \in {"dispatching", "waiting", "expired"} => outcome[c] = "open"
        /\ caller[c] \in {"returning", "done"} => outcome[c] \notin {"none", "open"}
        /\ caller[c] # "idle" => target[c] \in Device
        /\ caller[c] = "dispatching" =>
              row[c] = "pending" /\ via[c] \in Conn /\ devOf[via[c]] = target[c]

\* A command is sent once its call has queued it: then it is in a queue, or written.
Sent(c) == c \in delivered \/ \E k \in Conn : Queued(c, k)

\* What is sent was queued by its call, not refused, and stays open until an
\* answer is read: nobody else closes its row, except by "timeout".
SentWasQueued ==
    /\ \A c \in Cmd : Sent(c) =>
           /\ caller[c] \in {"waiting", "expired", "returning", "done"}
           /\ outcome[c] \notin {"refused", "error", "panic"}
    /\ answered \subseteq delivered
SentIsOpen ==
    \A c \in Cmd : Sent(c) /\ c \notin answered => row[c] \in {"pending", "timeout"}

\* What a waiting call may be given as the result v of c: the answer that is stored;
\* if it could not be stored, the answer itself or the pending row.
Due(c, v) ==
    \/ row[c] \in Answer /\ v = row[c]
    \/ row[c] = "pending" /\ c \in unsaved /\ v \in Answer \cup {"pending"}

\* The row of a command whose call waits or has given up, and what is on its way to
\* that call.
AnswersMatch ==
    \A c \in Cmd :
        /\ caller[c] \in {"waiting", "expired"} =>
              IF c \in answered THEN Due(c, row[c]) ELSE row[c] = "pending"
        /\ respChan[c] # Unread => c \in answered
        /\ caller[c] = "waiting" /\ respChan[c] # Unread => Due(c, respChan[c])
        /\ \A k \in Conn : /\ reader[k] \in {"loading", "delivering"}
                           /\ found[k] = c /\ caller[c] = "waiting"
                           => Due(c, loaded[k])

HubInv ==
    /\ TypeOK
    /\ PumpsKnow
    /\ CallsKnow
    /\ SentWasQueued
    /\ SentIsOpen
    /\ AnswersMatch
    /\ RegistryHoldsLiveConnections
    /\ NoAbandonedPending
    /\ QueuedForTarget
    /\ AnswerReturnedIsStored

-----------------------------------------------------------------------------
(* Sequences and groups of variables.                                      *)

\* A message appended to a queue is in it, with those that were.
LEMMA AppendHas ==
    ASSUME NEW S, NEW s \in Seq(S), NEW m \in S, NEW c, Has(Append(s, m), c)
    PROVE  c = m \/ Has(s, c)
  BY DEF Has

\* What is left in a queue, and what is taken from it, was in it.
LEMMA TailHas ==
    ASSUME NEW S, NEW s \in Seq(S), s # <<>>
    PROVE  /\ Head(s) \in S /\ Has(s, Head(s))
           /\ Tail(s) \in Seq(S) /\ Len(Tail(s)) = Len(s) - 1
           /\ \A c : Has(Tail(s), c) => Has(s, c)
<1>1. Len(s) \in Nat /\ Len(s) >= 1 /\ DOMAIN s = 1..Len(s) /\ Head(s) = s[1]
  OBVIOUS
<1>2. Tail(s) \in Seq(S) /\ Len(Tail(s)) = Len(s) - 1
  OBVIOUS
<1>3. Head(s) \in S /\ Has(s, Head(s))
  BY <1>1 DEF Has
<1>4. ASSUME NEW c, Has(Tail(s), c) PROVE Has(s, c)
  <2>1. PICK i \in 1..Len(Tail(s)) : Tail(s)[i] = c
    BY <1>2, <1>4 DEF Has
  <2>2. i + 1 \in DOMAIN s /\ s[i + 1] = c
    BY <1>1, <1>2, <2>1
  <2> QED
    BY <2>2 DEF Has
<1> QED
  BY <1>2, <1>3, <1>4

-----------------------------------------------------------------------------
(* What a step may change.                                                 *)

\* Notices and the work of writePump put no command into a queue.
LEMMA QueuesShrink ==
    ASSUME HubInv, NEW k \in Conn, SendAck(k) \/ ReadPing(k) \/ TakeMessage(k),
           NEW c \in Cmd, NEW j \in Conn, Queued(c, j)'
    PROVE  Queued(c, j)
<1>1. sendChan[k] \in Seq(Message) /\ sendChan \in [Conn -> Seq(Message)]
      /\ hand \in [Conn -> Message \cup {None}] /\ Notice \in Message /\ c # Notice
  BY NoticeAssumption DEF HubInv, TypeOK, Message
<1>2. CASE SendAck(k) \/ ReadPing(k)
  <2>1. hand' = hand /\ sendChan' = [sendChan EXCEPT ![k] = Append(sendChan[k], Notice)]
    BY <1>2 DEF SendAck, ReadPing
  <2>2. CASE j # k
    BY <1>1, <2>1, <2>2 DEF Queued, Has
  <2>3. CASE j = k
    <3>1. sendChan'[j] = Append(sendChan[k], Notice)
      BY <1>1, <2>1, <2>3
    <3>2. Has(Append(sendChan[k], Notice), c) => Has(sendChan[k], c)
      BY <1>1, AppendHas
    <3>3. hand'[j] = c \/ Has(sendChan'[j], c)
      BY DEF Queued, Has
    <3> QED
      BY <2>1, <2>3, <3>1, <3>2, <3>3 DEF Queued
  <2> QED
    BY <2>2, <2>3
<1>3. CASE TakeMessage(k)
  <2>1. /\ sendChan[k] # <<>>
        /\ hand' = [hand EXCEPT ![k] = Head(sendChan[k])]
        /\ sendChan' = [sendChan EXCEPT ![k] = Tail(sendChan[k])]
    BY <1>3 DEF TakeMessage
  <2>2. CASE j # k
    BY <1>1, <2>1, <2>2 DEF Queued, Has
  <2>3. CASE j = k
    <3>1. sendChan'[j] = Tail(sendChan[k]) /\ hand'[j] = Head(sendChan[k])
      BY <1>1, <2>1, <2>3
    <3>2. Has(sendChan[k], Head(sendChan[k])) /\ (Has(Tail(sendChan[k]), c) => Has(sendChan[k], c))
      BY <1>1, <2>1, TailHas
    <3>3. hand'[j] = c \/ Has(sendChan'[j], c)
      BY DEF Queued, Has
    <3> QED
      BY <2>3, <3>1, <3>2, <3>3 DEF Queued
  <2> QED
    BY <2>2, <2>3
<1> QED
  BY <1>2, <1>3

\* Dispatch puts its own command into the queue it looked up, and no other.
LEMMA DispatchQueues ==
    ASSUME HubInv, NEW c \in Cmd, Dispatch(c), NEW e \in Cmd, NEW j \in Conn, Queued(e, j)'
    PROVE  Queued(e, j) \/ (e = c /\ j = via[c])
<1>1. /\ via[c] \in Conn /\ sendChan[via[c]] \in Seq(Message) /\ c \in Message
      /\ sendChan \in [Conn -> Seq(Message)]
  BY DEF HubInv, TypeOK, CallsKnow, Message, Dispatch
<1>2. hand' = hand /\ sendChan' = [sendChan EXCEPT ![via[c]] = Append(sendChan[via[c]], c)]
  BY DEF Dispatch
<1>3. CASE j # via[c]
  BY <1>1, <1>2, <1>3 DEF Queued, Has
<1>4. CASE j = via[c]
  <2>1. sendChan'[j] = Append(sendChan[j], c)
    BY <1>1, <1>2, <1>4
  <2>2. Has(Append(sendChan[j], c), e) => e = c \/ Has(sendChan[j], e)
    BY <1>1, <1>4, AppendHas
  <2>3. hand'[j] = e \/ Has(sendChan'[j], e)
    BY DEF Queued, Has
  <2> QED
    BY <1>2, <1>4, <2>1, <2>2, <2>3 DEF Queued
<1> QED
  BY <1>3, <1>4

\* Whatever is in a queue after a step was there before, or its call has just put it.
LEMMA QueuedBefore ==
    ASSUME HubInv, [Next]_vars, NEW e \in Cmd, NEW j \in Conn, Queued(e, j)'
    PROVE  Queued(e, j) \/ (Dispatch(e) /\ j = via[e])
<1>1. ASSUME NEW k \in Conn, SendAck(k) \/ ReadPing(k) \/ TakeMessage(k) PROVE Queued(e, j)
  BY <1>1, QueuesShrink
<1>2. ASSUME NEW c \in Cmd, Dispatch(c) PROVE Queued(e, j) \/ (Dispatch(e) /\ j = via[e])
  BY <1>2, DispatchQueues
<1>3. ASSUME NEW k \in Conn, WriteMessage(k) \/ WriteError(k) PROVE Queued(e, j)
  BY <1>3, NoneAssumption DEF WriteMessage, WriteError, Queued, Has, HubInv, TypeOK
<1>4. CASE UNCHANGED <<sendChan, hand>>
  BY <1>4 DEF Queued, Has
<1> QED
  BY <1>1, <1>2, <1>3, <1>4
  DEF Next, ConnNext, Incoming, ReaderStep, WriterStep, CallStep, NewCall, vars,
      readVars, writeVars, hubVars, callVars, agentVars, dbVars, rowVars,
      HandleWebSocket, LinkBreaks, ReadRegister, ReadReport, ReadResponse, AddClient,
      LoadCommand, DeliverResponse, ReadError, RemoveClient, WriterEnds, CallOffline,
      CallInsertFails, CallBegins, DispatchPanics, DispatchTimesOut, TakeResponse,
      TimerFires, RecordTimeout, Return, IngestOverHTTP

\* Likewise for what is sent.
LEMMA SentBefore ==
    ASSUME HubInv, [Next]_vars, NEW e \in Cmd, Sent(e)'
    PROVE  Sent(e) \/ Dispatch(e)
<1>1. CASE \E k \in Conn : Queued(e, k)'
  BY <1>1, QueuedBefore DEF Sent
<1>2. CASE e \in delivered'
  <2>1. ASSUME NEW k \in Conn, WriteMessage(k) PROVE Sent(e)
    BY <1>2, <2>1 DEF WriteMessage, Sent, Queued
  <2>2. CASE UNCHANGED delivered
    BY <1>2, <2>2 DEF Sent
  <2> QED
    BY <2>1, <2>2
    DEF Next, ConnNext, Incoming, ReaderStep, WriterStep, CallStep, NewCall, vars,
        readVars, writeVars, hubVars, callVars, agentVars, dbVars, rowVars,
        HandleWebSocket, LinkBreaks, ReadRegister, ReadReport, ReadPing, ReadResponse,
        AddClient, SendAck, LoadCommand, DeliverResponse, ReadError, RemoveClient,
        TakeMessage, WriteError, WriterEnds, CallOffline, CallInsertFails, CallBegins,
        Dispatch, DispatchPanics, DispatchTimesOut, TakeResponse, TimerFires,
        RecordTimeout, Return, IngestOverHTTP
<1> QED
  BY <1>1, <1>2 DEF Sent

\* Only readPump hands a device to a connection, only SendCommand to a command.
LEMMA DevOfBefore ==
    ASSUME [Next]_vars
    PROVE  UNCHANGED devOf \/ \E k \in Conn, d \in Device : ReadRegister(k, d)
  BY
  DEF Next, ConnNext, Incoming, ReaderStep, WriterStep, CallStep, NewCall, vars,
      readVars, writeVars, hubVars, callVars, agentVars, dbVars, rowVars, Step,
      HandleWebSocket, LinkBreaks, ReadReport, ReadPing, ReadResponse, AddClient,
      SendAck, LoadCommand, DeliverResponse, ReadError, RemoveClient, TakeMessage,
      WriteMessage, WriteError, WriterEnds, CallOffline, CallInsertFails, CallBegins,
      Dispatch, DispatchPanics, DispatchTimesOut, TakeResponse, TimerFires,
      RecordTimeout, Return, IngestOverHTTP

LEMMA TargetBefore ==
    ASSUME [Next]_vars
    PROVE  UNCHANGED target \/ \E c \in Cmd, d \in Device : NewCall(c, d)
  BY
  DEF Next, ConnNext, Incoming, ReaderStep, WriterStep, CallStep, vars, readVars,
      writeVars, hubVars, callVars, agentVars, dbVars, rowVars, HandleWebSocket,
      LinkBreaks, ReadRegister, ReadReport, ReadPing, ReadResponse, AddClient, SendAck,
      LoadCommand, DeliverResponse, ReadError, RemoveClient, TakeMessage, WriteMessage,
      WriteError, WriterEnds, Dispatch, DispatchPanics, DispatchTimesOut, TakeResponse,
      TimerFires, RecordTimeout, Return, IngestOverHTTP

\* What a call under way may do next.
LEMMA CallBefore ==
    ASSUME HubInv, [Next]_vars, NEW e \in Cmd, caller[e] \notin {"idle", "dispatching"}
    PROVE  \/ caller'[e] = caller[e] /\ outcome'[e] = outcome[e]
           \/ TakeResponse(e) \/ TimerFires(e) \/ RecordTimeout(e) \/ Return(e)
<1> DEFINE G == \/ caller'[e] = caller[e] /\ outcome'[e] = outcome[e]
                \/ TakeResponse(e) \/ TimerFires(e) \/ RecordTimeout(e) \/ Return(e)
<1> SUFFICES G
  OBVIOUS
<1>1. ASSUME NEW c \in Cmd, NEW d \in Device, CallOffline(c, d) PROVE G
  <2>1. c # e => caller'[e] = caller[e] /\ outcome'[e] = outcome[e]
    BY <1>1 DEF CallOffline, HubInv, TypeOK, Call
  <2>2. c = e => FALSE
    BY <1>1 DEF CallOffline, Call
  <2> QED
    BY <2>1, <2>2
<1>2. ASSUME NEW c \in Cmd, NEW d \in Device, CallInsertFails(c, d) PROVE G
  <2>1. c # e => caller'[e] = caller[e] /\ outcome'[e] = outcome[e]
    BY <1>2 DEF CallInsertFails, HubInv, TypeOK, Call
  <2>2. c = e => FALSE
    BY <1>2 DEF CallInsertFails, Call
  <2> QED
    BY <2>1, <2>2
<1>3. ASSUME NEW c \in Cmd, NEW d \in Device, NEW w \in BOOLEAN, CallBegins(c, d, w) PROVE G
  <2>1. c # e => caller'[e] = caller[e] /\ outcome'[e] = outcome[e]
    BY <1>3 DEF CallBegins, HubInv, TypeOK, Call
  <2>2. c = e => FALSE
    BY <1>3 DEF CallBegins, Call
  <2> QED
    BY <2>1, <2>2
<1>4. ASSUME NEW c \in Cmd, Dispatch(c) PROVE G
  <2>1. c # e => caller'[e] = caller[e] /\ outcome'[e] = outcome[e]
    BY <1>4 DEF Dispatch, HubInv, TypeOK, Call
  <2>2. c = e => FALSE
    BY <1>4 DEF Dispatch, Call
  <2> QED
    BY <2>1, <2>2
<1>5. ASSUME NEW c \in Cmd, DispatchPanics(c) PROVE G
  <2>1. c # e => caller'[e] = caller[e] /\ outcome'[e] = outcome[e]
    BY <1>5 DEF DispatchPanics, HubInv, TypeOK, Call
  <2>2. c = e => FALSE
    BY <1>5 DEF DispatchPanics, Call
  <2> QED
    BY <2>1, <2>2
<1>6. ASSUME NEW c \in Cmd, DispatchTimesOut(c) PROVE G
  <2>1. c # e => caller'[e] = caller[e] /\ outcome'[e] = outcome[e]
    BY <1>6 DEF DispatchTimesOut, HubInv, TypeOK, Call
  <2>2. c = e => FALSE
    BY <1>6 DEF DispatchTimesOut, Call
  <2> QED
    BY <2>1, <2>2
<1>7. ASSUME NEW c \in Cmd, TakeResponse(c) PROVE G
  <2>1. c # e => caller'[e] = caller[e] /\ outcome'[e] = outcome[e]
    BY <1>7 DEF TakeResponse, HubInv, TypeOK, Call
  <2>2. ASSUME c = e PROVE TakeResponse(e)
    BY <1>7, <2>2
  <2> QED
    BY <2>1, <2>2
<1>8. ASSUME NEW c \in Cmd, TimerFires(c) PROVE G
  <2>1. c # e => caller'[e] = caller[e] /\ outcome'[e] = outcome[e]
    BY <1>8 DEF TimerFires, HubInv, TypeOK, Call
  <2>2. ASSUME c = e PROVE TimerFires(e)
    BY <1>8, <2>2
  <2> QED
    BY <2>1, <2>2
<1>9. ASSUME NEW c \in Cmd, RecordTimeout(c) PROVE G
  <2>1. c # e => caller'[e] = caller[e] /\ outcome'[e] = outcome[e]
    BY <1>9 DEF RecordTimeout, HubInv, TypeOK, Call
  <2>2. ASSUME c = e PROVE RecordTimeout(e)
    BY <1>9, <2>2
  <2> QED
    BY <2>1, <2>2
<1>10. ASSUME NEW c \in Cmd, Return(c) PROVE G
  <2>1. c # e => caller'[e] = caller[e] /\ outcome'[e] = outcome[e]
    BY <1>10 DEF Return, HubInv, TypeOK, Call
  <2>2. ASSUME c = e PROVE Return(e)
    BY <1>10, <2>2
  <2> QED
    BY <2>1, <2>2
<1>11. CASE UNCHANGED <<caller, outcome>>
  BY <1>11
<1> HIDE DEF G
<1> QED
  BY <1>1, <1>2, <1>3, <1>4, <1>5, <1>6, <1>7, <1>8, <1>9, <1>10, <1>11
  DEF Next, ConnNext, Incoming, ReaderStep, WriterStep, CallStep, NewCall, vars,
      readVars, writeVars, hubVars, callVars, agentVars, dbVars, rowVars,
      HandleWebSocket, LinkBreaks, ReadRegister, ReadReport, ReadPing, ReadResponse,
      AddClient, SendAck, LoadCommand, DeliverResponse, ReadError, RemoveClient,
      TakeMessage, WriteMessage, WriteError, WriterEnds, IngestOverHTTP

\* Who writes the row of a command.
LEMMA RowBefore ==
    ASSUME HubInv, [Next]_vars, NEW e \in Cmd
    PROVE  \/ row'[e] = row[e]
           \/ \E k \in Conn, a \in Answer : ReadResponse(k, e, a)
           \/ \E d \in Device : \/ CallOffline(e, d)
                                \/ \E w \in BOOLEAN : CallBegins(e, d, w)
           \/ DispatchTimesOut(e) \/ RecordTimeout(e)
<1> DEFINE G == \/ row'[e] = row[e]
                \/ \E k \in Conn, a \in Answer : ReadResponse(k, e, a)
                \/ \E d \in Device : \/ CallOffline(e, d)
                                     \/ \E w \in BOOLEAN : CallBegins(e, d, w)
                \/ DispatchTimesOut(e) \/ RecordTimeout(e)
<1> SUFFICES G
  OBVIOUS
<1>1. ASSUME NEW k \in Conn, NEW c \in Cmd, NEW a \in Answer, ReadResponse(k, c, a) PROVE G
  BY <1>1 DEF ReadResponse, UpdateCommand, HubInv, TypeOK
<1>2. ASSUME NEW c \in Cmd, NEW d \in Device, CallOffline(c, d) PROVE G
  <2>1. c # e => row'[e] = row[e]
    BY <1>2 DEF CallOffline, HubInv, TypeOK
  <2>2. ASSUME c = e PROVE CallOffline(e, d)
    BY <1>2, <2>2
  <2> QED
    BY <2>1, <2>2
<1>3. ASSUME NEW c \in Cmd, NEW d \in Device, NEW w \in BOOLEAN, CallBegins(c, d, w) PROVE G
  <2>1. c # e => row'[e] = row[e]
    BY <1>3 DEF CallBegins, HubInv, TypeOK
  <2>2. ASSUME c = e PROVE CallBegins(e, d, w)
    BY <1>3, <2>2
  <2> QED
    BY <2>1, <2>2
<1>4. ASSUME NEW c \in Cmd, DispatchTimesOut(c) PROVE G
  <2>1. c # e => row'[e] = row[e]
    BY <1>4 DEF DispatchTimesOut, UpdateCommand, HubInv, TypeOK
  <2>2. ASSUME c = e PROVE DispatchTimesOut(e)
    BY <1>4, <2>2
  <2> QED
    BY <2>1, <2>2
<1>5. ASSUME NEW c \in Cmd, RecordTimeout(c) PROVE G
  <2>1. c # e => row'[e] = row[e]
    BY <1>5 DEF RecordTimeout, UpdateCommand, HubInv, TypeOK
  <2>2. ASSUME c = e PROVE RecordTimeout(e)
    BY <1>5, <2>2
  <2> QED
    BY <2>1, <2>2
<1>6. CASE UNCHANGED row
  BY <1>6
<1> HIDE DEF G
<1> QED
  BY <1>1, <1>2, <1>3, <1>4, <1>5, <1>6
  DEF Next, ConnNext, Incoming, ReaderStep, WriterStep, CallStep, NewCall, vars,
      readVars, writeVars, hubVars, callVars, agentVars, dbVars, rowVars,
      HandleWebSocket, LinkBreaks, ReadRegister, ReadReport, ReadPing, AddClient,
      SendAck, LoadCommand, DeliverResponse, ReadError, RemoveClient, TakeMessage,
      WriteMessage, WriteError, WriterEnds, CallInsertFails, Dispatch, DispatchPanics,
      TakeResponse, TimerFires, Return, IngestOverHTTP

-----------------------------------------------------------------------------
(* Each part of the invariant is kept by every step.                       *)

\* Every variable keeps its type: queues never exceed their capacity, and what a call
\* takes from its response channel is an answer.
LEMMA TypeStep == HubInv /\ [Next]_vars => TypeOK'
<1> SUFFICES ASSUME HubInv, [Next]_vars PROVE TypeOK'
  OBVIOUS
<1> USE DEF HubInv, readVars, writeVars, hubVars, callVars, agentVars, dbVars, rowVars,
            Step, Call, UpdateCommand, StoreDevice
<1>1. ASSUME NEW k \in Conn, LoadCommand(k)
      PROVE  TypeOK'
  BY <1>1
     DEF LoadCommand, PumpsKnow, TypeOK, Message, RowStatus, Outcome, Unread
<1>2. ASSUME NEW k \in Conn, WriteMessage(k)
      PROVE  TypeOK'
  BY <1>2
     DEF WriteMessage, PumpsKnow, TypeOK, Message, RowStatus, Outcome, Unread
<1>3. ASSUME NEW k \in Conn, TakeMessage(k)
      PROVE  TypeOK'
  BY <1>3, CapAssumption
     DEF TakeMessage, TypeOK, Message, RowStatus, Outcome, Unread
<1>4. ASSUME NEW k \in Conn, ReadPing(k)
      PROVE  TypeOK'
  BY <1>4, CapAssumption
     DEF ReadPing, TypeOK, Message, RowStatus, Outcome, Unread
<1>5. ASSUME NEW k \in Conn, SendAck(k)
      PROVE  TypeOK'
  BY <1>5, CapAssumption
     DEF SendAck, TypeOK, Message, RowStatus, Outcome, Unread
<1>6. ASSUME NEW c \in Cmd, Dispatch(c)
      PROVE  TypeOK'
  <2>1. via[c] \in Conn /\ sendChan[via[c]] \in Seq(Message) /\ c \in Message
    BY <1>6 DEF Dispatch, CallsKnow, TypeOK, Message
  <2>2. /\ Append(sendChan[via[c]], c) \in Seq(Message)
        /\ Len(Append(sendChan[via[c]], c)) = Len(sendChan[via[c]]) + 1
    BY <2>1
  <2>3. /\ sendChan' \in [Conn -> Seq(Message)]
        /\ \A k \in Conn : Len(sendChan'[k]) <= SendCap
    BY <1>6, <2>1, <2>2, CapAssumption DEF Dispatch, TypeOK
  <2>4. caller' \in [Cmd -> {"idle", "dispatching", "waiting", "expired", "returning", "done"}]
        /\ outcome' \in [Cmd -> Outcome]
    BY <1>6 DEF Dispatch, TypeOK, Outcome
  <2> QED
    BY <1>6, <2>3, <2>4 DEF Dispatch, TypeOK
<1>7. ASSUME NEW c \in Cmd, TakeResponse(c)
      PROVE  TypeOK'
  BY <1>7, AnswerAssumption
     DEF TakeResponse, AnswersMatch, Due, TypeOK, Message, RowStatus, Outcome, Unread
<1>8. ASSUME NEW k \in Conn, NEW c \in Cmd, NEW a \in Answer, ReadResponse(k, c, a)
      PROVE  TypeOK'
  <2> a \in RowStatus
    BY AnswerAssumption DEF RowStatus
  <2>1. /\ row' \in [Cmd -> RowStatus] /\ unsaved' \subseteq Cmd
        /\ loaded' \in [Conn -> RowStatus] /\ known' = known
    <3> HIDE DEF RowStatus
    <3>1. row' \in [Cmd -> RowStatus] /\ unsaved' \subseteq Cmd
      BY <1>8 DEF ReadResponse, TypeOK
    <3> QED
      BY <1>8, <3>1 DEF ReadResponse, TypeOK
  <2>2. /\ reader' \in [Conn -> {"unused", "reading", "registering", "acking", "loading",
                                 "delivering", "removing", "ended"}]
        /\ found' \in [Conn -> Cmd \cup {None}] /\ answered' \subseteq Cmd
    BY <1>8 DEF ReadResponse, TypeOK
  <2> QED
    BY <1>8, <2>1, <2>2 DEF ReadResponse, TypeOK
<1>9. ASSUME NEW k \in Conn, HandleWebSocket(k)
      PROVE  TypeOK'
  BY <1>9
     DEF HandleWebSocket, TypeOK, Message, RowStatus, Outcome, Unread
<1>10. ASSUME NEW k \in Conn, LinkBreaks(k)
      PROVE  TypeOK'
  BY <1>10
     DEF LinkBreaks, TypeOK, Message, RowStatus, Outcome, Unread
<1>11. ASSUME NEW k \in Conn, NEW d \in Device, ReadRegister(k, d)
      PROVE  TypeOK'
  BY <1>11
     DEF ReadRegister, TypeOK, Message, RowStatus, Outcome, Unread
<1>12. ASSUME NEW k \in Conn, NEW d \in Device, ReadReport(k, d)
      PROVE  TypeOK'
  BY <1>12
     DEF ReadReport, TypeOK, Message, RowStatus, Outcome, Unread
<1>14. ASSUME NEW k \in Conn, AddClient(k)
      PROVE  TypeOK'
  BY <1>14
     DEF AddClient, TypeOK, Message, RowStatus, Outcome, Unread
<1>16. ASSUME NEW k \in Conn, DeliverResponse(k)
      PROVE  TypeOK'
  BY <1>16
     DEF DeliverResponse, TypeOK, Message, RowStatus, Outcome, Unread
<1>17. ASSUME NEW k \in Conn, ReadError(k)
      PROVE  TypeOK'
  BY <1>17
     DEF ReadError, TypeOK, Message, RowStatus, Outcome, Unread
<1>18. ASSUME NEW k \in Conn, RemoveClient(k)
      PROVE  TypeOK'
  BY <1>18
     DEF RemoveClient, TypeOK, Message, RowStatus, Outcome, Unread
<1>20. ASSUME NEW k \in Conn, WriteError(k)
      PROVE  TypeOK'
  BY <1>20
     DEF WriteError, TypeOK, Message, RowStatus, Outcome, Unread
<1>21. ASSUME NEW k \in Conn, WriterEnds(k)
      PROVE  TypeOK'
  BY <1>21
     DEF WriterEnds, TypeOK, Message, RowStatus, Outcome, Unread
<1>22. ASSUME NEW c \in Cmd, NEW d \in Device, CallOffline(c, d)
      PROVE  TypeOK'
  BY <1>22
     DEF CallOffline, TypeOK, Message, RowStatus, Outcome, Unread
<1>23. ASSUME NEW c \in Cmd, NEW d \in Device, CallInsertFails(c, d)
      PROVE  TypeOK'
  BY <1>23
     DEF CallInsertFails, TypeOK, Message, RowStatus, Outcome, Unread
<1>24. ASSUME NEW c \in Cmd, NEW d \in Device, NEW w \in BOOLEAN, CallBegins(c, d, w)
      PROVE  TypeOK'
  BY <1>24
     DEF CallBegins, TypeOK, Message, RowStatus, Outcome, Unread
<1>25. ASSUME NEW c \in Cmd, DispatchPanics(c)
      PROVE  TypeOK'
  BY <1>25
     DEF DispatchPanics, TypeOK, Message, RowStatus, Outcome, Unread
<1>26. ASSUME NEW c \in Cmd, DispatchTimesOut(c)
      PROVE  TypeOK'
  BY <1>26
     DEF DispatchTimesOut, TypeOK, Message, RowStatus, Outcome, Unread
<1>27. ASSUME NEW c \in Cmd, TimerFires(c)
      PROVE  TypeOK'
  BY <1>27
     DEF TimerFires, TypeOK, Message, RowStatus, Outcome, Unread
<1>28. ASSUME NEW c \in Cmd, RecordTimeout(c)
      PROVE  TypeOK'
  BY <1>28
     DEF RecordTimeout, TypeOK, Message, RowStatus, Outcome, Unread
<1>29. ASSUME NEW c \in Cmd, Return(c)
      PROVE  TypeOK'
  BY <1>29
     DEF Return, TypeOK, Message, RowStatus, Outcome, Unread
<1>30. ASSUME NEW d \in Device, IngestOverHTTP(d)
      PROVE  TypeOK'
  BY <1>30
     DEF IngestOverHTTP, TypeOK, Message, RowStatus, Outcome, Unread
<1>31. CASE UNCHANGED vars
  BY <1>31 DEF vars, TypeOK, Message, RowStatus, Outcome, Unread
<1> QED
  BY <1>1, <1>2, <1>3, <1>4, <1>5, <1>6, <1>7, <1>8, <1>9, <1>10, <1>11, <1>12, <1>14,
     <1>16, <1>17, <1>18, <1>20, <1>21, <1>22, <1>23, <1>24, <1>25, <1>26, <1>27, <1>28,
     <1>29, <1>30, <1>31
     DEF Next, ConnNext, Incoming, ReaderStep, WriterStep, CallStep, NewCall

\* A connection leaves the registry before its readPump is past the delete.
LEMMA RegistryStep == HubInv /\ [Next]_vars => RegistryHoldsLiveConnections'
<1> SUFFICES ASSUME HubInv, [Next]_vars PROVE RegistryHoldsLiveConnections'
  OBVIOUS
<1> USE DEF HubInv, readVars, writeVars, hubVars, callVars, agentVars, dbVars, rowVars,
            Step, Call, UpdateCommand, StoreDevice
<1>1. ASSUME NEW k \in Conn,
             \/ LinkBreaks(k) \/ ReadPing(k) \/ TakeMessage(k) \/ WriteMessage(k)
             \/ WriteError(k) \/ WriterEnds(k)
      PROVE  RegistryHoldsLiveConnections'
  BY <1>1, NoneAssumption
     DEF LinkBreaks, ReadPing, TakeMessage, WriteMessage, WriteError, WriterEnds,
         RegistryHoldsLiveConnections, PumpsKnow, TypeOK
<1>2. ASSUME NEW k \in Conn, NEW d \in Device, ReadReport(k, d)
      PROVE  RegistryHoldsLiveConnections'
  BY <1>2, NoneAssumption
     DEF ReadReport, RegistryHoldsLiveConnections, PumpsKnow, TypeOK
<1>3. ASSUME NEW c \in Cmd, NEW d \in Device,
             \/ CallOffline(c, d) \/ CallInsertFails(c, d)
      PROVE  RegistryHoldsLiveConnections'
  BY <1>3, NoneAssumption
     DEF CallOffline, CallInsertFails, RegistryHoldsLiveConnections, PumpsKnow, TypeOK
<1>4. ASSUME NEW c \in Cmd, NEW d \in Device, NEW w \in BOOLEAN, CallBegins(c, d, w)
      PROVE  RegistryHoldsLiveConnections'
  BY <1>4, NoneAssumption
     DEF CallBegins, RegistryHoldsLiveConnections, PumpsKnow, TypeOK
<1>5. ASSUME NEW c \in Cmd,
             \/ Dispatch(c) \/ DispatchPanics(c) \/ DispatchTimesOut(c)
             \/ TakeResponse(c) \/ TimerFires(c) \/ RecordTimeout(c) \/ Return(c)
      PROVE  RegistryHoldsLiveConnections'
  BY <1>5, NoneAssumption
     DEF Dispatch, DispatchPanics, DispatchTimesOut, TakeResponse, TimerFires,
         RecordTimeout, Return, RegistryHoldsLiveConnections, PumpsKnow, TypeOK
<1>6. ASSUME NEW d \in Device, IngestOverHTTP(d)
      PROVE  RegistryHoldsLiveConnections'
  BY <1>6, NoneAssumption
     DEF IngestOverHTTP, RegistryHoldsLiveConnections, PumpsKnow, TypeOK
<1>7. ASSUME NEW k \in Conn, HandleWebSocket(k)
      PROVE  RegistryHoldsLiveConnections'
  BY <1>7, NoneAssumption
     DEF HandleWebSocket, RegistryHoldsLiveConnections, PumpsKnow, TypeOK
<1>8. ASSUME NEW k \in Conn, NEW d \in Device, ReadRegister(k, d)
      PROVE  RegistryHoldsLiveConnections'
  BY <1>8, NoneAssumption
     DEF ReadRegister, RegistryHoldsLiveConnections, PumpsKnow, TypeOK
<1>10. ASSUME NEW k \in Conn, NEW c \in Cmd, NEW a \in Answer, ReadResponse(k, c, a)
      PROVE  RegistryHoldsLiveConnections'
  BY <1>10, NoneAssumption
     DEF ReadResponse, RegistryHoldsLiveConnections, PumpsKnow, TypeOK
<1>11. ASSUME NEW k \in Conn, AddClient(k)
      PROVE  RegistryHoldsLiveConnections'
  BY <1>11, NoneAssumption
     DEF AddClient, RegistryHoldsLiveConnections, PumpsKnow, TypeOK
<1>12. ASSUME NEW k \in Conn, SendAck(k)
      PROVE  RegistryHoldsLiveConnections'
  BY <1>12, NoneAssumption
     DEF SendAck, RegistryHoldsLiveConnections, PumpsKnow, TypeOK
<1>14. ASSUME NEW k \in Conn, LoadCommand(k)
      PROVE  RegistryHoldsLiveConnections'
  BY <1>14, NoneAssumption
     DEF LoadCommand, RegistryHoldsLiveConnections, PumpsKnow, TypeOK
<1>15. ASSUME NEW k \in Conn, DeliverResponse(k)
      PROVE  RegistryHoldsLiveConnections'
  BY <1>15, NoneAssumption
     DEF DeliverResponse, RegistryHoldsLiveConnections, PumpsKnow, TypeOK
<1>16. ASSUME NEW k \in Conn, ReadError(k)
      PROVE  RegistryHoldsLiveConnections'
  BY <1>16, NoneAssumption
     DEF ReadError, RegistryHoldsLiveConnections, PumpsKnow, TypeOK
<1>17. ASSUME NEW k \in Conn, RemoveClient(k)
      PROVE  RegistryHoldsLiveConnections'
  BY <1>17, NoneAssumption
     DEF RemoveClient, RegistryHoldsLiveConnections, PumpsKnow, TypeOK
<1>19. CASE UNCHANGED vars
  BY <1>19, NoneAssumption DEF vars, RegistryHoldsLiveConnections, PumpsKnow, TypeOK
<1> QED
  BY <1>1, <1>2, <1>3, <1>4, <1>5, <1>6, <1>7, <1>8, <1>10, <1>11, <1>12, <1>14, <1>15,
     <1>16, <1>17, <1>19
     DEF Next, ConnNext, Incoming, ReaderStep, WriterStep, CallStep, NewCall

\* The goroutines of a connection know what PumpsKnow says.
LEMMA PumpsStep == HubInv /\ [Next]_vars => PumpsKnow'
<1> SUFFICES ASSUME HubInv, [Next]_vars PROVE PumpsKnow'
  OBVIOUS
<1> USE DEF HubInv, readVars, writeVars, hubVars, callVars, agentVars, dbVars, rowVars,
            Step, Call, UpdateCommand, StoreDevice
<1>1. ASSUME NEW k \in Conn,
             \/ LinkBreaks(k) \/ ReadPing(k)
      PROVE  PumpsKnow'
  BY <1>1, NoneAssumption
     DEF LinkBreaks, ReadPing, PumpsKnow, TypeOK, Message
<1>2. ASSUME NEW k \in Conn, NEW d \in Device, ReadReport(k, d)
      PROVE  PumpsKnow'
  BY <1>2, NoneAssumption
     DEF ReadReport, PumpsKnow, TypeOK, Message
<1>3. ASSUME NEW c \in Cmd, NEW d \in Device,
             \/ CallOffline(c, d) \/ CallInsertFails(c, d)
      PROVE  PumpsKnow'
  BY <1>3, NoneAssumption
     DEF CallOffline, CallInsertFails, PumpsKnow, TypeOK, Message
<1>4. ASSUME NEW c \in Cmd, NEW d \in Device, NEW w \in BOOLEAN, CallBegins(c, d, w)
      PROVE  PumpsKnow'
  BY <1>4, NoneAssumption
     DEF CallBegins, PumpsKnow, TypeOK, Message
<1>5. ASSUME NEW c \in Cmd,
             \/ Dispatch(c) \/ DispatchPanics(c) \/ DispatchTimesOut(c)
             \/ TakeResponse(c) \/ TimerFires(c) \/ RecordTimeout(c) \/ Return(c)
      PROVE  PumpsKnow'
  BY <1>5, NoneAssumption
     DEF Dispatch, DispatchPanics, DispatchTimesOut, TakeResponse, TimerFires,
         RecordTimeout, Return, PumpsKnow, TypeOK, Message
<1>6. ASSUME NEW d \in Device, IngestOverHTTP(d)
      PROVE  PumpsKnow'
  BY <1>6, NoneAssumption
     DEF IngestOverHTTP, PumpsKnow, TypeOK, Message
<1>7. ASSUME NEW k \in Conn, HandleWebSocket(k)
      PROVE  PumpsKnow'
  BY <1>7, NoneAssumption
     DEF HandleWebSocket, PumpsKnow, TypeOK, Message
<1>8. ASSUME NEW k \in Conn, NEW d \in Device, ReadRegister(k, d)
      PROVE  PumpsKnow'
  BY <1>8, NoneAssumption
     DEF ReadRegister, PumpsKnow, TypeOK, Message
<1>10. ASSUME NEW k \in Conn, NEW c \in Cmd, NEW a \in Answer, ReadResponse(k, c, a)
      PROVE  PumpsKnow'
  BY <1>10, NoneAssumption
     DEF ReadResponse, PumpsKnow, TypeOK, Message
<1>11. ASSUME NEW k \in Conn, AddClient(k)
      PROVE  PumpsKnow'
  BY <1>11, NoneAssumption
     DEF AddClient, PumpsKnow, TypeOK, Message
<1>12. ASSUME NEW k \in Conn, SendAck(k)
      PROVE  PumpsKnow'
  BY <1>12, NoneAssumption
     DEF SendAck, PumpsKnow, TypeOK, Message
<1>14. ASSUME NEW k \in Conn, LoadCommand(k)
      PROVE  PumpsKnow'
  BY <1>14, NoneAssumption
     DEF LoadCommand, PumpsKnow, TypeOK, Message
<1>15. ASSUME NEW k \in Conn, DeliverResponse(k)
      PROVE  PumpsKnow'
  BY <1>15, NoneAssumption
     DEF DeliverResponse, PumpsKnow, TypeOK, Message
<1>16. ASSUME NEW k \in Conn, ReadError(k)
      PROVE  PumpsKnow'
  BY <1>16, NoneAssumption
     DEF ReadError, PumpsKnow, TypeOK, Message
<1>17. ASSUME NEW k \in Conn, RemoveClient(k)
      PROVE  PumpsKnow'
  BY <1>17, NoneAssumption
     DEF RemoveClient, PumpsKnow, TypeOK, Message
<1>19. ASSUME NEW k \in Conn, TakeMessage(k)
      PROVE  PumpsKnow'
  BY <1>19, NoneAssumption
     DEF TakeMessage, PumpsKnow, TypeOK, Message
<1>20. ASSUME NEW k \in Conn, WriteMessage(k)
      PROVE  PumpsKnow'
  BY <1>20, NoneAssumption
     DEF WriteMessage, PumpsKnow, TypeOK, Message
<1>21. ASSUME NEW k \in Conn, WriteError(k)
      PROVE  PumpsKnow'
  BY <1>21, NoneAssumption
     DEF WriteError, PumpsKnow, TypeOK, Message
<1>22. ASSUME NEW k \in Conn, WriterEnds(k)
      PROVE  PumpsKnow'
  BY <1>22, NoneAssumption
     DEF WriterEnds, PumpsKnow, TypeOK, Message
<1>23. CASE UNCHANGED vars
  BY <1>23, NoneAssumption DEF vars, PumpsKnow, TypeOK, Message
<1> QED
  BY <1>1, <1>2, <1>3, <1>4, <1>5, <1>6, <1>7, <1>8, <1>10, <1>11, <1>12, <1>14, <1>15,
     <1>16, <1>17, <1>19, <1>20, <1>21, <1>22, <1>23
     DEF Next, ConnNext, Incoming, ReaderStep, WriterStep, CallStep, NewCall

\* A call knows what CallsKnow says.
LEMMA CallsStep == HubInv /\ [Next]_vars => CallsKnow'
<1> SUFFICES ASSUME HubInv, [Next]_vars PROVE CallsKnow'
  OBVIOUS
<1> USE DEF HubInv, readVars, writeVars, hubVars, callVars, agentVars, dbVars, rowVars,
            Step, Call, UpdateCommand, StoreDevice
<1>1. ASSUME NEW c \in Cmd, NEW d \in Device, NEW w \in BOOLEAN, CallBegins(c, d, w)
      PROVE  CallsKnow'
  BY <1>1, NoneAssumption
     DEF CallBegins, RegistryHoldsLiveConnections, CallsKnow, TypeOK
<1>2. ASSUME NEW k \in Conn, NEW d \in Device, ReadRegister(k, d)
      PROVE  CallsKnow'
  BY <1>2, NoneAssumption
     DEF ReadRegister, CallsKnow, TypeOK
<1>3. ASSUME NEW k \in Conn, NEW c \in Cmd, NEW a \in Answer, ReadResponse(k, c, a)
      PROVE  CallsKnow'
  BY <1>3
     DEF ReadResponse, SentWasQueued, Sent, CallsKnow, TypeOK
<1>4. ASSUME NEW c \in Cmd, TakeResponse(c)
      PROVE  CallsKnow'
  BY <1>4, AnswerAssumption
     DEF TakeResponse, AnswersMatch, Due, CallsKnow, TypeOK
<1>5. ASSUME NEW k \in Conn,
             \/ HandleWebSocket(k) \/ LinkBreaks(k) \/ ReadPing(k) \/ AddClient(k)
             \/ SendAck(k) \/ LoadCommand(k) \/ DeliverResponse(k) \/ ReadError(k)
             \/ RemoveClient(k) \/ TakeMessage(k) \/ WriteMessage(k) \/ WriteError(k)
             \/ WriterEnds(k)
      PROVE  CallsKnow'
  BY <1>5
     DEF HandleWebSocket, LinkBreaks, ReadPing, AddClient, SendAck, LoadCommand,
         DeliverResponse, ReadError, RemoveClient, TakeMessage, WriteMessage,
         WriteError, WriterEnds, CallsKnow, TypeOK
<1>6. ASSUME NEW k \in Conn, NEW d \in Device, ReadReport(k, d)
      PROVE  CallsKnow'
  BY <1>6
     DEF ReadReport, CallsKnow, TypeOK
<1>7. ASSUME NEW d \in Device, IngestOverHTTP(d)
      PROVE  CallsKnow'
  BY <1>7
     DEF IngestOverHTTP, CallsKnow, TypeOK
<1>8. ASSUME NEW c \in Cmd, NEW d \in Device, CallOffline(c, d)
      PROVE  CallsKnow'
  BY <1>8
     DEF CallOffline, CallsKnow, TypeOK
<1>9. ASSUME NEW c \in Cmd, NEW d \in Device, CallInsertFails(c, d)
      PROVE  CallsKnow'
  BY <1>9
     DEF CallInsertFails, CallsKnow, TypeOK
<1>10. ASSUME NEW c \in Cmd, Dispatch(c)
      PROVE  CallsKnow'
  BY <1>10
     DEF Dispatch, CallsKnow, TypeOK
<1>11. ASSUME NEW c \in Cmd, DispatchPanics(c)
      PROVE  CallsKnow'
  BY <1>11
     DEF DispatchPanics, CallsKnow, TypeOK
<1>12. ASSUME NEW c \in Cmd, DispatchTimesOut(c)
      PROVE  CallsKnow'
  BY <1>12
     DEF DispatchTimesOut, CallsKnow, TypeOK
<1>13. ASSUME NEW c \in Cmd, TimerFires(c)
      PROVE  CallsKnow'
  BY <1>13
     DEF TimerFires, CallsKnow, TypeOK
<1>14. ASSUME NEW c \in Cmd, RecordTimeout(c)
      PROVE  CallsKnow'
  BY <1>14
     DEF RecordTimeout, CallsKnow, TypeOK
<1>15. ASSUME NEW c \in Cmd, Return(c)
      PROVE  CallsKnow'
  BY <1>15
     DEF Return, CallsKnow, TypeOK
<1>16. CASE UNCHANGED vars
  BY <1>16 DEF vars, CallsKnow, TypeOK
<1> QED
  BY <1>1, <1>2, <1>3, <1>4, <1>5, <1>6, <1>7, <1>8, <1>9, <1>10, <1>11, <1>12, <1>13,
     <1>14, <1>15, <1>16
     DEF Next, ConnNext, Incoming, ReaderStep, WriterStep, CallStep, NewCall

\* No entry of the pending table outlives its call.
LEMMA PendingStep == HubInv /\ [Next]_vars => NoAbandonedPending'
<1> SUFFICES ASSUME HubInv, [Next]_vars PROVE NoAbandonedPending'
  OBVIOUS
<1> USE DEF HubInv, readVars, writeVars, hubVars, callVars, agentVars, dbVars, rowVars,
            Step, Call, UpdateCommand, StoreDevice
<1>1. ASSUME NEW k \in Conn,
             \/ HandleWebSocket(k) \/ LinkBreaks(k) \/ ReadPing(k) \/ AddClient(k)
             \/ SendAck(k) \/ LoadCommand(k) \/ ReadError(k) \/ RemoveClient(k)
             \/ TakeMessage(k) \/ WriteMessage(k) \/ WriteError(k) \/ WriterEnds(k)
      PROVE  NoAbandonedPending'
  BY <1>1
     DEF HandleWebSocket, LinkBreaks, ReadPing, AddClient, SendAck, LoadCommand,
         ReadError, RemoveClient, TakeMessage, WriteMessage, WriteError, WriterEnds,
         NoAbandonedPending, TypeOK
<1>2. ASSUME NEW k \in Conn, NEW d \in Device,
             \/ ReadRegister(k, d) \/ ReadReport(k, d)
      PROVE  NoAbandonedPending'
  BY <1>2
     DEF ReadRegister, ReadReport, NoAbandonedPending, TypeOK
<1>3. ASSUME NEW k \in Conn, NEW c \in Cmd, NEW a \in Answer, ReadResponse(k, c, a)
      PROVE  NoAbandonedPending'
  BY <1>3
     DEF ReadResponse, NoAbandonedPending, TypeOK
<1>4. ASSUME NEW d \in Device, IngestOverHTTP(d)
      PROVE  NoAbandonedPending'
  BY <1>4
     DEF IngestOverHTTP, NoAbandonedPending, TypeOK
<1>5. ASSUME NEW k \in Conn, DeliverResponse(k)
      PROVE  NoAbandonedPending'
  BY <1>5
     DEF DeliverResponse, NoAbandonedPending, TypeOK
<1>6. ASSUME NEW c \in Cmd, NEW d \in Device, CallOffline(c, d)
      PROVE  NoAbandonedPending'
  BY <1>6
     DEF CallOffline, NoAbandonedPending, TypeOK
<1>7. ASSUME NEW c \in Cmd, NEW d \in Device, CallInsertFails(c, d)
      PROVE  NoAbandonedPending'
  BY <1>7
     DEF CallInsertFails, NoAbandonedPending, TypeOK
<1>8. ASSUME NEW c \in Cmd, NEW d \in Device, NEW w \in BOOLEAN, CallBegins(c, d, w)
      PROVE  NoAbandonedPending'
  BY <1>8
     DEF CallBegins, NoAbandonedPending, TypeOK
<1>9. ASSUME NEW c \in Cmd, Dispatch(c)
      PROVE  NoAbandonedPending'
  BY <1>9
     DEF Dispatch, NoAbandonedPending, TypeOK
<1>10. ASSUME NEW c \in Cmd, DispatchPanics(c)
      PROVE  NoAbandonedPending'
  BY <1>10
     DEF DispatchPanics, NoAbandonedPending, TypeOK
<1>11. ASSUME NEW c \in Cmd, DispatchTimesOut(c)
      PROVE  NoAbandonedPending'
  BY <1>11
     DEF DispatchTimesOut, NoAbandonedPending, TypeOK
<1>12. ASSUME NEW c \in Cmd, TakeResponse(c)
      PROVE  NoAbandonedPending'
  BY <1>12
     DEF TakeResponse, NoAbandonedPending, TypeOK
<1>13. ASSUME NEW c \in Cmd, TimerFires(c)
      PROVE  NoAbandonedPending'
  BY <1>13
     DEF TimerFires, NoAbandonedPending, TypeOK
<1>14. ASSUME NEW c \in Cmd, RecordTimeout(c)
      PROVE  NoAbandonedPending'
  BY <1>14
     DEF RecordTimeout, NoAbandonedPending, TypeOK
<1>15. ASSUME NEW c \in Cmd, Return(c)
      PROVE  NoAbandonedPending'
  BY <1>15
     DEF Return, NoAbandonedPending, TypeOK
<1>16. CASE UNCHANGED vars
  BY <1>16 DEF vars, NoAbandonedPending, TypeOK
<1> QED
  BY <1>1, <1>2, <1>3, <1>4, <1>5, <1>6, <1>7, <1>8, <1>9, <1>10, <1>11, <1>12, <1>13,
     <1>14, <1>15, <1>16
     DEF Next, ConnNext, Incoming, ReaderStep, WriterStep, CallStep, NewCall

\* The sets of commands written and answered only grow, by one message at a time.
LEMMA AnsweredBefore ==
    ASSUME [Next]_vars
    PROVE  /\ delivered \subseteq delivered'
           /\ \/ UNCHANGED answered
              \/ \E k \in Conn, c \in Cmd, a \in Answer :
                    ReadResponse(k, c, a) /\ answered' = answered \cup {c}
<1>1. ASSUME NEW k \in Conn, NEW c \in Cmd, NEW a \in Answer, ReadResponse(k, c, a)
      PROVE  delivered' = delivered /\ answered' = answered \cup {c}
  BY <1>1 DEF ReadResponse
<1>2. ASSUME NEW k \in Conn, WriteMessage(k)
      PROVE  delivered \subseteq delivered' /\ UNCHANGED answered
  BY <1>2 DEF WriteMessage
<1>3. CASE UNCHANGED <<delivered, answered>>
  BY <1>3
<1> QED
  BY <1>1, <1>2, <1>3
  DEF Next, ConnNext, Incoming, ReaderStep, WriterStep, CallStep, NewCall, vars,
      readVars, writeVars, hubVars, callVars, agentVars, dbVars, rowVars,
      HandleWebSocket, LinkBreaks, ReadRegister, ReadReport, ReadPing, AddClient,
      SendAck, LoadCommand, DeliverResponse, ReadError, RemoveClient, TakeMessage,
      WriteError, WriterEnds, CallOffline, CallInsertFails, CallBegins, Dispatch,
      DispatchPanics, DispatchTimesOut, TakeResponse, TimerFires, RecordTimeout, Return,
      IngestOverHTTP

\* What is sent was queued by its call.
LEMMA SentStep == HubInv /\ [Next]_vars => SentWasQueued'
<1> SUFFICES ASSUME HubInv, [Next]_vars PROVE SentWasQueued'
  OBVIOUS
<1>1. ASSUME NEW e \in Cmd, Sent(e)'
      PROVE  /\ caller'[e] \in {"waiting", "expired", "returning", "done"}
             /\ outcome'[e] \notin {"refused", "error", "panic"}
  <2>1. CASE Dispatch(e)
    BY <2>1 DEF Dispatch, Call, HubInv, TypeOK
  <2>2. CASE Sent(e)
    <3>1. /\ caller[e] \in {"waiting", "expired", "returning", "done"}
          /\ outcome[e] \notin {"refused", "error", "panic"}
      BY <2>2 DEF HubInv, SentWasQueued
    <3>2. CASE TakeResponse(e)
      BY <3>2, AnswerAssumption DEF TakeResponse, Call, HubInv, TypeOK, AnswersMatch, Due
    <3>3. CASE TimerFires(e) \/ RecordTimeout(e) \/ Return(e)
      BY <3>1, <3>3 DEF TimerFires, RecordTimeout, Return, Call, HubInv, TypeOK
    <3> QED
      BY <3>1, <3>2, <3>3, CallBefore
  <2> QED
    BY <1>1, <2>1, <2>2, SentBefore
<1>2. answered' \subseteq delivered'
  BY AnsweredBefore DEF ReadResponse, HubInv, SentWasQueued
<1> QED
  BY <1>1, <1>2 DEF SentWasQueued

\* What is sent stays open until its answer is read.
LEMMA OpenStep == HubInv /\ [Next]_vars => SentIsOpen'
<1> SUFFICES ASSUME HubInv, [Next]_vars,
                    NEW e \in Cmd, Sent(e)', e \notin answered'
             PROVE  row'[e] \in {"pending", "timeout"}
  BY DEF SentIsOpen
<1>1. e \notin answered
  BY AnsweredBefore
<1>2. row[e] \in {"pending", "timeout"} /\ caller[e] # "idle"
  <2>1. CASE Dispatch(e)
    BY <2>1 DEF Dispatch, Call, HubInv, CallsKnow
  <2>2. CASE Sent(e)
    BY <1>1, <2>2 DEF HubInv, SentIsOpen, SentWasQueued
  <2> QED
    BY <2>1, <2>2, SentBefore
<1>3. CASE row'[e] = row[e]
  BY <1>2, <1>3
<1>4. ASSUME NEW k \in Conn, NEW a \in Answer, ReadResponse(k, e, a) PROVE FALSE
  BY <1>4 DEF ReadResponse
<1>5. ASSUME NEW d \in Device, CallOffline(e, d) \/ \E w \in BOOLEAN : CallBegins(e, d, w)
      PROVE  FALSE
  BY <1>2, <1>5 DEF CallOffline, CallBegins, Call
<1>6. CASE DispatchTimesOut(e)
  <2>1. UNCHANGED <<sendChan, hand, delivered>> /\ caller[e] = "dispatching"
    BY <1>6 DEF DispatchTimesOut, Call, writeVars, agentVars
  <2>2. Sent(e)
    BY <2>1 DEF Sent, Queued, Has
  <2> QED
    BY <2>1, <2>2 DEF HubInv, SentWasQueued
<1>7. CASE RecordTimeout(e)
  BY <1>2, <1>7 DEF RecordTimeout, UpdateCommand, HubInv, TypeOK
<1> QED
  BY <1>3, <1>4, <1>5, <1>6, <1>7, RowBefore

\* A queue holds commands of its device only.
LEMMA QueuedStep == HubInv /\ [Next]_vars => QueuedForTarget'
<1> SUFFICES ASSUME HubInv, [Next]_vars, NEW e \in Cmd, NEW j \in Conn, Queued(e, j)'
             PROVE  devOf'[j] = target'[e]
  BY DEF QueuedForTarget
<1>1. /\ devOf[j] = target[e] /\ target[e] \in Device
      /\ caller[e] # "idle"
  <2>1. CASE Dispatch(e) /\ j = via[e]
    BY <2>1 DEF Dispatch, Call, HubInv, CallsKnow
  <2>2. CASE Queued(e, j)
    BY <2>2 DEF HubInv, QueuedForTarget, SentWasQueued, Sent, CallsKnow, TypeOK
  <2> QED
    BY <2>1, <2>2, QueuedBefore
<1>2. devOf'[j] = devOf[j]
  BY <1>1, DevOfBefore, NoneAssumption DEF ReadRegister, HubInv, TypeOK
<1>3. target'[e] = target[e]
  BY <1>1, TargetBefore DEF NewCall, CallOffline, CallInsertFails, CallBegins, Call,
                            HubInv, TypeOK
<1> QED
  BY <1>1, <1>2, <1>3

\* What is on its way to a call is what is stored.
LEMMA AnswersStep == HubInv /\ [Next]_vars => AnswersMatch'
<1> SUFFICES ASSUME HubInv, [Next]_vars PROVE AnswersMatch'
  OBVIOUS
<1> USE DEF HubInv, readVars, writeVars, hubVars, callVars, agentVars, dbVars, rowVars,
            Step, Call, UpdateCommand, StoreDevice
<1>1. ASSUME NEW c \in Cmd, Dispatch(c)
      PROVE  AnswersMatch'
  BY <1>1, AnswerAssumption
     DEF Dispatch, SentWasQueued, Sent, AnswersMatch, Due, CallsKnow, PumpsKnow, TypeOK
<1>2. ASSUME NEW k \in Conn, NEW c \in Cmd, NEW a \in Answer, ReadResponse(k, c, a)
      PROVE  AnswersMatch'
  BY <1>2, AnswerAssumption
     DEF ReadResponse, SentWasQueued, Sent, AnswersMatch, Due, CallsKnow, PumpsKnow,
         TypeOK
<1>3. ASSUME NEW k \in Conn,
             \/ LinkBreaks(k) \/ ReadPing(k) \/ TakeMessage(k) \/ WriteMessage(k)
             \/ WriteError(k) \/ WriterEnds(k)
      PROVE  AnswersMatch'
  BY <1>3, AnswerAssumption
     DEF LinkBreaks, ReadPing, TakeMessage, WriteMessage, WriteError, WriterEnds,
         AnswersMatch, Due, CallsKnow, PumpsKnow, TypeOK
<1>4. ASSUME NEW k \in Conn, NEW d \in Device, ReadReport(k, d)
      PROVE  AnswersMatch'
  BY <1>4, AnswerAssumption
     DEF ReadReport, AnswersMatch, Due, CallsKnow, PumpsKnow, TypeOK
<1>5. ASSUME NEW d \in Device, IngestOverHTTP(d)
      PROVE  AnswersMatch'
  BY <1>5, AnswerAssumption
     DEF IngestOverHTTP, AnswersMatch, Due, CallsKnow, PumpsKnow, TypeOK
<1>6. ASSUME NEW k \in Conn, HandleWebSocket(k)
      PROVE  AnswersMatch'
  BY <1>6, AnswerAssumption
     DEF HandleWebSocket, AnswersMatch, Due, CallsKnow, PumpsKnow, TypeOK
<1>7. ASSUME NEW k \in Conn, NEW d \in Device, ReadRegister(k, d)
      PROVE  AnswersMatch'
  BY <1>7, AnswerAssumption
     DEF ReadRegister, AnswersMatch, Due, CallsKnow, PumpsKnow, TypeOK
<1>9. ASSUME NEW k \in Conn, AddClient(k)
      PROVE  AnswersMatch'
  BY <1>9, AnswerAssumption
     DEF AddClient, AnswersMatch, Due, CallsKnow, PumpsKnow, TypeOK
<1>10. ASSUME NEW k \in Conn, SendAck(k)
      PROVE  AnswersMatch'
  BY <1>10, AnswerAssumption
     DEF SendAck, AnswersMatch, Due, CallsKnow, PumpsKnow, TypeOK
<1>12. ASSUME NEW k \in Conn, LoadCommand(k)
      PROVE  AnswersMatch'
  BY <1>12, AnswerAssumption
     DEF LoadCommand, AnswersMatch, Due, CallsKnow, PumpsKnow, TypeOK
<1>13. ASSUME NEW k \in Conn, DeliverResponse(k)
      PROVE  AnswersMatch'
  BY <1>13, AnswerAssumption
     DEF DeliverResponse, AnswersMatch, Due, CallsKnow, PumpsKnow, TypeOK
<1>14. ASSUME NEW k \in Conn, ReadError(k)
      PROVE  AnswersMatch'
  BY <1>14, AnswerAssumption
     DEF ReadError, AnswersMatch, Due, CallsKnow, PumpsKnow, TypeOK
<1>15. ASSUME NEW k \in Conn, RemoveClient(k)
      PROVE  AnswersMatch'
  BY <1>15, AnswerAssumption
     DEF RemoveClient, AnswersMatch, Due, CallsKnow, PumpsKnow, TypeOK
<1>17. ASSUME NEW c \in Cmd, NEW d \in Device, CallOffline(c, d)
      PROVE  AnswersMatch'
  BY <1>17, AnswerAssumption
     DEF CallOffline, AnswersMatch, Due, CallsKnow, PumpsKnow, TypeOK
<1>18. ASSUME NEW c \in Cmd, NEW d \in Device, CallInsertFails(c, d)
      PROVE  AnswersMatch'
  BY <1>18, AnswerAssumption
     DEF CallInsertFails, AnswersMatch, Due, CallsKnow, PumpsKnow, TypeOK
<1>19. ASSUME NEW c \in Cmd, NEW d \in Device, NEW w \in BOOLEAN, CallBegins(c, d, w)
      PROVE  AnswersMatch'
  BY <1>19, AnswerAssumption
     DEF CallBegins, AnswersMatch, Due, CallsKnow, PumpsKnow, TypeOK
<1>20. ASSUME NEW c \in Cmd, DispatchPanics(c)
      PROVE  AnswersMatch'
  BY <1>20, AnswerAssumption
     DEF DispatchPanics, AnswersMatch, Due, CallsKnow, PumpsKnow, TypeOK
<1>21. ASSUME NEW c \in Cmd, DispatchTimesOut(c)
      PROVE  AnswersMatch'
  BY <1>21, AnswerAssumption
     DEF DispatchTimesOut, AnswersMatch, Due, CallsKnow, PumpsKnow, TypeOK
<1>22. ASSUME NEW c \in Cmd, TakeResponse(c)
      PROVE  AnswersMatch'
  BY <1>22, AnswerAssumption
     DEF TakeResponse, AnswersMatch, Due, CallsKnow, PumpsKnow, TypeOK
<1>23. ASSUME NEW c \in Cmd, TimerFires(c)
      PROVE  AnswersMatch'
  BY <1>23, AnswerAssumption
     DEF TimerFires, AnswersMatch, Due, CallsKnow, PumpsKnow, TypeOK
<1>24. ASSUME NEW c \in Cmd, RecordTimeout(c)
      PROVE  AnswersMatch'
  BY <1>24, AnswerAssumption
     DEF RecordTimeout, AnswersMatch, Due, CallsKnow, PumpsKnow, TypeOK
<1>25. ASSUME NEW c \in Cmd, Return(c)
      PROVE  AnswersMatch'
  BY <1>25, AnswerAssumption
     DEF Return, AnswersMatch, Due, CallsKnow, PumpsKnow, TypeOK
<1>26. CASE UNCHANGED vars
  BY <1>26, AnswerAssumption DEF vars, AnswersMatch, Due, CallsKnow, PumpsKnow, TypeOK
<1> QED
  BY <1>1, <1>2, <1>3, <1>4, <1>5, <1>6, <1>7, <1>9, <1>10, <1>12, <1>13, <1>14, <1>15,
     <1>17, <1>18, <1>19, <1>20, <1>21, <1>22, <1>23, <1>24, <1>25, <1>26
     DEF Next, ConnNext, Incoming, ReaderStep, WriterStep, CallStep, NewCall

\* What a call returned stays stored.
LEMMA StoredStep == HubInv /\ [Next]_vars => AnswerReturnedIsStored'
<1> SUFFICES ASSUME HubInv, [Next]_vars PROVE AnswerReturnedIsStored'
  OBVIOUS
<1> USE DEF HubInv, readVars, writeVars, hubVars, callVars, agentVars, dbVars, rowVars,
            Step, Call, UpdateCommand, StoreDevice
<1>1. ASSUME NEW c \in Cmd, Dispatch(c)
      PROVE  AnswerReturnedIsStored'
  <2>1. outcome' = [outcome EXCEPT ![c] = outcome'[c]] /\ outcome'[c] \notin Answer \cup {"pending"}
    BY <1>1, AnswerAssumption DEF Dispatch, TypeOK
  <2>2. UNCHANGED <<row, answered, unsaved>>
    BY <1>1 DEF Dispatch
  <2> QED
    BY <2>1, <2>2 DEF AnswerReturnedIsStored, TypeOK
<1>2. ASSUME NEW k \in Conn,
             \/ HandleWebSocket(k) \/ LinkBreaks(k) \/ ReadPing(k) \/ AddClient(k)
             \/ SendAck(k) \/ LoadCommand(k) \/ DeliverResponse(k) \/ ReadError(k)
             \/ RemoveClient(k) \/ TakeMessage(k) \/ WriteMessage(k) \/ WriteError(k)
             \/ WriterEnds(k)
      PROVE  AnswerReturnedIsStored'
  BY <1>2, AnswerAssumption
     DEF HandleWebSocket, LinkBreaks, ReadPing, AddClient, SendAck, LoadCommand,
         DeliverResponse, ReadError, RemoveClient, TakeMessage, WriteMessage,
         WriteError, WriterEnds, AnswerReturnedIsStored, CallsKnow, AnswersMatch, Due,
         TypeOK
<1>3. ASSUME NEW k \in Conn, NEW d \in Device,
             \/ ReadRegister(k, d) \/ ReadReport(k, d)
      PROVE  AnswerReturnedIsStored'
  BY <1>3, AnswerAssumption
     DEF ReadRegister, ReadReport, AnswerReturnedIsStored, CallsKnow, AnswersMatch, Due,
         TypeOK
<1>4. ASSUME NEW d \in Device, IngestOverHTTP(d)
      PROVE  AnswerReturnedIsStored'
  BY <1>4, AnswerAssumption
     DEF IngestOverHTTP, AnswerReturnedIsStored, CallsKnow, AnswersMatch, Due, TypeOK
<1>5. ASSUME NEW k \in Conn, NEW c \in Cmd, NEW a \in Answer, ReadResponse(k, c, a)
      PROVE  AnswerReturnedIsStored'
  BY <1>5, AnswerAssumption
     DEF ReadResponse, AnswerReturnedIsStored, CallsKnow, AnswersMatch, Due, TypeOK
<1>6. ASSUME NEW c \in Cmd, NEW d \in Device, CallOffline(c, d)
      PROVE  AnswerReturnedIsStored'
  BY <1>6, AnswerAssumption
     DEF CallOffline, AnswerReturnedIsStored, CallsKnow, AnswersMatch, Due, TypeOK
<1>7. ASSUME NEW c \in Cmd, NEW d \in Device, CallInsertFails(c, d)
      PROVE  AnswerReturnedIsStored'
  BY <1>7, AnswerAssumption
     DEF CallInsertFails, AnswerReturnedIsStored, CallsKnow, AnswersMatch, Due, TypeOK
<1>8. ASSUME NEW c \in Cmd, NEW d \in Device, NEW w \in BOOLEAN, CallBegins(c, d, w)
      PROVE  AnswerReturnedIsStored'
  BY <1>8, AnswerAssumption
     DEF CallBegins, AnswerReturnedIsStored, CallsKnow, AnswersMatch, Due, TypeOK
<1>9. ASSUME NEW c \in Cmd, DispatchPanics(c)
      PROVE  AnswerReturnedIsStored'
  BY <1>9, AnswerAssumption
     DEF DispatchPanics, AnswerReturnedIsStored, CallsKnow, AnswersMatch, Due, TypeOK
<1>10. ASSUME NEW c \in Cmd, DispatchTimesOut(c)
      PROVE  AnswerReturnedIsStored'
  BY <1>10, AnswerAssumption
     DEF DispatchTimesOut, AnswerReturnedIsStored, CallsKnow, AnswersMatch, Due, TypeOK
<1>11. ASSUME NEW c \in Cmd, TakeResponse(c)
      PROVE  AnswerReturnedIsStored'
  BY <1>11, AnswerAssumption
     DEF TakeResponse, AnswerReturnedIsStored, CallsKnow, AnswersMatch, Due, TypeOK
<1>12. ASSUME NEW c \in Cmd, TimerFires(c)
      PROVE  AnswerReturnedIsStored'
  BY <1>12, AnswerAssumption
     DEF TimerFires, AnswerReturnedIsStored, CallsKnow, AnswersMatch, Due, TypeOK
<1>13. ASSUME NEW c \in Cmd, RecordTimeout(c)
      PROVE  AnswerReturnedIsStored'
  BY <1>13, AnswerAssumption
     DEF RecordTimeout, AnswerReturnedIsStored, CallsKnow, AnswersMatch, Due, TypeOK
<1>14. ASSUME NEW c \in Cmd, Return(c)
      PROVE  AnswerReturnedIsStored'
  BY <1>14, AnswerAssumption
     DEF Return, AnswerReturnedIsStored, CallsKnow, AnswersMatch, Due, TypeOK
<1>15. CASE UNCHANGED vars
  BY <1>15, AnswerAssumption DEF vars, AnswerReturnedIsStored, CallsKnow, AnswersMatch,
                                 Due, TypeOK
<1> QED
  BY <1>1, <1>2, <1>3, <1>4, <1>5, <1>6, <1>7, <1>8, <1>9, <1>10, <1>11, <1>12, <1>13,
     <1>14, <1>15
     DEF Next, ConnNext, Incoming, ReaderStep, WriterStep, CallStep, NewCall

-----------------------------------------------------------------------------
(* The theorems.                                                           *)

\* The hub starts in the invariant.
LEMMA HubInit == Init => HubInv
<1> SUFFICES ASSUME Init PROVE HubInv
  OBVIOUS
<1> USE DEF Init
<1>1. TypeOK
  BY CapAssumption DEF TypeOK, Message, RowStatus, Outcome, Unread
<1>2. PumpsKnow /\ CallsKnow
  BY DEF PumpsKnow, CallsKnow
<1>3. \A c \in Cmd, k \in Conn : ~Queued(c, k)
  BY NoneAssumption DEF Queued, Has
<1>4. SentWasQueued /\ SentIsOpen /\ QueuedForTarget
  BY <1>3 DEF SentWasQueued, SentIsOpen, QueuedForTarget, Sent
<1>5. AnswersMatch
  BY DEF AnswersMatch, Unread
<1>6. RegistryHoldsLiveConnections /\ NoAbandonedPending /\ AnswerReturnedIsStored
  BY AnswerAssumption
  DEF RegistryHoldsLiveConnections, NoAbandonedPending, AnswerReturnedIsStored
<1> QED
  BY <1>1, <1>2, <1>4, <1>5, <1>6 DEF HubInv

\* And no step leaves it.
LEMMA HubStep == HubInv /\ [Next]_vars => HubInv'
  BY TypeStep, RegistryStep, PumpsStep, CallsStep, PendingStep, SentStep, OpenStep,
     QueuedStep, AnswersStep, StoredStep
  DEF HubInv

\* In every state of every run of the hub the inductive invariant holds.
THEOREM HubInvariant == Spec => []HubInv
  BY HubInit, HubStep, PTL DEF Spec

\* Every variable has its type: in particular no queue ever holds more than SendCap.
THEOREM HubTyping == Spec => []TypeOK
<1>1. HubInv => TypeOK
  BY DEF HubInv
<1> QED
  BY <1>1, HubInvariant, PTL

\* The registry holds only connections of their device that will still be removed.
THEOREM Registry == Spec => []RegistryHoldsLiveConnections
<1>1. HubInv => RegistryHoldsLiveConnections
  BY DEF HubInv
<1> QED
  BY <1>1, HubInvariant, PTL

\* The result a call returned was read from an agent, and is what the database holds,
\* for ever; if the answer could not be stored, and only then, the row stays pending.
THEOREM Stored == Spec => []AnswerReturnedIsStored
<1>1. HubInv => AnswerReturnedIsStored
  BY DEF HubInv
<1> QED
  BY <1>1, HubInvariant, PTL

\* No call leaves an entry behind in the table of pending commands.
THEOREM Pending == Spec => []NoAbandonedPending
<1>1. HubInv => NoAbandonedPending
  BY DEF HubInv
<1> QED
  BY <1>1, HubInvariant, PTL

\* A command whose call failed before it was queued never reaches an agent.
THEOREM Refused == Spec => []RefusedNeverRuns
<1>1. HubInv => RefusedNeverRuns
  BY DEF HubInv, SentWasQueued, Sent, RefusedNeverRuns
<1> QED
  BY <1>1, HubInvariant, PTL

\* A command waits only in queues of the device it is for.
THEOREM QueuedTarget == Spec => []QueuedForTarget
<1>1. HubInv => QueuedForTarget
  BY DEF HubInv
<1> QED
  BY <1>1, HubInvariant, PTL

\* The history of a stored status: what RowHistory allows one step to do.
LEMMA RowHistoryStep ==
    ASSUME HubInv, [Next]_vars, NEW c \in Cmd, row'[c] # row[c]
    PROVE  \/ row[c] = "none" /\ caller[c] = "idle"
           \/ row[c] = "pending" /\ row'[c] # "none"
           \/ row[c] = "timeout" /\ c \in answered' \ answered
           \/ row[c] \in Answer /\ row'[c] = "timeout" /\ caller[c] = "expired"
<1>1. ASSUME NEW k \in Conn, NEW a \in Answer, ReadResponse(k, c, a)
      PROVE  /\ row[c] \in {"pending", "timeout"} /\ row'[c] # "none"
             /\ c \in answered' \ answered
  <2>1. c \in delivered /\ c \notin answered /\ row'[c] = a /\ c \in answered'
    BY <1>1 DEF ReadResponse, UpdateCommand, HubInv, TypeOK
  <2>2. row[c] \in {"pending", "timeout"}
    BY <2>1 DEF HubInv, SentIsOpen, Sent
  <2> QED
    BY <2>1, <2>2, AnswerAssumption
<1>2. ASSUME NEW d \in Device, CallOffline(c, d) \/ \E w \in BOOLEAN : CallBegins(c, d, w)
      PROVE  row[c] = "none" /\ caller[c] = "idle"
  BY <1>2 DEF CallOffline, CallBegins, Call, HubInv, CallsKnow
<1>3. CASE DispatchTimesOut(c)
  BY <1>3 DEF DispatchTimesOut, UpdateCommand, Call, HubInv, CallsKnow, TypeOK
<1>4. CASE RecordTimeout(c)
  BY <1>4 DEF RecordTimeout, UpdateCommand, Call, HubInv, AnswersMatch, Due, TypeOK
<1> QED
  BY <1>1, <1>2, <1>3, <1>4, RowBefore

\* No answer is ever replaced, except by the "timeout" of the call that gave up.
THEOREM History == Spec => RowHistory
<1>1. HubInv /\ [Next]_vars => [\A c \in Cmd : row'[c] # row[c] =>
          \/ row[c] = "none" /\ caller[c] = "idle"
          \/ row[c] = "pending" /\ row'[c] # "none"
          \/ row[c] = "timeout" /\ c \in answered' \ answered
          \/ row[c] \in Answer /\ row'[c] = "timeout" /\ caller[c] = "expired"]_vars
  BY RowHistoryStep
<1> QED
  BY <1>1, HubInvariant, PTL DEF Spec, RowHistory
=============================================================================
