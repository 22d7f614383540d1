-------------------------------- MODULE Hub --------------------------------
(***************************************************************************)
(* The WebSocket hub of the server (server/internal/ws/hub.go): the        *)
(* registry of connected devices, the two goroutines of every connection,  *)
(* and the calls of SendCommand that HTTP handlers run concurrently.       *)
(***************************************************************************)
EXTENDS Naturals, Sequences, FiniteSets

CONSTANTS Device,     \* device identities
          Conn,       \* connections accepted, each used once
          Cmd,        \* commands sent, each by one call of SendCommand
          Answer,     \* statuses an agent may report
          SendCap,    \* capacity of a connection's SendChan (64 in the code)
          None        \* no device, connection or command

ASSUME NoneAssumption == None \notin Device \cup Conn \cup Cmd
ASSUME AnswerAssumption == Answer \subseteq {"completed", "failed"}
ASSUME CapAssumption == SendCap \in Nat \ {0}

\* A message without effect on the agent's commands: registered_ack or pong.
Notice == "notice"
ASSUME NoticeAssumption == Notice \notin Cmd

VARIABLES
    \* Per connection.
    reader,           \* where its readPump is
    devOf,            \* DeviceConn.DeviceID, None before "register"
    link,             \* can the socket still carry messages?
    sendChan,         \* contents of SendChan
    writer,           \* writePump: "ready", "writing" or "ended"
    hand,             \* the message writePump took from SendChan
    found,            \* the command whose response readPump is handling
    loaded,           \* the status its call will be given
    \* Shared by the goroutines of the hub.
    clients,          \* Hub.clients: deviceID -> connection
    pendingCommands,  \* the commands with an entry in Hub.pendingCommands
    respChan,         \* what is in a command's response channel
    \* Per command.
    caller,           \* where its SendCommand is
    target, via,      \* the device it is for, the connection looked up
    waits,            \* is its timeout positive?
    outcome,          \* what the call returns
    delivered,        \* commands written to an agent
    answered,         \* commands whose response was read
    \* Database.
    row,              \* commands.status
    unsaved,          \* the commands of which an UPDATE failed, unnoticed
    known             \* the devices that have a row

readVars == <<reader, devOf, found, loaded>>
writeVars == <<link, sendChan, writer, hand>>
hubVars == <<clients, pendingCommands, respChan>>
callVars == <<caller, target, via, waits, outcome>>
agentVars == <<delivered, answered>>
rowVars == <<row, unsaved>>
dbVars == <<rowVars, known>>
vars == <<readVars, writeVars, hubVars, callVars, agentVars, dbVars>>

Unread == "none"
RowStatus == {"none", "pending", "completed", "failed", "timeout"}
Outcome == {"none", "open", "refused", "error", "panic", "queued", "timeout",
            "pending", "completed", "failed"}

Init ==
    /\ reader = [k \in Conn |-> "unused"]
    /\ devOf = [k \in Conn |-> None]
    /\ link = [k \in Conn |-> FALSE]
    /\ sendChan = [k \in Conn |-> <<>>]
    /\ writer = [k \in Conn |-> "ended"]
    /\ hand = [k \in Conn |-> None]
    /\ found = [k \in Conn |-> None]
    /\ loaded = [k \in Conn |-> Unread]
    /\ clients = [d \in Device |-> None]
    /\ pendingCommands = {}
    /\ respChan = [c \in Cmd |-> Unread]
    /\ caller = [c \in Cmd |-> "idle"]
    /\ target = [c \in Cmd |-> None]
    /\ via = [c \in Cmd |-> None]
    /\ waits = [c \in Cmd |-> FALSE]
    /\ outcome = [c \in Cmd |-> "none"]
    /\ delivered = {}
    /\ answered = {}
    /\ row = [c \in Cmd |-> "none"]
    /\ unsaved = {}
    /\ known = {}

-----------------------------------------------------------------------------
(* Connections.                                                            *)

\* readPump closes SendChan before it does anything else on its way out.
ChanClosed(k) == reader[k] \in {"removing", "ended"}

HandleWebSocket(k) ==
    /\ reader[k] = "unused"
    /\ reader' = [reader EXCEPT ![k] = "reading"]
    /\ link' = [link EXCEPT ![k] = TRUE]
    /\ writer' = [writer EXCEPT ![k] = "ready"]
    /\ UNCHANGED <<devOf, found, loaded, sendChan, hand, hubVars, callVars,
                   agentVars, dbVars>>

\* The peer closes or vanishes, or 60 seconds pass without a message (the
\* server sends no ping that a pong could answer).
LinkBreaks(k) ==
    /\ link[k]
    /\ link' = [link EXCEPT ![k] = FALSE]
    /\ UNCHANGED <<readVars, sendChan, writer, hand, hubVars, callVars, agentVars,
                   dbVars>>

-----------------------------------------------------------------------------
(* readPump and handleMessage. Messages that readPump reads come from the  *)
(* agent of one device, which registers under one identity when it         *)
(* connects, and may do so again. UpdateCommand may fail: its error is     *)
(* dropped wherever it is called.                                          *)

\* UpdateCommand stores the status s, or fails and nobody hears of it.
UpdateCommand(c, s) ==
    \/ row' = [row EXCEPT ![c] = s] /\ UNCHANGED unsaved
    \/ unsaved' = unsaved \cup {c} /\ UNCHANGED row

Step(k, from, to) ==
    /\ reader[k] = from
    /\ reader' = [reader EXCEPT ![k] = to]

Reading(k) == reader[k] = "reading" /\ link[k]

\* Every insert about a device makes sure that it has a row (UpsertDevice,
\* ensureDeviceExists), unless it fails, which is only logged. Of a device the hub
\* needs to know no more than that; its status is the matter of DeviceRecords.
StoreDevice(d) == known' \in {known, known \cup {d}}

\* "register": the device and its system information are stored ...
ReadRegister(k, d) ==
    /\ Reading(k)
    /\ devOf[k] \in {None, d}
    /\ Step(k, "reading", "registering")
    /\ devOf' = [devOf EXCEPT ![k] = d]
    /\ StoreDevice(d)
    /\ UNCHANGED <<found, loaded, writeVars, hubVars, callVars, agentVars, rowVars>>

\* ... then the registry is updated, over any older connection ...
AddClient(k) ==
    /\ Step(k, "registering", "acking")
    /\ clients' = [clients EXCEPT ![devOf[k]] = k]
    /\ UNCHANGED <<devOf, found, loaded, writeVars, pendingCommands, respChan,
                   callVars, agentVars, dbVars>>

\* ... then the acknowledgement is queued: this send blocks while SendChan is full.
SendAck(k) ==
    /\ Step(k, "acking", "reading")
    /\ Len(sendChan[k]) < SendCap
    /\ sendChan' = [sendChan EXCEPT ![k] = Append(@, Notice)]
    /\ UNCHANGED <<devOf, found, loaded, link, writer, hand, hubVars, callVars,
                   agentVars, dbVars>>

\* "telemetry", "event", "notification", "sms" and the two syncs. Messages name the
\* device themselves, so they count before registration too.
ReadReport(k, d) ==
    /\ Reading(k)
    /\ devOf[k] \in {None, d}
    /\ StoreDevice(d)
    /\ UNCHANGED <<readVars, writeVars, hubVars, callVars, agentVars, rowVars>>

\* "command_response": UpdateCommand, whatever the row holds by now. The agent
\* answers on its current connection, not always the one the command came by,
\* and may do so before that connection is registered.
ReadResponse(k, c, a) ==
    /\ Reading(k)
    /\ c \in delivered \ answered
    /\ devOf[k] \in {None, target[c]}
    /\ Step(k, "reading", "loading")
    /\ answered' = answered \cup {c}
    /\ UpdateCommand(c, a)
    /\ found' = [found EXCEPT ![k] = c]
    /\ loaded' = [loaded EXCEPT ![k] = a]
    /\ UNCHANGED <<devOf, writeVars, hubVars, callVars, delivered, known>>

\* GetCommand reads the row again, or fails: then the message itself is used ...
LoadCommand(k) ==
    /\ Step(k, "loading", "delivering")
    /\ loaded' \in {loaded, [loaded EXCEPT ![k] = row[found[k]]]}
    /\ UNCHANGED <<devOf, found, writeVars, hubVars, callVars, agentVars, dbVars>>

\* ... and the result goes to the waiting call, if one is still registered.
DeliverResponse(k) ==
    /\ Step(k, "delivering", "reading")
    /\ respChan' = IF found[k] \in pendingCommands /\ respChan[found[k]] = Unread
                   THEN [respChan EXCEPT ![found[k]] = loaded[k]]
                   ELSE respChan
    /\ pendingCommands' = pendingCommands \ {found[k]}
    /\ found' = [found EXCEPT ![k] = None]
    /\ loaded' = [loaded EXCEPT ![k] = Unread]
    /\ UNCHANGED <<devOf, writeVars, clients, callVars, agentVars, dbVars>>

\* "ping": the pong is dropped when SendChan is full.
ReadPing(k) ==
    /\ Reading(k)
    /\ Len(sendChan[k]) < SendCap
    /\ sendChan' = [sendChan EXCEPT ![k] = Append(@, Notice)]
    /\ UNCHANGED <<readVars, link, writer, hand, hubVars, callVars, agentVars,
                   dbVars>>

\* ReadMessage fails: the socket and SendChan are closed ...
ReadError(k) ==
    /\ ~link[k]
    /\ Step(k, "reading", IF devOf[k] = None THEN "ended" ELSE "removing")
    /\ UNCHANGED <<devOf, found, loaded, writeVars, hubVars, callVars, agentVars,
                   dbVars>>

\* Mutant of RemoveClient: the deferred function forgets the registry.
RemoveClientForgotten(k) ==
    /\ Step(k, "removing", "ended")
    /\ UNCHANGED <<devOf, found, loaded, writeVars, hubVars, callVars, agentVars, dbVars>>

\* ... the registry entry of the device is deleted, whoever owns it now, and the
\* device is stored as offline.
RemoveClient(k) ==
    /\ Step(k, "removing", "ended")
    /\ clients' = [clients EXCEPT ![devOf[k]] = None]
    /\ UNCHANGED <<devOf, found, loaded, writeVars, pendingCommands, respChan,
                   callVars, agentVars, dbVars>>

-----------------------------------------------------------------------------
(* writePump.                                                              *)

TakeMessage(k) ==
    /\ writer[k] = "ready"
    /\ sendChan[k] # <<>>
    /\ hand' = [hand EXCEPT ![k] = Head(sendChan[k])]
    /\ sendChan' = [sendChan EXCEPT ![k] = Tail(@)]
    /\ writer' = [writer EXCEPT ![k] = "writing"]
    /\ UNCHANGED <<readVars, link, hubVars, callVars, agentVars, dbVars>>

\* WriteMessage returns without error: the message is in the socket's buffer,
\* and reaches the agent unless the connection is lost first.
WriteMessage(k) ==
    /\ writer[k] = "writing"
    /\ link[k]
    /\ delivered' \in {delivered, delivered \cup ({hand[k]} \ {Notice})}
    /\ hand' = [hand EXCEPT ![k] = None]
    /\ writer' = [writer EXCEPT ![k] = "ready"]
    /\ UNCHANGED <<readVars, link, sendChan, hubVars, callVars, answered, dbVars>>

\* It fails, at the latest after 10 seconds: writePump closes the socket and
\* ends. What is left in SendChan, or is queued later, is never read.
WriteError(k) ==
    /\ writer[k] = "writing"
    /\ writer' = [writer EXCEPT ![k] = "ended"]
    /\ hand' = [hand EXCEPT ![k] = None]
    /\ link' = [link EXCEPT ![k] = FALSE]
    /\ UNCHANGED <<readVars, sendChan, hubVars, callVars, agentVars, dbVars>>

\* The range loop ends once SendChan is closed and drained.
WriterEnds(k) ==
    /\ writer[k] = "ready"
    /\ sendChan[k] = <<>>
    /\ ChanClosed(k)
    /\ writer' = [writer EXCEPT ![k] = "ended"]
    /\ UNCHANGED <<readVars, link, sendChan, hand, hubVars, callVars, agentVars,
                   dbVars>>

-----------------------------------------------------------------------------
(* SendCommand.                                                            *)

Call(c, from, to, result) ==
    /\ caller[c] = from
    /\ caller' = [caller EXCEPT ![c] = to]
    /\ outcome' = [outcome EXCEPT ![c] = result]

\* No registry entry: the row is inserted as failed, unless InsertCommand fails,
\* as its foreign key makes it for a device never stored, and the call is over.
CallOffline(c, d) ==
    /\ clients[d] = None
    /\ Call(c, "idle", "done", "refused")
    /\ target' = [target EXCEPT ![c] = d]
    /\ \/ UNCHANGED row
       \/ d \in known /\ row' = [row EXCEPT ![c] = "failed"]
    /\ UNCHANGED <<readVars, writeVars, hubVars, via, waits, agentVars, unsaved,
                   known>>

\* Mutant of CallInsertFails: the message is queued before InsertCommand fails.
CallInsertFailsLate(c, d) ==
    /\ clients[d] # None
    /\ Len(sendChan[clients[d]]) < SendCap
    /\ Call(c, "idle", "done", "error")
    /\ target' = [target EXCEPT ![c] = d]
    /\ sendChan' = [sendChan EXCEPT ![clients[d]] = Append(@, c)]
    /\ UNCHANGED <<readVars, link, writer, hand, hubVars, via, waits, agentVars, dbVars>>

\* The connection is looked up, but InsertCommand fails: for want of the device's row,
\* or for any other reason.
CallInsertFails(c, d) ==
    /\ clients[d] # None
    /\ Call(c, "idle", "done", "error")
    /\ target' = [target EXCEPT ![c] = d]
    /\ UNCHANGED <<readVars, writeVars, hubVars, via, waits, agentVars, dbVars>>

\* Mutant of CallBegins: any connected device will do.
CallBeginsAnywhere(c, d, w) ==
    /\ d \in known
    /\ Call(c, "idle", "dispatching", "open")
    /\ target' = [target EXCEPT ![c] = d]
    /\ \E e \in Device : clients[e] # None /\ via' = [via EXCEPT ![c] = clients[e]]
    /\ waits' = [waits EXCEPT ![c] = w]
    /\ row' = [row EXCEPT ![c] = "pending"]
    /\ pendingCommands' = pendingCommands \cup {c}
    /\ UNCHANGED <<readVars, writeVars, clients, respChan, agentVars, unsaved, known>>

\* The connection is looked up, the row inserted as pending and the response
\* channel registered: nobody else touches the row and the entry of c before
\* it is queued, so one step does it all. The connection is used later on,
\* without looking again.
CallBegins(c, d, w) ==
    /\ clients[d] # None
    /\ d \in known
    /\ Call(c, "idle", "dispatching", "open")
    /\ target' = [target EXCEPT ![c] = d]
    /\ via' = [via EXCEPT ![c] = clients[d]]
    /\ waits' = [waits EXCEPT ![c] = w]
    /\ row' = [row EXCEPT ![c] = "pending"]
    /\ pendingCommands' = pendingCommands \cup {c}
    /\ UNCHANGED <<readVars, writeVars, clients, respChan, agentVars, unsaved, known>>

\* The message is queued. A call whose timeout is not positive returns now.
Dispatch(c) ==
    /\ caller[c] = "dispatching"
    /\ ~ChanClosed(via[c])
    /\ Len(sendChan[via[c]]) < SendCap
    /\ sendChan' = [sendChan EXCEPT ![via[c]] = Append(@, c)]
    /\ \/ waits[c] /\ Call(c, "dispatching", "waiting", "open")
       \/ ~waits[c] /\ Call(c, "dispatching", "returning", "queued")
    /\ UNCHANGED <<readVars, link, writer, hand, hubVars, target, via, waits,
                   agentVars, dbVars>>

\* Sending on the closed SendChan panics; net/http recovers the handler, and
\* the deferred delete of the pending entry still runs.
DispatchPanics(c) ==
    /\ caller[c] = "dispatching"
    /\ ChanClosed(via[c])
    /\ Call(c, "dispatching", "returning", "panic")
    /\ UNCHANGED <<readVars, writeVars, hubVars, target, via, waits, agentVars,
                   dbVars>>

\* Mutant of DispatchTimesOut: the send has no timer beside it, only a panic ends it.
DispatchBlocks(c) == DispatchPanics(c)

\* SendChan stays full for 3 seconds.
DispatchTimesOut(c) ==
    /\ caller[c] = "dispatching"
    /\ ~ChanClosed(via[c])
    /\ Len(sendChan[via[c]]) >= SendCap
    /\ Call(c, "dispatching", "returning", "refused")
    /\ UpdateCommand(c, "failed")
    /\ UNCHANGED <<readVars, writeVars, hubVars, target, via, waits, agentVars,
                   known>>

\* The response arrives before the timer: the call returns it.
TakeResponse(c) ==
    /\ respChan[c] # Unread
    /\ Call(c, "waiting", "returning", respChan[c])
    /\ respChan' = [respChan EXCEPT ![c] = Unread]
    /\ UNCHANGED <<readVars, writeVars, clients, pendingCommands, target, via,
                   waits, agentVars, dbVars>>

\* Mutant of TimerFires: the time counts from the delivery of the command.
TimerWaitsForDelivery(c) ==
    /\ c \in delivered
    /\ respChan[c] = Unread
    /\ Call(c, "waiting", "expired", "open")
    /\ UNCHANGED <<readVars, writeVars, hubVars, target, via, waits, agentVars, dbVars>>

\* The timer fires while the response channel is empty ...
TimerFires(c) ==
    /\ respChan[c] = Unread
    /\ Call(c, "waiting", "expired", "open")
    /\ UNCHANGED <<readVars, writeVars, hubVars, target, via, waits, agentVars,
                   dbVars>>

\* Mutant of RecordTimeout: the call returns without UpdateCommand.
RecordTimeoutForgotten(c) ==
    /\ Call(c, "expired", "returning", "timeout")
    /\ UNCHANGED <<readVars, writeVars, hubVars, target, via, waits, agentVars, dbVars>>

\* ... and "timeout" is to be stored, whatever the row holds by now.
RecordTimeout(c) ==
    /\ Call(c, "expired", "returning", "timeout")
    /\ UpdateCommand(c, "timeout")
    /\ UNCHANGED <<readVars, writeVars, hubVars, target, via, waits, agentVars,
                   known>>

\* Mutants of Return: the deferred function forgets the pending entry, or also
\* closes the row as failed.
ReturnLeavesEntry(c) ==
    /\ Call(c, "returning", "done", outcome[c])
    /\ respChan' = [respChan EXCEPT ![c] = Unread]
    /\ via' = [via EXCEPT ![c] = None]
    /\ waits' = [waits EXCEPT ![c] = FALSE]
    /\ UNCHANGED <<readVars, writeVars, clients, pendingCommands, target, agentVars, dbVars>>

ReturnClosesRow(c) ==
    /\ Call(c, "returning", "done", outcome[c])
    /\ pendingCommands' = pendingCommands \ {c}
    /\ respChan' = [respChan EXCEPT ![c] = Unread]
    /\ via' = [via EXCEPT ![c] = None]
    /\ waits' = [waits EXCEPT ![c] = FALSE]
    /\ row' = [row EXCEPT ![c] = "failed"]
    /\ UNCHANGED <<readVars, writeVars, clients, target, agentVars, unsaved, known>>

\* The deferred function of SendCommand; the call's channel and locals are gone.
Return(c) ==
    /\ Call(c, "returning", "done", outcome[c])
    /\ pendingCommands' = pendingCommands \ {c}
    /\ respChan' = [respChan EXCEPT ![c] = Unread]
    /\ via' = [via EXCEPT ![c] = None]
    /\ waits' = [waits EXCEPT ![c] = FALSE]
    /\ UNCHANGED <<readVars, writeVars, clients, target, agentVars, dbVars>>

-----------------------------------------------------------------------------
\* The ingest routes of the API (routes.go) store the device too, which may
\* report without any connection.
IngestOverHTTP(d) ==
    /\ StoreDevice(d)
    /\ UNCHANGED <<readVars, writeVars, hubVars, callVars, agentVars, rowVars>>

-----------------------------------------------------------------------------
\* The steps each goroutine takes by itself, once it is under way.
ReaderStep(k) ==
    \/ AddClient(k) \/ SendAck(k) \/ LoadCommand(k) \/ DeliverResponse(k)
    \/ ReadError(k) \/ RemoveClient(k)
WriterStep(k) == TakeMessage(k) \/ WriteMessage(k) \/ WriteError(k) \/ WriterEnds(k)
CallStep(c) ==
    \/ Dispatch(c) \/ DispatchPanics(c) \/ DispatchTimesOut(c)
    \/ TakeResponse(c) \/ TimerFires(c) \/ RecordTimeout(c) \/ Return(c)

\* What agents, networks and clients of the API may do.
Incoming(k) ==
    \/ \E d \in Device : ReadRegister(k, d) \/ ReadReport(k, d)
    \/ ReadPing(k)
    \/ \E c \in Cmd, a \in Answer : ReadResponse(k, c, a)
NewCall(c, d) ==
    CallOffline(c, d) \/ CallInsertFails(c, d) \/ \E w \in BOOLEAN : CallBegins(c, d, w)

ConnNext == \E k \in Conn : \/ HandleWebSocket(k) \/ LinkBreaks(k) \/ Incoming(k)
                           \/ ReaderStep(k) \/ WriterStep(k)

Next == \/ ConnNext
        \/ \E c \in Cmd : CallStep(c) \/ \E d \in Device : NewCall(c, d)
        \/ \E d \in Device : IngestOverHTTP(d)

\* Goroutines that can run do run, and timers fire: nothing is assumed of
\* agents, of the network or of who calls the API.
Fairness ==
    /\ \A k \in Conn : WF_vars(ReaderStep(k)) /\ WF_vars(WriterStep(k))
    /\ \A c \in Cmd : WF_vars(CallStep(c))

Spec == Init /\ [][Next]_vars
FairSpec == Spec /\ Fairness

-----------------------------------------------------------------------------
(* Properties.                                                             *)

Message == Cmd \cup {Notice}

\* The values each variable ranges over: queues never exceed SendCap.
TypeOK ==
    /\ reader \in [Conn -> {"unused", "reading", "registering", "acking", "loading",
                             "delivering", "removing", "ended"}]
    /\ devOf \in [Conn -> Device \cup {None}]
    /\ link \in [Conn -> BOOLEAN]
    /\ sendChan \in [Conn -> Seq(Message)]
    /\ \A k \in Conn : Len(sendChan[k]) <= SendCap
    /\ writer \in [Conn -> {"ready", "writing", "ended"}]
    /\ hand \in [Conn -> Message \cup {None}]
    /\ found \in [Conn -> Cmd \cup {None}]
    /\ loaded \in [Conn -> RowStatus]
    /\ clients \in [Device -> Conn \cup {None}]
    /\ pendingCommands \subseteq Cmd
    /\ respChan \in [Cmd -> RowStatus]
    /\ caller \in [Cmd -> {"idle", "dispatching", "waiting", "expired", "returning", "done"}]
    /\ target \in [Cmd -> Device \cup {None}]
    /\ via \in [Cmd -> Conn \cup {None}]
    /\ waits \in [Cmd -> BOOLEAN]
    /\ outcome \in [Cmd -> Outcome]
    /\ delivered \subseteq Cmd
    /\ answered \subseteq Cmd
    /\ row \in [Cmd -> RowStatus]
    /\ unsaved \subseteq Cmd
    /\ known \subseteq Device

\* A registry entry belongs to a connection that registered that device and
\* whose readPump has not yet run the delete of its deferred function: no
\* call can look up a connection nobody will ever remove. (hub.go:82-93, 145-147)
RegistryHoldsLiveConnections ==
    \A d \in Device : clients[d] # None =>
        /\ devOf[clients[d]] = d
        /\ reader[clients[d]] \in {"reading", "registering", "acking", "loading",
                                   "delivering", "removing"}

\* When a call returns the result of a command, an answer was read, and the row
\* holds what was returned, then and for ever: the timer, a late response or another
\* command never change what the API has already reported. If the answer could not be
\* stored, and only then, the row stays pending, whether the call returned the answer
\* itself or the pending row. (hub.go:211-225, 371-381)
AnswerReturnedIsStored ==
    \A c \in Cmd : outcome[c] \in Answer \cup {"pending"} =>
        /\ c \in answered
        /\ row[c] \in {outcome[c], "pending"}
        /\ row[c] = "pending" => c \in unsaved

\* The table of pending commands holds no entry of a call that has returned,
\* by whichever way it returned, a panic included. (hub.go:340-348)
NoAbandonedPending ==
    \A c \in pendingCommands : caller[c] \notin {"idle", "done"}

\* A command is in the queue of a connection, or in the hand of its writePump.
Has(s, c) == \E i \in DOMAIN s : s[i] = c
Queued(c, k) == hand[k] = c \/ Has(sendChan[k], c)

\* A command whose call failed before it was queued (offline device, failed
\* insert, full queue, closed queue) reaches no agent, neither then nor later.
RefusedNeverRuns ==
    \A c \in Cmd : outcome[c] \in {"refused", "error", "panic"}
        => c \notin delivered /\ \A k \in Conn : ~Queued(c, k)

\* A command waits only in the queue of a connection of the device it is for,
\* although connections come and go between the lookup and the send.
QueuedForTarget ==
    \A c \in Cmd, k \in Conn : Queued(c, k) => devOf[k] = target[c]

\* What a stored status may become, when statements may fail: only an expired call
\* replaces an answer, only by "timeout", and no answer replaces another. (db.go:567-575)
RowHistory ==
    [][\A c \in Cmd : row'[c] # row[c] =>
          \/ row[c] = "none" /\ caller[c] = "idle"
          \/ row[c] = "pending" /\ row'[c] # "none"
          \/ row[c] = "timeout" /\ c \in answered' \ answered
          \/ row[c] \in Answer /\ row'[c] = "timeout" /\ caller[c] = "expired"]_vars

\* Every call returns, whatever connections, agents and queues do. (hub.go:363-381)
CallsReturn == \A c \in Cmd : caller[c] # "idle" ~> caller[c] = "done"

\* A connection that broke is eventually out of the registry and its goroutines
\* have ended, in one case excepted: its readPump acknowledges a registration to a
\* queue that is full, and its writePump is no longer there. (hub.go:70-93, 152-156)
BrokenConnectionsAreForgotten ==
    \A k \in Conn : reader[k] # "unused" /\ ~link[k] ~>
        \/ /\ reader[k] = "ended" /\ writer[k] = "ended"
           /\ \A d \in Device : clients[d] # k
        \/ reader[k] = "acking" /\ Len(sendChan[k]) = SendCap /\ writer[k] = "ended"

\* Seen from outside, a command keeps the promise of CommandLifecycle.
Lifecycle == INSTANCE CommandLifecycle WITH
    reply <- [c \in Cmd |-> IF caller[c] = "expired" THEN "expired" ELSE outcome[c]],
    ran <- delivered
ImplementsLifecycleSafety == Lifecycle!Safety
ImplementsLifecycle == Lifecycle!Spec
=============================================================================
