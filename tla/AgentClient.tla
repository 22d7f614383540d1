---------------------------- MODULE AgentClient ----------------------------
(***************************************************************************)
(* The desktop agent (internal/connection/client.go and cmd/agent): one    *)
(* goroutine connects, registers and reconnects; one per connection reads  *)
(* it; each command is executed by a goroutine of its own and answered on  *)
(* whichever connection is current by then; a signal stops the agent. The  *)
(* commands that control the GUI show the banner of SessionOverlay.        *)
(***************************************************************************)
EXTENDS SessionOverlay

CONSTANTS Socket,     \* connections dialed, each used once
          GuiCmd,     \* the commands of types gui_*
          None        \* no connection, no goroutine

ASSUME GuiAssumption == GuiCmd \subseteq Cmd
ASSUME AgentNoneAssumption == None \notin Socket \cup Cmd \cup {"main", "signal"}

\* The goroutines that send: the main one, the one that waits for a signal, the
\* handlers of commands, and per connection the listener of client_started.
Goroutine == {"main", "signal"} \cup Cmd \cup Socket
ASSUME GoroutineAssumption == /\ "main" \notin Cmd \cup Socket
                              /\ "signal" \notin Cmd \cup Socket
                              /\ Cmd \cap Socket = {}

VARIABLES
    main,       \* where Start and connectAndRun are
    signal,     \* where the signal goroutine is; "done" once ctx is cancelled
    conn,       \* AgentClient.conn
    connMu,     \* who holds AgentClient.connMu
    at,         \* the connection a goroutine is writing to
    sock,       \* per connection: "unused", "open", "broken" or "closed"
    reader,     \* per connection: its reading goroutine
    event,      \* per connection: the listener of its client_started event
    handler     \* per command: where its handler is; once it is done, the command
                \* stands for the next one

agentVars == <<main, signal, conn, connMu, at, sock, reader, event, handler>>
allVars == <<overlayVars, agentVars>>

AgentInit ==
    /\ OverlayInit
    /\ main = "deciding"
    /\ signal = "none"
    /\ conn = None
    /\ connMu = None
    /\ at = [g \in Goroutine |-> None]
    /\ sock = [s \in Socket |-> "unused"]
    /\ reader = [s \in Socket |-> "none"]
    /\ event = [s \in Socket |-> "none"]
    /\ handler = [c \in Cmd |-> "none"]

Cancelled == signal = "done"

-----------------------------------------------------------------------------
(* sendWSMessage, shared by all: the lock, the connection, the write.      *)

\* Who is about to call it.
Sends(g) ==
    \/ g = "main" /\ main \in {"registering", "starting", "beating"}
    \/ g = "signal" /\ signal = "stopping"
    \/ g \in Cmd /\ handler[g] = "replying"
    \/ g \in Socket /\ event[g] = "emitted"

\* What its caller does next. Only the main goroutine looks at the result.
Sent(g, ok) ==
    /\ main' = IF g # "main" THEN main
               ELSE IF ~ok /\ main # "starting" THEN "closing"
               ELSE IF main = "registering" THEN "starting" ELSE "running"
    /\ signal' = IF g = "signal" THEN "cancelling" ELSE signal
    /\ handler' = IF g \in Cmd THEN [handler EXCEPT ![g] = "done"] ELSE handler
    /\ event' = IF g = "main" /\ main = "registering" /\ ok
                THEN [event EXCEPT ![conn] = "emitted"]
                ELSE IF g \in Socket THEN [event EXCEPT ![g] = "done"] ELSE event
    /\ reader' = IF g = "main" /\ main = "starting" THEN [reader EXCEPT ![conn] = "reading"]
                 ELSE reader

\* Mutant of BeginSend: the connection is read before the lock is taken.
BeginSendUnlocked(g) ==
    /\ Sends(g) /\ at[g] = None
    /\ conn # None
    /\ at' = [at EXCEPT ![g] = conn]
    /\ UNCHANGED <<main, signal, conn, connMu, sock, reader, event, handler>>

\* With a connection: the write begins under the lock.
BeginSend(g) ==
    /\ Sends(g) /\ at[g] = None
    /\ connMu = None
    /\ conn # None
    /\ connMu' = g
    /\ at' = [at EXCEPT ![g] = conn]
    /\ UNCHANGED <<main, signal, conn, sock, reader, event, handler>>

\* Without one the message is dropped, and no error tells the caller.
DropMessage(g) ==
    /\ Sends(g) /\ at[g] = None
    /\ connMu = None
    /\ conn = None
    /\ Sent(g, TRUE)
    /\ UNCHANGED <<conn, connMu, at, sock>>

\* Mutant of EndSend: the path on which the write fails does not release the lock.
EndSendLocked(g) ==
    /\ at[g] # None
    /\ \/ Sent(g, TRUE) /\ UNCHANGED sock /\ connMu' = None
       \/ Sent(g, FALSE) /\ sock' = [sock EXCEPT ![at[g]] = "broken"] /\ UNCHANGED connMu
    /\ at' = [at EXCEPT ![g] = None]
    /\ UNCHANGED conn

\* The write ends, at the latest after five seconds. Into a broken connection it
\* may still succeed, while there is room in the socket's buffer.
EndSend(g) ==
    /\ at[g] # None
    /\ \/ Sent(g, TRUE) /\ UNCHANGED sock
       \/ Sent(g, FALSE) /\ sock' = [sock EXCEPT ![at[g]] = "broken"]
    /\ connMu' = None
    /\ at' = [at EXCEPT ![g] = None]
    /\ UNCHANGED conn

-----------------------------------------------------------------------------
(* The main goroutine.                                                     *)

Main(from, to) ==
    /\ main = from
    /\ main' = to

\* Start: the loop ends when the context is cancelled.
StopLoop ==
    /\ Cancelled
    /\ \/ Main("deciding", "leaving")
       \/ Main("pausing", "leaving")
    /\ UNCHANGED <<signal, conn, connMu, at, sock, reader, event, handler>>

\* Otherwise it dials. A dial that the context ends fails as any other.
StartDial ==
    /\ ~Cancelled
    /\ Main("deciding", "dialing")
    /\ UNCHANGED <<signal, conn, connMu, at, sock, reader, event, handler>>

Dial(s) ==
    /\ sock[s] = "unused"
    /\ connMu = None
    /\ Main("dialing", "registering")
    /\ sock' = [sock EXCEPT ![s] = "open"]
    /\ conn' = s
    /\ UNCHANGED <<signal, connMu, at, reader, event, handler>>

DialFails ==
    /\ Main("dialing", "pausing")
    /\ UNCHANGED <<signal, conn, connMu, at, sock, reader, event, handler>>

\* Mutant of LeaveRun: the select of connectAndRun has no case for the context.
LeaveRunUncancelled ==
    /\ Main("running", "closing")
    /\ reader[conn] = "ended"
    /\ UNCHANGED <<signal, conn, connMu, at, sock, reader, event, handler>>

\* connectAndRun returns when the context is cancelled or its reader has ended.
LeaveRun ==
    /\ main = "running"
    /\ Cancelled \/ reader[conn] = "ended"
    /\ Main("running", "closing")
    /\ UNCHANGED <<signal, conn, connMu, at, sock, reader, event, handler>>

\* A heartbeat or a telemetry ticker.
Tick ==
    /\ Main("running", "beating")
    /\ UNCHANGED <<signal, conn, connMu, at, sock, reader, event, handler>>

\* Mutant of CloseConn: the field is cleared, but nothing is closed.
CloseConnForgotten ==
    /\ Main("closing", "pausing")
    /\ connMu = None
    /\ conn' = None
    /\ UNCHANGED <<signal, connMu, at, sock, reader, event, handler>>

\* The deferred function of connectAndRun.
CloseConn ==
    /\ Main("closing", "pausing")
    /\ connMu = None
    /\ sock' = [sock EXCEPT ![conn] = "closed"]
    /\ conn' = None
    /\ UNCHANGED <<signal, connMu, at, reader, event, handler>>

\* Three seconds pass.
PauseEnds ==
    /\ Main("pausing", "deciding")
    /\ UNCHANGED <<signal, conn, connMu, at, sock, reader, event, handler>>

-----------------------------------------------------------------------------
(* The network, the readers and the handlers.                              *)

LinkBreaks(s) ==
    /\ sock[s] = "open"
    /\ sock' = [sock EXCEPT ![s] = "broken"]
    /\ UNCHANGED <<main, signal, conn, connMu, at, reader, event, handler>>

\* A command_request: each is handled by a new goroutine. What the peer sent before
\* the connection broke may still be read.
ReceiveCommand(s, c) ==
    /\ reader[s] = "reading"
    /\ sock[s] # "closed"
    /\ handler[c] \in {"none", "done"}
    /\ handler' = [handler EXCEPT ![c] = IF c \in GuiCmd THEN "notifying" ELSE "executing"]
    /\ UNCHANGED <<main, signal, conn, connMu, at, sock, reader, event>>

\* Mutant of ReaderEnds: the channel done is not closed.
ReaderEndsSilently(s) ==
    /\ reader[s] = "reading"
    /\ sock[s] = "closed"
    /\ reader' = [reader EXCEPT ![s] = "ended"]
    /\ UNCHANGED <<main, signal, conn, connMu, at, sock, event, handler>>

\* ReadMessage fails: the reader closes done and ends.
ReaderEnds(s) ==
    /\ reader[s] = "reading"
    /\ sock[s] \in {"broken", "closed"}
    /\ reader' = [reader EXCEPT ![s] = "ended"]
    /\ UNCHANGED <<main, signal, conn, connMu, at, sock, event, handler>>

Handler(c, from, to) ==
    /\ handler[c] = from
    /\ handler' = [handler EXCEPT ![c] = to]
    /\ UNCHANGED <<main, signal, conn, connMu, at, sock, reader, event>>

\* A GUI command first notifies the overlay, if it has a window.
NotifyOverlay(c) ==
    \/ NotifyActivity(c) /\ Handler(c, "notifying", "showing")
    \/ ~initialized /\ Handler(c, "notifying", "executing") /\ UNCHANGED overlayVars

ShowOverlay(c) == ShowBanner(c) /\ Handler(c, "showing", "executing")

\* Execution ends, if it does: the programs of a GUI command have no deadline, and the
\* kill at the end of a shell command's reaches sh but not what sh has started.
FinishExecution(c) == Handler(c, "executing", "replying")

\* SIGINT or SIGTERM: client_stopping is sent, then the context is cancelled.
SignalArrives ==
    /\ signal = "none"
    /\ signal' = "stopping"
    /\ UNCHANGED <<main, conn, connMu, at, sock, reader, event, handler>>

Cancel ==
    /\ signal = "cancelling"
    /\ signal' = "done"
    /\ UNCHANGED <<main, conn, connMu, at, sock, reader, event, handler>>

\* The deferred Close of the overlay runs, and the process ends with main.
LeaveStart ==
    /\ Main("leaving", "exited")
    /\ Close
    /\ UNCHANGED <<signal, conn, connMu, at, sock, reader, event, handler>>

-----------------------------------------------------------------------------
MainStep == StopLoop \/ StartDial \/ DialFails \/ (\E s \in Socket : Dial(s))
            \/ LeaveRun \/ CloseConn \/ PauseEnds
SendStep(g) == BeginSend(g) \/ DropMessage(g) \/ EndSend(g)
BannerStep(c) == NotifyOverlay(c) \/ ShowOverlay(c)

AgentNext ==
    /\ main # "exited"
    /\ \/ /\ \/ MainStep \/ Tick \/ SignalArrives \/ Cancel
             \/ \E g \in Goroutine : SendStep(g)
             \/ \E s \in Socket : \/ LinkBreaks(s) \/ ReaderEnds(s)
                                  \/ \E c \in Cmd : ReceiveCommand(s, c)
          /\ UNCHANGED overlayVars
       \/ \E c \in Cmd : BannerStep(c) \/ (FinishExecution(c) /\ UNCHANGED overlayVars)
       \/ (HideDelayPasses \/ Hide) /\ UNCHANGED agentVars
       \/ LeaveStart

Running(A) == main # "exited" /\ A /\ UNCHANGED overlayVars

\* Steps that are taken a few times in all, so that one formula will do.
RareSteps == Cancel \/ \E s \in Socket : ReaderEnds(s)
RareSends == \E g \in Socket \cup {"signal"} : BeginSend(g) \/ DropMessage(g)

\* Goroutines that can run do run, deadlines pass, Go's mutex starves nobody, and its
\* select picks among the cases that are ready at random, so not the tickers for ever.
\* Nothing is assumed of the network, the server, the tickers, the user or the programs
\* that commands run.
AgentFairness ==
    /\ WF_allVars(Running(MainStep) \/ LeaveStart)
    /\ WF_allVars(Running(RareSteps))
    /\ WF_allVars(Running(\E g \in Goroutine : EndSend(g)))
    /\ SF_allVars(Running(LeaveRun \/ CloseConn))
    /\ SF_allVars(Running(BeginSend("main") \/ DropMessage("main")))
    /\ SF_allVars(Running(RareSends))
    /\ \A c \in Cmd : /\ WF_allVars(main # "exited" /\ BannerStep(c))
                      /\ SF_allVars(Running(BeginSend(c) \/ DropMessage(c)))

AgentSpec == AgentInit /\ [][AgentNext]_allVars /\ AgentFairness

-----------------------------------------------------------------------------
(* Properties.                                                             *)

\* Where connectAndRun works with a connection.
WithConnection == {"registering", "starting", "running", "beating", "closing"}

\* Where each goroutine may be, and what it may hold; there is a connection in the
\* field exactly while connectAndRun works with one. (client.go:29-38, 93-104)
ClientTypeOK ==
    /\ main \in WithConnection \cup {"deciding", "dialing", "pausing", "leaving", "exited"}
    /\ signal \in {"none", "stopping", "cancelling", "done"}
    /\ conn \in Socket \cup {None}
    /\ (conn # None) <=> main \in WithConnection
    /\ connMu \in Goroutine \cup {None}
    /\ at \in [Goroutine -> Socket \cup {None}]
    /\ sock \in [Socket -> {"unused", "open", "broken", "closed"}]
    /\ reader \in [Socket -> {"none", "reading", "ended"}]
    /\ event \in [Socket -> {"none", "emitted", "done"}]
    /\ handler \in [Cmd -> {"none", "notifying", "showing", "executing", "replying", "done"}]

\* The type invariant of the agent and its overlay. (client.go:29-38, overlay.go:15-27)
AgentTypeOK == OverlayTypeOK /\ ClientTypeOK

\* WebSocket connections allow one writer at a time: whatever handlers, tickers and
\* events send at once, only one of them writes, to the connection in the field, and
\* that is not closed under it. (client.go:97-104, 292-307)
WritersAreAlone ==
    \A g \in Goroutine : at[g] # None =>
        /\ at[g] = conn
        /\ \A h \in Goroutine \ {g} : at[h] = None

\* However connectAndRun returns, it leaves no connection behind: the server would
\* keep it as the device's. (client.go:93-169)
NoConnectionLeaks ==
    \A s \in Socket : sock[s] \in {"open", "broken"} => s = conn

\* A connection that breaks is given up, even if nothing is ever sent. (client.go:130-155)
BrokenConnectionIsLeft ==
    \A s \in Socket : conn = s /\ sock[s] = "broken" ~> conn # s \/ main = "exited"

\* A signal ends the agent, whatever it is doing. (cmd/agent/main.go:31-36)
SignalEndsAgent == signal # "none" ~> main = "exited"

\* A handler waits for ever for nothing but the programs of its command: the banner
\* does not keep it from them, and once they have ended the command is answered or its
\* answer dropped, although its connection may be replaced meanwhile. (client.go:209-290)
HandlersFinish ==
    \A c \in Cmd :
        handler[c] # "none" ~> handler[c] \in {"executing", "done"} \/ main = "exited"
=============================================================================
