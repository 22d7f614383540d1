---------------------------- MODULE AgentProofs ----------------------------
(***************************************************************************)
(* Safety of AgentClient for any sets of connections and commands.         *)
(***************************************************************************)
EXTENDS AgentClient, TLAPS

\* Who writes holds the lock, writes to the connection in the field, and is still where
\* it decided to send: what sendWSMessage relies on between its lock and its return.
WritersHold ==
    \A g \in Goroutine : at[g] # None => connMu = g /\ at[g] = conn /\ Sends(g)

AgentInv == AgentTypeOK /\ WritersHold /\ NoConnectionLeaks /\ BannerWillHide

USE GuiAssumption, AgentNoneAssumption, GoroutineAssumption, CallbackAssumption
USE DEF WithConnection

-----------------------------------------------------------------------------
LEMMA Start == AgentInit => AgentInv
<1> SUFFICES ASSUME AgentInit
             PROVE  AgentInv
  OBVIOUS
<1>1. OverlayTypeOK /\ BannerWillHide
  <2>1. initialized \in BOOLEAN /\ mapped \in BOOLEAN /\ ~mapped
    BY Zenon DEF AgentInit, OverlayInit
  <2>2. timer = "none" /\ hiding \in 0..MaxCallbacks /\ past = {}
    BY DEF AgentInit, OverlayInit
  <2> QED
    BY <2>1, <2>2 DEF OverlayTypeOK, BannerWillHide
<1>2. WritersHold /\ NoConnectionLeaks
  BY DEF AgentInit, WritersHold, NoConnectionLeaks
<1> QED
  BY <1>1, <1>2 DEF AgentInit, AgentInv, AgentTypeOK, ClientTypeOK, Goroutine

\* What a step does to the overlay keeps its type and hides what it shows.
LEMMA OverlayStep ==
    ASSUME OverlayTypeOK, BannerWillHide,
           UNCHANGED overlayVars \/ OverlayNext
    PROVE  OverlayTypeOK' /\ BannerWillHide'
<1> USE DEF OverlayTypeOK, BannerWillHide, overlayVars
<1>1. CASE UNCHANGED overlayVars
  BY <1>1
<1>2. ASSUME NEW c \in Cmd, NotifyActivity(c) \/ ShowBanner(c)
      PROVE  OverlayTypeOK' /\ BannerWillHide'
  <2>1. hiding' = hiding /\ initialized' = initialized
    BY <1>2 DEF NotifyActivity, ShowBanner
  <2>2. mapped' \in BOOLEAN
    BY <1>2, Zenon DEF NotifyActivity, ShowBanner
  <2>3. timer' \in {"none", "armed", "fired"} /\ past' \subseteq Cmd
    BY <1>2 DEF NotifyActivity, ShowBanner
  <2>4. BannerWillHide'
    BY <1>2 DEF NotifyActivity, ShowBanner
  <2> QED
    BY <2>1, <2>2, <2>3, <2>4
<1>3. CASE HideDelayPasses
  BY <1>3 DEF HideDelayPasses
<1>4. CASE Hide
  <2>1. hiding' \in 0..MaxCallbacks
    BY <1>4 DEF Hide
  <2>2. mapped' = FALSE
    BY <1>4 DEF Hide
  <2>3. UNCHANGED <<initialized, timer, past>>
    BY <1>4 DEF Hide
  <2>4. initialized' \in BOOLEAN /\ mapped' \in BOOLEAN
    BY <2>2, <2>3, Zenon
  <2> QED
    BY <2>1, <2>2, <2>3, <2>4
<1>5. CASE Close
  BY <1>5 DEF Close
<1> QED
  BY <1>1, <1>2, <1>3, <1>4, <1>5 DEF OverlayNext

-----------------------------------------------------------------------------
(* The steps of sendWSMessage.                                             *)

\* The part of AgentInv that is about the agent.
ClientInv == ClientTypeOK /\ WritersHold /\ NoConnectionLeaks

LEMMA Parts == AgentInv <=> ClientInv /\ OverlayTypeOK /\ BannerWillHide
BY DEF AgentInv, AgentTypeOK, ClientInv

\* A caller goes on to a place where it may be, and nobody else is moved.
LEMMA SentSteps ==
    ASSUME ClientTypeOK, NEW g \in Goroutine, NEW ok \in BOOLEAN, Sends(g), Sent(g, ok),
           UNCHANGED conn
    PROVE  /\ main' \in WithConnection
                        \cup {"deciding", "dialing", "pausing", "leaving", "exited"}
           /\ (conn # None) <=> main' \in WithConnection
           /\ signal' \in {"none", "stopping", "cancelling", "done"}
           /\ reader' \in [Socket -> {"none", "reading", "ended"}]
           /\ event' \in [Socket -> {"none", "emitted", "done"}]
           /\ handler' \in [Cmd -> {"none", "notifying", "showing", "executing",
                                    "replying", "done"}]
           /\ \A h \in Goroutine \ {g} : Sends(h) => Sends(h)'
<1>1. CASE g = "main"
  BY <1>1 DEF ClientTypeOK, Sends, Sent, Goroutine
<1>2. CASE g = "signal"
  BY <1>2 DEF ClientTypeOK, Sends, Sent, Goroutine
<1>3. CASE g \in Cmd
  BY <1>3 DEF ClientTypeOK, Sends, Sent, Goroutine
<1>4. CASE g \in Socket
  BY <1>4 DEF ClientTypeOK, Sends, Sent, Goroutine
<1> QED
  BY <1>1, <1>2, <1>3, <1>4 DEF Goroutine

LEMMA SendSteps ==
    ASSUME ClientInv, NEW g \in Goroutine, SendStep(g)
    PROVE  ClientInv'
<1> USE DEF ClientInv
<1>1. CASE BeginSend(g)
  BY <1>1 DEF BeginSend, ClientTypeOK, WritersHold, NoConnectionLeaks, Sends
<1>2. CASE DropMessage(g)
  <2>1. ClientTypeOK'
    BY <1>2, SentSteps DEF DropMessage, ClientTypeOK
  <2>2. WritersHold'
    BY <1>2 DEF DropMessage, WritersHold, ClientTypeOK
  <2> QED
    BY <1>2, <2>1, <2>2 DEF DropMessage, NoConnectionLeaks
<1>3. CASE EndSend(g)
  <2>1. at[g] = conn /\ conn \in Socket /\ connMu = g /\ Sends(g) /\ UNCHANGED conn
    BY <1>3 DEF EndSend, WritersHold, ClientTypeOK
  <2>2. PICK ok \in BOOLEAN : Sent(g, ok)
    BY <1>3 DEF EndSend
  <2>3. sock' = sock \/ sock' = [sock EXCEPT ![conn] = "broken"]
    BY <1>3, <2>1 DEF EndSend
  <2>4. ClientTypeOK'
    BY <1>3, <2>1, <2>2, <2>3, SentSteps DEF EndSend, ClientTypeOK
  <2>5. WritersHold'
    BY <1>3, <2>1 DEF EndSend, WritersHold, ClientTypeOK
  <2>6. NoConnectionLeaks'
    BY <2>1, <2>3 DEF NoConnectionLeaks, ClientTypeOK
  <2> QED
    BY <2>4, <2>5, <2>6
<1> QED
  BY <1>1, <1>2, <1>3 DEF SendStep

-----------------------------------------------------------------------------
(* The main goroutine and the others.                                      *)

\* Nobody writes while the main goroutine holds the lock to set or clear the field.
LEMMA MainSteps ==
    ASSUME ClientInv, MainStep \/ Tick
    PROVE  ClientInv'
<1> USE DEF ClientInv, Main
<1>1. CASE StopLoop \/ StartDial \/ DialFails \/ LeaveRun \/ Tick \/ PauseEnds
  BY <1>1 DEF StopLoop, StartDial, DialFails, LeaveRun, Tick, PauseEnds,
              ClientTypeOK, WritersHold, NoConnectionLeaks, Sends
<1>2. ASSUME NEW s \in Socket, Dial(s)
      PROVE  ClientInv'
  <2>1. \A g \in Goroutine : at[g] = None
    BY <1>2 DEF Dial, WritersHold, Goroutine
  <2>2. conn = None
    BY <1>2 DEF Dial, ClientTypeOK
  <2> QED
    BY <1>2, <2>1, <2>2 DEF Dial, ClientTypeOK, WritersHold, NoConnectionLeaks
<1>3. CASE CloseConn
  <2>1. \A g \in Goroutine : at[g] = None
    BY <1>3 DEF CloseConn, WritersHold, Goroutine
  <2>2. conn \in Socket
    BY <1>3 DEF CloseConn, ClientTypeOK
  <2> QED
    BY <1>3, <2>1, <2>2 DEF CloseConn, ClientTypeOK, WritersHold, NoConnectionLeaks
<1> QED
  BY <1>1, <1>2, <1>3 DEF MainStep

LEMMA OtherGoroutines ==
    ASSUME ClientInv
    PROVE  /\ SignalArrives \/ Cancel => ClientInv'
           /\ \A s \in Socket : LinkBreaks(s) \/ ReaderEnds(s) => ClientInv'
           /\ \A s \in Socket, c \in Cmd : ReceiveCommand(s, c) => ClientInv'
           /\ \A c \in Cmd : BannerStep(c) \/ FinishExecution(c) => ClientInv'
           /\ LeaveStart => ClientInv'
<1> USE DEF ClientInv, ClientTypeOK, WritersHold, NoConnectionLeaks, Sends, Goroutine
<1>1. SignalArrives \/ Cancel => ClientInv'
  BY DEF SignalArrives, Cancel
<1>2. \A s \in Socket : LinkBreaks(s) \/ ReaderEnds(s) => ClientInv'
  BY DEF LinkBreaks, ReaderEnds
<1>3. \A s \in Socket, c \in Cmd : ReceiveCommand(s, c) => ClientInv'
  BY DEF ReceiveCommand
<1>4. \A c \in Cmd : BannerStep(c) \/ FinishExecution(c) => ClientInv'
  BY DEF BannerStep, NotifyOverlay, ShowOverlay, FinishExecution, Handler
<1>5. LeaveStart => ClientInv'
  BY DEF LeaveStart, Main
<1> QED
  BY <1>1, <1>2, <1>3, <1>4, <1>5

\* The overlay takes its own steps, or none.
LEMMA OverlayMoves == AgentNext => UNCHANGED overlayVars \/ OverlayNext
BY DEF AgentNext, BannerStep, NotifyOverlay, ShowOverlay, LeaveStart, OverlayNext

LEMMA AgentStep == AgentInv /\ [AgentNext]_allVars => AgentInv'
<1> SUFFICES ASSUME AgentInv, [AgentNext]_allVars
             PROVE  AgentInv'
  OBVIOUS
<1>1. ClientInv /\ OverlayTypeOK /\ BannerWillHide
  BY Parts
<1>2. CASE UNCHANGED allVars
  BY <1>2 DEF AgentInv, AgentTypeOK, ClientTypeOK, OverlayTypeOK, WritersHold, NoConnectionLeaks,
              BannerWillHide, Sends, allVars, agentVars, overlayVars
<1>3. CASE AgentNext
  <2>1. OverlayTypeOK' /\ BannerWillHide'
    BY <1>1, <1>3, OverlayMoves, OverlayStep
  <2>2. MainStep \/ Tick => ClientInv'
    BY <1>1, MainSteps
  <2>3. ASSUME NEW g \in Goroutine, SendStep(g)
        PROVE  ClientInv'
    BY <1>1, <2>3, SendSteps
  <2>4. UNCHANGED agentVars => ClientInv'
    BY <1>1 DEF agentVars, ClientInv, ClientTypeOK, WritersHold, NoConnectionLeaks, Sends
  <2>5. ClientInv'
    BY <1>1, <1>3, <2>2, <2>3, <2>4, OtherGoroutines DEF AgentNext
  <2> QED
    BY <2>1, <2>5 DEF AgentInv, AgentTypeOK, ClientInv
<1> QED
  BY <1>2, <1>3

-----------------------------------------------------------------------------
\* The inductive invariant holds in every execution of the agent: who writes holds the
\* lock, and the field and the place of the main goroutine agree. (client.go:56-307)
THEOREM AgentInvariant == AgentSpec => []AgentInv
BY Start, AgentStep, PTL DEF AgentSpec

\* Every variable keeps its type, and the field is set exactly while connectAndRun has
\* a connection to work with. (client.go:81-104)
THEOREM AgentTyping == AgentSpec => []AgentTypeOK
<1>1. AgentInv => AgentTypeOK
  BY DEF AgentInv
<1> QED
  BY <1>1, AgentInvariant, PTL

\* One goroutine writes at a time, to the connection in use. (client.go:292-307)
THEOREM Writers == AgentSpec => []WritersAreAlone
<1>1. AgentInv => WritersAreAlone
  BY DEF AgentInv, WritersHold, WritersAreAlone
<1> QED
  BY <1>1, AgentInvariant, PTL

\* No connection but the one in the field is left open. (client.go:97-104)
THEOREM NoLeaks == AgentSpec => []NoConnectionLeaks
<1>1. AgentInv => NoConnectionLeaks
  BY DEF AgentInv
<1> QED
  BY <1>1, AgentInvariant, PTL

\* A banner that is shown will be hidden, however many commands notify the overlay and
\* however many callbacks wait for its lock. (overlay.go:149-169)
THEOREM Banner == AgentSpec => []BannerWillHide
<1>1. AgentInv => BannerWillHide
  BY DEF AgentInv
<1> QED
  BY <1>1, AgentInvariant, PTL
=============================================================================
