-------------------------- MODULE CommandPathProofs --------------------------
(***************************************************************************)
(* What clients may rely on when they are told of a success, and how many  *)
(* rows a query returns, whatever limits they ask for.                     *)
(***************************************************************************)
EXTENDS CommandPath, TLAPS

-----------------------------------------------------------------------------
(* The history.                                                            *)

\* The statement replaces what is out of range, and nothing else.
LEMMA QueryLimitBounded ==
    ASSUME NEW t \in Table, NEW n \in Int
    PROVE  /\ QueryLimit(t, n) \in 1..QueryCap[t]
           /\ n \in 1..QueryCap[t] => QueryLimit(t, n) = n
<1>1. QueryCap[t] \in Nat /\ QueryDefault[t] \in 1..QueryCap[t]
  BY DEF Table, QueryCap, QueryDefault
<1> QED
  BY <1>1 DEF QueryLimit

LEMMA LimitsAreNumbers ==
    ASSUME NEW t \in Table, NEW a \in Asked
    PROVE  RestLimit(t, a) \in Int /\ ToolLimit(t, a) \in Int
<1>1. RestDefault[t] \in Int /\ ToolDefault[t] \in Int
  BY DEF Table, RestDefault, ToolDefault
<1>2. a.twice \in Int /\ a.twice \div 2 \in Int
  BY AskedAssumption
<1> QED
  BY <1>1, <1>2 DEF RestLimit, ToolLimit

\* What is asked for reaches the statement if it is a whole positive number.
LEMMA WholeLimits ==
    ASSUME NEW t \in Table, NEW a \in Asked, Whole(a), a.twice \div 2 > 0
    PROVE  RestLimit(t, a) = a.twice \div 2 /\ ToolLimit(t, a) = a.twice \div 2
<1>1. a.twice \in Int
  BY AskedAssumption
<1>2. a.twice > 0
  BY <1>1
<1> QED
  BY <1>2 DEF RestLimit, ToolLimit, Whole

PageInv == page = NoPage \/ (page.table \in Table /\ HistoryIsBounded)

LEMMA PageInvStep == PageInv /\ [PathNext]_pathVars => PageInv'
<1> SUFFICES ASSUME PageInv, [PathNext]_pathVars PROVE PageInv'
  OBVIOUS
<1>1. UNCHANGED page => PageInv'
  BY DEF PageInv, HistoryIsBounded
<1>2. ASSUME NEW t \in Table, NEW a \in Asked, AskHistory(t, a) PROVE PageInv'
  <2>1. PICK n \in {RestLimit(t, a), ToolLimit(t, a)} :
           page' = [table |-> t, asked |-> a, limit |-> QueryLimit(t, n)]
    BY <1>2 DEF AskHistory
  <2>2. n \in Int
    BY LimitsAreNumbers
  <2>3. QueryLimit(t, n) \in 1..QueryCap[t] /\ (n \in 1..QueryCap[t] => QueryLimit(t, n) = n)
    BY <2>2, QueryLimitBounded
  <2>4. page'.table = t /\ page'.asked = a /\ page'.limit = QueryLimit(t, n)
    BY <2>1
  <2>5. Whole(a) /\ a.twice \div 2 \in 1..QueryCap[t] => QueryLimit(t, n) = a.twice \div 2
    BY <2>3, WholeLimits
  <2> QED
    BY <2>3, <2>4, <2>5 DEF PageInv, HistoryIsBounded
<1> QED
  BY <1>1, <1>2 DEF PathNext, AskRest, AskTool, Ask, NotReached, Reached, GiveUp, Execute, Answer,
                    AnswerUnsaved, pathVars

-----------------------------------------------------------------------------
(* Commands.                                                               *)

\* An agent that answers with exit code 0 has carried the command out, or it is one whose
\* failures it may pass over.
Honest(r, c) == r.exit = 0 => r.did \/ Overlooked(c)

LEMMA ProgramsAreHonest ==
    ASSUME NEW c, NEW possible \in BOOLEAN
    PROVE  /\ \A r \in {Failed, Done} : Honest(r, c)
           /\ \A r \in If(possible) : Honest(r, c)
           /\ \A r \in Program : Honest(r, c)
           /\ \A r \in Shell(c) : Honest(r, c)
  BY DEF Honest, If, Program, Shell, Failed, Done, Ran

LEMMA LinuxIsHonest == ASSUME NEW c, c.gui, NEW r \in LinuxGui(c) PROVE Honest(r, c)
<1>1. CASE c.type = "screenshot"
  BY <1>1 DEF Honest, Overlooked
<1>2. CASE c.type # "screenshot"
  <2>1. r \in {Failed, Done}
    BY <1>2 DEF LinuxGui, LinuxWindow, If, Program
  <2> QED
    BY <2>1, ProgramsAreHonest
<1> QED
  BY <1>1, <1>2

LEMMA WindowsIsHonest ==
    ASSUME NEW c, c.gui, host = "windows", NEW r \in WindowsGui(c) PROVE Honest(r, c)
<1>1. CASE c.type \in {"click", "list_windows", "screenshot"}
  BY <1>1 DEF Honest, Overlooked
<1>2. CASE c.type \notin {"click", "list_windows", "screenshot"}
  <2>1. r \in {Failed, Done}
    BY <1>2 DEF WindowsGui, If, Program
  <2> QED
    BY <2>1, ProgramsAreHonest
<1> QED
  BY <1>1, <1>2

LEMMA AndroidIsHonest ==
    ASSUME NEW c, host = "android", NEW r \in AndroidRun(c) PROVE Honest(r, c)
<1>1. CASE c.type = "collect_telemetry" \/ c.type \in AndroidBlind
  BY <1>1 DEF Honest, Overlooked
<1>2. CASE c.gui /\ c.type = "screenshot"
  BY <1>2 DEF Honest, Overlooked
<1>3. CASE /\ c.type # "collect_telemetry" /\ c.type \notin AndroidBlind
           /\ ~(c.gui /\ c.type = "screenshot")
  <2>1. r \in {Failed, Done}
    BY <1>3 DEF AndroidRun, If, Program
  <2> QED
    BY <2>1, ProgramsAreHonest
<1> QED
  BY <1>1, <1>2, <1>3

LEMMA DesktopIsHonest ==
    ASSUME NEW c, host \in {"linux", "windows"}, NEW r \in DesktopRun(c)
    PROVE  Honest(r, c)
<1>1. CASE c.gui /\ host = "linux"
  <2>1. r \in LinuxGui(c)
    BY <1>1 DEF DesktopRun
  <2> QED
    BY <1>1, <2>1, LinuxIsHonest
<1>2. CASE c.gui /\ host = "windows"
  <2>1. r \in WindowsGui(c)
    BY <1>2 DEF DesktopRun
  <2> QED
    BY <1>2, <2>1, WindowsIsHonest
<1>3. CASE ~c.gui /\ c.type = "collect_telemetry"
  BY <1>3 DEF Honest, Overlooked
<1>4. CASE ~c.gui /\ c.type # "collect_telemetry"
  <2>1. r \in Shell(c) \/ r = Failed
    BY <1>4 DEF DesktopRun
  <2> QED
    BY <2>1, ProgramsAreHonest
<1> QED
  BY <1>1, <1>2, <1>3, <1>4

\* A success was answered by an agent that ended with exit code 0, or its answer got lost.
PathInv ==
    /\ host \in {"linux", "windows", "android"}
    /\ ran.over => Honest(ran, command)
    /\ course = "idle" => ran = NotRun
    /\ reply \in {"success", "completed"} => ran.over /\ (ran.exit = 0 \/ unsaved)
    /\ unsaved => course = "answered"

LEMMA PathInvInit == PathInit => PathInv
  BY DEF PathInit, PathInv, HostTools, NotRun

LEMMA PathInvStep == PathInv /\ [PathNext]_pathVars => PathInv'
<1> SUFFICES ASSUME PathInv, [PathNext]_pathVars PROVE PathInv'
  OBVIOUS
<1>1. ASSUME NEW w, NEW e, NEW c, Ask(w, e, c) PROVE PathInv'
  <2>1. ~ran.over /\ reply' \in {"refused", "none"} /\ course' # "idle"
    BY <1>1 DEF Ask, PathInv, NotRun
  <2> QED
    BY <1>1, <2>1 DEF Ask, PathInv
<1>2. ASSUME NEW t, NEW a, AskHistory(t, a) PROVE PathInv'
  BY <1>2 DEF AskHistory, PathInv, Honest, Overlooked
<1>3. CASE NotReached \/ Reached \/ GiveUp
  BY <1>3 DEF NotReached, Reached, GiveUp, PathInv, Honest, Overlooked
<1>4. CASE Execute
  <2>1. Honest(ran', command)
    BY <1>4, AndroidIsHonest, DesktopIsHonest DEF Execute, PathInv
  <2>2. UNCHANGED <<host, command, course, reply, unsaved>> /\ course # "idle" /\ ~ran.over
    BY <1>4 DEF Execute
  <2> QED
    BY <2>1, <2>2 DEF PathInv, Honest, Overlooked
<1>5. CASE Answer
  <2>1. reply' \in {"success", "completed"} => ran.exit = 0
    BY <1>5 DEF Answer, Told
  <2> QED
    BY <1>5, <2>1 DEF Answer, PathInv, Honest, Overlooked
<1>6. CASE AnswerUnsaved
  BY <1>6 DEF AnswerUnsaved, PathInv, Honest, Overlooked
<1>7. CASE UNCHANGED pathVars
  BY <1>7 DEF pathVars, PathInv, Honest, Overlooked
<1> QED
  BY <1>1, <1>2, <1>3, <1>4, <1>5, <1>6, <1>7 DEF PathNext, AskRest, AskTool

-----------------------------------------------------------------------------
(* The commands that the two entries make.                                 *)

GuiOps == {"click", "key", "focus_window", "close_window", "minimize_window",
           "move", "type", "list_windows", "drag"}

LEMMA GuiWishes == \A w \in GuiWish : w.op \in GuiOps
  BY DEF GuiWish, GuiOps

LEMMA SameCommand ==
    ASSUME NEW w \in Wish, ~(w.op = "shell" /\ w.arg = "long")
    PROVE  RestCommand(w) = ToolCommand(w)
<1> USE DEF RestCommand, ToolCommand
<1>1. CASE w \in GuiWish
  <2>1. w.op \in GuiOps
    BY <1>1, GuiWishes
  <2> HIDE DEF GuiWish
  <2>2. RestCommand(w) = Direct(TRUE, w.op, w.arg, FALSE)
    BY <1>1, <2>1 DEF GuiOps, SimpleType
  <2>3. ToolCommand(w) = Direct(TRUE, w.op, w.arg, FALSE)
    BY <1>1, <2>1 DEF GuiOps, LiveTool, LockTool
  <2> QED
    BY <2>2, <2>3
<1>2. CASE w \notin GuiWish /\ w.op \in Simple
  <2>1. CASE w.op \in {"telemetry", "notifications", "sms"}
    <3>1. w.op \in DOMAIN SimpleType /\ w.op \in DOMAIN LiveTool /\ w.op \notin DOMAIN LockTool
      BY <2>1 DEF SimpleType, LiveTool, LockTool
    <3>2. \A op \in {"telemetry", "notifications", "sms"} : SimpleType[op] = LiveTool[op]
      BY DEF SimpleType, LiveTool
    <3>3. SimpleType[w.op] = LiveTool[w.op]
      BY <2>1, <3>2
    <3> QED
      BY <1>2, <2>1, <3>1, <3>3
  <2>2. CASE w.op \in {"unlock", "lock", "wake"}
    <3>1. w.op \in DOMAIN SimpleType /\ w.op \notin DOMAIN LiveTool /\ w.op \in DOMAIN LockTool
      BY <2>2 DEF SimpleType, LiveTool, LockTool
    <3>2. \A op \in {"unlock", "lock", "wake"} : SimpleType[op] = LockTool[op]
      BY DEF SimpleType, LockTool
    <3>3. SimpleType[w.op] = LockTool[w.op]
      BY <2>2, <3>2
    <3> QED
      BY <1>2, <2>2, <3>1, <3>3
  <2>3. CASE w.op = "screenshot"
    BY <1>2, <2>3 DEF SimpleType, LiveTool, LockTool
  <2> QED
    BY <1>2, <2>1, <2>2, <2>3 DEF Simple
<1>3. CASE w \notin GuiWish /\ w.op \in {"action", "send"}
  BY <1>3 DEF SimpleType, LiveTool, LockTool, RestDeed, ToolDeed
<1>4. CASE w \notin GuiWish /\ w.op \in {"mode", "permission"}
  BY <1>4 DEF SimpleType, LiveTool, LockTool, RestSetting, ToolSetting
<1>5. CASE w \notin GuiWish /\ w.op = "shell"
  BY <1>5 DEF SimpleType, LiveTool, LockTool
<1> QED
  BY <1>1, <1>2, <1>3, <1>4, <1>5 DEF Wish

-----------------------------------------------------------------------------
(* What follows.                                                           *)

\* Whichever way a client comes in, REST or MCP, the same wish becomes the same command,
\* is refused alike and wakes the device alike: but for a long shell command, whose
\* timeout the MCP tool keeps to itself. (routes.go:113-549, 894-1183; 978)
THEOREM EntriesAgree == PathSpec => []SameWishSameCommand
<1>1. SameWishSameCommand
  BY SameCommand DEF SameWishSameCommand
<1> QED
  BY <1>1, PTL

\* Whatever limit is asked for, a query returns between one and the table's cap of rows
\* at most, and as many as asked for within the cap.
\* (routes.go:186-192, 225-231, 667-676, 952-955; db.go:324, 489, 650, 727)
THEOREM HistoryBounded == PathSpec => []HistoryIsBounded
<1>1. PathInit => PageInv
  BY DEF PathInit, PageInv
<1>2. PageInv => HistoryIsBounded
  BY DEF PageInv, HistoryIsBounded
<1> QED
  BY <1>1, <1>2, PageInvStep, PTL DEF PathSpec

\* Whoever is told of a success may rely on it, but for the commands of Overlooked, whose
\* agents pass over failures, and an answer that the hub could not store.
\* (routes.go:598-623, hub.go:211-217)
THEOREM SuccessDone == PathSpec => []SuccessMeansDone
<1>1. PathInv => SuccessMeansDone
  BY DEF PathInv, Honest, Overlooked, SuccessMeansDone
<1> QED
  BY <1>1, PathInvInit, PathInvStep, PTL DEF PathSpec

=============================================================================
