----------------------------- MODULE CommandPath -----------------------------
(***************************************************************************)
(* What becomes of a wish of an API client: the command that the REST      *)
(* routes or the MCP tools make of it (server/internal/api/routes.go), how *)
(* the agent of the device carries it out, and what the client is told.    *)
(* Also the number of rows that a query of the stored history may return.  *)
(***************************************************************************)
EXTENDS Integers

CONSTANT Asked      \* limits that clients ask for, see Whole

ASSUME AskedAssumption == Asked \subseteq [kind : {"absent", "text", "number"}, twice : Int]

VARIABLES
    wish,       \* what the client wants, NoWish before
    entry,      \* "rest" or "tool"
    host,       \* the system of the device's agent
    tools,      \* what is installed or enabled there
    command,    \* the command made of the wish, NoCommand if it is refused
    course,     \* how far the request is
    ran,        \* how the agent carried it out, NotRun before
    reply,      \* what the client is told
    unsaved,    \* the answer could not be stored
    page        \* the query of the history that was made, NoPage before

pathVars == <<wish, entry, host, tools, command, course, ran, reply,
              unsaved, page>>

-----------------------------------------------------------------------------
(* Wishes, with the one thing about their arguments that decides anything. *)

Simple == {"telemetry", "screenshot", "unlock", "lock", "wake", "notifications", "sms"}

\* Odd: a button beyond the third, a combination of keys, a window by its title.
GuiWish == [op : {"click", "key", "focus_window", "close_window", "minimize_window"},
            arg : {"plain", "odd", "missing"}]
           \cup [op : {"move", "type"}, arg : {"plain", "missing"}]
           \cup [op : {"list_windows", "drag"}, arg : {"plain"}]

\* A long shell command needs more than the agents' 30 seconds, and less than the
\* timeout that the client asks for.
Wish == [op : Simple, arg : {"none"}]
        \cup [op : {"action", "send"}, arg : {"plain", "missing"}]
        \cup [op : {"mode"}, arg : {"auto", "consent", "other"}]
        \cup [op : {"permission"}, arg : {"grant", "revoke", "omitted", "missing"}]
        \cup [op : {"shell"}, arg : {"short", "long"}]
        \cup GuiWish

NoWish == [op |-> "none", arg |-> "none"]
NoCommand == [gui |-> FALSE, type |-> "none", arg |-> "none", limit |-> FALSE, woken |-> FALSE]

\* executeDeviceCommand wakes the device, and makes an error of a failed command.
Woken(gui, type, arg) ==
    [gui |-> gui, type |-> type, arg |-> arg, limit |-> FALSE, woken |-> TRUE]

\* Hub.SendCommand called directly returns the command as it ended. "limit" says
\* that the payload carries a timeout for the agent.
Direct(gui, type, arg, limit) ==
    [gui |-> gui, type |-> type, arg |-> arg, limit |-> limit, woken |-> FALSE]

SimpleType == [telemetry |-> "collect_telemetry", unlock |-> "unlock_device",
               lock |-> "lock_device", wake |-> "wake_device",
               notifications |-> "get_notifications", sms |-> "get_sms"]

PermissionType(arg) == IF arg = "grant" THEN "grant_permission" ELSE "revoke_permission"

RestDeed(w) ==
    IF w.arg = "missing" THEN NoCommand
    ELSE CASE w.op = "action" -> Woken(FALSE, "notification_action", w.arg)
           [] w.op = "send" -> Woken(FALSE, "send_sms", w.arg)

\* A "grant" that is left out is false.
RestSetting(w) ==
    IF w.arg \in {"missing", "other"} THEN NoCommand
    ELSE CASE w.op = "mode" -> Woken(FALSE, "set_control_mode", w.arg)
           [] w.op = "permission" -> Woken(FALSE, PermissionType(w.arg), "plain")

\* The routes of a device. On .../commands the client writes type and payload.
RestCommand(w) ==
    CASE w.op \in DOMAIN SimpleType -> Woken(FALSE, SimpleType[w.op], w.arg)
      [] w.op = "screenshot" -> Woken(TRUE, "screenshot", w.arg)
      [] w.op \in {"action", "send"} -> RestDeed(w)
      [] w.op \in {"mode", "permission"} -> RestSetting(w)
      [] w.op = "shell" -> Direct(FALSE, "shell", w.arg, w.arg = "long")
      [] w \in GuiWish -> Direct(TRUE, w.op, w.arg, FALSE)

LiveTool == [telemetry |-> "collect_telemetry", notifications |-> "get_notifications",
             sms |-> "get_sms"]
LockTool == [unlock |-> "unlock_device", lock |-> "lock_device", wake |-> "wake_device"]

ToolDeed(w) ==
    IF w.arg = "missing" THEN NoCommand
    ELSE CASE w.op = "send" -> Woken(FALSE, "send_sms", w.arg)
           [] w.op = "action" -> Woken(FALSE, "notification_action", w.arg)

\* Mutant of ToolSetting: a "grant" that is left out is true.
ToolSettingGrants(w) ==
    IF w.arg \in {"missing", "other"} THEN NoCommand
    ELSE CASE w.op = "permission" /\ w.arg # "revoke" ->
                Woken(FALSE, "grant_permission", "plain")
           [] w.op = "permission" /\ w.arg = "revoke" ->
                Woken(FALSE, "revoke_permission", "plain")
           [] w.op = "mode" -> Woken(FALSE, "set_control_mode", w.arg)

ToolSetting(w) ==
    IF w.arg \in {"missing", "other"} THEN NoCommand
    ELSE CASE w.op = "permission" -> Woken(FALSE, PermissionType(w.arg), "plain")
           [] w.op = "mode" -> Woken(FALSE, "set_control_mode", w.arg)

\* The MCP tools. execute_shell_command keeps its timeout to itself.
ToolCommand(w) ==
    CASE w.op \in DOMAIN LiveTool -> Woken(FALSE, LiveTool[w.op], w.arg)
      [] w.op \in DOMAIN LockTool -> Woken(FALSE, LockTool[w.op], w.arg)
      [] w.op = "shell" -> Direct(FALSE, "shell", w.arg, FALSE)
      [] w \in GuiWish -> Direct(TRUE, w.op, w.arg, FALSE)
      [] w.op = "screenshot" -> Woken(TRUE, "screenshot", w.arg)
      [] w.op \in {"send", "action"} -> ToolDeed(w)
      [] w.op \in {"mode", "permission"} -> ToolSetting(w)

-----------------------------------------------------------------------------
(* The agents. "did" says that the calls that carry the command out were   *)
(* made, and that none of them reported a failure; those that return       *)
(* nothing, such as Windows' input events and Android's sending of an SMS, *)
(* report none.                                                            *)

NotRun == [exit |-> 0, did |-> FALSE, over |-> FALSE]
Ran(exit, did) == [exit |-> exit, did |-> did, over |-> TRUE]

Done == Ran(0, TRUE)
Failed == Ran(1, FALSE)

\* A program or a call that may fail, and says so by its exit code or result. What a
\* shell command runs is its client's matter; its exit code is the shell's.
Program == {Done, Failed}

\* A failure that is passed over: the answer is that of a success.
Unnoticed == Ran(0, FALSE)

If(possible) == IF possible THEN Program ELSE {Failed}

\* ExecuteShell, ExecuteCommand: killed at the deadline, 30 seconds by default.
Shell(c) == IF c.arg = "long" /\ ~c.limit THEN {Ran(-1, FALSE)} ELSE Program

LinuxWindow(c) ==
    If(c.arg # "missing" /\ ("wmctrl" \in tools \/ ("xdotool" \in tools /\ c.arg # "odd")))

\* scrot, or ImageMagick's import in its place, to a file named after the process: what
\* is read back may be what another handler's screenshot has begun to write.
LinuxScreenshot == IF "scrot" \in tools THEN Program \cup {Unnoticed} ELSE {Failed}

LinuxGui(c) ==
    CASE c.type \in {"click", "move", "type", "key"} ->
            If("xdotool" \in tools /\ (c.type = "click" \/ c.arg # "missing"))
      [] c.type = "list_windows" -> If(tools \cap {"wmctrl", "xdotool"} # {})
      [] c.type \in {"focus_window", "close_window"} -> LinuxWindow(c)
      [] c.type = "screenshot" -> LinuxScreenshot
      [] OTHER -> {Failed}

\* The result of moving the cursor before a click is dropped, and a button that has
\* no case is not clicked: both are reported as a click.
WindowsClick(c) ==
    CASE c.arg = "odd" -> {Unnoticed}
      [] c.arg = "missing" -> {Done}
      [] OTHER -> {Done, Unnoticed}

\* Keys are named one at a time, windows by their handle. What EnumWindows returns is
\* dropped, and PowerShell goes on after a statement of the screenshot's script failed.
WindowsGui(c) ==
    CASE c.type = "click" -> WindowsClick(c)
      [] c.type = "move" -> If(c.arg # "missing")
      [] c.type = "type" -> IF c.arg = "missing" THEN {Failed} ELSE {Done}
      [] c.type \in {"key", "focus_window", "close_window", "minimize_window"} ->
            If(c.arg = "plain")
      [] c.type = "list_windows" -> {Done, Unnoticed}
      [] c.type = "screenshot" -> Program \cup {Unnoticed}
      [] OTHER -> {Failed}

\* handleServerMessage of the two desktop agents. A figure of the telemetry that cannot
\* be read is left at zero.
DesktopRun(c) ==
    CASE c.gui /\ host = "linux" -> LinuxGui(c)
      [] c.gui /\ host = "windows" -> WindowsGui(c)
      [] ~c.gui /\ c.type = "shell" -> Shell(c)
      [] ~c.gui /\ c.type = "collect_telemetry" -> Program \cup {Unnoticed}
      [] OTHER -> {Failed}

\* handleAndroidCommand answers what needs no accessibility service: by what Android or
\* Shizuku reported ...
AndroidNative == {"send_sms", "wake_device", "lock_device", "grant_permission",
                  "revoke_permission", "set_control_mode"}

\* ... or passing over some of it. A query that throws returns what was read before, a
\* reply is left out if the action takes none, and setKeyguardDisabled may refuse.
AndroidBlind == {"get_notifications", "get_sms", "notification_action", "unlock_device"}

\* The accessibility service does not look whether the bitmap was compressed; Shizuku
\* takes its place if it is not there, or fails.
AndroidScreenshot ==
    CASE "accessibility" \in tools -> Program \cup {Unnoticed}
      [] "shizuku" \in tools -> Program
      [] OTHER -> {Failed}

\* executeCommand of that service answers the rest. Text may be empty; a click
\* without coordinates goes to the corner.
AndroidRun(c) ==
    CASE c.type = "collect_telemetry" -> {Done, Unnoticed}
      [] c.type \in AndroidNative -> Program
      [] c.type \in AndroidBlind -> Program \cup {Unnoticed}
      [] c.gui /\ c.type = "screenshot" -> AndroidScreenshot
      [] c.gui /\ c.type \in {"click", "type"} -> If("accessibility" \in tools)
      [] c.gui /\ c.type = "key" -> If("accessibility" \in tools /\ c.arg = "plain")
      [] OTHER -> {Failed}

-----------------------------------------------------------------------------
(* The history: how many rows a query may return.                          *)

Table == {"telemetry", "events", "notifications", "sms"}

RestDefault == [telemetry |-> 20, events |-> 50, notifications |-> 50, sms |-> 50]
ToolDefault == [telemetry |-> 10, events |-> 20, notifications |-> 50, sms |-> 50]
QueryDefault == [telemetry |-> 30, events |-> 50, notifications |-> 50, sms |-> 50]
QueryCap == [telemetry |-> 100, events |-> 100, notifications |-> 500, sms |-> 500]

NoPage == [table |-> "none", asked |-> [kind |-> "absent", twice |-> 0], limit |-> 0]

\* A limit that was asked for is absent, a text that is no number, or a number,
\* given by its double so that halves can be asked for.
Whole(a) == a.kind = "number" /\ a.twice % 2 = 0

\* strconv.Atoi reads whole numbers; parseLimit, for two of the tables, wants them
\* positive.
RestLimit(t, a) ==
    IF Whole(a) /\ (t \in {"notifications", "sms"} => a.twice > 0)
    THEN a.twice \div 2
    ELSE RestDefault[t]

\* A positive number in JSON, cut to an integer.
ToolLimit(t, a) ==
    IF a.kind = "number" /\ a.twice > 0 THEN a.twice \div 2 ELSE ToolDefault[t]

\* Mutant of QueryLimit: only what is not positive is replaced.
QueryLimitUncapped(t, n) == IF n <= 0 THEN QueryDefault[t] ELSE n

\* GetTelemetry, GetEvents, GetNotifications, GetSmsMessages: what is out of range
\* is replaced by the default, not by the cap.
QueryLimit(t, n) == IF n <= 0 \/ n > QueryCap[t] THEN QueryDefault[t] ELSE n

-----------------------------------------------------------------------------
(* A request.                                                              *)

HostTools == [linux |-> {"xdotool", "wmctrl", "scrot"}, windows |-> {},
              android |-> {"accessibility", "shizuku"}]

PathInit ==
    /\ wish = NoWish
    /\ entry = "rest"
    /\ host \in DOMAIN HostTools
    /\ tools \in SUBSET HostTools[host]
    /\ command = NoCommand
    /\ course = "idle"
    /\ ran = NotRun
    /\ reply = "none"
    /\ unsaved = FALSE
    /\ page = NoPage

Ask(w, e, c) ==
    /\ course = "idle"
    /\ wish' = w
    /\ entry' = e
    /\ command' = c
    /\ course' = IF c = NoCommand THEN "answered" ELSE "asked"
    /\ reply' = IF c = NoCommand THEN "refused" ELSE "none"
    /\ UNCHANGED <<host, tools, ran, unsaved, page>>

AskRest(w) == Ask(w, "rest", RestCommand(w))
AskTool(w) == Ask(w, "tool", ToolCommand(w))

AskHistory(t, a) ==
    /\ course = "idle"
    /\ course' = "answered"
    /\ \E e \in {"rest", "tool"} :
          /\ entry' = e
          /\ page' = [table |-> t, asked |-> a,
                      limit |-> QueryLimit(t, IF e = "rest" THEN RestLimit(t, a)
                                                            ELSE ToolLimit(t, a))]
    /\ UNCHANGED <<wish, host, tools, command, ran, reply, unsaved>>

\* The device cannot be woken, or SendCommand finds it offline or cannot store the
\* command.
NotReached ==
    /\ course = "asked"
    /\ course' = "answered"
    /\ reply' = "error"
    /\ UNCHANGED <<wish, entry, host, tools, command, ran, unsaved, page>>

Reached ==
    /\ course = "asked"
    /\ course' = "sent"
    /\ UNCHANGED <<wish, entry, host, tools, command, ran, reply, unsaved, page>>

\* The timer of SendCommand fires; the agent does not learn of it.
GiveUp ==
    /\ course = "sent"
    /\ course' = "late"
    /\ reply' = "error"
    /\ UNCHANGED <<wish, entry, host, tools, command, ran, unsaved, page>>

Execute ==
    /\ course \in {"sent", "late"} /\ ~ran.over
    /\ ran' \in IF host = "android" THEN AndroidRun(command) ELSE DesktopRun(command)
    /\ UNCHANGED <<wish, entry, host, tools, command, course, reply, unsaved, page>>

\* Mutant of Told: executeDeviceCommand returns the output whatever the exit code.
ToldUnchecked(c, r) == IF c.woken THEN "success" ELSE IF r.exit = 0 THEN "completed" ELSE "failed"

\* A command that was sent directly is returned with the agent's status.
Told(c, r) ==
    CASE c.woken -> IF r.exit = 0 THEN "success" ELSE "error"
      [] OTHER -> IF r.exit = 0 THEN "completed" ELSE "failed"

\* Output that has to be read and cannot be makes an error of a success.
Parsed(c) ==
    \/ c.type \in {"collect_telemetry", "get_notifications", "get_sms"}
    \/ c.gui /\ c.type = "screenshot" /\ entry = "rest"

Answer ==
    /\ course = "sent" /\ ran.over
    /\ course' = "answered"
    /\ reply' \in {Told(command, ran)}
                  \cup IF Parsed(command) /\ ran.exit = 0 THEN {"error"} ELSE {}
    /\ UNCHANGED <<wish, entry, host, tools, command, ran, unsaved, page>>

\* UpdateCommand fails, which is not looked at, and GetCommand reads the row as it was
\* sent, without output and with exit code 0.
AnswerUnsaved ==
    /\ course = "sent" /\ ran.over
    /\ course' = "answered"
    /\ unsaved' = TRUE
    /\ reply' = CASE ~command.woken -> "pending"
                  [] command.woken /\ Parsed(command) -> "error"
                  [] command.woken /\ ~Parsed(command) -> "success"
    /\ UNCHANGED <<wish, entry, host, tools, command, ran, page>>

PathNext ==
    \/ \E w \in Wish : AskRest(w) \/ AskTool(w)
    \/ \E t \in Table, a \in Asked : AskHistory(t, a)
    \/ NotReached \/ Reached \/ GiveUp \/ Execute \/ Answer \/ AnswerUnsaved

PathSpec == PathInit /\ [][PathNext]_pathVars

-----------------------------------------------------------------------------
(* Properties.                                                             *)

\* REST and MCP make the same command of the same wish, refuse the same, and wake
\* the device for the same: but a shell command sent by the MCP tool is killed after
\* the agent's own 30 seconds, whatever timeout was asked for.
\* (routes.go:113-549, 894-1183; 978)
SameWishSameCommand ==
    wish \in Wish /\ ~(wish.op = "shell" /\ wish.arg = "long")
        => RestCommand(wish) = ToolCommand(wish)

\* What an agent may report as a success without having made sure of it.
Overlooked(c) ==
    \/ c.type = "collect_telemetry"
    \/ c.gui /\ c.type = "screenshot"
    \/ host = "windows" /\ c.gui /\ c.type \in {"click", "list_windows"}
    \/ host = "android" /\ c.type \in AndroidBlind

\* Who is told that a command succeeded may rely on it, whichever agent ran it and by
\* whatever way it failed. Exceptions: telemetry and screenshots, clicks and lists of
\* windows on Windows, and on Android notifications, SMS, actions of notifications and
\* unlocking, where agents pass over failures; and an answer that the hub could not
\* store. (routes.go:598-623, hub.go:211-217, gui.go of both agents, metrics.go of both,
\* win32.go:251, OmniSmsManager.kt:91-95, OmniNotificationListenerService.kt:60-106,
\* DevicePolicyHelper.kt:48, OmniAccessibilityService.kt:258)
SuccessMeansDone ==
    reply \in {"success", "completed"} => ran.did \/ Overlooked(command) \/ unsaved

\* Whatever is asked for, a query returns between one and the table's cap of rows at
\* most, and as many as asked for if that is within the cap.
\* (routes.go:186-192, 225-231, 667-676, 952-955; db.go:324, 489, 650, 727)
HistoryIsBounded ==
    page # NoPage =>
        /\ page.limit \in 1..QueryCap[page.table]
        /\ Whole(page.asked) /\ page.asked.twice \div 2 \in 1..QueryCap[page.table]
              => page.limit = page.asked.twice \div 2
=============================================================================
