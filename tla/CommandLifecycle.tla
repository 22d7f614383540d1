-------------------------- MODULE CommandLifecycle --------------------------
(***************************************************************************)
(* What the server promises of one remote command, whatever happens to     *)
(* connections, queues and goroutines: how the status stored in table      *)
(* `commands` and the reply of the call that sent it may evolve together.  *)
(* Module Hub implements this specification.                               *)
(***************************************************************************)
CONSTANTS Cmd,      \* the commands, each sent by one call
          Answer    \* the statuses an agent may report

VARIABLES row,      \* status stored for the command, "none" before the insert
          unsaved,  \* the commands of which a status could not be stored
          reply,    \* what the call has decided to return
          ran       \* the commands that reached an agent

vars == <<row, unsaved, reply, ran>>

Init ==
    /\ row = [c \in Cmd |-> "none"]
    /\ unsaved = {}
    /\ reply = [c \in Cmd |-> "none"]
    /\ ran = {}

\* A status is stored, or the command is one whose row is behind the facts.
Save(c, s) ==
    \/ row' = [row EXCEPT ![c] = s] /\ UNCHANGED unsaved
    \/ unsaved' = unsaved \cup {c} /\ UNCHANGED row

\* The call fails at once: the device is offline, or the row cannot be
\* inserted. Not even the failure need be stored.
Refuse(c) ==
    /\ reply[c] = "none"
    /\ row' \in {row, [row EXCEPT ![c] = "failed"]}
    /\ \E r \in {"refused", "error"} : reply' = [reply EXCEPT ![c] = r]
    /\ UNCHANGED <<unsaved, ran>>

\* The command is stored and its call is under way.
Admit(c) ==
    /\ reply[c] = "none"
    /\ row' = [row EXCEPT ![c] = "pending"]
    /\ reply' = [reply EXCEPT ![c] = "open"]
    /\ UNCHANGED <<unsaved, ran>>

\* The command reaches an agent, never one that was refused.
Run(c) ==
    /\ c \notin ran
    /\ reply[c] \notin {"none", "refused", "error", "panic"}
    /\ ran' = ran \cup {c}
    /\ UNCHANGED <<row, unsaved, reply>>

\* The answer of the agent that ran the command is to be stored, late or not.
Store(c, a) ==
    /\ c \in ran
    /\ row[c] \in {"pending", "timeout"}
    /\ Save(c, a)
    /\ UNCHANGED <<reply, ran>>

\* The call gives up before the command was handed to the connection's queue.
Abandon(c) ==
    /\ reply[c] = "open"
    /\ c \notin ran
    /\ \/ Save(c, "failed") /\ reply' = [reply EXCEPT ![c] = "refused"]
       \/ UNCHANGED <<row, unsaved>> /\ reply' = [reply EXCEPT ![c] = "panic"]
    /\ UNCHANGED ran

\* A call that does not wait returns as soon as the command is queued.
Detach(c) ==
    /\ reply[c] = "open"
    /\ reply' = [reply EXCEPT ![c] = "queued"]
    /\ UNCHANGED <<row, unsaved, ran>>

\* The call returns the answer that is stored, and no other; of a command that ran
\* but whose answer could not be stored, that answer or the row as it is.
Settle(c) ==
    /\ reply[c] = "open"
    /\ c \in ran
    /\ \/ row[c] \in Answer /\ reply' = [reply EXCEPT ![c] = row[c]]
       \/ /\ row[c] = "pending" /\ c \in unsaved
          /\ \E r \in Answer \cup {"pending"} : reply' = [reply EXCEPT ![c] = r]
    /\ UNCHANGED <<row, unsaved, ran>>

\* The call stops waiting, and then means to store "timeout" over whatever is there.
Expire(c) ==
    /\ reply[c] = "open"
    /\ reply' = [reply EXCEPT ![c] = "expired"]
    /\ UNCHANGED <<row, unsaved, ran>>

RecordExpiry(c) ==
    /\ reply[c] = "expired"
    /\ Save(c, "timeout")
    /\ reply' = [reply EXCEPT ![c] = "timeout"]
    /\ UNCHANGED ran

Finish(c) == Abandon(c) \/ Detach(c) \/ Settle(c) \/ Expire(c) \/ RecordExpiry(c)

Next == \E c \in Cmd : \/ Refuse(c) \/ Admit(c) \/ Run(c) \/ Finish(c)
                       \/ \E a \in Answer : Store(c, a)

\* The promise about states and steps, and the one that every call ends.
Safety == Init /\ [][Next]_vars
Spec == Safety /\ \A c \in Cmd : WF_vars(Finish(c))
=============================================================================
