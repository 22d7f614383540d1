------------------------------- MODULE MCParts -------------------------------
(* Four parts of the system that share no state, checked side by side: every *)
(* behaviour picks one of them and stays with it.                            *)
EXTENDS CommandPath, EventMonitor, AccessToken, Metrics

VARIABLE part

allVars == <<part, pathVars, monitorVars, tokenVars, cpuVars>>

\* Doubles of the numbers that are asked for: at, below and above the bounds, and
\* halves.
MCAsked == [kind : {"absent", "text"}, twice : {0}]
           \cup [kind : {"number"}, twice : {-2, 0, 1, 2, 3, 198, 199, 200, 201, 202,
                                             998, 1000, 1001, 1002}]

PartsInit ==
    /\ part \in {"path", "monitor", "token", "cpu"}
    /\ PathInit /\ MonitorInit /\ TokenInit /\ CpuInit
    /\ part # "path" => host = "linux" /\ tools = {}
    /\ part # "monitor" => network = [ip |-> "", net |-> "none"] /\ battery = "absent"
    /\ part # "cpu" => platform = "linux" /\ idleTicks = 0 /\ busyTicks = 0

PartsNext ==
    /\ UNCHANGED part
    /\ \/ part = "path" /\ PathNext /\ UNCHANGED <<monitorVars, tokenVars, cpuVars>>
       \/ part = "monitor" /\ MonitorNext /\ UNCHANGED <<pathVars, tokenVars, cpuVars>>
       \/ part = "token" /\ TokenNext /\ UNCHANGED <<pathVars, monitorVars, cpuVars>>
       \/ part = "cpu" /\ CpuNext /\ UNCHANGED <<pathVars, monitorVars, tokenVars>>

PartsSpec ==
    /\ PartsInit /\ [][PartsNext]_allVars
    /\ \A m \in Monitor : WF_monitorVars(part = "monitor" /\ MonitorStep(m))
=============================================================================
