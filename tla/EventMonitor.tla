----------------------------- MODULE EventMonitor -----------------------------
(***************************************************************************)
(* The monitor of the desktop agents (internal/events/monitor.go), which   *)
(* emits events on changes of the network and a low battery. Every         *)
(* connection starts it once more (connection/client.go:118) and nothing   *)
(* stops it before the program ends, so that several goroutines run Start  *)
(* on the same Monitor, whose fields no lock protects: each read of the    *)
(* fields and each assignment is a step here. What becomes of an event is  *)
(* not: a goroutine of its own sends it if there is a connection and drops *)
(* the error, as the listeners of AgentClient do.                          *)
(***************************************************************************)
EXTENDS Naturals

CONSTANTS
    Monitor,    \* the goroutines that run Start, one for each connection
    Address,    \* addresses, "" not among them
    Interface,  \* names of network interfaces
    MaxChanges  \* bound: how often network and battery change

ASSUME NoAddressAssumption == "" \notin Address

VARIABLES
    network,        \* what getActiveNetwork finds now
    battery,        \* what getBatteryInfo finds now
    changes,        \* how often the two have changed
    ending,         \* the context of the program is cancelled
    at,             \* Monitor -> its place in Start
    seen,           \* Monitor -> the network that it read last
    prevIP, prevNet, prevOnline,    \* fields of the Monitor
    batteryWarned,                  \* and its flag
    emitted,        \* the network of the last event emitted, or of the last baseline
    warnings,       \* Monitor -> its battery_low events
    resets          \* how often batteryWarned fell

environment == <<network, battery>>
fields == <<prevIP, prevNet, prevOnline, batteryWarned>>
monitorVars == <<network, battery, changes, ending, at, seen, fields, emitted, warnings, resets>>

\* getActiveNetwork: the first interface with an address; or none of them has one; or
\* they cannot be listed.
Unconnected == [ip : {""}, net : {"disconnected", "none"}]
Network == [ip : Address, net : Interface] \cup Unconnected

\* At or below 20 % and not charging, above 25 % or charging, between the two, or no
\* battery that can be read.
Battery == {"low", "full", "middle", "absent"}

BaselineSteps == {"baseline_ip", "baseline_net", "baseline_online"}
CheckSteps == {"save_ip", "save_net", "save_online"}
Places == {"none", "ticking", "battery", "warned", "reset", "ended"}
          \cup BaselineSteps \cup CheckSteps

MonitorTypeOK ==
    /\ network \in Network /\ battery \in Battery /\ changes \in 0..MaxChanges
    /\ ending \in BOOLEAN
    /\ at \in [Monitor -> Places] /\ seen \in [Monitor -> Network]
    /\ prevIP \in Address \cup {""}
    /\ prevNet \in Interface \cup {"disconnected", "none", ""}
    /\ prevOnline \in BOOLEAN /\ batteryWarned \in BOOLEAN
    /\ emitted \in Network
    /\ warnings \in [Monitor -> Nat] /\ resets \in Nat

MonitorInit ==
    /\ network \in Network
    /\ battery \in Battery
    /\ changes = 0
    /\ ending = FALSE
    /\ at = [m \in Monitor |-> "none"]
    /\ seen = [m \in Monitor |-> network]
    /\ prevIP = "" /\ prevNet = "" /\ prevOnline = FALSE
    /\ batteryWarned = FALSE
    /\ emitted = network
    /\ warnings = [m \in Monitor |-> 0]
    /\ resets = 0

-----------------------------------------------------------------------------
(* Around the monitors.                                                    *)

NetworkChanges ==
    /\ changes < MaxChanges
    /\ changes' = changes + 1
    /\ network' \in Network \ {network}
    /\ UNCHANGED <<battery, ending, at, seen, fields, emitted, warnings, resets>>

BatteryChanges ==
    /\ changes < MaxChanges
    /\ changes' = changes + 1
    /\ battery' \in Battery \ {battery}
    /\ UNCHANGED <<network, ending, at, seen, fields, emitted, warnings, resets>>

ProgramEnds ==
    /\ ~ending
    /\ ending' = TRUE
    /\ UNCHANGED <<environment, changes, at, seen, fields, emitted, warnings, resets>>

-----------------------------------------------------------------------------
(* A goroutine in Start.                                                   *)

Goto(m, place) == at' = [at EXCEPT ![m] = place]

\* A new connection. What the network is now becomes what is known of it, without an
\* event.
StartMonitor(m) ==
    /\ at[m] = "none" /\ ~ending
    /\ seen' = [seen EXCEPT ![m] = network]
    /\ emitted' = network
    /\ Goto(m, "baseline_ip")
    /\ UNCHANGED <<environment, changes, ending, fields, warnings, resets>>

\* Mutant of Emits: one address instead of another is no change.
EmitsOnAndOff(n) == prevOnline # (n.ip # "")

\* checkNetwork compares with the three fields: network_connected,
\* network_disconnected, network_changed, or nothing.
Emits(n) ==
    \/ prevOnline # (n.ip # "")
    \/ n.ip # "" /\ (n.ip # prevIP \/ n.net # prevNet)

\* The ticker fires, and checkNetwork reads and emits.
CheckNetwork(m) ==
    /\ at[m] = "ticking"
    /\ seen' = [seen EXCEPT ![m] = network]
    /\ emitted' = IF Emits(network) THEN network ELSE emitted
    /\ Goto(m, "save_ip")
    /\ UNCHANGED <<environment, changes, ending, fields, warnings, resets>>

Write(m, place, next) ==
    /\ at[m] = place
    /\ Goto(m, next)
    /\ UNCHANGED <<environment, changes, ending, seen, batteryWarned, emitted, warnings, resets>>

SaveIP(m) ==
    /\ \/ Write(m, "save_ip", "save_net")
       \/ Write(m, "baseline_ip", "baseline_net")
    /\ prevIP' = seen[m].ip
    /\ UNCHANGED <<prevNet, prevOnline>>

SaveNet(m) ==
    /\ \/ Write(m, "save_net", "save_online")
       \/ Write(m, "baseline_net", "baseline_online")
    /\ prevNet' = seen[m].net
    /\ UNCHANGED <<prevIP, prevOnline>>

\* Mutant of SaveOnline: the field is set and never cleared.
SaveOnlineOnce(m) ==
    /\ \/ Write(m, "save_online", "battery")
       \/ Write(m, "baseline_online", "ticking")
    /\ prevOnline' = (prevOnline \/ seen[m].ip # "")
    /\ UNCHANGED <<prevIP, prevNet>>

SaveOnline(m) ==
    /\ \/ Write(m, "save_online", "battery")
       \/ Write(m, "baseline_online", "ticking")
    /\ prevOnline' = (seen[m].ip # "")
    /\ UNCHANGED <<prevIP, prevNet>>

\* checkBattery reads the battery and the flag, and emits.
Warn(m) ==
    /\ at[m] = "battery" /\ battery = "low" /\ ~batteryWarned
    /\ warnings' = [warnings EXCEPT ![m] = @ + 1]
    /\ Goto(m, "warned")
    /\ UNCHANGED <<environment, changes, ending, seen, fields, emitted, resets>>

NoticeCharge(m) ==
    /\ at[m] = "battery" /\ battery = "full"
    /\ Goto(m, "reset")
    /\ UNCHANGED <<environment, changes, ending, seen, fields, emitted, warnings, resets>>

LeaveBattery(m) ==
    /\ at[m] = "battery"
    /\ \/ battery \in {"middle", "absent"}
       \/ battery = "low" /\ batteryWarned
    /\ Goto(m, "ticking")
    /\ UNCHANGED <<environment, changes, ending, seen, fields, emitted, warnings, resets>>

\* Mutant of SetWarned: the flag is left as it is.
SetWarnedForgotten(m) ==
    /\ at[m] = "warned"
    /\ Goto(m, "ticking")
    /\ UNCHANGED <<environment, changes, ending, seen, fields, emitted, warnings, resets>>

SetWarned(m) ==
    /\ at[m] = "warned"
    /\ batteryWarned' = TRUE
    /\ Goto(m, "ticking")
    /\ UNCHANGED <<environment, changes, ending, seen, prevIP, prevNet, prevOnline,
                   emitted, warnings, resets>>

ClearWarned(m) ==
    /\ at[m] = "reset"
    /\ batteryWarned' = FALSE
    /\ resets' = IF batteryWarned THEN resets + 1 ELSE resets
    /\ Goto(m, "ticking")
    /\ UNCHANGED <<environment, changes, ending, seen, prevIP, prevNet, prevOnline,
                   emitted, warnings>>

EndMonitor(m) ==
    /\ at[m] = "ticking" /\ ending
    /\ Goto(m, "ended")
    /\ UNCHANGED <<environment, changes, ending, seen, fields, emitted, warnings, resets>>

\* What a goroutine that was started does next.
MonitorStep(m) ==
    \/ CheckNetwork(m)
    \/ SaveIP(m) \/ SaveNet(m) \/ SaveOnline(m)
    \/ Warn(m) \/ NoticeCharge(m) \/ LeaveBattery(m)
    \/ SetWarned(m) \/ ClearWarned(m)
    \/ EndMonitor(m)

MonitorNext ==
    \/ NetworkChanges \/ BatteryChanges \/ ProgramEnds
    \/ \E m \in Monitor : StartMonitor(m) \/ MonitorStep(m)

\* The ticker fires every ten seconds and the runtime schedules every goroutine.
MonitorSpec ==
    MonitorInit /\ [][MonitorNext]_monitorVars /\ \A m \in Monitor : WF_monitorVars(MonitorStep(m))

-----------------------------------------------------------------------------
(* Properties.                                                             *)

Settled ==
    ~ending /\ (\E m \in Monitor : at[m] # "none") =>
        /\ prevIP = network.ip /\ prevNet = network.net /\ prevOnline = (network.ip # "")
        /\ battery = "low" => batteryWarned
        /\ battery = "full" => ~batteryWarned

\* Once network and battery stay as they are, the fields that the goroutines share
\* come to agree with them and stay so, whatever the goroutines had read before and
\* in whatever order they write it: no monitor emits the same change for ever.
\* (monitor.go:69-73, 92-132)
MonitorsSettle == <>[][FALSE]_environment => <>[]Settled

\* A goroutine warns of a low battery once, and once more for every time that the
\* flag fell since, although it writes the flag after it has read it and others do
\* both in between. (monitor.go:117-132)
WarningsAreFew == \A m \in Monitor : warnings[m] <= 1 + resets

SameNetwork(n) == prevOnline = (n.ip # "") /\ prevIP = n.ip /\ (n.ip # "" => prevNet = n.net)

\* A monitor that runs alone, since the agent has connected only once, emits an event
\* for every change it sees: between two ticks, what was emitted last is what its fields
\* hold. Whether the server hears of it is another matter. (monitor.go:92-115)
OneMonitorEmitsAll ==
    \A m \in Monitor :
        (at[m] = "ticking" /\ \A other \in Monitor \ {m} : at[other] = "none")
            => SameNetwork(emitted)
=============================================================================
