------------------------------- MODULE Metrics -------------------------------
(***************************************************************************)
(* The processor usage that the collectors of the desktop agents report    *)
(* (internal/metrics/metrics.go): the difference of two readings of the    *)
(* system's counters, the earlier one kept in the collector. The telemetry *)
(* ticker and the handlers of collect_telemetry call it at any time; each  *)
(* call holds the mutex of the collector.                                  *)
(* Counters are unsigned and wrap. Percents are whole numbers here.        *)
(***************************************************************************)
EXTENDS Integers

CONSTANTS
    Width,      \* bits of a counter: 64
    MaxTicks    \* bound on the counters, below 2^Width

ASSUME WidthAssumption == Width \in Nat /\ MaxTicks \in Nat \ {0} /\ 2 * MaxTicks < 2^Width

VARIABLES
    platform,       \* "linux" or "windows"
    idleTicks,      \* the system's counters: idle, with iowait on Linux ...
    busyTicks,      \* ... and the rest
    prevIdle, prevTotal,    \* fields of the collector; prevTotal is kernel + user on Windows
    idleSince, busySince,   \* what the counters have grown since the last reading
    usage,          \* the last answer, NoUsage before
    answered        \* what it should tell: [idle, busy] at that moment

counters == <<platform, idleTicks, busyTicks>>
collector == <<prevIdle, prevTotal>>
cpuVars == <<counters, collector, idleSince, busySince, usage, answered>>

NoUsage == -1
Wrap(n) == n % 2^Width
Total == idleTicks + busyTicks

CpuTypeOK ==
    /\ platform \in {"linux", "windows"}
    /\ idleTicks \in 0..MaxTicks /\ busyTicks \in 0..MaxTicks
    /\ prevIdle \in 0..MaxTicks /\ prevTotal \in 0..2 * MaxTicks
    /\ idleSince \in Int /\ busySince \in Nat
    /\ usage \in {NoUsage} \cup 0..100
    /\ answered \in [idle : Int, busy : Nat]

\* NewCollector. A reading that fails leaves zeros, as if the system had just started.
CpuInit ==
    /\ platform \in {"linux", "windows"}
    /\ idleTicks \in 0..1 /\ busyTicks \in 0..1
    /\ \/ prevIdle = idleTicks /\ prevTotal = Total /\ idleSince = 0 /\ busySince = 0
       \/ prevIdle = 0 /\ prevTotal = 0 /\ idleSince = idleTicks /\ busySince = busyTicks
    /\ usage = NoUsage
    /\ answered = [idle |-> 0, busy |-> 0]

Idles ==
    /\ idleTicks < MaxTicks
    /\ idleTicks' = idleTicks + 1 /\ idleSince' = idleSince + 1
    /\ UNCHANGED <<platform, busyTicks, collector, busySince, usage, answered>>

Works ==
    /\ busyTicks < MaxTicks
    /\ busyTicks' = busyTicks + 1 /\ busySince' = busySince + 1
    /\ UNCHANGED <<platform, idleTicks, collector, idleSince, usage, answered>>

\* The counter of iowait may go back on Linux.
Slips ==
    /\ platform = "linux" /\ idleTicks > 0
    /\ idleTicks' = idleTicks - 1 /\ idleSince' = idleSince - 1
    /\ UNCHANGED <<platform, busyTicks, collector, busySince, usage, answered>>

\* The share of the ticks that were not idle.
Share(idle, total) == IF idle > total THEN 0 ELSE (100 * (total - idle)) \div total

\* The two calculations agree but for what they do when the total has not grown: an
\* older reading is kept on Linux, and the difference wraps on Windows.
UsageOf(idleDelta, totalDelta) == IF totalDelta = 0 THEN 0 ELSE Share(idleDelta, totalDelta)

Answers(u) ==
    /\ usage' = u
    /\ answered' = [idle |-> idleSince, busy |-> busySince]
    /\ UNCHANGED counters

\* Mutant of Keep: the idle counter is left behind.
KeepTotal == prevTotal' = Total /\ UNCHANGED prevIdle

Keep == prevIdle' = idleTicks /\ prevTotal' = Total

StartInterval == idleSince' = 0 /\ busySince' = 0

CollectLinux ==
    /\ platform = "linux" /\ Total > prevTotal
    /\ Answers(UsageOf(Wrap(idleTicks - prevIdle), Wrap(Total - prevTotal)))
    /\ Keep
    /\ StartInterval

CollectLinuxNothing ==
    /\ platform = "linux" /\ Total <= prevTotal
    /\ Answers(0)
    /\ UNCHANGED <<collector, idleSince, busySince>>

CollectWindows ==
    /\ platform = "windows"
    /\ Answers(UsageOf(Wrap(idleTicks - prevIdle), Wrap(Total - prevTotal)))
    /\ Keep
    /\ StartInterval

\* /proc/stat cannot be opened, or GetSystemTimes fails: nothing is kept.
CollectUnread ==
    /\ usage' = 0
    /\ answered' = [idle |-> 0, busy |-> 0]
    /\ UNCHANGED <<counters, collector, idleSince, busySince>>

CpuNext ==
    \/ Idles \/ Works \/ Slips
    \/ CollectLinux \/ CollectLinuxNothing \/ CollectWindows \/ CollectUnread

CpuSpec == CpuInit /\ [][CpuNext]_cpuVars

-----------------------------------------------------------------------------
\* Whatever readings failed, or went back before, an answer is a percentage, and it is
\* the share of the ticks that were busy since the last reading that was kept, not
\* since another one or since the start; a counter that has gone back makes it 0.
\* (linux metrics.go:119-146, windows metrics.go:94-130)
UsageCoversItsInterval ==
    usage # NoUsage =>
        usage = IF answered.idle < 0 THEN 0
                ELSE UsageOf(answered.idle, answered.idle + answered.busy)
=============================================================================
