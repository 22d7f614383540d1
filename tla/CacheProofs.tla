----------------------------- MODULE CacheProofs -----------------------------
(***************************************************************************)
(* The parts that keep a value from one call to the next and act on it     *)
(* later: the access token of the push client, the fields of the event     *)
(* monitor and the reading that the collectors keep. For any number of     *)
(* callers, goroutines and changes, and whatever lives tokens are given.   *)
(***************************************************************************)
EXTENDS AccessToken, EventMonitor, Metrics, TLAPS

-----------------------------------------------------------------------------
(* The access token.                                                       *)

LivesAreInt == \A life \in Lives : Life(life) \in Nat /\ Life(life) >= Patience

LEMMA LivesAreNumbers == LivesAreInt
  BY LivesAssumption, PatienceAssumption DEF LivesAreInt, Life

\* The token of the client is accepted at least as long as the client believes.
ExpiryIsEarly == expiry # NoToken => expiry <= valid

\* No context lasts longer than Patience from now, ...
DueIsNear == \A c \in Caller : place[c] # "idle" => due[c] <= now + Patience

\* ... nor, for the caller that requests a token, from the moment that it asked.
AskedEarly ==
    \A c \in Caller : place[c] = "asking" => asked <= now /\ due[c] <= asked + Patience

\* One request at a time: the time of asking is that of the one who asks.
OneAsks == \A c \in Caller : place[c] = "asking" => holder = c

HeldIsLong == \A c \in Caller : place[c] = "pushing" => due[c] <= until[c]

TokenInv == TokenTypeOK /\ ExpiryIsEarly /\ DueIsNear /\ AskedEarly /\ OneAsks /\ HeldIsLong

LEMMA TokenInvInit == TokenInit => TokenInv
  BY PatienceAssumption
     DEF TokenInit, TokenInv, TokenTypeOK, ExpiryIsEarly, DueIsNear, AskedEarly, OneAsks,
         HeldIsLong, NoToken

LEMMA TokenInvStep == TokenInv /\ [TokenNext]_tokenVars => TokenInv'
<1> SUFFICES ASSUME TokenInv, [TokenNext]_tokenVars PROVE TokenInv'
  OBVIOUS
<1> USE DEF TokenInv
<1> USE PatienceAssumption, NoCallerAssumption
<1>1. CASE TimePasses
  BY <1>1 DEF TimePasses, TokenTypeOK, ExpiryIsEarly, DueIsNear, AskedEarly, OneAsks, HeldIsLong
<1>2. ASSUME NEW c \in Caller, CallSendWake(c) PROVE TokenInv'
  BY <1>2 DEF CallSendWake, Goes, TokenTypeOK, ExpiryIsEarly, DueIsNear, AskedEarly, OneAsks,
              HeldIsLong
<1>3. ASSUME NEW c \in Caller, UseCached(c) PROVE TokenInv'
  <2>1. due[c] <= valid
    BY <1>3 DEF UseCached, Fresh, TokenTypeOK, ExpiryIsEarly, DueIsNear
  <2> QED
    BY <1>3, <2>1 DEF UseCached, Goes, TokenTypeOK, ExpiryIsEarly, DueIsNear, AskedEarly,
                      OneAsks, HeldIsLong
<1>4. ASSUME NEW c \in Caller, AskForToken(c) PROVE TokenInv'
  BY <1>4 DEF AskForToken, Goes, TokenTypeOK, ExpiryIsEarly, DueIsNear, AskedEarly, OneAsks,
              HeldIsLong
<1>5. ASSUME NEW c \in Caller, NEW life \in Lives, ReceiveToken(c, life) PROVE TokenInv'
  <2>1. Life(life) \in Nat /\ Life(life) >= Patience
    BY LivesAreNumbers DEF LivesAreInt
  <2>2. PICK made \in asked..now : valid' = made + Life(life)
    BY <1>5 DEF ReceiveToken
  <2>3. valid' \in Int /\ expiry' \in Int /\ expiry' <= valid' /\ due[c] <= valid'
    BY <1>5, <2>1, <2>2 DEF ReceiveToken, TokenTypeOK, AskedEarly
  <2>4. \A d \in Caller \ {c} : place[d] # "asking"
    BY <1>5 DEF ReceiveToken, OneAsks
  <2> QED
    BY <1>5, <2>3, <2>4 DEF ReceiveToken, Goes, TokenTypeOK, ExpiryIsEarly, DueIsNear,
                            AskedEarly, OneAsks, HeldIsLong
<1>6. ASSUME NEW c \in Caller, NoTokenComes(c) PROVE TokenInv'
  <2>1. \A d \in Caller \ {c} : place[d] # "asking"
    BY <1>6 DEF NoTokenComes, OneAsks
  <2> QED
    BY <1>6, <2>1 DEF NoTokenComes, Return, Goes, TokenTypeOK, ExpiryIsEarly, DueIsNear,
                      AskedEarly, OneAsks, HeldIsLong, NoToken
<1>7. ASSUME NEW c \in Caller, Push(c) PROVE TokenInv'
  BY <1>7 DEF Push, Return, Goes, TokenTypeOK, ExpiryIsEarly, DueIsNear, AskedEarly, OneAsks,
              HeldIsLong, NoToken
<1>8. CASE UNCHANGED tokenVars
  BY <1>8 DEF tokenVars, TokenTypeOK, ExpiryIsEarly, DueIsNear, AskedEarly, OneAsks, HeldIsLong
<1> QED
  BY <1>1, <1>2, <1>3, <1>4, <1>5, <1>6, <1>7, <1>8 DEF TokenNext

LEMMA TokenInvHolds == TokenSpec => []TokenInv
  BY TokenInvInit, TokenInvStep, PTL DEF TokenSpec

\* A push that may still be under way carries a token that is accepted: a cached token
\* has the margin before it, which no context outlasts, and a new one lives from the
\* request on, which the context began before. (fcm.go:121-235)
THEOREM UsedTokens == TokenSpec => []UsedTokensAreValid
<1>1. TokenInv => UsedTokensAreValid
  BY DEF TokenInv, TokenTypeOK, HeldIsLong, UsedTokensAreValid
<1> QED
  BY <1>1, TokenInvHolds, PTL

-----------------------------------------------------------------------------
(* The event monitor.                                                      *)

\* Whoever warns, and nobody else, writes the flag afterwards: a goroutine that has
\* warned as often as the flag fell, and once more, is about to write the flag or finds
\* it set.
WarnedAgain(m) == warnings[m] = 1 + resets => batteryWarned \/ at[m] = "warned"

WarnInv ==
    /\ warnings \in [Monitor -> Nat] /\ resets \in Nat
    /\ at \in [Monitor -> Places] /\ batteryWarned \in BOOLEAN
    /\ WarningsAreFew
    /\ \A m \in Monitor : WarnedAgain(m)

LEMMA WarnInvInit == MonitorInit => WarnInv
<1> SUFFICES ASSUME MonitorInit PROVE WarnInv
  OBVIOUS
<1>1. at \in [Monitor -> Places]
  BY DEF MonitorInit, Places
<1>2. warnings \in [Monitor -> Nat] /\ resets \in Nat
      /\ \A m \in Monitor : warnings[m] = 0 /\ resets = 0
  BY DEF MonitorInit
<1>3. batteryWarned \in BOOLEAN
  BY DEF MonitorInit
<1> QED
  BY <1>1, <1>2, <1>3 DEF WarnInv, WarningsAreFew, WarnedAgain

\* A step that neither warns nor writes the flag.
LEMMA WarnInvKept ==
    ASSUME WarnInv, NEW m \in Monitor, NEW p \in Places, at[m] # "warned",
           at' = [at EXCEPT ![m] = p],
           UNCHANGED <<warnings, resets, batteryWarned>>
    PROVE  WarnInv'
  BY DEF WarnInv, WarningsAreFew, WarnedAgain

LEMMA WarnInvStep == WarnInv /\ [MonitorNext]_monitorVars => WarnInv'
<1> SUFFICES ASSUME WarnInv, [MonitorNext]_monitorVars PROVE WarnInv'
  OBVIOUS
<1>1. CASE NetworkChanges \/ BatteryChanges \/ ProgramEnds
  BY <1>1 DEF NetworkChanges, BatteryChanges, ProgramEnds, fields, WarnInv, WarningsAreFew,
              WarnedAgain
<1>2. ASSUME NEW m \in Monitor, StartMonitor(m) \/ CheckNetwork(m) \/ NoticeCharge(m)
                                \/ LeaveBattery(m) \/ EndMonitor(m)
      PROVE  WarnInv'
  <2>1. PICK p \in Places : at' = [at EXCEPT ![m] = p] /\ at[m] # "warned"
    BY <1>2 DEF StartMonitor, CheckNetwork, NoticeCharge, LeaveBattery, EndMonitor, Goto,
                Places, BaselineSteps, CheckSteps
  <2> QED
    BY <1>2, <2>1, WarnInvKept
       DEF StartMonitor, CheckNetwork, NoticeCharge, LeaveBattery, EndMonitor, fields
<1>3. ASSUME NEW m \in Monitor, SaveIP(m) \/ SaveNet(m) \/ SaveOnline(m) PROVE WarnInv'
  <2>1. PICK p \in Places : at' = [at EXCEPT ![m] = p] /\ at[m] # "warned"
    BY <1>3 DEF SaveIP, SaveNet, SaveOnline, Write, Goto, Places, BaselineSteps, CheckSteps
  <2> QED
    BY <1>3, <2>1, WarnInvKept DEF SaveIP, SaveNet, SaveOnline, Write
<1>4. ASSUME NEW m \in Monitor, Warn(m) PROVE WarnInv'
  <2>1. warnings[m] < 1 + resets
    BY <1>4 DEF Warn, WarnInv, WarningsAreFew, WarnedAgain
  <2>2. "warned" \in Places
    BY DEF Places
  <2> QED
    BY <1>4, <2>1, <2>2 DEF Warn, Goto, fields, WarnInv, WarningsAreFew, WarnedAgain
<1>5. ASSUME NEW m \in Monitor, SetWarned(m) PROVE WarnInv'
  <2>1. "ticking" \in Places
    BY DEF Places
  <2> QED
    BY <1>5, <2>1 DEF SetWarned, Goto, WarnInv, WarningsAreFew, WarnedAgain
<1>6. ASSUME NEW m \in Monitor, ClearWarned(m) PROVE WarnInv'
  <2>1. at' \in [Monitor -> Places] /\ batteryWarned' \in BOOLEAN
    BY <1>6 DEF ClearWarned, Goto, WarnInv, Places
  <2>2. CASE batteryWarned
    <3>1. resets' = resets + 1 /\ warnings' = warnings
      BY <1>6, <2>2 DEF ClearWarned
    <3> QED
      BY <2>1, <3>1 DEF WarnInv, WarningsAreFew, WarnedAgain
  <2>3. CASE ~batteryWarned
    <3>1. resets' = resets /\ warnings' = warnings
      BY <1>6, <2>3 DEF ClearWarned
    <3>2. \A o \in Monitor : at[o] = "warned" => at'[o] = "warned"
      BY <1>6 DEF ClearWarned, Goto, WarnInv
    <3> QED
      BY <2>1, <2>3, <3>1, <3>2 DEF WarnInv, WarningsAreFew, WarnedAgain
  <2> QED
    BY <2>2, <2>3
<1>7. CASE UNCHANGED monitorVars
  BY <1>7 DEF monitorVars, fields, WarnInv, WarningsAreFew, WarnedAgain
<1> QED
  BY <1>1, <1>2, <1>3, <1>4, <1>5, <1>6, <1>7 DEF MonitorNext, MonitorStep

\* However the goroutines interleave their reads and writes of the flag, each warns once
\* and once more for every time that the flag fell. (monitor.go:117-132)
THEOREM FewWarnings == MonitorSpec => []WarningsAreFew
<1>1. WarnInv => WarningsAreFew
  BY DEF WarnInv
<1> QED
  BY <1>1, WarnInvInit, WarnInvStep, PTL DEF MonitorSpec

-----------------------------------------------------------------------------
\* Nobody but m was ever started.
Sole(m) == \A other \in Monitor \ {m} : at[other] = "none"

Agree(a, b) == a.ip = b.ip /\ (a.ip # "" => a.net = b.net)

\* While the only goroutine writes the three fields one after the other, they come to
\* hold what it has read, which is what was emitted last; afterwards they hold just that.
SoleKnows(m) ==
    /\ at[m] \in BaselineSteps \cup CheckSteps => Agree(emitted, seen[m])
    /\ at[m] \in (BaselineSteps \cup CheckSteps) \ {"save_ip", "baseline_ip"}
          => prevIP = seen[m].ip
    /\ at[m] \in {"save_online", "baseline_online"} => prevNet = seen[m].net
    /\ at[m] \in {"ticking", "battery", "warned", "reset"} => SameNetwork(emitted)

EmittedInv ==
    /\ at \in [Monitor -> Places] /\ DOMAIN seen = Monitor
    /\ \A m \in Monitor : Sole(m) => SoleKnows(m)

LEMMA EmittedInvInit == MonitorInit => EmittedInv
  BY DEF MonitorInit, EmittedInv, SoleKnows, Places, BaselineSteps, CheckSteps

\* A step of one goroutine leaves what it says of the others alone: they are either not
\* started or keep it from being the only one.
LEMMA SoleStep ==
    ASSUME EmittedInv, NEW m \in Monitor, NEW p \in Places \ {"none"},
           at' = [at EXCEPT ![m] = p], DOMAIN seen' = Monitor,
           Sole(m) => SoleKnows(m)'
    PROVE  EmittedInv'
<1>1. at' \in [Monitor -> Places] /\ at'[m] = p
      /\ \A o \in Monitor \ {m} : at'[o] = at[o]
  BY DEF EmittedInv
<1>2. ASSUME NEW o \in Monitor, Sole(o)' PROVE SoleKnows(o)'
  <2>1. o = m
    BY <1>1, <1>2 DEF Sole
  <2> QED
    BY <1>1, <1>2, <2>1 DEF Sole
<1> QED
  BY <1>1, <1>2 DEF EmittedInv

LEMMA EmittedInvStep == EmittedInv /\ [MonitorNext]_monitorVars => EmittedInv'
<1> SUFFICES ASSUME EmittedInv, [MonitorNext]_monitorVars PROVE EmittedInv'
  OBVIOUS
<1> USE DEF BaselineSteps, CheckSteps
<1>1. CASE NetworkChanges \/ BatteryChanges \/ ProgramEnds \/ UNCHANGED monitorVars
  <2>1. UNCHANGED <<at, seen, emitted, prevIP, prevNet, prevOnline>>
    BY <1>1 DEF NetworkChanges, BatteryChanges, ProgramEnds, monitorVars, fields
  <2> QED
    BY <2>1 DEF EmittedInv, Sole, SoleKnows, SameNetwork, Agree
<1>2. ASSUME NEW m \in Monitor, StartMonitor(m) PROVE EmittedInv'
  <2>1. "baseline_ip" \in Places \ {"none"} /\ at' = [at EXCEPT ![m] = "baseline_ip"]
        /\ at'[m] = "baseline_ip" /\ seen'[m] = network /\ emitted' = network
        /\ DOMAIN seen' = Monitor
    BY <1>2 DEF StartMonitor, Goto, Places, EmittedInv
  <2>2. SoleKnows(m)'
    BY <2>1 DEF SoleKnows, Agree
  <2> QED
    BY <2>1, <2>2, SoleStep
<1>3. ASSUME NEW m \in Monitor, CheckNetwork(m) PROVE EmittedInv'
  <2>1. "save_ip" \in Places \ {"none"} /\ at' = [at EXCEPT ![m] = "save_ip"]
        /\ at'[m] = "save_ip" /\ seen'[m] = network /\ DOMAIN seen' = Monitor
    BY <1>3 DEF CheckNetwork, Goto, Places, EmittedInv
  <2>2. ASSUME Sole(m) PROVE Agree(emitted', network)
    <3>1. SameNetwork(emitted)
      BY <1>3, <2>2 DEF CheckNetwork, EmittedInv, SoleKnows
    <3>2. CASE Emits(network)
      BY <1>3, <3>2 DEF CheckNetwork, Agree
    <3>3. CASE ~Emits(network)
      <4>1. emitted' = emitted
        BY <1>3, <3>3 DEF CheckNetwork
      <4> QED
        BY <3>1, <3>3, <4>1 DEF Emits, SameNetwork, Agree
    <3> QED
      BY <3>2, <3>3
  <2>3. Sole(m) => SoleKnows(m)'
    BY <2>1, <2>2 DEF SoleKnows
  <2> QED
    BY <2>1, <2>3, SoleStep
<1>4. ASSUME NEW m \in Monitor, SaveIP(m) PROVE EmittedInv'
  <2>1. PICK p \in {"save_net", "baseline_net"} : at' = [at EXCEPT ![m] = p]
    BY <1>4 DEF SaveIP, Write, Goto
  <2>2. p \in Places \ {"none"} /\ at'[m] = p /\ DOMAIN seen' = Monitor
    BY <1>4, <2>1 DEF SaveIP, Write, EmittedInv, Places
  <2>3. Sole(m) => SoleKnows(m)'
    BY <1>4, <2>1, <2>2 DEF SaveIP, Write, EmittedInv, SoleKnows, Agree
  <2> QED
    BY <2>1, <2>2, <2>3, SoleStep
<1>5. ASSUME NEW m \in Monitor, SaveNet(m) PROVE EmittedInv'
  <2>1. PICK p \in {"save_online", "baseline_online"} : at' = [at EXCEPT ![m] = p]
    BY <1>5 DEF SaveNet, Write, Goto
  <2>2. p \in Places \ {"none"} /\ at'[m] = p /\ DOMAIN seen' = Monitor
    BY <1>5, <2>1 DEF SaveNet, Write, EmittedInv, Places
  <2>3. Sole(m) => SoleKnows(m)'
    BY <1>5, <2>1, <2>2 DEF SaveNet, Write, EmittedInv, SoleKnows, Agree
  <2> QED
    BY <2>1, <2>2, <2>3, SoleStep
<1>6. ASSUME NEW m \in Monitor, SaveOnline(m) PROVE EmittedInv'
  <2>1. PICK p \in {"battery", "ticking"} : at' = [at EXCEPT ![m] = p]
    BY <1>6 DEF SaveOnline, Write, Goto
  <2>2. p \in Places \ {"none"} /\ at'[m] = p /\ DOMAIN seen' = Monitor
    BY <1>6, <2>1 DEF SaveOnline, Write, EmittedInv, Places
  <2>3. ASSUME Sole(m) PROVE SameNetwork(emitted)'
    <3>1. Agree(emitted, seen[m]) /\ prevIP = seen[m].ip /\ prevNet = seen[m].net
      BY <1>6, <2>3 DEF SaveOnline, Write, EmittedInv, SoleKnows
    <3> QED
      BY <1>6, <3>1 DEF SaveOnline, Write, Agree, SameNetwork
  <2>4. Sole(m) => SoleKnows(m)'
    BY <2>2, <2>3 DEF SoleKnows
  <2> QED
    BY <2>1, <2>2, <2>4, SoleStep
<1>7. ASSUME NEW m \in Monitor, Warn(m) \/ NoticeCharge(m) \/ LeaveBattery(m)
                                \/ SetWarned(m) \/ ClearWarned(m) \/ EndMonitor(m)
      PROVE  EmittedInv'
  <2>1. PICK p \in {"warned", "reset", "ticking", "ended"} : at' = [at EXCEPT ![m] = p]
    BY <1>7 DEF Warn, NoticeCharge, LeaveBattery, SetWarned, ClearWarned, EndMonitor, Goto
  <2>2. /\ p \in Places \ {"none"} /\ at'[m] = p /\ DOMAIN seen' = Monitor
        /\ at[m] \in {"ticking", "battery", "warned", "reset"}
        /\ UNCHANGED <<emitted, prevIP, prevNet, prevOnline>>
    BY <1>7, <2>1 DEF Warn, NoticeCharge, LeaveBattery, SetWarned, ClearWarned, EndMonitor,
                      fields, EmittedInv, Places
  <2>3. Sole(m) => SoleKnows(m)'
    BY <2>2 DEF EmittedInv, SoleKnows, SameNetwork
  <2> QED
    BY <2>1, <2>2, <2>3, SoleStep
<1> QED
  BY <1>1, <1>2, <1>3, <1>4, <1>5, <1>6, <1>7 DEF MonitorNext, MonitorStep

\* A monitor that runs alone has emitted last what its fields hold
\* between two ticks, whenever the network changed. (monitor.go:92-115)
THEOREM SoleMonitorEmits == MonitorSpec => []OneMonitorEmitsAll
<1>1. EmittedInv => OneMonitorEmitsAll
  BY DEF EmittedInv, Sole, SoleKnows, OneMonitorEmitsAll
<1> QED
  BY <1>1, EmittedInvInit, EmittedInvStep, PTL DEF MonitorSpec

-----------------------------------------------------------------------------
(* The collectors.                                                         *)

\* What a counter of this width makes of a small difference, and of one below zero.
LEMMA WrapOfSmall ==
    /\ 2^Width \in Int /\ 2 * MaxTicks < 2^Width
    /\ \A n \in Int : 0 <= n /\ n < 2^Width => Wrap(n) = n
    /\ \A n \in Int : n < 0 /\ n + 2^Width >= 0 => Wrap(n) = n + 2^Width
<1> DEFINE modulus == 2^Width
<1>1. 2 * MaxTicks < modulus /\ MaxTicks \in Nat
  BY WidthAssumption
<1>2. modulus \in Int
  BY WidthAssumption
<1> HIDE DEF modulus
<1>3. modulus \in Nat \ {0}
  BY <1>1, <1>2
<1>4. ASSUME NEW n \in Int, 0 <= n, n < modulus
      PROVE  n % modulus = n
  BY <1>3, <1>4
<1>5. ASSUME NEW n \in Int, n < 0, n + modulus >= 0
      PROVE  n % modulus = n + modulus
  BY <1>3, <1>5
<1> QED
  BY <1>1, <1>2, <1>4, <1>5 DEF Wrap, modulus

LEMMA ShareIsPercentage ==
    ASSUME NEW idle \in Int, NEW total \in Int, idle >= 0, total > 0
    PROVE  Share(idle, total) \in 0..100
<1>1. CASE idle > total
  BY <1>1 DEF Share
<1>2. CASE idle <= total
  <2> DEFINE busy == total - idle
  <2>1. busy \in Nat /\ busy <= total
    BY <1>2
  <2> HIDE DEF busy
  <2>2. (100 * busy) \div total \in 0..100
    BY <2>1
  <2> QED
    BY <1>2, <2>2 DEF Share, busy
<1> QED
  BY <1>1, <1>2

\* The reading that is kept is where the interval began, whether a reading was made then
\* or not: the counters have grown since by what the history says. The idle counter goes
\* back on Linux only.
IntervalInv ==
    /\ CpuTypeOK
    /\ idleSince = idleTicks - prevIdle
    /\ busySince = busyTicks - (prevTotal - prevIdle)
    /\ prevTotal - prevIdle \in 0..MaxTicks
    /\ platform = "windows" => idleSince >= 0
    /\ UsageCoversItsInterval

\* The answer that this interval deserves, from the counters of this width.
LEMMA AnswerOfInterval ==
    ASSUME IntervalInv, platform = "windows" \/ Total > prevTotal
    PROVE  LET u == UsageOf(Wrap(idleTicks - prevIdle), Wrap(Total - prevTotal))
           IN /\ u \in 0..100
              /\ u = IF idleSince < 0 THEN 0 ELSE UsageOf(idleSince, idleSince + busySince)
<1> DEFINE modulus == 2^Width
           total == idleSince + busySince
<1>1. /\ idleTicks \in 0..MaxTicks /\ busyTicks \in 0..MaxTicks
      /\ prevIdle \in 0..MaxTicks /\ prevTotal - prevIdle \in 0..MaxTicks
      /\ idleSince \in Int /\ busySince \in Nat /\ prevTotal \in Int
  BY DEF IntervalInv, CpuTypeOK
<1>2. modulus \in Int /\ 2 * MaxTicks < modulus /\ MaxTicks \in Nat
  BY WrapOfSmall, WidthAssumption
<1> HIDE DEF modulus
<1>3. idleTicks - prevIdle = idleSince /\ Total - prevTotal = total
      /\ busySince <= MaxTicks /\ idleSince <= MaxTicks /\ idleSince >= -MaxTicks
      /\ total < modulus
  BY <1>1, <1>2 DEF IntervalInv, Total
<1>4. total >= 0 /\ (idleSince < 0 => total > 0)
  <2>1. platform = "windows" => idleSince >= 0
    BY DEF IntervalInv
  <2>2. Total > prevTotal => total > 0
    BY <1>1, <1>3 DEF Total
  <2> QED
    BY <1>1, <2>1, <2>2
<1>5. Wrap(total) = total
  <2>1. total \in Int /\ 0 <= total /\ total < 2^Width
    BY <1>1, <1>3, <1>4 DEF modulus
  <2> HIDE DEF total
  <2> QED
    BY <2>1, WrapOfSmall, Zenon
<1>6. CASE idleSince >= 0
  <2>1. Wrap(idleSince) = idleSince
    <3>1. idleSince \in Int /\ 0 <= idleSince /\ idleSince < 2^Width
      BY <1>1, <1>2, <1>3, <1>6 DEF modulus
    <3> QED
      BY <3>1, WrapOfSmall, Zenon
  <2>2. UsageOf(idleSince, total) \in 0..100
    <3>1. CASE total = 0
      BY <3>1 DEF UsageOf
    <3>2. CASE total > 0
      <4>1. total \in Int
        BY <1>1
      <4>2. Share(idleSince, total) \in 0..100
        BY <1>1, <1>6, <3>2, <4>1, ShareIsPercentage
      <4> QED
        BY <3>2, <4>2 DEF UsageOf
    <3> QED
      BY <1>1, <1>4, <3>1, <3>2
  <2> QED
    BY <1>1, <1>3, <1>5, <1>6, <2>1, <2>2
<1>7. CASE idleSince < 0
  <2>1. Wrap(idleSince) = idleSince + modulus
    <3>1. idleSince \in Int /\ idleSince < 0 /\ idleSince + 2^Width >= 0
      BY <1>1, <1>2, <1>3, <1>7 DEF modulus
    <3> QED
      BY <3>1, WrapOfSmall, Zenon DEF modulus
  <2>2. idleSince + modulus > total /\ total # 0
    BY <1>1, <1>2, <1>3, <1>4, <1>7
  <2>3. UsageOf(idleSince + modulus, total) = 0
    BY <2>2 DEF UsageOf, Share
  <2> QED
    BY <1>3, <1>5, <1>7, <2>1, <2>3
<1> QED
  BY <1>1, <1>6, <1>7

LEMMA IntervalInvInit == CpuInit => IntervalInv
<1> SUFFICES ASSUME CpuInit
             PROVE  IntervalInv
  OBVIOUS
<1>1. MaxTicks \in Nat /\ MaxTicks >= 1
  BY WidthAssumption
<1>2. CpuTypeOK /\ UsageCoversItsInterval
  BY <1>1 DEF CpuInit, CpuTypeOK, UsageCoversItsInterval, NoUsage, Total
<1> QED
  BY <1>1, <1>2 DEF CpuInit, IntervalInv, Total

\* A collection that keeps its reading, or finds nothing new, or fails.
LEMMA CollectKeeps ==
    ASSUME IntervalInv,
           CollectLinux \/ CollectWindows \/ CollectLinuxNothing \/ CollectUnread
    PROVE  IntervalInv'
<1> USE DEF IntervalInv
<1>1. MaxTicks \in Nat /\ MaxTicks >= 1
  BY WidthAssumption
<1>2. UNCHANGED <<platform, idleTicks, busyTicks>>
  BY DEF CollectLinux, CollectWindows, CollectLinuxNothing, CollectUnread, Answers, counters
<1>3. CASE CollectLinux \/ CollectWindows
  <2>1. platform = "windows" \/ Total > prevTotal
    BY <1>3 DEF CollectLinux, CollectWindows
  <2>2. /\ usage' \in 0..100
        /\ usage' = IF idleSince < 0 THEN 0 ELSE UsageOf(idleSince, idleSince + busySince)
    BY <1>3, <2>1, AnswerOfInterval DEF CollectLinux, CollectWindows, Answers
  <2>3. answered' = [idle |-> idleSince, busy |-> busySince]
        /\ prevIdle' = idleTicks /\ prevTotal' = Total /\ idleSince' = 0 /\ busySince' = 0
    BY <1>3 DEF CollectLinux, CollectWindows, Answers, Keep, StartInterval
  <2>4. UsageCoversItsInterval'
    BY <2>2, <2>3 DEF UsageCoversItsInterval
  <2>5. CpuTypeOK'
    BY <1>1, <1>2, <2>2, <2>3 DEF CpuTypeOK, Total
  <2> QED
    BY <1>1, <1>2, <2>3, <2>4, <2>5 DEF CpuTypeOK, Total
<1>4. CASE CollectLinuxNothing
  <2>1. /\ usage' = 0 /\ answered' = [idle |-> idleSince, busy |-> busySince]
        /\ UNCHANGED <<prevIdle, prevTotal, idleSince, busySince>> /\ Total <= prevTotal
    BY <1>4 DEF CollectLinuxNothing, Answers, collector
  <2>2. idleSince < 0 \/ (idleSince = 0 /\ busySince = 0)
    BY <2>1 DEF CpuTypeOK, Total
  <2>3. UsageCoversItsInterval'
    BY <2>1, <2>2 DEF UsageCoversItsInterval, UsageOf
  <2>4. CpuTypeOK'
    BY <1>2, <2>1 DEF CpuTypeOK
  <2> QED
    BY <1>2, <2>1, <2>3, <2>4
<1>5. CASE CollectUnread
  <2>1. /\ usage' = 0 /\ answered' = [idle |-> 0, busy |-> 0]
        /\ UNCHANGED <<prevIdle, prevTotal, idleSince, busySince>>
    BY <1>5 DEF CollectUnread, collector
  <2>2. UsageCoversItsInterval'
    BY <2>1 DEF UsageCoversItsInterval, UsageOf
  <2>3. CpuTypeOK'
    BY <1>2, <2>1 DEF CpuTypeOK
  <2> QED
    BY <1>2, <2>1, <2>2, <2>3
<1> QED
  BY <1>3, <1>4, <1>5

LEMMA IntervalInvStep == IntervalInv /\ [CpuNext]_cpuVars => IntervalInv'
<1> SUFFICES ASSUME IntervalInv, [CpuNext]_cpuVars
             PROVE  IntervalInv'
  OBVIOUS
<1> USE DEF IntervalInv
<1>1. CASE Idles \/ Works \/ Slips
  <2>1. UNCHANGED <<platform, prevIdle, prevTotal, usage, answered>>
    BY <1>1 DEF Idles, Works, Slips, collector
  <2>2. UsageCoversItsInterval'
    BY <2>1 DEF UsageCoversItsInterval
  <2>3. /\ idleTicks' \in 0..MaxTicks /\ busyTicks' \in 0..MaxTicks
        /\ idleSince' \in Int /\ busySince' \in Nat
    BY <1>1, WidthAssumption DEF Idles, Works, Slips, CpuTypeOK
  <2>4. CpuTypeOK'
    BY <2>1, <2>3 DEF CpuTypeOK
  <2>5. /\ idleSince' = idleTicks' - prevIdle
        /\ busySince' = busyTicks' - (prevTotal - prevIdle)
        /\ platform = "windows" => idleSince' >= 0
    <3>1. CASE Idles
      BY <3>1 DEF Idles, CpuTypeOK
    <3>2. CASE Works
      BY <3>2 DEF Works, CpuTypeOK
    <3>3. CASE Slips
      BY <3>3 DEF Slips, CpuTypeOK
    <3> QED
      BY <1>1, <3>1, <3>2, <3>3
  <2> QED
    BY <2>1, <2>2, <2>4, <2>5
<1>2. CASE UNCHANGED cpuVars
  BY <1>2 DEF cpuVars, counters, collector, CpuTypeOK, UsageCoversItsInterval
<1> QED
  BY <1>1, <1>2, CollectKeeps DEF CpuNext

LEMMA IntervalHolds == CpuSpec => []IntervalInv
  BY IntervalInvInit, IntervalInvStep, PTL DEF CpuSpec

\* Every usage that is reported is the share of the ticks that were busy since the reading
\* kept last, whatever readings failed or went back, for counters of any width.
\* (linux metrics.go:119-146, windows metrics.go:94-130)
THEOREM UsageOfInterval == CpuSpec => []UsageCoversItsInterval
<1>1. IntervalInv => UsageCoversItsInterval
  BY DEF IntervalInv
<1> QED
  BY <1>1, IntervalHolds, PTL

\* And it is a percentage: no wrapped difference of the counters shows in it.
\* (linux metrics.go:119-146, windows metrics.go:94-130)
THEOREM UsageIsPercentage == CpuSpec => []CpuTypeOK
<1>1. IntervalInv => CpuTypeOK
  BY DEF IntervalInv
<1> QED
  BY <1>1, IntervalHolds, PTL
=============================================================================
