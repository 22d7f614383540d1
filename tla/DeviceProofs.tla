---------------------------- MODULE DeviceProofs ----------------------------
(***************************************************************************)
(* What is stored of devices, and what the HTTP API does about them, for   *)
(* any number of devices, connections and requests, and any number of      *)
(* statements that fail and of restarts.                                   *)
(***************************************************************************)
EXTENDS HttpRequests, TLAPS

-----------------------------------------------------------------------------
(* Connections and rows.                                                   *)

\* What readPump relies on between two steps: a connection speaks for the device whose
\* agent opened it.
ConnKnows(k) ==
    /\ devOf[k] \in {None, agent[k]}
    /\ IF reader[k] = "unused" THEN devOf[k] = None ELSE agent[k] \in Device
    /\ reader[k] \in {"profiling", "adding", "removing", "leaving"} => devOf[k] \in Device

\* What the row of a device tells: no row is offline, and who wrote its status last was
\* opened by its agent and, if the status is "online", is not over.
RowKnows(d) ==
    /\ ~Known(d) => status[d] = "offline"
    /\ by[d] # None => agent[by[d]] = d /\ reader[by[d]] # "unused"
    /\ status[d] = "online" /\ by[d] # None => reader[by[d]] # "ended" \/ by[d] \in unmarked

DeviceInv ==
    /\ RecordsTypeOK
    /\ \A k \in Conn : ConnKnows(k)
    /\ \A d \in Device : RowKnows(d)

RowsTypeOK ==
    /\ details \in [Device -> Details]
    /\ status \in [Device -> {"online", "offline"}]
    /\ by \in [Device -> Conn \cup {None}]
    /\ troubles \in Nat

\* A statement that fails leaves the types alone, ...
LEMMA FailTyped == RecordsTypeOK /\ Fails => RowsTypeOK'
  BY DEF Fails, Trouble, dbVars, RecordsTypeOK, RowsTypeOK

\* ... and so does one that replaces a row, ...
LEMMA UpsertTyped ==
    ASSUME RecordsTypeOK, NEW d \in Device, NEW w \in Conn \cup {None},
           NEW as \in {"placeholder", "registered"}, UpsertDevice(d, as, w)
    PROVE  RowsTypeOK'
<1>1. as \in Details
  BY DEF Details
<1>2. CASE Works /\ Upsert(d, as, w)
  BY <1>1, <1>2 DEF Upsert, Works, RecordsTypeOK, RowsTypeOK
<1> QED
  BY <1>2, FailTyped DEF UpsertDevice

\* ... or sets a status.
LEMMA StatusTyped ==
    ASSUME RecordsTypeOK, NEW d, NEW w \in Conn \cup {None},
           NEW s \in {"online", "offline"}, UpdateDeviceStatus(d, s, w)
    PROVE  RowsTypeOK'
<1>1. CASE Works /\ SetStatus(d, s, w)
  BY <1>1 DEF SetStatus, Works, RecordsTypeOK, RowsTypeOK
<1> QED
  BY <1>1, FailTyped DEF UpdateDeviceStatus

LEMMA DeviceInvInit == Init => DeviceInv
  BY NoneAssumption DEF Init, DeviceInv, RecordsTypeOK, ConnKnows, RowKnows, Known, Details, Stage

\* A connection moves on; the rows are left alone.
LEMMA ReaderMoves ==
    ASSUME DeviceInv, UNCHANGED <<dbVars, by>>,
           clients' \in [Device -> Conn \cup {None}], troubles' \in Nat,
           NEW k \in Conn, NEW p \in Stage \ {"unused"},
           reader' = [reader EXCEPT ![k] = p],
           reader[k] # "unused", UNCHANGED <<agent, devOf>>,
           link' \in [Conn -> BOOLEAN], mark' \in [Conn -> {"online", "offline"}],
           p \in {"profiling", "adding", "removing", "leaving"} => devOf[k] \in Device,
           unmarked \subseteq unmarked', unmarked' \subseteq Conn,
           p = "ended" => k \in unmarked'
    PROVE  DeviceInv'
<1>1. RecordsTypeOK'
  BY DEF DeviceInv, RecordsTypeOK, dbVars
<1>2. ASSUME NEW c \in Conn PROVE ConnKnows(c)'
  BY <1>1 DEF DeviceInv, RecordsTypeOK, ConnKnows
<1>3. ASSUME NEW d \in Device PROVE RowKnows(d)'
  BY <1>1 DEF DeviceInv, RecordsTypeOK, RowKnows, Known, dbVars
<1> QED
  BY <1>1, <1>2, <1>3 DEF DeviceInv

\* A connection writes the row of its device.
LEMMA ReaderWrites ==
    ASSUME DeviceInv, NEW k \in Conn, NEW p \in {"reading", "profiling", "marking"},
           reader' = [reader EXCEPT ![k] = p], reader[k] \notin {"unused", "ended"},
           UNCHANGED <<agent, clients, unmarked>>,
           devOf' \in [Conn -> Device \cup {None}],
           \A c \in Conn \ {k} : devOf'[c] = devOf[c],
           devOf'[k] \in {devOf[k], agent[k]},
           p = "profiling" => devOf'[k] = agent[k],
           link' \in [Conn -> BOOLEAN], mark' \in [Conn -> {"online", "offline"}],
           NEW s \in {"online", "offline"}, NEW as \in {"placeholder", "registered"},
           UpsertDevice(agent[k], as, k) \/ UpdateDeviceStatus(devOf[k], s, k)
    PROVE  DeviceInv'
<1>0. agent[k] \in Device /\ (devOf[k] \in Device => devOf[k] = agent[k])
  BY NoneAssumption DEF DeviceInv, ConnKnows, RecordsTypeOK
<1>1. RecordsTypeOK'
  <2>1. RowsTypeOK'
    BY <1>0, UpsertTyped, StatusTyped DEF DeviceInv
  <2>2. reader' \in [Conn -> Stage]
    BY DEF DeviceInv, RecordsTypeOK, Stage
  <2> QED
    BY <2>1, <2>2 DEF DeviceInv, RecordsTypeOK, RowsTypeOK
<1>2. ASSUME NEW c \in Conn PROVE ConnKnows(c)'
  BY <1>0 DEF DeviceInv, RecordsTypeOK, ConnKnows
<1>3. ASSUME NEW d \in Device PROVE RowKnows(d)'
  <2>1. RowKnows(d) /\ \A c \in Conn : reader'[c] = IF c = k THEN p ELSE reader[c]
    BY DEF DeviceInv, RecordsTypeOK
  <2>2. CASE UNCHANGED <<dbVars, by>>
    BY <2>1, <2>2 DEF RowKnows, Known, dbVars, DeviceInv, RecordsTypeOK
  <2>3. CASE Upsert(agent[k], as, k)
    <3>1. CASE d = agent[k]
      BY <2>1, <2>3, <3>1 DEF RowKnows, Known, Upsert, DeviceInv, RecordsTypeOK
    <3>2. CASE d # agent[k]
      BY <2>1, <2>3, <3>2 DEF RowKnows, Known, Upsert, DeviceInv, RecordsTypeOK
    <3> QED
      BY <3>1, <3>2
  <2>4. CASE SetStatus(devOf[k], s, k)
    BY <1>0, <2>1, <2>4 DEF RowKnows, Known, SetStatus, DeviceInv, RecordsTypeOK
  <2> QED
    BY <2>2, <2>3, <2>4 DEF UpsertDevice, UpdateDeviceStatus, Fails
<1> QED
  BY <1>1, <1>2, <1>3 DEF DeviceInv


LEMMA DeviceInvConn ==
    ASSUME DeviceInv, ConnNext PROVE DeviceInv'
<1>1. ASSUME NEW k \in Conn, NEW d \in Device, HandleWebSocket(k, d) PROVE DeviceInv'
  <2>1. RecordsTypeOK'
    BY <1>1 DEF HandleWebSocket, Step, dbVars, DeviceInv, RecordsTypeOK, Stage
  <2>2. ASSUME NEW c \in Conn PROVE ConnKnows(c)'
    <3>1. devOf[k] = None
      BY <1>1 DEF HandleWebSocket, Step, DeviceInv, ConnKnows
    <3> QED
      BY <1>1, <3>1 DEF HandleWebSocket, Step, DeviceInv, RecordsTypeOK, ConnKnows
  <2>3. ASSUME NEW x \in Device PROVE RowKnows(x)'
    BY <1>1 DEF HandleWebSocket, Step, dbVars, DeviceInv, RecordsTypeOK, RowKnows, Known
  <2> QED
    BY <2>1, <2>2, <2>3 DEF DeviceInv
<1>2. ASSUME NEW k \in Conn, LinkBreaks(k) PROVE DeviceInv'
  BY <1>2 DEF LinkBreaks, dbVars, DeviceInv, RecordsTypeOK, ConnKnows, RowKnows, Known
<1>3. ASSUME NEW k \in Conn, ReadRegister(k) PROVE DeviceInv'
  <2>1. /\ devOf' \in [Conn -> Device \cup {None}] /\ devOf'[k] = agent[k]
        /\ \A c \in Conn \ {k} : devOf'[c] = devOf[c]
    BY <1>3 DEF ReadRegister, DeviceInv, RecordsTypeOK
  <2> QED
    BY <1>3, <2>1, ReaderWrites
       DEF ReadRegister, Reading, Step, DeviceInv, RecordsTypeOK
<1>4. ASSUME NEW k \in Conn, ReadReport(k) PROVE DeviceInv'
  <2>1. mark' \in [Conn -> {"online", "offline"}]
    BY <1>4 DEF ReadReport, DeviceInv, RecordsTypeOK
  <2> QED
    BY <1>4, <2>1, ReaderWrites
       DEF ReadReport, Reading, Step, EnsureDeviceExists, DeviceInv, RecordsTypeOK
<1>5. ASSUME NEW k \in Conn, ReadForward(k) PROVE DeviceInv'
  <2>1. reader' = [reader EXCEPT ![k] = "reading"]
    BY <1>5 DEF ReadForward, Reading, connVars, DeviceInv, RecordsTypeOK
  <2> QED
    BY <1>5, <2>1, ReaderWrites
       DEF ReadForward, Reading, connVars, EnsureDeviceExists, DeviceInv, RecordsTypeOK
<1>6. ASSUME NEW k \in Conn, StoreProfile(k) PROVE DeviceInv'
  <2>1. troubles' \in Nat /\ UNCHANGED <<dbVars, by>>
    BY <1>6 DEF StoreProfile, Fails, Trouble, Works, DeviceInv, RecordsTypeOK
  <2>2. "adding" \in Stage \ {"unused"} /\ devOf[k] \in Device
    BY <1>6 DEF StoreProfile, Step, Stage, DeviceInv, ConnKnows
  <2> QED
    BY <1>6, <2>1, <2>2, ReaderMoves DEF StoreProfile, Step, DeviceInv, RecordsTypeOK
<1>7. ASSUME NEW k \in Conn, AddClient(k) PROVE DeviceInv'
  <2>1. clients' \in [Device -> Conn \cup {None}]
    BY <1>7 DEF AddClient, DeviceInv, RecordsTypeOK
  <2>2. "reading" \in Stage \ {"unused"}
    BY DEF Stage
  <2> QED
    BY <1>7, <2>1, <2>2, ReaderMoves DEF AddClient, Step, DeviceInv, RecordsTypeOK
<1>8. ASSUME NEW k \in Conn, MarkReport(k) PROVE DeviceInv'
  <2>1. mark[k] \in {"online", "offline"} /\ mark' \in [Conn -> {"online", "offline"}]
    BY <1>8 DEF MarkReport, DeviceInv, RecordsTypeOK
  <2> QED
    BY <1>8, <2>1, ReaderWrites DEF MarkReport, Step, DeviceInv, RecordsTypeOK
<1>9. ASSUME NEW k \in Conn, ReadError(k) PROVE DeviceInv'
  <2>1. devOf[k] # None => devOf[k] \in Device
    BY DEF DeviceInv, RecordsTypeOK
  <2>2. {"ended", "removing"} \subseteq Stage \ {"unused"}
    BY DEF Stage
  <2> QED
    BY <1>9, <2>1, <2>2, ReaderMoves DEF ReadError, Step, DeviceInv, RecordsTypeOK
<1>10. ASSUME NEW k \in Conn, RemoveClient(k) PROVE DeviceInv'
  <2>1. clients' \in [Device -> Conn \cup {None}]
    BY <1>10 DEF RemoveClient, DeviceInv, RecordsTypeOK
  <2>2. "leaving" \in Stage \ {"unused"} /\ devOf[k] \in Device
    BY <1>10 DEF RemoveClient, Step, DeviceInv, ConnKnows, Stage
  <2> QED
    BY <1>10, <2>1, <2>2, ReaderMoves DEF RemoveClient, Step, DeviceInv, RecordsTypeOK
<1>11. ASSUME NEW k \in Conn, MarkOffline(k) PROVE DeviceInv'
  <2>1. "ended" \in Stage \ {"unused"} /\ devOf[k] \in Device /\ devOf[k] = agent[k]
    BY <1>11, NoneAssumption DEF MarkOffline, Step, DeviceInv, ConnKnows, Stage
  <2>2. CASE Fails /\ unmarked' = unmarked \cup {k}
    <3>1. troubles' \in Nat
      BY <2>2, FailTyped DEF DeviceInv, RowsTypeOK
    <3> QED
      BY <1>11, <2>1, <2>2, <3>1, ReaderMoves DEF MarkOffline, Step, Fails, DeviceInv, RecordsTypeOK
  <2>3. CASE Works /\ SetStatus(devOf[k], "offline", k) /\ UNCHANGED unmarked
    <3>1. RecordsTypeOK'
      <4>1. RowsTypeOK'
        BY <2>3, StatusTyped DEF UpdateDeviceStatus, DeviceInv
      <4> QED
        BY <1>11, <2>1, <2>3, <4>1 DEF MarkOffline, Step, DeviceInv, RecordsTypeOK, RowsTypeOK
    <3>2. ASSUME NEW c \in Conn PROVE ConnKnows(c)'
      BY <1>11 DEF MarkOffline, Step, DeviceInv, RecordsTypeOK, ConnKnows
    <3>3. ASSUME NEW d \in Device PROVE RowKnows(d)'
      <4>1. CASE d = devOf[k]
        BY <1>11, <2>1, <2>3, <4>1
           DEF MarkOffline, Step, SetStatus, DeviceInv, RecordsTypeOK, RowKnows, Known
      <4>2. CASE d # devOf[k]
        <5>1. by[d] # k
          BY <2>1, <4>2, NoneAssumption DEF DeviceInv, RowKnows
        <5> QED
          BY <1>11, <2>1, <2>3, <4>2, <5>1
             DEF MarkOffline, Step, SetStatus, DeviceInv, RecordsTypeOK, RowKnows, Known
      <4> QED
        BY <4>1, <4>2
    <3> QED
      BY <3>1, <3>2, <3>3 DEF DeviceInv
  <2> QED
    BY <1>11, <2>2, <2>3 DEF MarkOffline
<1> QED
  BY <1>1, <1>2, <1>3, <1>4, <1>5, <1>6, <1>7, <1>8, <1>9, <1>10, <1>11 DEF ConnNext, ReaderStep

LEMMA DeviceInvRestart == ASSUME DeviceInv, Restart PROVE DeviceInv'
<1>1. RecordsTypeOK'
  BY NoneAssumption DEF Restart, Trouble, dbVars, DeviceInv, RecordsTypeOK, Stage
<1>2. ASSUME NEW k \in Conn PROVE ConnKnows(k)'
  BY DEF Restart, DeviceInv, RecordsTypeOK, ConnKnows
<1>3. ASSUME NEW d \in Device PROVE RowKnows(d)'
  BY DEF Restart, dbVars, DeviceInv, RecordsTypeOK, RowKnows, Known
<1> QED
  BY <1>1, <1>2, <1>3 DEF DeviceInv

\* A handler of the HTTP API writes a row, without being a connection.
LEMMA RequestWrites ==
    ASSUME DeviceInv, UNCHANGED hubVars, NEW d \in Device,
           \/ UpsertDevice(d, "placeholder", None)
           \/ UpdateDeviceStatus(d, "online", None)
    PROVE  DeviceInv'
<1>1. RecordsTypeOK'
  <2>1. RowsTypeOK'
    BY UpsertTyped, StatusTyped DEF DeviceInv
  <2> QED
    BY <2>1 DEF hubVars, connVars, DeviceInv, RecordsTypeOK, RowsTypeOK
<1>2. ASSUME NEW k \in Conn PROVE ConnKnows(k)'
  BY DEF hubVars, connVars, DeviceInv, ConnKnows
<1>3. ASSUME NEW x \in Device PROVE RowKnows(x)'
  <2>1. RowKnows(x) /\ UNCHANGED <<agent, reader, unmarked>>
    BY DEF DeviceInv, hubVars, connVars
  <2>2. CASE Fails
    BY <2>1, <2>2 DEF Fails, dbVars, RowKnows, Known
  <2>3. CASE Upsert(d, "placeholder", None)
    BY <2>1, <2>3 DEF Upsert, RowKnows, Known, DeviceInv, RecordsTypeOK
  <2>4. CASE SetStatus(d, "online", None)
    BY <2>1, <2>4 DEF SetStatus, RowKnows, Known, DeviceInv, RecordsTypeOK
  <2> QED
    BY <2>2, <2>3, <2>4 DEF UpsertDevice, UpdateDeviceStatus
<1> QED
  BY <1>1, <1>2, <1>3 DEF DeviceInv

-----------------------------------------------------------------------------
(* Requests.                                                               *)

Storing == {"ensuring", "inserting", "marking", "waiting", "looping", "storing", "closing"}

\* What a handler relies on between two statements: what it was given, or got from the
\* device, is stored but for what is still to come, unless a statement failed; and an
\* insert finds the row that the statement before it made sure of.
RequestKnows(r) ==
    /\ stage[r] \in Storing => url[r] \in Device /\ body[r] \in Device
    /\ stage[r] = "overlaying" => url[r] \in Device
    /\ stage[r] \in {"idle", "marking", "waiting", "overlaying"} => owed[r] = 0
    /\ stage[r] \in {"ensuring", "inserting"} => owed[r] = 1
    /\ stage[r] = "storing" => left[r] > 0
    /\ stage[r] \in {"looping", "storing"} => owed[r] >= left[r]
    /\ stage[r] \in {"looping", "storing"} /\ r \notin hurt => owed[r] = left[r]
    /\ stage[r] \in {"inserting", "storing"} /\ r \notin hurt => Known(body[r])
    /\ stage[r] = "closing" /\ r \notin hurt => owed[r] = 0
    /\ stage[r] = "done" /\ (r \notin hurt \/ answer[r] = "created") => owed[r] = 0

\* What a list that is being made knows of the registry.
AbsenceKnown(r) ==
    /\ stage[r] # "done" => answer[r] = "none"
    /\ stage[r] = "overlaying" /\ clients[url[r]] = None => r \in gone
    /\ answer[r] = "offline" => r \in gone

HttpInv ==
    /\ HttpTypeOK
    /\ DeviceInv
    /\ \A r \in Req : RequestKnows(r) /\ AbsenceKnown(r)

LEMMA HttpInvInit == HttpInit => HttpInv
<1> SUFFICES ASSUME HttpInit PROVE HttpInv
  OBVIOUS
<1>1. DeviceInv
  BY DeviceInvInit DEF HttpInit
<1>2. HttpTypeOK
  BY <1>1 DEF HttpInit, HttpTypeOK, DeviceInv, ReqStage, Answers
<1>3. ASSUME NEW r \in Req PROVE RequestKnows(r) /\ AbsenceKnown(r)
  BY DEF HttpInit, RequestKnows, AbsenceKnown, Storing
<1> QED
  BY <1>1, <1>2, <1>3 DEF HttpInv

\* A row stays, whatever is done to it.
RowsStay == \A d \in Device : Known(d) => Known(d)'

LEMMA UnchangedKeepsRows == UNCHANGED details \/ Fails => RowsStay
  BY DEF RowsStay, Known, Fails, dbVars

LEMMA UpsertKeepsRows ==
    ASSUME RecordsTypeOK, NEW d \in Device, NEW as \in {"placeholder", "registered"}, NEW w,
           UpsertDevice(d, as, w)
    PROVE  RowsStay
<1>1. CASE Upsert(d, as, w)
  BY <1>1 DEF RowsStay, Known, Upsert, RecordsTypeOK
<1> QED
  BY <1>1, UnchangedKeepsRows DEF UpsertDevice

LEMMA ConnectionsKeepRows == ASSUME DeviceInv, ConnNext PROVE RowsStay
<1>1. RecordsTypeOK
  BY DEF DeviceInv
<1>2. ASSUME NEW k \in Conn, ReadRegister(k) \/ ReadReport(k) \/ ReadForward(k) PROVE RowsStay
  <2>1. agent[k] \in Device
    BY <1>2 DEF ReadRegister, ReadReport, ReadForward, Reading, DeviceInv, ConnKnows
  <2>2. UpsertDevice(agent[k], "registered", k) \/ UpsertDevice(agent[k], "placeholder", k)
    BY <1>2 DEF ReadRegister, ReadReport, ReadForward, EnsureDeviceExists
  <2> QED
    BY <1>1, <2>1, <2>2, UpsertKeepsRows
<1>3. ASSUME NEW k \in Conn,
             \/ LinkBreaks(k) \/ StoreProfile(k) \/ AddClient(k) \/ MarkReport(k)
             \/ ReadError(k) \/ RemoveClient(k) \/ MarkOffline(k)
             \/ \E d \in Device : HandleWebSocket(k, d)
      PROVE  RowsStay
  <2>1. UNCHANGED details
    <3>1. CASE \/ LinkBreaks(k) \/ AddClient(k) \/ ReadError(k) \/ RemoveClient(k)
               \/ \E d \in Device : HandleWebSocket(k, d)
      BY <3>1 DEF LinkBreaks, AddClient, ReadError, RemoveClient, HandleWebSocket, dbVars
    <3>2. CASE StoreProfile(k)
      BY <3>2 DEF StoreProfile, Fails, dbVars
    <3>3. CASE MarkReport(k)
      BY <3>3 DEF MarkReport, UpdateDeviceStatus, SetStatus, Fails, dbVars
    <3>4. CASE MarkOffline(k)
      BY <3>4 DEF MarkOffline, SetStatus, Fails, dbVars
    <3> QED
      BY <1>3, <3>1, <3>2, <3>3, <3>4
  <2> QED
    BY <2>1, UnchangedKeepsRows
<1> QED
  BY <1>2, <1>3 DEF ConnNext, ReaderStep

\* A request that does not take part in a step knows what it knew.
LEMMA OtherRequests ==
    ASSUME HttpInv, NEW r \in Req, RowsStay,
           stage'[r] = stage[r], url'[r] = url[r], body'[r] = body[r], left'[r] = left[r],
           owed'[r] = owed[r], answer'[r] = answer[r],
           r \in hurt <=> r \in hurt', gone \subseteq gone',
           stage[r] = "overlaying" /\ clients'[url[r]] = None => r \in gone'
    PROVE  RequestKnows(r)' /\ AbsenceKnown(r)'
<1>1. RequestKnows(r) /\ AbsenceKnown(r)
  BY DEF HttpInv
<1>2. RequestKnows(r)'
  BY <1>1 DEF RequestKnows, RowsStay, Storing
<1>3. AbsenceKnown(r)'
  BY <1>1 DEF AbsenceKnown
<1> QED
  BY <1>2, <1>3

LEMMA HttpInvBeside == ASSUME HttpInv, Beside PROVE HttpInv'
<1>1. DeviceInv'
  BY DeviceInvConn DEF Beside, HttpInv
<1>2. HttpTypeOK'
  BY <1>1 DEF Beside, HttpInv, HttpTypeOK, DeviceInv
<1>3. RowsStay
  BY ConnectionsKeepRows DEF Beside, HttpInv
<1>4. ASSUME NEW r \in Req PROVE RequestKnows(r)' /\ AbsenceKnown(r)'
  BY <1>3, OtherRequests DEF Beside
<1> QED
  BY <1>1, <1>2, <1>4 DEF HttpInv

LEMMA HttpInvRestart == ASSUME HttpInv, RestartAll PROVE HttpInv'
<1>1. DeviceInv'
  BY DeviceInvRestart DEF RestartAll, HttpInv
<1>2. HttpTypeOK'
  BY <1>1 DEF RestartAll, HttpInv, HttpTypeOK, DeviceInv, ReqStage, Answers
<1>3. ASSUME NEW r \in Req PROVE RequestKnows(r)' /\ AbsenceKnown(r)'
  <2>1. RequestKnows(r) /\ AbsenceKnown(r)
    BY DEF HttpInv
  <2> QED
    BY <2>1 DEF RestartAll, HttpInv, HttpTypeOK, RequestKnows, AbsenceKnown, Storing
<1> QED
  BY <1>1, <1>2, <1>3 DEF HttpInv

\* A step of a handler: the registry and the other handlers are left alone, and what is
\* left to show is what it does to the database and to itself.
LEMMA HandlerStep ==
    ASSUME HttpInv, NEW r \in Req, UNCHANGED hubVars, DeviceInv', RowsStay,
           NEW p \in ReqStage, stage' = [stage EXCEPT ![r] = p],
           url' \in [Req -> Device \cup {None}], body' \in [Req -> Device \cup {None}],
           left' \in [Req -> Nat], owed' \in [Req -> Nat],
           shown' \in [Req -> {"online", "offline"}], answer' \in [Req -> Answers],
           \A q \in Req \ {r} : /\ url'[q] = url[q] /\ body'[q] = body[q]
                                /\ left'[q] = left[q] /\ owed'[q] = owed[q]
                                /\ answer'[q] = answer[q],
           hurt \subseteq hurt', hurt' \subseteq hurt \cup {r},
           gone \subseteq gone', gone' \subseteq gone \cup {r},
           RequestKnows(r)' /\ AbsenceKnown(r)'
    PROVE  HttpInv'
<1>1. HttpTypeOK'
  BY DEF HttpInv, HttpTypeOK, DeviceInv
<1>2. ASSUME NEW q \in Req PROVE RequestKnows(q)' /\ AbsenceKnown(q)'
  <2>1. CASE q = r
    BY <2>1
  <2>2. CASE q # r
    <3>1. stage'[q] = stage[q]
      BY <2>2 DEF HttpInv, HttpTypeOK
    <3>2. stage[q] = "overlaying" /\ clients'[url[q]] = None => q \in gone'
      BY DEF HttpInv, AbsenceKnown, hubVars
    <3> QED
      BY <2>2, <3>1, <3>2, OtherRequests
  <2> QED
    BY <2>1, <2>2
<1> QED
  BY <1>1, <1>2 DEF HttpInv

\* A handler's statement, whether it works or not.
LEMMA HandlerWrites ==
    ASSUME HttpInv, NEW r \in Req, UNCHANGED hubVars, NEW d \in Device,
           \/ Attempt(r, Upsert(d, "placeholder", None))
           \/ Attempt(r, SetStatus(d, "online", None))
    PROVE  /\ DeviceInv' /\ RowsStay
           /\ hurt \subseteq hurt' /\ hurt' \subseteq hurt \cup {r}
<1>1. \/ UpsertDevice(d, "placeholder", None)
      \/ UpdateDeviceStatus(d, "online", None)
  BY DEF Attempt, UpsertDevice, UpdateDeviceStatus
<1>2. DeviceInv'
  BY <1>1, RequestWrites DEF HttpInv
<1>3. RowsStay
  <2>1. SetStatus(d, "online", None) => UNCHANGED details
    BY DEF SetStatus
  <2> QED
    BY <1>1, <2>1, UpsertKeepsRows, UnchangedKeepsRows DEF UpdateDeviceStatus, HttpInv, DeviceInv
<1> QED
  BY <1>2, <1>3 DEF Attempt

\* A handler that leaves the database alone, or whose statement fails.
LEMMA HandlerRests ==
    ASSUME HttpInv, UNCHANGED hubVars, UNCHANGED vars \/ Fails \/ UNCHANGED <<dbVars, by, troubles>>
    PROVE  DeviceInv' /\ RowsStay
<1>1. UNCHANGED <<dbVars, by>> /\ troubles' \in Nat
  BY DEF HttpInv, DeviceInv, RecordsTypeOK, Fails, Trouble, vars
<1>2. RowsStay
  BY <1>1 DEF RowsStay, Known, dbVars
<1>3. RecordsTypeOK'
  BY <1>1 DEF HttpInv, DeviceInv, RecordsTypeOK, hubVars, connVars, dbVars
<1>4. ASSUME NEW k \in Conn PROVE ConnKnows(k)'
  BY DEF hubVars, connVars, HttpInv, DeviceInv, ConnKnows
<1>5. ASSUME NEW d \in Device PROVE RowKnows(d)'
  BY <1>1 DEF hubVars, connVars, dbVars, HttpInv, DeviceInv, RowKnows, Known
<1> QED
  BY <1>2, <1>3, <1>4, <1>5 DEF DeviceInv

LEMMA HttpInvNew == ASSUME HttpInv, NEW r \in Req, NewRequest(r) PROVE HttpInv'
<1>1. RequestKnows(r) /\ AbsenceKnown(r) /\ HttpTypeOK
  BY DEF HttpInv
<1>2. ASSUME NEW u \in Device, NEW b \in Device, PostReport(r, u, b) PROVE HttpInv'
  <2>1. DeviceInv' /\ RowsStay
    BY <1>2, HandlerRests DEF PostReport, Begin, hubVars, connVars, vars
  <2>2. RequestKnows(r)' /\ AbsenceKnown(r)'
    BY <1>1, <1>2 DEF PostReport, Begin, Move, HttpTypeOK, RequestKnows, AbsenceKnown, Storing
  <2>3. "ensuring" \in ReqStage
    BY DEF ReqStage
  <2> QED
    BY <1>1, <1>2, <2>1, <2>2, <2>3, HandlerStep
       DEF PostReport, Begin, Move, HttpTypeOK, hubVars, connVars, vars
<1>3. ASSUME NEW u \in Device, AskLive(r, u) PROVE HttpInv'
  <2>1. DeviceInv' /\ RowsStay
    BY <1>3, HandlerRests DEF AskLive, Begin, hubVars, connVars, vars
  <2>2. RequestKnows(r)' /\ AbsenceKnown(r)'
    BY <1>1, <1>3 DEF AskLive, Begin, Move, HttpTypeOK, RequestKnows, AbsenceKnown, Storing
  <2>3. "waiting" \in ReqStage
    BY DEF ReqStage
  <2> QED
    BY <1>1, <1>3, <2>1, <2>2, <2>3, HandlerStep
       DEF AskLive, Begin, Move, HttpTypeOK, hubVars, connVars, vars
<1>4. ASSUME NEW u \in Device, ReadDevice(r, u) PROVE HttpInv'
  <2>1. DeviceInv' /\ RowsStay
    BY <1>4, HandlerRests DEF ReadDevice, hubVars, connVars, vars
  <2>2. RequestKnows(r)' /\ AbsenceKnown(r)'
    BY <1>1, <1>4
       DEF ReadDevice, Move, HttpTypeOK, RecordsTypeOK, RequestKnows, AbsenceKnown, Storing, vars
  <2>3. "overlaying" \in ReqStage /\ shown' \in [Req -> {"online", "offline"}]
    BY <1>1, <1>4 DEF ReqStage, ReadDevice, HttpTypeOK, RecordsTypeOK
  <2> QED
    BY <1>1, <1>4, <2>1, <2>2, <2>3, HandlerStep
       DEF ReadDevice, Move, HttpTypeOK, hubVars, connVars, vars
<1>5. ASSUME NEW u \in Device, ReadNothing(r, u) PROVE HttpInv'
  <2>1. UNCHANGED hubVars
    BY <1>5 DEF ReadNothing
  <2>2. Fails \/ UNCHANGED <<dbVars, by, troubles>>
    BY <1>5 DEF ReadNothing
  <2>3. DeviceInv' /\ RowsStay
    BY <2>1, <2>2, HandlerRests
  <2>4. PICK a \in {"missing", "error"} : Reply(r, "idle", a)
    BY <1>5 DEF ReadNothing
  <2>5. RequestKnows(r)' /\ AbsenceKnown(r)'
    BY <1>1, <1>5, <2>4
       DEF ReadNothing, Reply, Move, HttpTypeOK, RequestKnows, AbsenceKnown, Storing
  <2>6. "done" \in ReqStage /\ a \in Answers
    BY DEF ReqStage, Answers
  <2> QED
    BY <1>1, <1>5, <2>1, <2>3, <2>4, <2>5, <2>6, HandlerStep
       DEF ReadNothing, Reply, Move, HttpTypeOK
<1>6. ASSUME RefuseReport(r) PROVE HttpInv'
  <2>1. DeviceInv' /\ RowsStay
    BY <1>6, HandlerRests DEF RefuseReport, hubVars, connVars, vars
  <2>2. RequestKnows(r)' /\ AbsenceKnown(r)'
    BY <1>1, <1>6
       DEF RefuseReport, Reply, Move, HttpTypeOK, RequestKnows, AbsenceKnown, Storing
  <2>3. "done" \in ReqStage /\ "refused" \in Answers
    BY DEF ReqStage, Answers
  <2> QED
    BY <1>1, <1>6, <2>1, <2>2, <2>3, HandlerStep
       DEF RefuseReport, Reply, Move, HttpTypeOK, hubVars, connVars, vars
<1> QED
  BY <1>2, <1>3, <1>4, <1>5, <1>6 DEF NewRequest

\* The end of a handler that has nothing left to store.
LEMMA HandlerEnds ==
    ASSUME HttpInv, NEW r \in Req, NEW from \in {"waiting", "closing", "overlaying"},
           NEW a \in Answers, Reply(r, from, a), a # "created",
           a = "offline" => r \in gone,
           UNCHANGED <<vars, url, body, left, owed, shown, gone, hurt>>
    PROVE  HttpInv'
<1>1. RequestKnows(r) /\ AbsenceKnown(r) /\ HttpTypeOK
  BY DEF HttpInv
<1>2. DeviceInv' /\ RowsStay
  BY HandlerRests DEF hubVars, connVars, vars
<1>3. RequestKnows(r)' /\ AbsenceKnown(r)'
  BY <1>1 DEF Reply, Move, HttpTypeOK, RequestKnows, AbsenceKnown, Storing
<1>4. "done" \in ReqStage
  BY DEF ReqStage
<1> QED
  BY <1>1, <1>2, <1>3, <1>4, HandlerStep DEF Reply, Move, HttpTypeOK, hubVars, connVars, vars

LEMMA HttpInvStep == ASSUME HttpInv, NEW r \in Req, RequestStep(r) PROVE HttpInv'
<1>1. RequestKnows(r) /\ AbsenceKnown(r) /\ HttpTypeOK /\ RecordsTypeOK
  BY DEF HttpInv, HttpTypeOK
<1>2. ASSUME EnsureReport(r) PROVE HttpInv'
  <2>1. body[r] \in Device /\ UNCHANGED hubVars
    BY <1>1, <1>2 DEF EnsureReport, Move, RequestKnows, Storing
  <2>2. /\ DeviceInv' /\ RowsStay
        /\ hurt \subseteq hurt' /\ hurt' \subseteq hurt \cup {r}
    BY <1>2, <2>1, HandlerWrites DEF EnsureReport
  <2>3. r \notin hurt' => Known(body[r])'
    BY <1>1, <1>2, <2>1 DEF EnsureReport, Attempt, Upsert, Known, RecordsTypeOK
  <2>4. RequestKnows(r)' /\ AbsenceKnown(r)'
    BY <1>1, <1>2, <2>1, <2>3
       DEF EnsureReport, Move, HttpTypeOK, RequestKnows, AbsenceKnown, Storing
  <2>5. "inserting" \in ReqStage
    BY DEF ReqStage
  <2> QED
    BY <1>1, <1>2, <2>2, <2>4, <2>5, HandlerStep DEF EnsureReport, Move, HttpTypeOK
<1>3. ASSUME InsertReport(r) PROVE HttpInv'
  <2>1. UNCHANGED hubVars
    BY <1>3 DEF InsertReport
  <2>2. Fails \/ UNCHANGED <<dbVars, by, troubles>>
    BY <1>3 DEF InsertReport
  <2>3. DeviceInv' /\ RowsStay
    BY <2>1, <2>2, HandlerRests
  <2>4. CASE Move(r, "inserting", "marking") /\ Known(body[r]) /\ Insert(r) /\ UNCHANGED <<hurt, answer>>
    <3>1. owed[r] = 1 /\ owed' = [owed EXCEPT ![r] = 0]
      BY <1>1, <2>4 DEF Move, RequestKnows, Insert, HttpTypeOK
    <3>2. RequestKnows(r)' /\ AbsenceKnown(r)'
      BY <1>1, <1>3, <2>4, <3>1
         DEF InsertReport, Move, HttpTypeOK, RequestKnows, AbsenceKnown, Storing
    <3>3. "marking" \in ReqStage
      BY DEF ReqStage
    <3> QED
      BY <1>1, <1>3, <2>1, <2>3, <2>4, <3>1, <3>2, <3>3, HandlerStep
         DEF InsertReport, Move, HttpTypeOK
  <2>5. CASE Reply(r, "inserting", "error") /\ UNCHANGED owed
             /\ ((~Known(body[r]) /\ UNCHANGED hurt) \/ hurt' = hurt \cup {r})
    <3>1. r \in hurt'
      BY <1>1, <2>5 DEF Reply, Move, RequestKnows
    <3>2. RequestKnows(r)' /\ AbsenceKnown(r)'
      BY <1>1, <1>3, <2>5, <3>1
         DEF InsertReport, Reply, Move, HttpTypeOK, RequestKnows, AbsenceKnown, Storing
    <3>3. "done" \in ReqStage /\ "error" \in Answers
      BY DEF ReqStage, Answers
    <3> QED
      BY <1>1, <1>3, <2>1, <2>3, <2>5, <3>2, <3>3, HandlerStep
         DEF InsertReport, Reply, Move, HttpTypeOK
  <2> QED
    BY <1>3, <2>4, <2>5 DEF InsertReport
<1>4. ASSUME MarkDevice(r) PROVE HttpInv'
  <2>1. url[r] \in Device /\ UNCHANGED hubVars
    BY <1>1, <1>4 DEF MarkDevice, Reply, Move, RequestKnows, Storing
  <2>2. /\ DeviceInv' /\ RowsStay
        /\ hurt \subseteq hurt' /\ hurt' \subseteq hurt \cup {r}
    BY <1>4, <2>1, HandlerWrites DEF MarkDevice
  <2>3. RequestKnows(r)' /\ AbsenceKnown(r)'
    BY <1>1, <1>4 DEF MarkDevice, Reply, Move, HttpTypeOK, RequestKnows, AbsenceKnown, Storing
  <2>4. "done" \in ReqStage /\ "created" \in Answers
    BY DEF ReqStage, Answers
  <2> QED
    BY <1>1, <1>4, <2>2, <2>3, <2>4, HandlerStep DEF MarkDevice, Reply, Move, HttpTypeOK
<1>5. ASSUME LiveFails(r) PROVE HttpInv'
  <2>1. PICK a \in {"error", "cut"} : Reply(r, "waiting", a)
    BY <1>5 DEF LiveFails, LateReply
  <2>2. a \in Answers
    BY DEF Answers
  <2> QED
    BY <1>5, <2>1, <2>2, HandlerEnds DEF LiveFails
<1>6. ASSUME LiveAnswers(r) PROVE HttpInv'
  <2>1. DeviceInv' /\ RowsStay
    BY <1>6, HandlerRests DEF LiveAnswers, hubVars, connVars, vars
  <2>2. PICK n \in 0..MaxItems : left' = [left EXCEPT ![r] = n] /\ owed' = [owed EXCEPT ![r] = n]
    BY <1>6 DEF LiveAnswers
  <2>3. n \in Nat
    BY RequestAssumption
  <2>4. RequestKnows(r)' /\ AbsenceKnown(r)'
    BY <1>1, <1>6, <2>2, <2>3
       DEF LiveAnswers, Move, HttpTypeOK, RequestKnows, AbsenceKnown, Storing
  <2>5. "looping" \in ReqStage
    BY DEF ReqStage
  <2> QED
    BY <1>1, <1>6, <2>1, <2>2, <2>3, <2>4, <2>5, HandlerStep
       DEF LiveAnswers, Move, HttpTypeOK, hubVars, connVars, vars
<1>7. ASSUME NextRecord(r) PROVE HttpInv'
  <2>1. body[r] \in Device /\ UNCHANGED hubVars
    BY <1>1, <1>7 DEF NextRecord, Move, RequestKnows, Storing
  <2>2. /\ DeviceInv' /\ RowsStay
        /\ hurt \subseteq hurt' /\ hurt' \subseteq hurt \cup {r}
    BY <1>7, <2>1, HandlerWrites DEF NextRecord
  <2>3. r \notin hurt' => Known(body[r])'
    BY <1>1, <1>7, <2>1 DEF NextRecord, Attempt, Upsert, Known, RecordsTypeOK
  <2>4. RequestKnows(r)' /\ AbsenceKnown(r)'
    BY <1>1, <1>7, <2>1, <2>2, <2>3
       DEF NextRecord, Move, HttpTypeOK, RequestKnows, AbsenceKnown, Storing
  <2>5. "storing" \in ReqStage
    BY DEF ReqStage
  <2> QED
    BY <1>1, <1>7, <2>2, <2>4, <2>5, HandlerStep DEF NextRecord, Move, HttpTypeOK
<1>8. ASSUME StoreRecord(r) PROVE HttpInv'
  <2>1. UNCHANGED hubVars
    BY <1>8 DEF StoreRecord
  <2>2. Fails \/ UNCHANGED <<dbVars, by, troubles>>
    BY <1>8 DEF StoreRecord
  <2>3. DeviceInv' /\ RowsStay
    BY <2>1, <2>2, HandlerRests
  <2>4. /\ left[r] > 0 /\ left[r] \in Nat /\ owed[r] \in Nat /\ owed[r] >= left[r]
        /\ left' = [left EXCEPT ![r] = left[r] - 1]
    BY <1>1, <1>8 DEF StoreRecord, Move, RequestKnows, HttpTypeOK
  <2>5. hurt \subseteq hurt' /\ hurt' \subseteq hurt \cup {r}
    BY <1>8 DEF StoreRecord
  <2>6. /\ owed' \in [Req -> Nat] /\ \A q \in Req \ {r} : owed'[q] = owed[q]
        /\ owed'[r] >= left[r] - 1
        /\ r \notin hurt' => owed'[r] = left[r] - 1
    <3>1. CASE Known(body[r]) /\ Insert(r) /\ UNCHANGED hurt
      <4>1. owed[r] - 1 \in Nat /\ owed' = [owed EXCEPT ![r] = owed[r] - 1]
        BY <2>4, <3>1 DEF Insert
      <4>2. r \notin hurt' => owed[r] = left[r]
        BY <1>1, <1>8, <3>1 DEF StoreRecord, Move, RequestKnows
      <4> QED
        BY <1>1, <2>4, <4>1, <4>2 DEF HttpTypeOK
    <3>2. CASE ~Known(body[r]) /\ Insert(r) /\ UNCHANGED hurt
      <4>1. r \in hurt' /\ owed' = [owed EXCEPT ![r] = owed[r]]
        BY <1>1, <1>8, <3>2 DEF Insert, StoreRecord, Move, RequestKnows
      <4> QED
        BY <1>1, <2>4, <4>1 DEF HttpTypeOK
    <3>3. CASE hurt' = hurt \cup {r} /\ UNCHANGED owed
      <4>1. owed' = [owed EXCEPT ![r] = owed[r]]
        BY <1>1, <3>3 DEF HttpTypeOK
      <4> QED
        BY <1>1, <2>4, <3>3, <4>1 DEF HttpTypeOK
    <3> QED
      BY <1>8, <3>1, <3>2, <3>3 DEF StoreRecord
  <2>7. RequestKnows(r)' /\ AbsenceKnown(r)'
    BY <1>1, <1>8, <2>4, <2>6
       DEF StoreRecord, Move, HttpTypeOK, RequestKnows, AbsenceKnown, Storing
  <2>8. "looping" \in ReqStage /\ left' \in [Req -> Nat]
    BY <1>1, <2>4 DEF ReqStage, HttpTypeOK
  <2> QED
    BY <1>1, <1>8, <2>1, <2>3, <2>4, <2>5, <2>6, <2>7, <2>8, HandlerStep
       DEF StoreRecord, Move, HttpTypeOK
<1>9. ASSUME FinishLive(r) PROVE HttpInv'
  <2>1. url[r] \in Device /\ UNCHANGED hubVars
    BY <1>1, <1>9 DEF FinishLive, Move, RequestKnows, Storing
  <2>2. /\ DeviceInv' /\ RowsStay
        /\ hurt \subseteq hurt' /\ hurt' \subseteq hurt \cup {r}
    BY <1>9, <2>1, HandlerWrites DEF FinishLive
  <2>3. RequestKnows(r)' /\ AbsenceKnown(r)'
    BY <1>1, <1>9, <2>2
       DEF FinishLive, Move, HttpTypeOK, RequestKnows, AbsenceKnown, Storing
  <2>4. "closing" \in ReqStage
    BY DEF ReqStage
  <2> QED
    BY <1>1, <1>9, <2>2, <2>3, <2>4, HandlerStep DEF FinishLive, Move, HttpTypeOK
<1>10. ASSUME AnswerLive(r) PROVE HttpInv'
  <2>1. PICK a \in {"ok", "cut"} : Reply(r, "closing", a)
    BY <1>10 DEF AnswerLive, LateReply
  <2>2. a \in Answers
    BY DEF Answers
  <2> QED
    BY <1>10, <2>1, <2>2, HandlerEnds DEF AnswerLive
<1>11. ASSUME Overlay(r) PROVE HttpInv'
  <2>1. PICK a \in {"online", "offline"} : Reply(r, "overlaying", a) /\ (a = "offline" => r \in gone)
    BY <1>1, <1>11 DEF Overlay, HttpTypeOK, AbsenceKnown
  <2>2. a \in Answers
    BY DEF Answers
  <2> QED
    BY <1>11, <2>1, <2>2, HandlerEnds DEF Overlay
<1> QED
  BY <1>2, <1>3, <1>4, <1>5, <1>6, <1>7, <1>8, <1>9, <1>10, <1>11 DEF RequestStep

LEMMA HttpInvNext == HttpInv /\ [HttpNext]_allVars => HttpInv'
<1> SUFFICES ASSUME HttpInv, [HttpNext]_allVars PROVE HttpInv'
  OBVIOUS
<1>1. CASE HttpNext
  BY <1>1, HttpInvBeside, HttpInvRestart, HttpInvNew, HttpInvStep DEF HttpNext
<1>2. CASE UNCHANGED allVars
  <2>1. DeviceInv' /\ RowsStay
    BY <1>2, HandlerRests DEF allVars, hubVars, connVars, vars
  <2>2. HttpTypeOK'
    BY <1>2, <2>1 DEF allVars, reqVars, HttpInv, HttpTypeOK, DeviceInv
  <2>3. ASSUME NEW r \in Req PROVE RequestKnows(r)' /\ AbsenceKnown(r)'
    BY <1>2, <2>1, OtherRequests DEF allVars, reqVars, vars, HttpInv, AbsenceKnown
  <2> QED
    BY <2>1, <2>2, <2>3 DEF HttpInv
<1> QED
  BY <1>1, <1>2

-----------------------------------------------------------------------------
(* What follows.                                                           *)

\* The inductive invariant of records and requests.
THEOREM HttpInvariant == HttpSpec => []HttpInv
  BY HttpInvInit, HttpInvNext, PTL DEF HttpSpec

\* What rows, connections and requests hold.
THEOREM HttpTyping == HttpSpec => []HttpTypeOK
<1>1. HttpInv => HttpTypeOK
  BY DEF HttpInv
<1> QED
  BY <1>1, HttpInvariant, PTL

\* No device stays stored as online on account of a connection that is over, unless its
\* offline mark could not be stored. (hub.go:82-93, 165-197)
THEOREM OnlineSource == HttpSpec => []OnlineHasASource
<1>1. HttpInv => OnlineHasASource
  BY DEF HttpInv, DeviceInv, RowKnows, OnlineHasASource
<1> QED
  BY <1>1, HttpInvariant, PTL

\* What was reported and acknowledged, and what a device returned, is stored, unless a
\* statement failed or the server was killed. (routes.go:62-67, 213-218, 567-572, 636-663)
THEOREM NothingLost == HttpSpec => []NothingGivenIsLost
<1>1. HttpInv => NothingGivenIsLost
  BY DEF HttpInv, RequestKnows, NothingGivenIsLost
<1> QED
  BY <1>1, HttpInvariant, PTL

\* A device that is shown as offline was absent from the registry since its row was read.
\* (routes.go:103-108, 135-137)
THEOREM ShownOffline == HttpSpec => []ShownOfflineWasAbsent
<1>1. HttpInv => ShownOfflineWasAbsent
  BY DEF HttpInv, AbsenceKnown, ShownOfflineWasAbsent
<1> QED
  BY <1>1, HttpInvariant, PTL
=============================================================================
