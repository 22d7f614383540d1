------------------------- MODULE PendingStoreProofs -------------------------
(***************************************************************************)
(* Safety of PendingStore for any ids, any limit of the store and any      *)
(* number of contents per id.                                              *)
(***************************************************************************)
EXTENDS PendingStore, FiniteSetTheorems, TLAPS

USE BoundAssumption, RefusedAssumption

-----------------------------------------------------------------------------
(* Without: what it returns. The kept places are ranked 0, 1, ... by how   *)
(* many kept places come before each: the rank is a bijection.             *)

LEMMA KeptPlaces ==
    ASSUME NEW s \in Seq(Record), NEW keys
    PROVE  /\ Kept(s, keys) \subseteq 1..Len(s)
           /\ IsFiniteSet(Kept(s, keys))
           /\ Cardinality(Kept(s, keys)) \in 0..Len(s)
<1>1. Kept(s, keys) \subseteq 1..Len(s) /\ Len(s) \in Nat
  BY DEF Kept
<1>2. IsFiniteSet(1..Len(s)) /\ Cardinality(1..Len(s)) = Len(s)
  BY <1>1, FS_Interval
<1> QED
  BY <1>1, <1>2, FS_Subset, FS_CardinalityType

Rank(kept, i) == Cardinality({j \in kept : j < i})

LEMMA RankIsBounded ==
    ASSUME NEW kept, kept \subseteq Int, IsFiniteSet(kept), NEW i \in kept
    PROVE  Rank(kept, i) \in 0..(Cardinality(kept) - 1)
<1> DEFINE before == {j \in kept : j < i}
<1>1. before \subseteq kept /\ i \notin before
  OBVIOUS
<1>2. IsFiniteSet(before) /\ Cardinality(before) <= Cardinality(kept)
      /\ Cardinality(before) # Cardinality(kept)
  BY <1>1, FS_Subset
<1>3. Cardinality(before) \in Nat /\ Cardinality(kept) \in Nat
  BY <1>2, FS_CardinalityType
<1>4. Rank(kept, i) = Cardinality(before)
  BY DEF Rank
<1>5. \A a, b \in Nat : a <= b /\ a # b => a \in 0..(b - 1)
  OBVIOUS
<1> HIDE DEF before
<1> QED
  BY <1>2, <1>3, <1>4, <1>5, Zenon

LEMMA RankGrows ==
    ASSUME NEW kept, kept \subseteq Int, IsFiniteSet(kept),
           NEW i \in kept, NEW j \in kept, i < j
    PROVE  Rank(kept, i) < Rank(kept, j)
<1> DEFINE beforeI == {x \in kept : x < i}
           beforeJ == {x \in kept : x < j}
<1>1. beforeI \subseteq beforeJ /\ i \in beforeJ /\ i \notin beforeI
  <2>1. \A x \in kept : x < i => x < j
    <3>1. \A x, y, z \in Int : x < y /\ y < z => x < z
      OBVIOUS
    <3> QED
      BY <3>1, Zenon
  <2>2. ~(i < i)
    OBVIOUS
  <2> QED
    BY <2>1, <2>2
<1>2. IsFiniteSet(beforeJ)
  BY FS_Subset
<1>3. IsFiniteSet(beforeI) /\ Cardinality(beforeI) <= Cardinality(beforeJ)
      /\ Cardinality(beforeI) # Cardinality(beforeJ)
  BY <1>1, <1>2, FS_Subset
<1>4. Cardinality(beforeI) \in Nat /\ Cardinality(beforeJ) \in Nat
  BY <1>2, <1>3, FS_CardinalityType
<1> QED
  BY <1>3, <1>4 DEF Rank

\* Every rank below the number of kept places is taken by one of them.
LEMMA RankIsOnto ==
    ASSUME NEW kept, kept \subseteq Int, IsFiniteSet(kept),
           NEW n \in 0..(Cardinality(kept) - 1)
    PROVE  \E i \in kept : Rank(kept, i) = n
<1> DEFINE ranks == 0..(Cardinality(kept) - 1)
           rank == [i \in kept |-> Rank(kept, i)]
<1>1. Cardinality(kept) \in Nat
  BY FS_CardinalityType
<1>2. IsFiniteSet(ranks) /\ Cardinality(ranks) = Cardinality(kept)
  BY <1>1, FS_Interval
<1>3. rank \in [kept -> ranks]
  BY RankIsBounded
<1>4. \A i, j \in kept : rank[i] = rank[j] => i = j
  <2> SUFFICES ASSUME NEW i \in kept, NEW j \in kept, i # j
               PROVE  Rank(kept, i) # Rank(kept, j)
    OBVIOUS
  <2>1. i < j \/ j < i
    OBVIOUS
  <2>2. Rank(kept, i) \in Int /\ Rank(kept, j) \in Int
    <3>1. Rank(kept, i) \in ranks /\ Rank(kept, j) \in ranks
      BY RankIsBounded, Zenon
    <3>2. ranks \subseteq Int
      BY <1>1
    <3> QED
      BY <3>1, <3>2
  <2>3. Rank(kept, i) < Rank(kept, j) \/ Rank(kept, j) < Rank(kept, i)
    BY <2>1, RankGrows, Zenon
  <2> QED
    BY <2>2, <2>3
<1>5. rank \in Injection(kept, ranks)
  BY <1>3, <1>4 DEF Injection, IsInjective
<1>6. rank \in Surjection(kept, ranks)
  BY <1>2, <1>5, FS_Injection
<1> QED
  BY <1>6 DEF Surjection

\* Its length, and where each of its records was: the places are kept, in order, and
\* every kept place is one of them.
LEMMA WithoutPlaces ==
    ASSUME NEW s \in Seq(Record), NEW keys
    PROVE  LET kept == Kept(s, keys)
               place == [n \in 1..Cardinality(kept) |->
                             CHOOSE i \in kept : Rank(kept, i) = n - 1]
           IN /\ Without(s, keys) = [n \in 1..Cardinality(kept) |-> s[place[n]]]
              /\ \A n \in 1..Cardinality(kept) :
                     place[n] \in kept /\ Rank(kept, place[n]) = n - 1
              /\ \A i \in kept : \E n \in 1..Cardinality(kept) : place[n] = i
              /\ \A m, n \in 1..Cardinality(kept) : m < n => place[m] < place[n]
<1> DEFINE kept == Kept(s, keys)
           count == Cardinality(kept)
           place == [n \in 1..count |-> CHOOSE i \in kept : Rank(kept, i) = n - 1]
<1>1. kept \subseteq Int /\ IsFiniteSet(kept) /\ count \in Nat
  BY KeptPlaces
<1>2. Without(s, keys) = [n \in 1..count |-> s[place[n]]]
  BY DEF Without, Rank
<1>3. ASSUME NEW n \in 1..count
      PROVE  place[n] \in kept /\ Rank(kept, place[n]) = n - 1
  <2>1. n - 1 \in 0..(count - 1)
    BY <1>1
  <2>2. \E i \in kept : Rank(kept, i) = n - 1
    BY <1>1, <2>1, RankIsOnto
  <2> QED
    BY <2>2
<1>4. ASSUME NEW i \in kept
      PROVE  \E n \in 1..count : place[n] = i
  <2> DEFINE n == Rank(kept, i) + 1
  <2>1. Rank(kept, i) \in 0..(count - 1)
    BY <1>1, RankIsBounded
  <2>2. n \in 1..count /\ n - 1 = Rank(kept, i)
    BY <1>1, <2>1
  <2>3. place[n] \in kept /\ Rank(kept, place[n]) = Rank(kept, i)
    BY <1>3, <2>2
  <2>4. place[n] = i
    <3>1. place[n] \in Int /\ i \in Int
      BY <1>1, <2>3
    <3>2. ~(place[n] < i) /\ ~(i < place[n])
      BY <1>1, <2>1, <2>3, RankGrows
    <3> QED
      BY <3>1, <3>2
  <2> QED
    BY <2>2, <2>4
<1>5. ASSUME NEW m \in 1..count, NEW n \in 1..count, m < n
      PROVE  place[m] < place[n]
  <2>1. /\ place[m] \in kept /\ Rank(kept, place[m]) = m - 1
        /\ place[n] \in kept /\ Rank(kept, place[n]) = n - 1
    BY <1>3
  <2> HIDE DEF place
  <2>2. place[m] # place[n]
    BY <1>1, <1>5, <2>1
  <2>3. ~(place[n] < place[m])
    <3> SUFFICES ASSUME place[n] < place[m]
                 PROVE  FALSE
      OBVIOUS
    <3>1. n - 1 < m - 1
      BY <1>1, <2>1, RankGrows
    <3> QED
      BY <1>1, <1>5, <3>1
  <2>4. place[m] \in Int /\ place[n] \in Int
    BY <1>1, <2>1
  <2> QED
    BY <2>2, <2>3, <2>4
<1> QED
  BY <1>2, <1>3, <1>4, <1>5

\* removeNotifications, removeSms: what stays is some of what was there, in the order it
\* had, and exactly the ids that are not among those removed.
LEMMA WithoutKeeps ==
    ASSUME NEW s \in Seq(Record), NEW keys
    PROVE  /\ Without(s, keys) \in Seq(Record)
           /\ Len(Without(s, keys)) <= Len(s)
           /\ \A n \in DOMAIN Without(s, keys) : \E i \in DOMAIN s : Without(s, keys)[n] = s[i]
           /\ KeysOf(Without(s, keys)) = KeysOf(s) \ keys
<1> DEFINE kept == Kept(s, keys)
           count == Cardinality(kept)
           place == [n \in 1..count |-> CHOOSE i \in kept : Rank(kept, i) = n - 1]
<1>1. kept \subseteq 1..Len(s) /\ count \in 0..Len(s) /\ Len(s) \in Nat
  BY KeptPlaces
<1>2. /\ Without(s, keys) = [n \in 1..count |-> s[place[n]]]
      /\ \A n \in 1..count : place[n] \in kept
      /\ \A i \in kept : \E n \in 1..count : place[n] = i
  BY WithoutPlaces
<1> HIDE DEF place
<1>3. Without(s, keys) \in Seq(Record) /\ Len(Without(s, keys)) = count
  <2>1. count \in Nat
    BY <1>1
  <2>2. \A n \in 1..count : s[place[n]] \in Record
    BY <1>1, <1>2
  <2> QED
    BY <2>1, <2>2, <1>2
<1>4. DOMAIN Without(s, keys) = 1..count /\ DOMAIN s = 1..Len(s)
  BY <1>2
<1>5. \A n \in 1..count : Without(s, keys)[n] = s[place[n]] /\ place[n] \in DOMAIN s
  BY <1>1, <1>2, <1>4
<1>6. \A i \in kept : s[i].key \notin keys
  BY DEF Kept
<1>7. \A i \in DOMAIN s : s[i].key \notin keys => i \in kept
  BY DEF Kept
<1>8. KeysOf(Without(s, keys)) \subseteq KeysOf(s) \ keys
  BY <1>2, <1>4, <1>5, <1>6 DEF KeysOf
<1>9. KeysOf(s) \ keys \subseteq KeysOf(Without(s, keys))
  <2> SUFFICES ASSUME NEW i \in DOMAIN s, s[i].key \notin keys
               PROVE  s[i].key \in KeysOf(Without(s, keys))
    BY DEF KeysOf
  <2>1. PICK n \in 1..count : place[n] = i
    BY <1>2, <1>7
  <2> QED
    BY <2>1, <1>4, <1>5 DEF KeysOf
<1> QED
  BY <1>1, <1>3, <1>4, <1>5, <1>8, <1>9

-----------------------------------------------------------------------------
(* The inductive invariant.                                                *)

\* The versions of a list are of contents captured so far.
Genuine(s, versions) == \A i \in DOMAIN s : s[i].version <= versions[s[i].key]

RecordsAreGenuine ==
    /\ Genuine(store, captured) /\ Genuine(batch, captured) /\ Genuine(arrived, captured)
    /\ \A p \in Poster : Genuine(work[p], captured)
    /\ \A i \in DOMAIN outbox : Genuine(outbox[i], captured)
    /\ \A k \in Key : server[k] <= captured[k]

\* The store may forget the id: the server has it or receives it, or it is a known loss.
OnItsWay(k) ==
    \/ server[k] > 0
    \/ k \in KeysOf(arrived)
    \/ k \in InOutbox
    \/ k \in excused

\* What a poster is about to remove is stored; what the sync is about to remove is on its
\* way.
RemovalsAreSafe ==
    /\ \A p \in Poster :
           acked[p] => work[p] # <<>> /\ server[Head(work[p]).key] > 0
    /\ sync = "sent" => \A k \in KeysOf(batch) : OnItsWay(k)

\* Every id that was ever captured is in the store or on its way, however often its
\* content changes.
NothingIsForgotten == \A k \in Key : captured[k] > 0 => k \in KeysOf(store) \/ OnItsWay(k)

\* What is on its way, or settled, stays so.
StayOnTheirWay == \A k \in Key : OnItsWay(k) => OnItsWay(k)'

\* TypeOK without what it says of versions, which RecordsAreGenuine implies.
ListsAreTyped ==
    /\ captured \in [Key -> 0..MaxVersion]
    /\ store \in Seq(Record) /\ Len(store) <= MaxItems
    /\ work \in [Poster -> Seq(Record)]
    /\ acked \in [Poster -> BOOLEAN]
    /\ session \in {"none", "open"}
    /\ sync \in {"idle", "read", "sent"}
    /\ batch \in Seq(Record)
    /\ outbox \in Seq(Seq(Record))
    /\ arrived \in Seq(Record)
    /\ server \in [Key -> 0..MaxVersion]

PendingInv == ListsAreTyped /\ RecordsAreGenuine /\ RemovalsAreSafe /\ NothingIsForgotten

-----------------------------------------------------------------------------
(* Lists of records.                                                       *)

LEMMA RecordFields ==
    ASSUME NEW s \in Seq(Record), NEW i \in DOMAIN s
    PROVE  s[i] \in Record /\ s[i].key \in Key /\ s[i].version \in 1..MaxVersion
<1>1. s[i] \in Record
  OBVIOUS
<1> QED
  BY <1>1 DEF Record

LEMMA EmptyList ==
    ASSUME NEW versions
    PROVE  <<>> \in Seq(Record) /\ KeysOf(<<>>) = {} /\ Genuine(<<>>, versions)
  BY DEF KeysOf, Genuine

\* What is taken from a list is as genuine as the list, and so is the list later on.
LEMMA GenuinePart ==
    ASSUME NEW s, NEW t, NEW versions, Genuine(s, versions),
           \A n \in DOMAIN t : \E i \in DOMAIN s : t[n] = s[i]
    PROVE  Genuine(t, versions)
  BY DEF Genuine

LEMMA GenuineLater ==
    ASSUME NEW s \in Seq(Record), NEW v \in [Key -> Nat], NEW w \in [Key -> Nat],
           \A k \in Key : v[k] <= w[k], Genuine(s, v)
    PROVE  Genuine(s, w)
<1> SUFFICES ASSUME NEW i \in DOMAIN s
             PROVE  s[i].version <= w[s[i].key]
  BY DEF Genuine
<1>1. s[i].key \in Key /\ s[i].version \in Nat
  BY RecordFields
<1>2. s[i].version <= v[s[i].key]
  BY DEF Genuine
<1> HIDE DEF Record
<1> QED
  BY <1>1, <1>2

LEMMA InFront ==
    ASSUME NEW s \in Seq(Record), NEW r \in Record
    PROVE  /\ <<r>> \o s \in Seq(Record)
           /\ KeysOf(<<r>> \o s) = {r.key} \cup KeysOf(s)
           /\ \A n \in DOMAIN (<<r>> \o s) :
                  (<<r>> \o s)[n] = r \/ \E i \in DOMAIN s : (<<r>> \o s)[n] = s[i]
           /\ \A i \in DOMAIN s : \E n \in DOMAIN (<<r>> \o s) : (<<r>> \o s)[n] = s[i]
<1> DEFINE t == <<r>> \o s
<1>1. t \in Seq(Record) /\ Len(t) = Len(s) + 1
  OBVIOUS
<1>2. t[1] = r
  OBVIOUS
<1>3. \A i \in DOMAIN s : i + 1 \in DOMAIN t /\ t[i + 1] = s[i]
  OBVIOUS
<1>4. \A n \in DOMAIN t : n # 1 => n - 1 \in DOMAIN s /\ t[n] = s[n - 1]
  OBVIOUS
<1>5. 1 \in DOMAIN t
  BY <1>1
<1> HIDE DEF t
<1>6. KeysOf(t) = {r.key} \cup KeysOf(s)
  <2>1. r.key \in KeysOf(t) /\ KeysOf(s) \subseteq KeysOf(t)
    BY <1>2, <1>3, <1>5 DEF KeysOf
  <2>2. KeysOf(t) \subseteq {r.key} \cup KeysOf(s)
    BY <1>2, <1>4 DEF KeysOf
  <2> QED
    BY <2>1, <2>2
<1>7. \A n \in DOMAIN t : t[n] = r \/ \E i \in DOMAIN s : t[n] = s[i]
  BY <1>2, <1>4
<1> QED
  BY <1>1, <1>3, <1>6, <1>7 DEF t

LEMMA AtTheEnd ==
    ASSUME NEW s \in Seq(Record), NEW r \in Record
    PROVE  /\ Append(s, r) \in Seq(Record)
           /\ Append(s, r) # <<>>
           /\ s # <<>> => Head(Append(s, r)) = Head(s)
           /\ \A n \in DOMAIN Append(s, r) :
                  Append(s, r)[n] = r \/ \E i \in DOMAIN s : Append(s, r)[n] = s[i]
<1> DEFINE t == Append(s, r)
<1>1. t \in Seq(Record) /\ Len(t) = Len(s) + 1 /\ Len(s) \in Nat
  OBVIOUS
<1>2. t[Len(s) + 1] = r /\ \A i \in 1..Len(s) : t[i] = s[i]
  OBVIOUS
<1>3. DOMAIN t = 1..(Len(s) + 1) /\ DOMAIN s = 1..Len(s)
  BY <1>1
<1>4. t # <<>>
  OBVIOUS
<1>5. s # <<>> => Head(t) = Head(s)
  <2>1. s # <<>> => 1 \in 1..Len(s) /\ Head(s) = s[1]
    OBVIOUS
  <2>2. Head(t) = t[1]
    BY <1>1, <1>4
  <2> QED
    BY <1>2, <2>1, <2>2
<1> HIDE DEF t
<1>6. \A n \in DOMAIN t : t[n] = r \/ \E i \in DOMAIN s : t[n] = s[i]
  BY <1>1, <1>2, <1>3
<1> QED
  BY <1>1, <1>4, <1>5, <1>6 DEF t

LEMMA HeadAndTail ==
    ASSUME NEW s \in Seq(Record), s # <<>>
    PROVE  /\ Head(s) \in Record /\ Tail(s) \in Seq(Record)
           /\ \E i \in DOMAIN s : Head(s) = s[i]
           /\ \A n \in DOMAIN Tail(s) : \E i \in DOMAIN s : Tail(s)[n] = s[i]
           /\ KeysOf(s) = {Head(s).key} \cup KeysOf(Tail(s))
<1> DEFINE t == Tail(s)
<1>1. Head(s) \in Record /\ t \in Seq(Record) /\ Head(s) = s[1] /\ 1 \in DOMAIN s
  OBVIOUS
<1>2. \A n \in DOMAIN t : n + 1 \in DOMAIN s /\ t[n] = s[n + 1]
  OBVIOUS
<1>3. \A i \in DOMAIN s : i # 1 => i - 1 \in DOMAIN t /\ s[i] = t[i - 1]
  OBVIOUS
<1> HIDE DEF t
<1>4. KeysOf(s) = {Head(s).key} \cup KeysOf(t)
  <2>1. Head(s).key \in KeysOf(s) /\ KeysOf(t) \subseteq KeysOf(s)
    BY <1>1, <1>2 DEF KeysOf
  <2>2. KeysOf(s) \subseteq {Head(s).key} \cup KeysOf(t)
    BY <1>1, <1>3 DEF KeysOf
  <2> QED
    BY <2>1, <2>2
<1> QED
  BY <1>1, <1>2, <1>4 DEF t

\* The limit of the store cuts the list in two.
LEMMA NewestAndOldest ==
    ASSUME NEW s \in Seq(Record)
    PROVE  /\ Newest(s) \in Seq(Record) /\ Len(Newest(s)) <= MaxItems
           /\ \A n \in DOMAIN Newest(s) : \E i \in DOMAIN s : Newest(s)[n] = s[i]
           /\ KeysOf(Newest(s)) \cup KeysOf(Oldest(s)) = KeysOf(s)
<1>1. CASE Len(s) <= MaxItems
  <2>1. Newest(s) = s
    BY <1>1 DEF Newest
  <2>2. KeysOf(Oldest(s)) = {}
    BY <1>1 DEF Oldest, KeysOf
  <2> QED
    BY <1>1, <2>1, <2>2
<1>2. CASE Len(s) > MaxItems
  <2> DEFINE new == Newest(s)
             old == Oldest(s)
  <2>1. new = SubSeq(s, 1, MaxItems) /\ old = SubSeq(s, MaxItems + 1, Len(s))
    BY <1>2 DEF Newest, Oldest
  <2>2. new \in Seq(Record) /\ Len(new) = MaxItems
    BY <1>2, <2>1
  <2>3. \A n \in DOMAIN new : n \in DOMAIN s /\ new[n] = s[n]
    BY <1>2, <2>1
  <2>4. \A i \in DOMAIN s : i <= MaxItems => i \in DOMAIN new
    BY <1>2, <2>1
  <2>5. \A n \in DOMAIN old : n + MaxItems \in DOMAIN s /\ old[n] = s[n + MaxItems]
    BY <1>2, <2>1
  <2>6. \A i \in DOMAIN s : i > MaxItems => i - MaxItems \in DOMAIN old
                                         /\ old[i - MaxItems] = s[i]
    BY <1>2, <2>1
  <2>7. \A i \in DOMAIN s : i <= MaxItems \/ i > MaxItems
    OBVIOUS
  <2> HIDE DEF new, old
  <2>8. KeysOf(new) \cup KeysOf(old) = KeysOf(s)
    <3>1. KeysOf(new) \subseteq KeysOf(s) /\ KeysOf(old) \subseteq KeysOf(s)
      BY <2>3, <2>5 DEF KeysOf
    <3>2. KeysOf(s) \subseteq KeysOf(new) \cup KeysOf(old)
      BY <2>3, <2>4, <2>6, <2>7 DEF KeysOf
    <3> QED
      BY <3>1, <3>2
  <2> QED
    BY <2>2, <2>3, <2>8 DEF new, old
<1> QED
  BY <1>1, <1>2

\* InsertNotification, InsertSms: what the table has is never lost, and is genuine if the
\* record is.
LEMMA UpsertKeeps ==
    ASSUME NEW table \in [Key -> 0..MaxVersion], NEW r \in Record,
           NEW versions \in [Key -> Nat],
           \A k \in Key : table[k] <= versions[k], r.version <= versions[r.key]
    PROVE  /\ Upsert(table, r) \in [Key -> 0..MaxVersion]
           /\ \A k \in Key : Upsert(table, r)[k] <= versions[k]
           /\ \A k \in Key : table[k] > 0 => Upsert(table, r)[k] > 0
           /\ r.key \notin Refused => Upsert(table, r)[r.key] > 0
<1>1. r.key \in Key /\ r.version \in 1..MaxVersion
  BY DEF Record
<1>2. r.version \in 0..MaxVersion /\ r.version > 0
  BY <1>1
<1> HIDE DEF Record
<1> QED
  BY <1>1, <1>2 DEF Upsert

-----------------------------------------------------------------------------
(* The steps keep the invariant, part by part.                             *)

LEMMA Start == Init => PendingInv
<1> SUFFICES ASSUME Init
             PROVE  PendingInv
  OBVIOUS
<1> USE DEF Init
<1>1. ListsAreTyped
  BY EmptyList DEF ListsAreTyped
<1>2. RecordsAreGenuine
  BY DEF RecordsAreGenuine, Genuine
<1>3. RemovalsAreSafe
  BY DEF RemovalsAreSafe
<1>4. NothingIsForgotten
  BY DEF NothingIsForgotten
<1> QED
  BY <1>1, <1>2, <1>3, <1>4 DEF PendingInv

\* enqueueNotification, enqueueSms.
LEMMA EnqueueKeeps ==
    ASSUME PendingInv, NEW k \in Key, Enqueue(k) \/ EnqueueFails(k)
    PROVE  PendingInv' /\ StayOnTheirWay
<1> DEFINE r == [key |-> k, version |-> captured'[k]]
           front == <<r>> \o store
<1> USE DEF PendingInv
<1>1. captured \in [Key -> 0..MaxVersion] /\ captured' \in [Key -> 0..MaxVersion]
      /\ \A j \in Key : captured[j] <= captured'[j]
  <2>1. captured \in [Key -> 0..MaxVersion] /\ captured[k] < MaxVersion
        /\ captured' = [captured EXCEPT ![k] = @ + 1]
    BY DEF Enqueue, EnqueueFails, ListsAreTyped
  <2> QED
    BY <2>1
<1>2. r \in Record /\ r.key = k /\ r.version = captured'[k]
  <2>1. k \in Key /\ captured'[k] \in 1..MaxVersion
    BY DEF Enqueue, EnqueueFails, ListsAreTyped
  <2> QED
    BY <2>1 DEF Record
<1>3. /\ \/ store' = Newest(front) /\ excused' = excused \cup KeysOf(Oldest(front))
         \/ store' = store /\ excused' = excused \cup {k}
      /\ work' = [work EXCEPT !["executor"] = Append(@, r)]
  BY DEF Enqueue, EnqueueFails
<1>4. UNCHANGED <<acked, session, sync, batch, outbox, arrived, server>>
  BY DEF Enqueue, EnqueueFails
<1> HIDE DEF r, Record
<1>5. /\ front \in Seq(Record) /\ KeysOf(front) = {k} \cup KeysOf(store)
      /\ \A n \in DOMAIN front : front[n] = r \/ \E i \in DOMAIN store : front[n] = store[i]
      /\ \A i \in DOMAIN store : \E n \in DOMAIN front : front[n] = store[i]
  BY <1>2, InFront DEF ListsAreTyped
<1> HIDE DEF front
<1>6. /\ store' \in Seq(Record) /\ Len(store') <= MaxItems
      /\ \A n \in DOMAIN store' : \E i \in DOMAIN front : store'[n] = front[i]
      /\ KeysOf(front) \subseteq KeysOf(store') \cup excused'
  <2>1. CASE store' = Newest(front) /\ excused' = excused \cup KeysOf(Oldest(front))
    BY <1>5, <2>1, NewestAndOldest
  <2>2. CASE store' = store /\ excused' = excused \cup {k}
    BY <1>5, <2>2 DEF ListsAreTyped
  <2> QED
    BY <1>3, <2>1, <2>2
<1>7. \A p \in Poster :
          /\ work[p] \in Seq(Record) /\ work'[p] \in Seq(Record)
          /\ work[p] # <<>> => work'[p] # <<>> /\ Head(work'[p]) = Head(work[p])
          /\ \A n \in DOMAIN work'[p] :
                 work'[p][n] = r \/ \E i \in DOMAIN work[p] : work'[p][n] = work[p][i]
  <2> SUFFICES ASSUME NEW p \in Poster
               PROVE  /\ work[p] \in Seq(Record) /\ work'[p] \in Seq(Record)
                      /\ work[p] # <<>> => work'[p] # <<>> /\ Head(work'[p]) = Head(work[p])
                      /\ \A n \in DOMAIN work'[p] :
                             \/ work'[p][n] = r
                             \/ \E i \in DOMAIN work[p] : work'[p][n] = work[p][i]
    OBVIOUS
  <2>1. work[p] \in Seq(Record)
    BY DEF ListsAreTyped
  <2>2. work'[p] = Append(work[p], r) \/ work'[p] = work[p]
    BY <1>3 DEF ListsAreTyped
  <2>3. CASE work'[p] = Append(work[p], r)
    BY <1>2, <2>1, <2>3, AtTheEnd
  <2>4. CASE work'[p] = work[p]
    BY <2>1, <2>4
  <2> QED
    BY <2>2, <2>3, <2>4
<1>8. ListsAreTyped'
  <2>1. work' \in [Poster -> Seq(Record)]
    BY <1>3, <1>7 DEF ListsAreTyped
  <2> QED
    BY <1>1, <1>4, <1>6, <2>1 DEF ListsAreTyped
<1>9. RecordsAreGenuine'
  <2>1. captured \in [Key -> Nat] /\ captured' \in [Key -> Nat]
    BY <1>1
  <2>2. \A s \in Seq(Record) : Genuine(s, captured) => Genuine(s, captured')
    BY <1>1, <2>1, GenuineLater
  <2>3. r.version <= captured'[r.key]
    BY <1>1, <1>2
  <2>4. Genuine(store', captured')
    <3>1. Genuine(store, captured')
      BY <2>2 DEF ListsAreTyped, RecordsAreGenuine
    <3>2. Genuine(front, captured')
      BY <1>5, <2>3, <3>1 DEF Genuine
    <3> QED
      BY <1>6, <3>2, GenuinePart
  <2>5. \A p \in Poster : Genuine(work'[p], captured')
    <3> SUFFICES ASSUME NEW p \in Poster
                 PROVE  Genuine(work'[p], captured')
      OBVIOUS
    <3>1. Genuine(work[p], captured')
      BY <1>7, <2>2 DEF RecordsAreGenuine
    <3> QED
      BY <1>7, <2>3, <3>1 DEF Genuine
  <2>6. Genuine(batch', captured') /\ Genuine(arrived', captured')
    BY <1>4, <2>2 DEF ListsAreTyped, RecordsAreGenuine
  <2>7. \A i \in DOMAIN outbox' : Genuine(outbox'[i], captured')
    <3>1. \A i \in DOMAIN outbox : outbox[i] \in Seq(Record)
      BY DEF ListsAreTyped
    <3> QED
      BY <1>4, <2>2, <3>1 DEF RecordsAreGenuine
  <2>8. \A j \in Key : server'[j] <= captured'[j]
    <3> SUFFICES ASSUME NEW j \in Key
                 PROVE  server[j] <= captured'[j]
      BY <1>4
    <3>1. server[j] <= captured[j] /\ captured[j] <= captured'[j]
      BY <1>1 DEF RecordsAreGenuine
    <3>2. server[j] \in Int /\ captured[j] \in Int /\ captured'[j] \in Int
      BY <1>1 DEF ListsAreTyped
    <3> QED
      BY <3>1, <3>2
  <2> QED
    BY <2>4, <2>5, <2>6, <2>7, <2>8 DEF RecordsAreGenuine
<1>10. \A j \in Key : OnItsWay(j) => OnItsWay(j)'
  BY <1>3, <1>4 DEF OnItsWay, InOutbox
<1>11. RemovalsAreSafe'
  <2>1. \A p \in Poster : acked'[p] => work'[p] # <<>> /\ server'[Head(work'[p]).key] > 0
    BY <1>4, <1>7 DEF RemovalsAreSafe
  <2>2. KeysOf(batch) \subseteq Key
    BY RecordFields DEF KeysOf, ListsAreTyped
  <2>3. sync' = "sent" => \A j \in KeysOf(batch') : OnItsWay(j)'
    BY <1>4, <1>10, <2>2 DEF RemovalsAreSafe
  <2> QED
    BY <2>1, <2>3 DEF RemovalsAreSafe
<1>12. NothingIsForgotten'
  <2> SUFFICES ASSUME NEW j \in Key, captured'[j] > 0
               PROVE  j \in KeysOf(store') \/ OnItsWay(j)'
    BY DEF NothingIsForgotten
  <2>1. j = k \/ captured'[j] = captured[j]
    BY DEF Enqueue, EnqueueFails, ListsAreTyped
  <2>2. j \in KeysOf(front) \/ OnItsWay(j)
    BY <1>5, <2>1 DEF NothingIsForgotten
  <2> QED
    BY <1>3, <1>6, <1>10, <2>2 DEF OnItsWay
<1> QED
  BY <1>8, <1>9, <1>10, <1>11, <1>12 DEF StayOnTheirWay

\* A failure of the file that empties it, or that lets a sync keep what it sent.
LEMMA FileFailuresKeep ==
    ASSUME PendingInv, StoreEmptied \/ SyncRemovalFails
    PROVE  PendingInv' /\ StayOnTheirWay
<1> USE DEF PendingInv
<1>1. /\ UNCHANGED <<captured, work, acked, session, outbox, arrived, server>>
      /\ \/ store' = <<>> /\ excused' = excused \cup KeysOf(store) /\ UNCHANGED <<sync, batch>>
         \/ UNCHANGED <<store, excused>> /\ sync' = "idle" /\ batch' = <<>>
  BY DEF StoreEmptied, SyncRemovalFails
<1>2. \A k : OnItsWay(k) => OnItsWay(k)'
  BY <1>1 DEF OnItsWay, InOutbox
<1>3. /\ Genuine(store', captured) /\ store' \in Seq(Record) /\ Len(store') <= MaxItems
      /\ Genuine(batch', captured) /\ batch' \in Seq(Record)
  <2>1. /\ store \in Seq(Record) /\ Len(store) <= MaxItems /\ Genuine(store, captured)
        /\ batch \in Seq(Record) /\ Genuine(batch, captured)
    BY DEF ListsAreTyped, RecordsAreGenuine
  <2>2. <<>> \in Seq(Record) /\ Len(<<>>) <= MaxItems /\ Genuine(<<>>, captured)
    BY EmptyList
  <2>3. store' \in {store, <<>>} /\ batch' \in {batch, <<>>}
    BY <1>1
  <2> QED
    BY <2>1, <2>2, <2>3
<1>4. ListsAreTyped' /\ RecordsAreGenuine'
  BY <1>1, <1>3 DEF ListsAreTyped, RecordsAreGenuine
<1>5. RemovalsAreSafe'
  BY <1>1, <1>2 DEF RemovalsAreSafe
<1>6. NothingIsForgotten'
  BY <1>1, <1>2 DEF NothingIsForgotten, OnItsWay
<1> QED
  BY <1>2, <1>4, <1>5, <1>6 DEF StayOnTheirWay

\* The steps that change no list of a poster, of the sync or of the store: the session's.
\* What they take from the outbox has arrived or is a known loss.
LEMMA SessionKeeps ==
    ASSUME PendingInv, SessionStarts \/ SessionEnds \/ BatchArrives
    PROVE  PendingInv' /\ StayOnTheirWay
<1> USE DEF PendingInv
<1>1. UNCHANGED <<captured, store, work, acked, sync, batch, server>>
  BY DEF SessionStarts, SessionEnds, BatchArrives
<1>2. /\ session' \in {"none", "open"}
      /\ outbox' \in Seq(Seq(Record)) /\ arrived' \in Seq(Record)
      /\ Genuine(arrived', captured)
      /\ \A i \in DOMAIN outbox' : Genuine(outbox'[i], captured)
      /\ \A k \in Key : OnItsWay(k) => OnItsWay(k)'
  <2>1. CASE SessionStarts
    BY <2>1 DEF SessionStarts, ListsAreTyped, RecordsAreGenuine, OnItsWay, InOutbox
  <2>2. CASE SessionEnds
    <3>1. outbox' = <<>> /\ session' = "none"
          /\ UNCHANGED <<arrived, server>> /\ excused' = excused \cup InOutbox
      BY <2>2 DEF SessionEnds
    <3> QED
      BY <3>1 DEF ListsAreTyped, RecordsAreGenuine, OnItsWay
  <2>3. CASE BatchArrives
    <3> USE <2>3 DEF BatchArrives
    <3>1. /\ outbox \in Seq(Seq(Record)) /\ outbox # <<>> /\ outbox' = Tail(outbox)
          /\ UNCHANGED <<server, excused, session>>
      BY DEF ListsAreTyped
    <3>2. Head(outbox) \in Seq(Record) /\ arrived' = Head(outbox)
      <4>1. Head(outbox) \in Seq(Record)
        BY <3>1
      <4>2. arrived' = <<>> \o Head(outbox)
        OBVIOUS
      <4> QED
        BY <4>1, <4>2
    <3>3. /\ outbox' \in Seq(Seq(Record))
          /\ 1 \in DOMAIN outbox /\ Head(outbox) = outbox[1]
          /\ \A i \in DOMAIN outbox' : i + 1 \in DOMAIN outbox /\ outbox'[i] = outbox[i + 1]
          /\ \A i \in DOMAIN outbox :
                 i # 1 => i - 1 \in DOMAIN outbox' /\ outbox[i] = outbox'[i - 1]
      BY <3>1
    <3>4. arrived = <<>>
      OBVIOUS
    <3> USE DEF RecordsAreGenuine
    <3>5. Genuine(arrived', captured) /\ \A i \in DOMAIN outbox' : Genuine(outbox'[i], captured)
      BY <3>2, <3>3
    <3>6. InOutbox = KeysOf(arrived') \cup InOutbox'
      <4>1. \A i \in DOMAIN outbox :
                KeysOf(outbox[i]) \subseteq KeysOf(arrived') \cup InOutbox'
        <5> SUFFICES ASSUME NEW i \in DOMAIN outbox
                     PROVE  KeysOf(outbox[i]) \subseteq KeysOf(arrived') \cup InOutbox'
          OBVIOUS
        <5>1. CASE i = 1
          BY <3>2, <3>3, <5>1
        <5>2. CASE i # 1
          <6>1. i - 1 \in DOMAIN outbox' /\ outbox[i] = outbox'[i - 1]
            BY <3>3, <5>2
          <6>2. KeysOf(outbox'[i - 1]) \subseteq InOutbox'
            BY <6>1, Zenon DEF InOutbox
          <6> QED
            BY <6>1, <6>2
        <5> QED
          BY <5>1, <5>2
      <4>2. \A i \in DOMAIN outbox' : KeysOf(outbox'[i]) \subseteq InOutbox
        BY <3>3, Zenon DEF InOutbox
      <4>3. KeysOf(arrived') \subseteq InOutbox
        BY <3>2, <3>3, Zenon DEF InOutbox
      <4> QED
        BY <4>1, <4>2, <4>3 DEF InOutbox
    <3>7. KeysOf(arrived) = {}
      BY <3>4 DEF KeysOf
    <3> QED
      BY <3>1, <3>2, <3>3, <3>5, <3>6, <3>7 DEF OnItsWay, ListsAreTyped
  <2> QED
    BY <2>1, <2>2, <2>3
<1>3. ListsAreTyped'
  BY <1>1, <1>2 DEF ListsAreTyped
<1>4. RecordsAreGenuine'
  BY <1>1, <1>2 DEF RecordsAreGenuine
<1>5. RemovalsAreSafe'
  <2>1. KeysOf(batch) \subseteq Key
    BY RecordFields DEF KeysOf, ListsAreTyped
  <2> QED
    BY <1>1, <1>2, <2>1 DEF RemovalsAreSafe
<1>6. NothingIsForgotten'
  BY <1>1, <1>2 DEF NothingIsForgotten
<1> QED
  BY <1>2, <1>3, <1>4, <1>5, <1>6 DEF StayOnTheirWay

\* A post that is stored, or that fails, and the removal that follows the first.
LEMMA PostKeeps ==
    ASSUME PendingInv, NEW p \in Poster, PosterStep(p)
    PROVE  PendingInv' /\ StayOnTheirWay
<1> DEFINE r == Head(work[p])
<1> USE DEF PendingInv
<1>1. UNCHANGED <<captured, session, sync, batch, outbox, arrived, excused>>
  BY DEF PosterStep, PostSucceeds, RemovePosted, RemovalFails, PostFails
<1>2. work[p] \in Seq(Record) /\ work[p] # <<>>
  BY DEF PosterStep, PostSucceeds, RemovePosted, RemovalFails, PostFails, ListsAreTyped,
         RemovalsAreSafe
<1>3. /\ r \in Record /\ Tail(work[p]) \in Seq(Record)
      /\ \E i \in DOMAIN work[p] : r = work[p][i]
      /\ Genuine(Tail(work[p]), captured)
  <2>1. Genuine(work[p], captured)
    BY DEF RecordsAreGenuine
  <2>2. /\ r \in Record /\ Tail(work[p]) \in Seq(Record)
        /\ \E i \in DOMAIN work[p] : r = work[p][i]
        /\ \A n \in DOMAIN Tail(work[p]) : \E i \in DOMAIN work[p] : Tail(work[p])[n] = work[p][i]
    BY <1>2, HeadAndTail, Zenon
  <2>3. Genuine(Tail(work[p]), captured)
    BY <2>1, <2>2, GenuinePart, Zenon
  <2> QED
    BY <2>2, <2>3
<1>4. r.key \in Key /\ r.version <= captured[r.key]
  <2>1. r.key \in Key
    BY <1>3 DEF Record
  <2> QED
    BY <1>3, <2>1 DEF RecordsAreGenuine, Genuine
<1>5. captured \in [Key -> Nat]
  BY DEF ListsAreTyped
<1>6. /\ Upsert(server, r) \in [Key -> 0..MaxVersion]
      /\ \A k \in Key : Upsert(server, r)[k] <= captured[k]
      /\ \A k \in Key : server[k] > 0 => Upsert(server, r)[k] > 0
      /\ r.key \notin Refused => Upsert(server, r)[r.key] > 0
  <2>1. \A k \in Key : server[k] <= captured[k]
    BY DEF RecordsAreGenuine
  <2>2. server \in [Key -> 0..MaxVersion]
    BY DEF ListsAreTyped
  <2> QED
    BY <1>3, <1>4, <1>5, <2>1, <2>2, UpsertKeeps
<1> HIDE DEF r
<1>7. /\ server' \in [Key -> 0..MaxVersion]
      /\ \A k \in Key : server'[k] <= captured[k]
      /\ \A k \in Key : server[k] > 0 => server'[k] > 0
  <2>1. server' = server \/ server' = Upsert(server, r)
    BY DEF PosterStep, PostSucceeds, RemovePosted, RemovalFails, PostFails, r
  <2> QED
    BY <1>6, <2>1 DEF ListsAreTyped, RecordsAreGenuine
<1>8. /\ work' \in [Poster -> Seq(Record)]
      /\ \A q \in Poster : work'[q] = work[q] \/ (q = p /\ work'[q] = Tail(work[q]))
  BY <1>3 DEF PosterStep, PostSucceeds, RemovePosted, RemovalFails, PostFails, ListsAreTyped
<1>9. acked' \in [Poster -> BOOLEAN]
  BY DEF PosterStep, PostSucceeds, RemovePosted, RemovalFails, PostFails, ListsAreTyped
<1>10. \A k \in Key : OnItsWay(k) => OnItsWay(k)'
  BY <1>1, <1>7 DEF OnItsWay, InOutbox
<1>11. /\ store' \in Seq(Record) /\ Len(store') <= MaxItems
       /\ Genuine(store', captured)
       /\ \A k \in KeysOf(store) : k \in KeysOf(store') \/ OnItsWay(k)'
  <2>1. CASE RemovePosted(p)
    <3>1. acked[p] /\ store' = Without(store, {r.key})
      BY <2>1 DEF RemovePosted, r
    <3>2. PICK posted \in Key : posted = r.key
      BY <1>4
    <3>3. OnItsWay(posted)'
      <4>1. server[posted] > 0
        BY <3>1, <3>2 DEF RemovalsAreSafe, r
      <4> QED
        BY <1>7, <4>1 DEF OnItsWay
    <3>4. store \in Seq(Record) /\ Len(store) <= MaxItems /\ Genuine(store, captured)
      BY DEF ListsAreTyped, RecordsAreGenuine
    <3>5. /\ store' \in Seq(Record) /\ Len(store') <= Len(store)
          /\ \A n \in DOMAIN store' : \E i \in DOMAIN store : store'[n] = store[i]
          /\ KeysOf(store') = KeysOf(store) \ {posted}
      <4>1. store' = Without(store, {posted})
        BY <3>1, <3>2
      <4> DEFINE t == Without(store, {posted})
      <4>2. /\ t \in Seq(Record) /\ Len(t) <= Len(store)
            /\ \A n \in DOMAIN t : \E i \in DOMAIN store : t[n] = store[i]
            /\ KeysOf(t) = KeysOf(store) \ {posted}
        BY <3>4, WithoutKeeps, Zenon
      <4> HIDE DEF t
      <4>3. store' = t
        BY <4>1 DEF t
      <4> QED
        BY <4>2, <4>3
    <3>6. Genuine(store', captured)
      BY <3>4, <3>5, GenuinePart
    <3>7. Len(store') <= MaxItems
      BY <3>4, <3>5
    <3> QED
      BY <3>3, <3>5, <3>6, <3>7
  <2>2. CASE ~RemovePosted(p)
    <3>1. store' = store
      BY <2>2 DEF PosterStep, PostSucceeds, RemovalFails, PostFails
    <3> QED
      BY <3>1 DEF ListsAreTyped, RecordsAreGenuine
  <2> QED
    BY <2>1, <2>2
<1>12. ListsAreTyped'
  BY <1>1, <1>7, <1>8, <1>9, <1>11 DEF ListsAreTyped
<1>13. RecordsAreGenuine'
  <2>1. \A q \in Poster : Genuine(work'[q], captured)
    BY <1>3, <1>8 DEF RecordsAreGenuine
  <2> QED
    BY <1>1, <1>7, <1>11, <2>1 DEF RecordsAreGenuine
<1>14. RemovalsAreSafe'
  <2>1. ASSUME NEW q \in Poster, acked'[q]
        PROVE  work'[q] # <<>> /\ server'[Head(work'[q]).key] > 0
    <3>1. CASE q = p
      <4>1. PostSucceeds(p)
        BY <2>1, <3>1 DEF PosterStep, RemovePosted, RemovalFails, PostFails, ListsAreTyped
      <4>2. work' = work /\ server' = Upsert(server, r) /\ r.key \notin Refused
        BY <4>1 DEF PostSucceeds, r
      <4> QED
        BY <1>2, <1>6, <3>1, <4>2 DEF r
    <3>2. CASE q # p
      <4>1. work'[q] = work[q] /\ acked[q]
        BY <1>8, <2>1, <3>2 DEF PosterStep, PostSucceeds, RemovePosted, RemovalFails,
                                PostFails, ListsAreTyped
      <4>2. work[q] # <<>> /\ server[Head(work[q]).key] > 0
        BY <4>1 DEF RemovalsAreSafe
      <4>3. Head(work[q]) \in Record
        BY <4>2 DEF ListsAreTyped
      <4>4. Head(work[q]).key \in Key
        BY <4>3 DEF Record
      <4> QED
        BY <1>7, <4>1, <4>2, <4>4
    <3> QED
      BY <3>1, <3>2
  <2>2. KeysOf(batch) \subseteq Key
    BY RecordFields DEF KeysOf, ListsAreTyped
  <2>3. sync' = "sent" => \A k \in KeysOf(batch') : OnItsWay(k)'
    BY <1>1, <1>10, <2>2 DEF RemovalsAreSafe
  <2> QED
    BY <2>1, <2>3 DEF RemovalsAreSafe
<1>15. NothingIsForgotten'
  BY <1>1, <1>10, <1>11 DEF NothingIsForgotten
<1> QED
  BY <1>10, <1>12, <1>13, <1>14, <1>15 DEF StayOnTheirWay

\* The worker starts a flush; the sync reads the store and hands it to the socket.
LEMMA ReadersKeep ==
    ASSUME PendingInv, StartFlush \/ SyncReads \/ SyncSends
    PROVE  PendingInv' /\ StayOnTheirWay
<1> USE DEF PendingInv
<1>1. UNCHANGED <<captured, store, acked, session, arrived, server>>
  BY DEF StartFlush, SyncReads, SyncSends
<1>2. store \in Seq(Record) /\ Genuine(store, captured)
      /\ batch \in Seq(Record) /\ Genuine(batch, captured)
      /\ outbox \in Seq(Seq(Record))
  BY DEF ListsAreTyped, RecordsAreGenuine
<1>3. /\ work' \in [Poster -> Seq(Record)]
      /\ \A p \in Poster : Genuine(work'[p], captured)
      /\ \A p \in Poster : acked[p] => work'[p] = work[p]
  <2>1. CASE StartFlush
    <3>1. work["worker"] = <<>> /\ work' = [work EXCEPT !["worker"] = store]
      BY <2>1 DEF StartFlush
    <3>2. ~acked["worker"]
      BY <3>1 DEF RemovalsAreSafe, Poster
    <3> QED
      BY <1>2, <3>1, <3>2 DEF ListsAreTyped, RecordsAreGenuine
  <2>2. CASE ~StartFlush
    <3>1. work' = work
      BY <2>2 DEF SyncReads, SyncSends
    <3> QED
      BY <3>1 DEF ListsAreTyped, RecordsAreGenuine
  <2> QED
    BY <2>1, <2>2
<1>4. /\ sync' \in {"idle", "read", "sent"} /\ batch' \in Seq(Record)
      /\ Genuine(batch', captured)
  BY <1>2 DEF StartFlush, SyncReads, SyncSends, ListsAreTyped
<1>5. /\ outbox' \in Seq(Seq(Record))
      /\ \A i \in DOMAIN outbox' : Genuine(outbox'[i], captured)
      /\ \A k \in Key : OnItsWay(k) => OnItsWay(k)'
      /\ sync' = "sent" => \A k \in KeysOf(batch') : OnItsWay(k)'
  <2>1. CASE SyncSends /\ session # "none"
    <3>1. outbox' = Append(outbox, batch) /\ UNCHANGED <<server, arrived, excused, batch>>
      BY <2>1 DEF SyncSends
    <3>2. /\ outbox' \in Seq(Seq(Record))
          /\ Len(outbox) \in Nat /\ DOMAIN outbox = 1..Len(outbox)
          /\ DOMAIN outbox' = 1..(Len(outbox) + 1)
          /\ outbox'[Len(outbox) + 1] = batch
          /\ \A i \in DOMAIN outbox : outbox'[i] = outbox[i]
      BY <1>2, <3>1
    <3>3. \A i \in DOMAIN outbox' : i \in DOMAIN outbox \/ i = Len(outbox) + 1
      BY <3>2
    <3>4. Len(outbox) + 1 \in DOMAIN outbox' /\ \A i \in DOMAIN outbox : i \in DOMAIN outbox'
      BY <3>2
    <3>5. \A i \in DOMAIN outbox' : Genuine(outbox'[i], captured)
      BY <1>2, <3>2, <3>3 DEF RecordsAreGenuine
    <3>6. InOutbox \subseteq InOutbox' /\ KeysOf(batch) \subseteq InOutbox'
      BY <3>2, <3>4, Zenon DEF InOutbox
    <3> QED
      BY <3>1, <3>2, <3>5, <3>6 DEF OnItsWay
  <2>2. CASE SyncSends /\ session = "none"
    <3>1. excused' = excused \cup KeysOf(batch)
          /\ UNCHANGED <<server, arrived, outbox, batch>>
      BY <2>2 DEF SyncSends
    <3> QED
      BY <1>2, <3>1 DEF OnItsWay, InOutbox, RecordsAreGenuine
  <2>3. CASE ~SyncSends
    <3>1. UNCHANGED <<server, arrived, outbox, excused>>
      BY <2>3 DEF StartFlush, SyncReads
    <3>2. UNCHANGED <<sync, batch>> \/ sync' = "read"
      BY <2>3 DEF StartFlush, SyncReads
    <3>3. KeysOf(batch) \subseteq Key
      BY RecordFields DEF KeysOf, ListsAreTyped
    <3>4. \A k \in Key : OnItsWay(k) => OnItsWay(k)'
      BY <3>1 DEF OnItsWay, InOutbox
    <3>5. sync' = "sent" => \A k \in KeysOf(batch') : OnItsWay(k)'
      BY <3>2, <3>3, <3>4 DEF RemovalsAreSafe
    <3> QED
      BY <1>2, <3>1, <3>4, <3>5 DEF RecordsAreGenuine
  <2> QED
    BY <2>1, <2>2, <2>3
<1>6. ListsAreTyped'
  BY <1>1, <1>3, <1>4, <1>5 DEF ListsAreTyped
<1>7. RecordsAreGenuine'
  BY <1>1, <1>3, <1>4, <1>5 DEF RecordsAreGenuine
<1>8. RemovalsAreSafe'
  <2>1. \A p \in Poster : acked'[p] => work'[p] # <<>> /\ server'[Head(work'[p]).key] > 0
    BY <1>1, <1>3 DEF RemovalsAreSafe
  <2> QED
    BY <1>5, <2>1 DEF RemovalsAreSafe
<1>9. NothingIsForgotten'
  BY <1>1, <1>5 DEF NothingIsForgotten
<1> QED
  BY <1>5, <1>6, <1>7, <1>8, <1>9 DEF StayOnTheirWay

\* removeNotifications, removeSms of what was handed to the socket.
LEMMA SyncRemovesKeeps ==
    ASSUME PendingInv, SyncRemoves
    PROVE  PendingInv' /\ StayOnTheirWay
<1> USE DEF PendingInv
<1>1. /\ UNCHANGED <<captured, work, acked, session, outbox, arrived, server, excused>>
      /\ sync = "sent" /\ sync' = "idle" /\ batch' = <<>>
      /\ store' = Without(store, KeysOf(batch))
  BY DEF SyncRemoves
<1>2. store \in Seq(Record) /\ Len(store) <= MaxItems /\ Genuine(store, captured)
  BY DEF ListsAreTyped, RecordsAreGenuine
<1>3. /\ store' \in Seq(Record) /\ Len(store') <= Len(store)
      /\ \A n \in DOMAIN store' : \E i \in DOMAIN store : store'[n] = store[i]
      /\ KeysOf(store') = KeysOf(store) \ KeysOf(batch)
  <2> DEFINE t == Without(store, KeysOf(batch))
  <2>1. /\ t \in Seq(Record) /\ Len(t) <= Len(store)
        /\ \A n \in DOMAIN t : \E i \in DOMAIN store : t[n] = store[i]
        /\ KeysOf(t) = KeysOf(store) \ KeysOf(batch)
    BY <1>2, WithoutKeeps, Zenon
  <2> HIDE DEF t
  <2>2. store' = t
    BY <1>1 DEF t
  <2> QED
    BY <2>1, <2>2
<1>4. Genuine(store', captured) /\ Genuine(batch', captured)
  BY <1>1, <1>2, <1>3, GenuinePart, EmptyList
<1>5. Len(store') <= MaxItems
  BY <1>2, <1>3
<1>6. \A k : OnItsWay(k) => OnItsWay(k)'
  BY <1>1 DEF OnItsWay, InOutbox
<1>7. ListsAreTyped'
  BY <1>1, <1>3, <1>5 DEF ListsAreTyped
<1>8. RecordsAreGenuine'
  BY <1>1, <1>4 DEF RecordsAreGenuine
<1>9. RemovalsAreSafe'
  BY <1>1 DEF RemovalsAreSafe
<1>10. NothingIsForgotten'
  <2> SUFFICES ASSUME NEW k \in Key, captured'[k] > 0
               PROVE  k \in KeysOf(store') \/ OnItsWay(k)'
    BY DEF NothingIsForgotten
  <2>1. k \in KeysOf(store) \/ OnItsWay(k)
    BY <1>1 DEF NothingIsForgotten
  <2>2. k \in KeysOf(batch) => OnItsWay(k)
    BY <1>1 DEF RemovalsAreSafe
  <2> QED
    BY <1>3, <1>6, <2>1, <2>2
<1> QED
  BY <1>6, <1>7, <1>8, <1>9, <1>10 DEF StayOnTheirWay

\* The server stores what has arrived, or refuses it.
LEMMA StoreArrivedKeeps ==
    ASSUME PendingInv, StoreArrived
    PROVE  PendingInv' /\ StayOnTheirWay
<1> DEFINE r == Head(arrived)
<1> USE DEF PendingInv
<1>1. /\ UNCHANGED <<captured, store, work, acked, session, sync, batch, outbox>>
      /\ arrived # <<>> /\ arrived' = Tail(arrived)
      /\ server' = Upsert(server, r)
      /\ excused' = excused \cup ({r.key} \cap Refused)
  BY DEF StoreArrived
<1>2. arrived \in Seq(Record) /\ Genuine(arrived, captured)
  BY DEF ListsAreTyped, RecordsAreGenuine
<1>3. /\ r \in Record /\ arrived' \in Seq(Record)
      /\ \E i \in DOMAIN arrived : r = arrived[i]
      /\ \A n \in DOMAIN arrived' : \E i \in DOMAIN arrived : arrived'[n] = arrived[i]
      /\ KeysOf(arrived) = {r.key} \cup KeysOf(arrived')
  <2>1. /\ r \in Record /\ Tail(arrived) \in Seq(Record)
        /\ \E i \in DOMAIN arrived : r = arrived[i]
        /\ \A n \in DOMAIN Tail(arrived) : \E i \in DOMAIN arrived : Tail(arrived)[n] = arrived[i]
        /\ KeysOf(arrived) = {r.key} \cup KeysOf(Tail(arrived))
    BY <1>1, <1>2, HeadAndTail, Zenon
  <2> QED
    BY <1>1, <2>1
<1>4. Genuine(arrived', captured)
  BY <1>2, <1>3, GenuinePart
<1>5. r.key \in Key /\ r.version <= captured[r.key]
  <2>1. r.key \in Key
    BY <1>3 DEF Record
  <2> QED
    BY <1>2, <1>3, <2>1 DEF Genuine
<1>6. /\ server' \in [Key -> 0..MaxVersion]
      /\ \A k \in Key : server'[k] <= captured[k]
      /\ \A k \in Key : server[k] > 0 => server'[k] > 0
      /\ r.key \notin Refused => server'[r.key] > 0
  <2>1. captured \in [Key -> Nat] /\ server \in [Key -> 0..MaxVersion]
        /\ \A k \in Key : server[k] <= captured[k]
    BY DEF ListsAreTyped, RecordsAreGenuine
  <2> QED
    BY <1>1, <1>3, <1>5, <2>1, UpsertKeeps
<1> HIDE DEF r
<1>7. \A k \in Key : OnItsWay(k) => OnItsWay(k)'
  <2> SUFFICES ASSUME NEW k \in Key, OnItsWay(k)
               PROVE  OnItsWay(k)'
    OBVIOUS
  <2>1. CASE server[k] > 0
    BY <1>6, <2>1 DEF OnItsWay
  <2>2. CASE k \in KeysOf(arrived)
    <3>1. CASE k = r.key
      BY <1>1, <1>6, <3>1 DEF OnItsWay
    <3>2. CASE k # r.key
      BY <1>3, <2>2, <3>2 DEF OnItsWay
    <3> QED
      BY <3>1, <3>2
  <2>3. CASE k \in InOutbox \/ k \in excused
    BY <1>1, <2>3 DEF OnItsWay, InOutbox
  <2> QED
    BY <2>1, <2>2, <2>3 DEF OnItsWay
<1>8. ListsAreTyped'
  BY <1>1, <1>3, <1>6 DEF ListsAreTyped
<1>9. RecordsAreGenuine'
  BY <1>1, <1>4, <1>6 DEF RecordsAreGenuine
<1>10. RemovalsAreSafe'
  <2>1. ASSUME NEW p \in Poster, acked'[p]
        PROVE  work'[p] # <<>> /\ server'[Head(work'[p]).key] > 0
    <3>1. work'[p] = work[p] /\ work[p] # <<>> /\ server[Head(work[p]).key] > 0
      BY <1>1, <2>1 DEF RemovalsAreSafe
    <3>2. Head(work[p]) \in Record
      BY <3>1 DEF ListsAreTyped
    <3>3. Head(work[p]).key \in Key
      BY <3>2 DEF Record
    <3> QED
      BY <1>6, <3>1, <3>3
  <2>2. KeysOf(batch) \subseteq Key
    BY RecordFields DEF KeysOf, ListsAreTyped
  <2>3. sync' = "sent" => \A k \in KeysOf(batch') : OnItsWay(k)'
    BY <1>1, <1>7, <2>2 DEF RemovalsAreSafe
  <2> QED
    BY <2>1, <2>3 DEF RemovalsAreSafe
<1>11. NothingIsForgotten'
  BY <1>1, <1>7 DEF NothingIsForgotten
<1> QED
  BY <1>7, <1>8, <1>9, <1>10, <1>11 DEF StayOnTheirWay

LEMMA ProcessKilledKeeps ==
    ASSUME PendingInv, ProcessKilled
    PROVE  PendingInv' /\ StayOnTheirWay
<1> USE DEF PendingInv
<1>1. /\ UNCHANGED <<captured, arrived, server>>
      /\ work' = [p \in Poster |-> <<>>] /\ acked' = [p \in Poster |-> FALSE]
      /\ session' = "none" /\ sync' = "idle" /\ batch' = <<>> /\ outbox' = <<>>
      /\ InOutbox \subseteq excused' /\ excused \subseteq excused'
      /\ store' = store \/ (store' = <<>> /\ KeysOf(store) \subseteq excused')
  BY DEF ProcessKilled
<1>2. \A k : OnItsWay(k) => OnItsWay(k)'
  BY <1>1 DEF OnItsWay
<1>3. store' \in Seq(Record) /\ Len(store') <= MaxItems /\ Genuine(store', captured)
  <2>1. CASE store' = store
    BY <2>1 DEF ListsAreTyped, RecordsAreGenuine
  <2>2. CASE store' = <<>>
    BY <2>2, EmptyList
  <2> QED
    BY <1>1, <2>1, <2>2
<1>4. ListsAreTyped'
  <2>1. work' \in [Poster -> Seq(Record)] /\ acked' \in [Poster -> BOOLEAN]
    BY <1>1, EmptyList
  <2>2. batch' \in Seq(Record) /\ outbox' \in Seq(Seq(Record))
    BY <1>1
  <2> QED
    BY <1>1, <1>3, <2>1, <2>2 DEF ListsAreTyped
<1>5. RecordsAreGenuine'
  <2>1. Genuine(batch', captured) /\ \A p \in Poster : Genuine(work'[p], captured)
    BY <1>1, EmptyList
  <2>2. \A i \in DOMAIN outbox' : Genuine(outbox'[i], captured)
    BY <1>1
  <2> QED
    BY <1>1, <1>3, <2>1, <2>2 DEF RecordsAreGenuine
<1>6. RemovalsAreSafe'
  BY <1>1 DEF RemovalsAreSafe
<1>7. NothingIsForgotten'
  BY <1>1, <1>2 DEF NothingIsForgotten, OnItsWay
<1> QED
  BY <1>2, <1>4, <1>5, <1>6, <1>7 DEF StayOnTheirWay

-----------------------------------------------------------------------------
LEMMA Step == PendingInv /\ [Next]_vars => PendingInv' /\ StayOnTheirWay
<1> SUFFICES ASSUME PendingInv, [Next]_vars
             PROVE  PendingInv' /\ StayOnTheirWay
  OBVIOUS
<1>1. ASSUME NEW k \in Key, Enqueue(k) \/ EnqueueFails(k)
      PROVE  PendingInv' /\ StayOnTheirWay
  BY <1>1, EnqueueKeeps
<1>2. CASE StartFlush \/ SyncReads \/ SyncSends
  BY <1>2, ReadersKeep
<1>3. ASSUME NEW p \in Poster, PosterStep(p)
      PROVE  PendingInv' /\ StayOnTheirWay
  BY <1>3, PostKeeps
<1>4. CASE SessionStarts \/ SessionEnds \/ BatchArrives
  BY <1>4, SessionKeeps
<1>5. CASE SyncRemoves
  BY <1>5, SyncRemovesKeeps
<1>6. CASE StoreArrived
  BY <1>6, StoreArrivedKeeps
<1>7. CASE ProcessKilled
  BY <1>7, ProcessKilledKeeps
<1>8. CASE StoreEmptied \/ SyncRemovalFails
  BY <1>8, FileFailuresKeep
<1>9. CASE UNCHANGED vars
  <2>1. UNCHANGED <<captured, store, work, acked, session, sync, batch, outbox, arrived,
                    server, excused>>
    BY <1>9 DEF vars
  <2> QED
    BY <2>1 DEF PendingInv, ListsAreTyped, RecordsAreGenuine, RemovalsAreSafe,
                NothingIsForgotten, StayOnTheirWay, OnItsWay, InOutbox
<1> QED
  BY <1>1, <1>2, <1>3, <1>4, <1>5, <1>6, <1>7, <1>8, <1>9 DEF Next, SyncStep

\* The inductive invariant holds in every execution: an id is in the store or on its way
\* to the server, and what a poster or the sync is about to remove is on its way.
\* (OmniStore.kt:22-92, ApiClient.kt:37-96, ControlSessionManager.kt:361-393)
THEOREM StoreInvariant == Spec => []PendingInv
<1> QED
  BY Start, Step, PTL DEF Spec

\* The store keeps its limit, and the server and the store hold only contents that the
\* device captured. (OmniStore.kt:30-66)
THEOREM StoreTypes == Spec => []TypeOK
<1>1. PendingInv => TypeOK
  <2> SUFFICES ASSUME PendingInv
               PROVE  TypeOK
    OBVIOUS
  <2>1. \A k \in Key : server[k] <= captured[k] /\ \A v \in Held(store, k) : v <= captured[k]
    BY DEF PendingInv, RecordsAreGenuine, Genuine, Held
  <2> QED
    BY <2>1 DEF PendingInv, ListsAreTyped, TypeOK
<1> QED
  BY <1>1, StoreInvariant, PTL

\* Whatever posts, syncs, removals, captures, sessions, kills and failures of the file
\* interleave, an id that the device ever captured is in the store, on its way to the
\* server, there, or one of the known losses. (ApiClient.kt:21-22)
THEOREM NoIdIsForgotten == Spec => []NothingIsForgotten
<1>1. PendingInv => NothingIsForgotten
  BY DEF PendingInv
<1> QED
  BY <1>1, StoreInvariant, PTL

\* What the store may forget it never needs again: no step, a kill or the end of a session
\* included, takes an id back from its way to the server without leaving a known loss.
\* (ControlSessionManager.kt:103-113, 361-393, hub.go:272-308)
THEOREM DeliveryIsForGood == Spec => [][StayOnTheirWay]_vars
<1> QED
  BY StoreInvariant, Step, PTL DEF Spec

\* An id that is captured once, as an SMS is, goes missing only by a known loss.
\* (ApiClient.kt:21-22)
THEOREM OnlyKnownLossesOfSms ==
    ASSUME MaxVersion = 1
    PROVE  Spec => []OnlyKnownLosses
<1>1. PendingInv => OnlyKnownLosses
  <2> SUFFICES ASSUME PendingInv, NEW k \in Key, Missing(k), k \notin excused
               PROVE  FALSE
    BY DEF OnlyKnownLosses
  <2> USE DEF PendingInv, ListsAreTyped
  <2>1. captured[k] = 1 /\ server[k] = 0
    <3>1. captured[k] \in 0..1 /\ server[k] \in 0..1
      OBVIOUS
    <3> QED
      BY <3>1 DEF Missing
  <2>2. ASSUME NEW s \in Seq(Record), k \in KeysOf(s)
        PROVE  captured[k] \in Held(s, k)
    <3>1. PICK i \in DOMAIN s : s[i].key = k
      BY <2>2 DEF KeysOf
    <3>2. s[i].version \in 1..1
      BY RecordFields
    <3>3. s[i].version = captured[k]
      BY <2>1, <3>2
    <3> QED
      BY <3>1, <3>3 DEF Held
  <2>3. k \notin KeysOf(store) /\ k \notin KeysOf(arrived)
    BY <2>2 DEF Missing
  <2>4. k \notin InOutbox
    <3>1. \A i \in DOMAIN outbox : outbox[i] \in Seq(Record)
      OBVIOUS
    <3> QED
      BY <2>2, <3>1 DEF Missing, InOutbox
  <2>5. k \in KeysOf(store) \/ OnItsWay(k)
    BY <2>1 DEF NothingIsForgotten
  <2> QED
    BY <2>1, <2>3, <2>4, <2>5 DEF OnItsWay
<1> QED
  BY <1>1, StoreInvariant, PTL
=============================================================================
