---------------------------- MODULE PendingStore ----------------------------
(***************************************************************************)
(* The store-and-forward path of the Android client: what the device       *)
(* captures (a notification or an SMS) is kept in OmniStore, posted by     *)
(* ApiClient's executor and by TelemetryWorker, or sent in one batch over  *)
(* the control session's WebSocket, and upserted by the server.            *)
(* Notifications and SMS take the same code twice: one kind is modelled.   *)
(***************************************************************************)
EXTENDS Naturals, Sequences, FiniteSets

CONSTANTS Key,          \* external ids
          Refused,      \* the ids whose records the server always refuses
          MaxVersion,   \* how many contents an id may be captured with
          MaxItems,     \* MAX_ITEMS of OmniStore (500 in the code)
          MaxBatches    \* a bound of the model: the batches sent and not yet stored

ASSUME BoundAssumption == MaxVersion \in Nat \ {0} /\ MaxItems \in Nat \ {0}
                          /\ MaxBatches \in Nat
ASSUME RefusedAssumption == Refused \subseteq Key

VARIABLES
    captured,   \* Key -> the latest version captured, 0 before any
    store,      \* the file of OmniStore: records, the newest first
    work,       \* per poster: the records it is going through
    acked,      \* per poster: the post of the first of them has succeeded
    session,    \* the field webSocket: "none", or "open" from the connection attempt on
    sync,       \* sendPendingSync: "idle", "read" (the store) or "sent"
    batch,      \* the records it read
    outbox,     \* the batches accepted by WebSocket.send, in order
    arrived,    \* the records that the server has received and not yet stored
    server,     \* Key -> the version in the server's table, 0 if none
    excused     \* history: ids dropped by the limit, by a read or a write of the file
                \* that failed or was cut short, or by a sync without a socket, whose
                \* socket ended first, or that the server refused

vars == <<captured, store, work, acked, session, sync, batch, outbox, arrived, server,
          excused>>

\* ApiClient's single-threaded executor, and TelemetryWorker's thread.
Poster == {"executor", "worker"}
Record == [key : Key, version : 1..MaxVersion]

Init ==
    /\ captured = [k \in Key |-> 0]
    /\ store = <<>>
    /\ work = [p \in Poster |-> <<>>]
    /\ acked = [p \in Poster |-> FALSE]
    /\ session = "none"
    /\ sync = "idle"
    /\ batch = <<>>
    /\ outbox = <<>>
    /\ arrived = <<>>
    /\ server = [k \in Key |-> 0]
    /\ excused = {}

\* Where a list has records with other ids than these.
Kept(s, keys) == {i \in DOMAIN s : s[i].key \notin keys}

\* removeNotifications, removeSms: every record with one of the ids goes, the others
\* keep their order.
Without(s, keys) ==
    LET kept == Kept(s, keys)
        Before(i) == {j \in kept : j < i}
    IN [n \in 1..Cardinality(kept) |->
            s[CHOOSE i \in kept : Cardinality(Before(i)) = n - 1]]

KeysOf(s) == {s[i].key : i \in DOMAIN s}

\* Mutant of Newest: one record too many is kept.
NewestPlusOne(s) == IF Len(s) > MaxItems + 1 THEN SubSeq(s, 1, MaxItems + 1) ELSE s

\* subList(MAX_ITEMS, size).clear()
Newest(s) == IF Len(s) > MaxItems THEN SubSeq(s, 1, MaxItems) ELSE s
Oldest(s) == SubSeq(s, MaxItems + 1, Len(s))

InOutbox == UNION {KeysOf(outbox[i]) : i \in DOMAIN outbox}

\* InsertNotification, InsertSms: the content is replaced whichever is newer.
Upsert(table, r) == IF r.key \in Refused THEN table
                    ELSE [table EXCEPT ![r.key] = r.version]

-----------------------------------------------------------------------------
\* enqueueNotification, enqueueSms: the record is put in front, the oldest
\* beyond MAX_ITEMS are dropped, and a post is queued.
Enqueue(k) ==
    /\ captured[k] < MaxVersion
    /\ captured' = [captured EXCEPT ![k] = @ + 1]
    /\ LET r == [key |-> k, version |-> captured'[k]]
           kept == <<r>> \o store
       IN /\ store' = Newest(kept)
          /\ excused' = excused \cup KeysOf(Oldest(kept))
          /\ work' = [work EXCEPT !["executor"] = Append(@, r)]
    /\ UNCHANGED <<acked, session, sync, batch, outbox, arrived, server>>

\* The write fails, which is only logged: the record is not in the store, and its post is
\* queued all the same.
EnqueueFails(k) ==
    /\ captured[k] < MaxVersion
    /\ captured' = [captured EXCEPT ![k] = @ + 1]
    /\ work' = [work EXCEPT !["executor"] =
                   Append(@, [key |-> k, version |-> captured'[k]])]
    /\ excused' = excused \cup {k}
    /\ UNCHANGED <<store, acked, session, sync, batch, outbox, arrived, server>>

\* A write is cut short by an error and leaves a file that reads as empty, or a read
\* fails and the next write starts from an empty list. It may happen with any change of
\* the file, and to both kinds by a change of one: they share it.
StoreEmptied ==
    /\ store # <<>>
    /\ store' = <<>>
    /\ excused' = excused \cup KeysOf(store)
    /\ UNCHANGED <<captured, work, acked, session, sync, batch, outbox, arrived, server>>

\* TelemetryWorker, once its telemetry is accepted: flushBlocking goes through
\* the records the store holds now, the newest first.
StartFlush ==
    /\ work["worker"] = <<>>
    /\ store # <<>>
    /\ work' = [work EXCEPT !["worker"] = store]
    /\ UNCHANGED <<captured, store, acked, session, sync, batch, outbox, arrived, server,
                   excused>>

\* A post that the server stores and whose response arrives.
PostSucceeds(p) ==
    /\ work[p] # <<>> /\ ~acked[p]
    /\ Head(work[p]).key \notin Refused
    /\ server' = Upsert(server, Head(work[p]))
    /\ acked' = [acked EXCEPT ![p] = TRUE]
    /\ UNCHANGED <<captured, store, work, session, sync, batch, outbox, arrived, excused>>

\* It is then removed from the store, by its id.
RemovePosted(p) ==
    /\ acked[p]
    /\ acked' = [acked EXCEPT ![p] = FALSE]
    /\ store' = Without(store, {Head(work[p]).key})
    /\ work' = [work EXCEPT ![p] = Tail(@)]
    /\ UNCHANGED <<captured, session, sync, batch, outbox, arrived, server, excused>>

\* A removal whose write fails keeps the records.
RemovalFails(p) ==
    /\ acked[p]
    /\ Head(work[p]).key \in KeysOf(store)
    /\ acked' = [acked EXCEPT ![p] = FALSE]
    /\ work' = [work EXCEPT ![p] = Tail(@)]
    /\ UNCHANGED <<captured, store, session, sync, batch, outbox, arrived, server, excused>>

\* Mutants of PostFails: the record is removed whatever the result, or tried again
\* before the next one.
PostFailsAndRemoves(p) ==
    /\ work[p] # <<>> /\ ~acked[p]
    /\ store' = Without(store, {Head(work[p]).key})
    /\ work' = [work EXCEPT ![p] = Tail(@)]
    /\ UNCHANGED <<captured, acked, session, sync, batch, outbox, arrived, server, excused>>

PostFailsAndRepeats(p) ==
    /\ work[p] # <<>> /\ ~acked[p]
    /\ server' \in {server, Upsert(server, Head(work[p]))}
    /\ UNCHANGED <<captured, store, work, acked, session, sync, batch, outbox, arrived,
                   excused>>

\* A post that fails, before the server stored the record or after: the record
\* stays in the store, and the poster goes on with the next one.
PostFails(p) ==
    /\ work[p] # <<>> /\ ~acked[p]
    /\ server' \in {server, Upsert(server, Head(work[p]))}
    /\ work' = [work EXCEPT ![p] = Tail(@)]
    /\ UNCHANGED <<captured, store, acked, session, sync, batch, outbox, arrived, excused>>

-----------------------------------------------------------------------------
(* The control session, seen from the store: its WebSocket may open, end   *)
(* and be replaced at any time. The field is set from the attempt to       *)
(* connect on, and what is sent meanwhile waits: whether the attempt has   *)
(* succeeded shows only in the batches that arrive. See ControlSession.    *)

SessionStarts ==
    /\ session = "none"
    /\ session' = "open"
    /\ UNCHANGED <<captured, store, work, acked, sync, batch, outbox, arrived, server,
                   excused>>

\* What was accepted but not transmitted is lost with the socket.
SessionEnds ==
    /\ session # "none"
    /\ session' = "none"
    /\ outbox' = <<>>
    /\ excused' = excused \cup InOutbox
    /\ UNCHANGED <<captured, store, work, acked, sync, batch, arrived, server>>

Underway == Len(outbox) + (IF arrived = <<>> THEN 0 ELSE 1)

\* sendPendingSync, from onOpen or right after a push, whatever the session is:
\* the store is read ...
SyncReads ==
    /\ sync = "idle"
    /\ store # <<>>
    /\ Underway < MaxBatches
    /\ sync' = "read"
    /\ batch' = store
    /\ UNCHANGED <<captured, store, work, acked, session, outbox, arrived, server, excused>>

\* ... the records are handed to the socket, or to nobody if there is none ...
SyncSends ==
    /\ sync = "read"
    /\ sync' = "sent"
    /\ IF session = "none"
       THEN excused' = excused \cup KeysOf(batch) /\ UNCHANGED outbox
       ELSE outbox' = Append(outbox, batch) /\ UNCHANGED excused
    /\ UNCHANGED <<captured, store, work, acked, session, batch, arrived, server>>

\* ... and their ids are removed from the store.
SyncRemoves ==
    /\ sync = "sent"
    /\ sync' = "idle"
    /\ store' = Without(store, KeysOf(batch))
    /\ batch' = <<>>
    /\ UNCHANGED <<captured, work, acked, session, outbox, arrived, server, excused>>

SyncRemovalFails ==
    /\ sync = "sent"
    /\ sync' = "idle"
    /\ batch' = <<>>
    /\ UNCHANGED <<captured, store, work, acked, session, outbox, arrived, server, excused>>

\* notifications_sync, sms_sync: the server's readPump has the whole message, once
\* it is done with the one before ...
BatchArrives ==
    /\ session = "open"
    /\ outbox # <<>> /\ arrived = <<>>
    /\ outbox' = Tail(outbox)
    /\ arrived' = arrived \o Head(outbox)
    /\ UNCHANGED <<captured, store, work, acked, session, sync, batch, server, excused>>

\* ... and upserts its records one by one, whatever becomes of the session. A record
\* that it refuses is only logged: no answer tells the device.
StoreArrived ==
    /\ arrived # <<>>
    /\ arrived' = Tail(arrived)
    /\ server' = Upsert(server, Head(arrived))
    /\ excused' = excused \cup ({Head(arrived).key} \cap Refused)
    /\ UNCHANGED <<captured, store, work, acked, session, sync, batch, outbox>>

-----------------------------------------------------------------------------
\* The process is killed. What it held in memory is gone; the file stays, or is
\* left empty when it was being written: it is truncated in place.
ProcessKilled ==
    /\ \/ store' = store /\ excused' = excused \cup InOutbox
       \/ store' = <<>> /\ excused' = excused \cup InOutbox \cup KeysOf(store)
    /\ work' = [p \in Poster |-> <<>>]
    /\ acked' = [p \in Poster |-> FALSE]
    /\ session' = "none"
    /\ sync' = "idle"
    /\ batch' = <<>>
    /\ outbox' = <<>>
    /\ UNCHANGED <<captured, arrived, server>>

PosterStep(p) == PostSucceeds(p) \/ RemovePosted(p) \/ RemovalFails(p) \/ PostFails(p)
SyncStep == SyncSends \/ SyncRemoves \/ SyncRemovalFails
Next ==
    \/ \E k \in Key : Enqueue(k) \/ EnqueueFails(k)
    \/ StoreEmptied
    \/ StartFlush
    \/ \E p \in Poster : PosterStep(p)
    \/ SessionStarts \/ SessionEnds
    \/ SyncReads \/ SyncStep \/ BatchArrives \/ StoreArrived
    \/ ProcessKilled

\* WorkManager keeps running the worker, and a post that it tries for ever is stored
\* some time. Nothing is assumed of the executor, the session or the user.
Fairness ==
    /\ WF_vars(StartFlush)
    /\ WF_vars(PosterStep("worker"))
    /\ \A k \in Key \ Refused :
           SF_vars(/\ work["worker"] # <<>> /\ Head(work["worker"]).key = k
                   /\ PostSucceeds("worker"))

Spec == Init /\ [][Next]_vars
FairSpec == Spec /\ Fairness

-----------------------------------------------------------------------------
(* Properties.                                                             *)

Held(s, k) == {s[i].version : i \in {j \in DOMAIN s : s[j].key = k}}

\* The store never exceeds its limit and holds only what was captured.
TypeOK ==
    /\ captured \in [Key -> 0..MaxVersion]
    /\ store \in Seq(Record) /\ Len(store) <= MaxItems
    /\ work \in [Poster -> Seq(Record)]
    /\ acked \in [Poster -> BOOLEAN]
    /\ session \in {"none", "open"}
    /\ sync \in {"idle", "read", "sent"}
    /\ batch \in Seq(Record)
    /\ outbox \in Seq(Seq(Record))
    /\ arrived \in Seq(Record)
    /\ server \in [Key -> 0..MaxVersion]
    /\ \A k \in Key : server[k] <= captured[k] /\ \A v \in Held(store, k) : v <= captured[k]

\* A record that is always refused does not keep the others from being
\* delivered: they do not stay in the store for ever, unless the process is
\* killed, or the worker's removals of what it posted fail, for ever.
\* (ApiClient.kt:76-96, TelemetryWorker.kt:63-66)
OthersAreDelivered ==
    <>[][~ProcessKilled /\ ~RemovalFails("worker")]_vars =>
        \A k \in Key \ Refused : Held(store, k) # {} ~> Held(store, k) = {}

\* A captured record that is neither on the server nor on its way there.
Missing(k) ==
    /\ captured[k] > server[k]
    /\ captured[k] \notin Held(store, k)
    /\ \A p \in Poster : captured[k] \notin Held(work[p], k)
    /\ \A i \in DOMAIN outbox : captured[k] \notin Held(outbox[i], k)
    /\ captured[k] \notin Held(arrived, k)

\* What could not be delivered stays in the store for a later try: a sync does
\* not drop a record that nothing else delivers. (ApiClient.kt:21-22)
SyncKeepsUndelivered ==
    [][SyncRemoves => \A k \in Key : Missing(k)' => Missing(k)]_vars

\* No record goes missing but by the known losses, those of the file's failing reads and
\* writes among them: posts and removals by two posters, a sync and new captures may
\* interleave in any way. It holds while every id is captured once, as those of SMS are.
\* (ApiClient.kt:21-22, OmniStore.kt:74-92)
OnlyKnownLosses == \A k \in Key : Missing(k) => k \in excused
=============================================================================
