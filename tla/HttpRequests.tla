---------------------------- MODULE HttpRequests ----------------------------
(***************************************************************************)
(* The requests of the HTTP API that touch what the server keeps about a   *)
(* device (server/internal/api/routes.go): reports posted to it, live data *)
(* asked from the device and stored on the way, and what is shown of a     *)
(* device.  Each handler is a goroutine that runs statement by statement   *)
(* beside the readPumps of DeviceRecords.                                  *)
(***************************************************************************)
EXTENDS DeviceRecords

CONSTANTS Req,        \* requests, each used once
          MaxItems,   \* bound on the records that a device returns
          MaxActors   \* bound on the connections and requests of a behaviour

ASSUME RequestAssumption == MaxItems \in Nat /\ MaxActors \in Nat

VARIABLES
    stage,    \* where a request's handler is
    url,      \* the device that the path names
    body,     \* the device that the payload names, the path's by default
    left,     \* records still to be stored
    owed,     \* records it was given and has not stored
    shown,    \* the status read for a list
    gone,     \* requests since whose reading the device was absent from the registry
    hurt,     \* requests of which a statement failed
    answer    \* what the client is told, "cut" when the answer is lost

reqVars == <<stage, url, body, left, owed, shown, gone, hurt, answer>>
allVars == <<vars, reqVars>>

ReqStage == {"idle", "ensuring", "inserting", "marking", "waiting", "looping",
             "storing", "closing", "overlaying", "done"}
Answers == {"none", "created", "ok", "refused", "missing", "error", "cut",
            "online", "offline"}

HttpInit ==
    /\ Init
    /\ stage = [r \in Req |-> "idle"]
    /\ url = [r \in Req |-> None]
    /\ body = [r \in Req |-> None]
    /\ left = [r \in Req |-> 0]
    /\ owed = [r \in Req |-> 0]
    /\ shown = [r \in Req |-> "offline"]
    /\ gone = {}
    /\ hurt = {}
    /\ answer = [r \in Req |-> "none"]

hubVars == <<connVars, clients, unmarked>>

Move(r, from, to) ==
    /\ stage[r] = from
    /\ stage' = [stage EXCEPT ![r] = to]

\* The handler ends with an answer.
Reply(r, from, a) ==
    /\ Move(r, from, "done")
    /\ answer' = [answer EXCEPT ![r] = a]

\* The server's WriteTimeout is over before a handler that waited for a device
\* has its answer: the handler does not notice, the client hears nothing.
LateReply(r, from, a) == Reply(r, from, a) \/ Reply(r, from, "cut")

\* The statement of a handler; a failure is remembered.
Attempt(r, effect) ==
    \/ effect /\ Works /\ UNCHANGED hurt
    \/ Fails /\ hurt' = hurt \cup {r}

-----------------------------------------------------------------------------
(* Reports: POST .../telemetry, .../events, /api/v1/telemetry,             *)
(* /api/v1/notifications, /api/v1/sms. The last three take the device from *)
(* the payload alone.                                                      *)

Begin(r, to, u, b) ==
    /\ Move(r, "idle", to)
    /\ url' = [url EXCEPT ![r] = u]
    /\ body' = [body EXCEPT ![r] = b]
    /\ UNCHANGED <<vars, left, shown, gone, hurt, answer>>

PostReport(r, u, b) == Begin(r, "ensuring", u, b) /\ owed' = [owed EXCEPT ![r] = 1]

\* Another method, no JSON, or no device where the path has none.
RefuseReport(r) ==
    /\ Reply(r, "idle", "refused")
    /\ UNCHANGED <<vars, url, body, left, owed, shown, gone, hurt>>

EnsureReport(r) ==
    /\ Move(r, "ensuring", "inserting")
    /\ Attempt(r, Upsert(body[r], "placeholder", None))
    /\ UNCHANGED <<hubVars, url, body, left, owed, shown, gone, answer>>

\* The row goes in if its device has one.
Insert(r) == owed' = [owed EXCEPT ![r] = IF Known(body[r]) THEN @ - 1 ELSE @]

\* Mutant of InsertReport: the error of the insert is dropped, as live requests do.
InsertReportBlind(r) ==
    /\ Move(r, "inserting", "marking")
    /\ \/ Insert(r) /\ UNCHANGED <<dbVars, by, troubles, hurt>>
       \/ Fails /\ hurt' = hurt \cup {r} /\ UNCHANGED owed
    /\ UNCHANGED <<hubVars, url, body, left, shown, gone, answer>>

InsertReport(r) ==
    /\ \/ /\ Move(r, "inserting", "marking")
          /\ Known(body[r])
          /\ Insert(r)
          /\ UNCHANGED <<dbVars, by, troubles, hurt, answer>>
       \/ /\ Reply(r, "inserting", "error")
          /\ ~Known(body[r])
          /\ UNCHANGED <<dbVars, by, troubles, hurt, owed>>
       \/ /\ Reply(r, "inserting", "error")
          /\ Fails
          /\ hurt' = hurt \cup {r}
          /\ UNCHANGED owed
    /\ UNCHANGED <<hubVars, url, body, left, shown, gone>>

\* The mark goes to the device of the path, its error is dropped.
MarkDevice(r) ==
    /\ Reply(r, "marking", "created")
    /\ Attempt(r, SetStatus(url[r], "online", None))
    /\ UNCHANGED <<hubVars, url, body, left, owed, shown, gone>>

-----------------------------------------------------------------------------
(* Live data: executeDeviceCommand, whose course WakePath models, then one *)
(* insert per record and a mark, all of whose errors are dropped.          *)

AskLive(r, u) == Begin(r, "waiting", u, u) /\ UNCHANGED owed

\* The device cannot be reached, refuses, or answers what cannot be parsed.
LiveFails(r) ==
    /\ LateReply(r, "waiting", "error")
    /\ UNCHANGED <<vars, url, body, left, owed, shown, gone, hurt>>

LiveAnswers(r) ==
    /\ Move(r, "waiting", "looping")
    /\ \E n \in 0..MaxItems : /\ left' = [left EXCEPT ![r] = n]
                              /\ owed' = [owed EXCEPT ![r] = n]
    /\ UNCHANGED <<vars, url, body, shown, gone, hurt, answer>>

\* ensureDeviceExists of the next record's insert ...
NextRecord(r) ==
    /\ Move(r, "looping", "storing")
    /\ left[r] > 0
    /\ Attempt(r, Upsert(body[r], "placeholder", None))
    /\ UNCHANGED <<hubVars, url, body, left, owed, shown, gone, answer>>

\* Mutant of StoreRecord: the last record is passed over.
StoreRecordButLast(r) ==
    /\ Move(r, "storing", "looping")
    /\ left' = [left EXCEPT ![r] = @ - 1]
    /\ owed' = [owed EXCEPT ![r] = IF Known(body[r]) /\ left[r] > 1 THEN @ - 1 ELSE @]
    /\ UNCHANGED <<vars, url, body, shown, gone, hurt, answer>>

\* ... and the insert.
StoreRecord(r) ==
    /\ Move(r, "storing", "looping")
    /\ left' = [left EXCEPT ![r] = @ - 1]
    /\ \/ Insert(r) /\ UNCHANGED <<dbVars, by, troubles, hurt>>
       \/ Fails /\ hurt' = hurt \cup {r} /\ UNCHANGED owed
    /\ UNCHANGED <<hubVars, url, body, shown, gone, answer>>

FinishLive(r) ==
    /\ Move(r, "looping", "closing")
    /\ left[r] = 0
    /\ Attempt(r, SetStatus(url[r], "online", None))
    /\ UNCHANGED <<hubVars, url, body, left, owed, shown, gone, answer>>

AnswerLive(r) ==
    /\ LateReply(r, "closing", "ok")
    /\ UNCHANGED <<vars, url, body, left, owed, shown, gone, hurt>>

-----------------------------------------------------------------------------
(* Reading: the list of devices, seen through one of them, and one device. *)

\* GetDevices or GetDevice reads the stored status ...
ReadDevice(r, u) ==
    /\ Known(u)
    /\ Move(r, "idle", "overlaying")
    /\ url' = [url EXCEPT ![r] = u]
    /\ shown' = [shown EXCEPT ![r] = status[u]]
    /\ gone' = IF clients[u] = None THEN gone \cup {r} ELSE gone
    /\ UNCHANGED <<vars, body, left, owed, hurt, answer>>

\* ... which fails, or finds no row.
ReadNothing(r, u) ==
    /\ \/ ~Known(u) /\ Reply(r, "idle", "missing") /\ UNCHANGED <<dbVars, by, troubles>>
       \/ Fails /\ Reply(r, "idle", "error")
    /\ url' = [url EXCEPT ![r] = u]
    /\ UNCHANGED <<hubVars, body, left, owed, shown, gone, hurt>>

\* Mutant of Overlay: the stored status is returned as it is.
OverlayStored(r) ==
    /\ Reply(r, "overlaying", shown[r])
    /\ UNCHANGED <<vars, url, body, left, owed, shown, gone, hurt>>

\* The registry then overrules a stored "offline", never a stored "online".
Overlay(r) ==
    /\ stage[r] = "overlaying"
    /\ Reply(r, "overlaying", IF clients[url[r]] # None THEN "online" ELSE shown[r])
    /\ UNCHANGED <<vars, url, body, left, owed, shown, gone, hurt>>

-----------------------------------------------------------------------------

RequestStep(r) ==
    \/ EnsureReport(r) \/ InsertReport(r) \/ MarkDevice(r)
    \/ LiveFails(r) \/ LiveAnswers(r) \/ NextRecord(r) \/ StoreRecord(r)
    \/ FinishLive(r) \/ AnswerLive(r) \/ Overlay(r)

NewRequest(r) ==
    \/ RefuseReport(r)
    \/ \E u \in Device : \/ AskLive(r, u) \/ ReadDevice(r, u) \/ ReadNothing(r, u)
                         \/ \E b \in Device : PostReport(r, u, b)

\* A readPump moves on. A list that is being made remembers absences.
Beside ==
    /\ ConnNext
    /\ gone' = gone \cup {r \in Req : stage[r] = "overlaying" /\ clients'[url[r]] = None}
    /\ UNCHANGED <<stage, url, body, left, owed, shown, hurt, answer>>

\* A restart ends every handler without an answer.
RestartAll ==
    /\ Restart
    /\ stage' = [r \in Req |-> IF stage[r] = "idle" THEN "idle" ELSE "done"]
    /\ answer' = [r \in Req |-> IF stage[r] \in {"idle", "done"} THEN answer[r] ELSE "cut"]
    /\ hurt' = hurt \cup {r \in Req : stage[r] \notin {"idle", "done"}}
    /\ UNCHANGED <<url, body, left, owed, shown, gone>>

Actors == Cardinality({k \in Conn : reader[k] # "unused"})
          + Cardinality({r \in Req : stage[r] # "idle"})

\* Requests are taken in a fixed order: which one comes next is of no account.
NextReq == CHOOSE r \in Req : stage[r] = "idle"

HttpNext ==
    /\ \/ Beside
       \/ RestartAll
       \/ \E r \in Req : (stage[r] = "idle" /\ r = NextReq /\ NewRequest(r)) \/ RequestStep(r)
    /\ Actors' <= MaxActors

\* readPumps and handlers run on; a desktop agent that stays connected sends a
\* heartbeat again and again, and readPump reads what it is sent. Nothing more is
\* assumed of other clients.
HttpSpec ==
    /\ HttpInit /\ [][HttpNext]_allVars
    /\ \A k \in Conn : /\ WF_allVars(Beside /\ ReaderStep(k))
                       /\ SF_allVars(agent[k] \in Beating /\ Beside /\ ReadRegister(k))
    /\ \A r \in Req : WF_allVars(RequestStep(r))

-----------------------------------------------------------------------------
(* Properties.                                                             *)

\* Requests are where, and about whom, they are said to be.
HttpTypeOK ==
    /\ RecordsTypeOK
    /\ stage \in [Req -> ReqStage]
    /\ url \in [Req -> Device \cup {None}]
    /\ body \in [Req -> Device \cup {None}]
    /\ left \in [Req -> Nat]
    /\ owed \in [Req -> Nat]
    /\ shown \in [Req -> {"online", "offline"}]
    /\ gone \subseteq Req
    /\ hurt \subseteq Req
    /\ answer \in [Req -> Answers]

\* Whatever a request was given to store is stored when it ends: reports that
\* were answered with 201, even if a statement failed, and all that a device
\* returned to a live request, also when the answer comes too late to be heard,
\* unless a statement failed or the server was killed.
\* (routes.go:62-67, 178-180, 213-218, 567-572, 590-595, 636-642, 657-663)
NothingGivenIsLost ==
    \A r \in Req : stage[r] = "done" /\ (r \notin hurt \/ answer[r] = "created")
                    => owed[r] = 0

\* A device is shown as offline only if it was absent from the registry at
\* some moment since its row was read, whatever the row said.
\* (routes.go:103-108, 135-137)
ShownOfflineWasAbsent == \A r \in Req : answer[r] = "offline" => r \in gone
=============================================================================
