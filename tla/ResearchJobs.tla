---------------------------- MODULE ResearchJobs ----------------------------
(***************************************************************************)
(* Retraining, drift checks and automatic factor rounds.  An endpoint      *)
(* writes a record, hands the job to Celery and takes the record back when *)
(* that fails; a worker moves the record on, trains and puts the result    *)
(* into the artifact store, content first and metadata second.  Records    *)
(* are evicted when there are too many, users delete records and           *)
(* artifacts.  A record and its entry in the timeline are written in one   *)
(* Redis transaction and are one thing here; job n is created n-th.        *)
(***************************************************************************)
EXTENDS Integers, FiniteSets, FiniteSetsExt

CONSTANTS
    N, Kinds,     \* jobs 1..N, and what they may be: functions to "retrain", "beat"
                  \* (a retraining by the clock), "drift" and "loop"
    MaxJobs,      \* capacity of the store of retrainings and drift checks
    MaxRounds,    \* capacity of the store of loop rounds
    Queues,       \* the queues the running workers read
    None,
    MaxFaults, MaxDeletes   \* bounds

VARIABLES
    kind,         \* kind[j]: what job j is
    record,       \* record[j]: status of the record in Redis, or None
    api,          \* where the request is that submits j
    task,         \* where the task of j is
    mark,         \* mark[j]: the status the task of j is writing
    over,         \* over[j]: the overflow that the eviction under way for j has counted
    stale,        \* stale[j]: the records that it has read as the oldest
    content, meta,\* artifacts whose content, whose metadata is stored
    notice,       \* notice[j]: what the task of j has sent
    faults, deletes,
    deleted,      \* history: records a user has deleted
    raced,        \* history: records deleted between the read and the write of a mark
    stuck,        \* history: jobs whose last record could not be written or taken back
    late,         \* history: jobs that failed with their artifact in the store
    unsure,       \* history: jobs whose metadata was committed and reported as failed
    littered,     \* history: jobs whose content a failure has left behind
    wrote,        \* history: wrote[j]: records written since the eviction for j counted
    lost          \* history: lost[j]: records others have removed since then

records == <<kind, record, deleted, raced>>
eviction == <<over, stale, wrote, lost>>
clients == <<api, task, mark, eviction>>
store == <<content, meta, unsure, littered>>
bounds == <<faults, deletes>>
vars == <<records, clients, store, notice, bounds, stuck, late>>

Jobs == 1..N
Statuses == {"queued", "running", "done", "error"}
Retrains(j) == kind[j] \in {"retrain", "beat"}

\* The two stores: retrain_store.py and loop_store.py, one like the other.
Stores == {"jobs", "rounds"}
Store(j) == IF kind[j] = "loop" THEN "rounds" ELSE "jobs"
Capacity(s) == IF s = "rounds" THEN MaxRounds ELSE MaxJobs
Recorded(s) == {j \in Jobs : Store(j) = s /\ record[j] # None}

\* Who has counted an overflow and not evicted it; who has written and is not done.
Evicting(j) == api[j] \in {"range", "evict"}
                 \/ task[j] \in {"range", "evict", "first_range", "first_evict"}
Trims(j) == Evicting(j) \/ api[j] = "count" \/ task[j] \in {"count", "first_count"}
Trimming(s) == {j \in Jobs : Store(j) = s /\ Trims(j)}

Init ==
    /\ kind \in Kinds
    /\ record = [j \in Jobs |-> None]
    /\ api = [j \in Jobs |-> "idle"] /\ task = [j \in Jobs |-> "none"]
    /\ mark = [j \in Jobs |-> "running"]
    /\ over = [j \in Jobs |-> 0] /\ stale = [j \in Jobs |-> {}]
    /\ wrote = [j \in Jobs |-> {}] /\ lost = [j \in Jobs |-> {}]
    /\ content = {} /\ meta = {} /\ notice = [j \in Jobs |-> None]
    /\ faults = 0 /\ deletes = 0 /\ deleted = {} /\ raced = {}
    /\ stuck = {} /\ late = {} /\ unsure = {} /\ littered = {}

Faulty == faults < MaxFaults /\ faults' = faults + 1
Created(j) == api[j] # "idle" \/ task[j] # "none"

-----------------------------------------------------------------------------
(* The store: each command of save_job is awaited, others come in between.  *)

\* The transaction of a save.
Saved(j, status) ==
    /\ record' = [record EXCEPT ![j] = status]
    /\ wrote' = [k \in Jobs |-> IF Evicting(k) /\ Store(k) = Store(j)
                                THEN wrote[k] \cup {j} ELSE wrote[k]]
    /\ UNCHANGED <<over, stale, lost>>

\* Records of the store of j are removed, by a user, a request or an eviction.
Removed(j, gone) ==
    /\ record' = [k \in Jobs |-> IF k \in gone THEN None ELSE record[k]]
    /\ lost' = [k \in Jobs |-> IF Evicting(k) /\ Store(k) = Store(j)
                               THEN lost[k] \cup (gone \cap Recorded(Store(j))) ELSE lost[k]]

Overflow(s) == Max({Cardinality(Recorded(s)) - Capacity(s), 0})

\* zcard of _enforce_capacity.
Counted(j) ==
    /\ over' = [over EXCEPT ![j] = Overflow(Store(j))]
    /\ wrote' = [wrote EXCEPT ![j] = {}] /\ lost' = [lost EXCEPT ![j] = {}]
    /\ stale' = stale

\* Mutant: the list is read from its other end.
NewestOf(S, n) == {j \in S : Cardinality({k \in S : k > j}) < n}

OldestOf(S, n) == {j \in S : Cardinality({k \in S : k < j}) < n}

\* zrange, after another wait.
Ranged(j) ==
    /\ stale' = [stale EXCEPT ![j] = OldestOf(Recorded(Store(j)), over[j])]
    /\ UNCHANGED <<over, wrote, lost>>

\* The deletes, after a third one.
Evicted(j) ==
    /\ Removed(j, stale[j])
    /\ over' = [over EXCEPT ![j] = 0] /\ stale' = [stale EXCEPT ![j] = {}]
    /\ wrote' = [wrote EXCEPT ![j] = {}]

-----------------------------------------------------------------------------
(* The request.                                                             *)

\* save_job of a new record, up to the transaction; the count follows.
Submit(j) ==
    /\ kind[j] # "beat" /\ api[j] = "idle" /\ \A k \in 1..(j - 1) : Created(k)
    /\ Saved(j, "queued")
    /\ api' = [api EXCEPT ![j] = "count"]
    /\ UNCHANGED <<kind, deleted, raced, task, mark, store, notice, bounds, stuck, late>>

ApiCounts(j) ==
    /\ api[j] = "count" /\ Counted(j)
    /\ api' = [api EXCEPT ![j] = IF Overflow(Store(j)) > 0 THEN "range" ELSE "send"]
    /\ UNCHANGED <<records, task, mark, store, notice, bounds, stuck, late>>

ApiRanges(j) ==
    /\ api[j] = "range" /\ Ranged(j)
    /\ api' = [api EXCEPT ![j] = IF stale'[j] = {} THEN "send" ELSE "evict"]
    /\ UNCHANGED <<records, task, mark, store, notice, bounds, stuck, late>>

ApiEvicts(j) ==
    /\ api[j] = "evict" /\ Evicted(j)
    /\ api' = [api EXCEPT ![j] = "send"]
    /\ UNCHANGED <<kind, deleted, raced, task, mark, store, notice, bounds, stuck, late>>

\* Celery takes the message.
Sends(j) ==
    /\ api[j] = "send"
    /\ api' = [api EXCEPT ![j] = "answered"]
    /\ task' = [task EXCEPT ![j] = "waiting"]
    /\ UNCHANGED <<records, mark, eviction, store, notice, bounds, stuck, late>>

\* delay() raises, the message lost or delivered.
SendFails(j) ==
    /\ api[j] = "send" /\ Faulty
    /\ api' = [api EXCEPT ![j] = "undo"]
    /\ \E delivered \in BOOLEAN :
         task' = IF delivered THEN [task EXCEPT ![j] = "waiting"] ELSE task
    /\ UNCHANGED <<records, mark, eviction, store, notice, deletes, stuck, late>>

Undoes(j) ==
    /\ api[j] = "undo"
    /\ Removed(j, {j})
    /\ api' = [api EXCEPT ![j] = "refused"]
    /\ raced' = IF task[j] = "save" THEN raced \cup {j} ELSE raced
    /\ UNCHANGED <<kind, deleted, task, mark, over, stale, wrote, store, notice, bounds, stuck, late>>

\* The process ends, or Redis fails the request.
ApiFails(j) ==
    /\ api[j] \in {"count", "range", "evict", "send", "undo"} /\ Faulty
    /\ api' = [api EXCEPT ![j] = "failed"]
    /\ stuck' = stuck \cup {j}
    /\ UNCHANGED <<records, task, mark, eviction, store, notice, deletes, late>>

-----------------------------------------------------------------------------
(* The task.                                                                *)

\* Mutant: a route to a queue that is not configured anywhere.
RouteOther(j) == "batch"

\* task_routes: every one of these jobs.
Route(j) == "compute"

\* A worker takes the message.
Takes(j) ==
    /\ task[j] = "waiting" /\ Route(j) \in Queues
    /\ task' = [task EXCEPT ![j] = "get"]
    /\ UNCHANGED <<records, api, mark, eviction, store, notice, bounds, stuck, late>>

\* scheduled_retrain_task: the task writes its record itself.
Ticks(j) ==
    /\ kind[j] = "beat" /\ task[j] = "none" /\ \A k \in 1..(j - 1) : Created(k)
    /\ Route(j) \in Queues
    /\ Saved(j, "queued")
    /\ task' = [task EXCEPT ![j] = "first_count"]
    /\ UNCHANGED <<kind, deleted, raced, api, mark, store, notice, bounds, stuck, late>>

\* Mutant: a mark writes a record that is not there.
KnownAlways(j) == TRUE

Known(j) == record[j] # None

\* mark_status reads the record; without one there is nothing to mark.
Gets(j) ==
    /\ task[j] = "get"
    /\ task' = [task EXCEPT ![j] = IF Known(j) THEN "save" ELSE "marked"]
    /\ UNCHANGED <<records, api, mark, eviction, store, notice, bounds, stuck, late>>

Saves(j) ==
    /\ task[j] = "save"
    /\ Saved(j, mark[j])
    /\ task' = [task EXCEPT ![j] = "count"]
    /\ UNCHANGED <<kind, deleted, raced, api, mark, store, notice, bounds, stuck, late>>

\* Where the first save of a task of the clock goes on, where the save of a mark does.
First(j) == task[j] \in {"first_count", "first_range", "first_evict"}
AfterTrim(j) == IF First(j) THEN "get" ELSE "marked"

TaskCounts(j) ==
    /\ task[j] \in {"count", "first_count"} /\ Counted(j)
    /\ task' = [task EXCEPT ![j] =
         IF Overflow(Store(j)) = 0 THEN AfterTrim(j) ELSE IF First(j) THEN "first_range" ELSE "range"]
    /\ UNCHANGED <<records, api, mark, store, notice, bounds, stuck, late>>

TaskRanges(j) ==
    /\ task[j] \in {"range", "first_range"} /\ Ranged(j)
    /\ task' = [task EXCEPT ![j] =
         IF stale'[j] = {} THEN AfterTrim(j) ELSE IF First(j) THEN "first_evict" ELSE "evict"]
    /\ UNCHANGED <<records, api, mark, store, notice, bounds, stuck, late>>

TaskEvicts(j) ==
    /\ task[j] \in {"evict", "first_evict"} /\ Evicted(j)
    /\ task' = [task EXCEPT ![j] = AfterTrim(j)]
    /\ UNCHANGED <<kind, deleted, raced, api, mark, store, notice, bounds, stuck, late>>

\* What a retraining tells its users.
Outcome(j) == IF mark[j] = "error" THEN "failed" ELSE "done"

\* The mark is written: work, or tell and end.
Marked(j) ==
    /\ task[j] = "marked"
    /\ task' = [task EXCEPT ![j] = IF mark[j] = "running" THEN "work" ELSE "ended"]
    /\ notice' = IF mark[j] = "running" \/ ~Retrains(j) THEN notice
                 ELSE [notice EXCEPT ![j] = Outcome(j)]
    /\ UNCHANGED <<records, api, mark, eviction, store, bounds, stuck, late>>

Proceeds(j, status) ==
    /\ mark' = [mark EXCEPT ![j] = status]
    /\ task' = [task EXCEPT ![j] = "get"]

\* Bars are fetched and the model is trained, the factors are searched; a drift
\* check writes nothing, nor does a search that finds nothing.
Works(j) ==
    /\ task[j] = "work"
    /\ \/ /\ kind[j] # "drift"
          /\ task' = [task EXCEPT ![j] = "write"] /\ mark' = mark
       \/ kind[j] \in {"drift", "loop"} /\ Proceeds(j, "done")
       \/ Proceeds(j, "error")
    /\ UNCHANGED <<records, api, eviction, store, notice, bounds, stuck, late>>

\* A round goes on without its artifact, a retraining fails.
StatusWithout(j) == IF kind[j] = "loop" THEN "done" ELSE "error"

Writes(j) ==
    /\ task[j] = "write"
    /\ content' = content \cup {j}
    /\ task' = [task EXCEPT ![j] = "meta"]
    /\ UNCHANGED <<records, api, mark, eviction, meta, unsure, littered, notice, bounds, stuck, late>>

WriteFails(j) ==
    /\ task[j] = "write" /\ Faulty
    /\ Proceeds(j, StatusWithout(j))
    /\ UNCHANGED <<records, api, eviction, store, notice, deletes, stuck, late>>

\* Mutant: the models are compared after the new one is stored.
CommittedCompares(j) == "error"

\* Nothing is left to be done once the artifact is stored.
Committed(j) == "done"

Commits(j) ==
    /\ task[j] = "meta"
    /\ meta' = meta \cup {j}
    /\ Proceeds(j, Committed(j))
    /\ UNCHANGED <<records, api, eviction, content, unsure, littered, notice, bounds, stuck, late>>

\* The commit raises, done or not: the content is taken back.
CommitFails(j) ==
    /\ task[j] = "meta" /\ Faulty
    /\ \E committed \in BOOLEAN :
         /\ meta' = IF committed THEN meta \cup {j} ELSE meta
         /\ unsure' = IF committed THEN unsure \cup {j} ELSE unsure
    /\ task' = [task EXCEPT ![j] = "rollback"]
    /\ UNCHANGED <<records, api, mark, eviction, content, littered, notice, deletes, stuck, late>>

TakenBack(j) == content \ {j}

RollsBack(j) ==
    /\ task[j] = "rollback"
    /\ content' = TakenBack(j)
    /\ Proceeds(j, StatusWithout(j))
    /\ UNCHANGED <<records, api, eviction, meta, unsure, littered, notice, bounds, stuck, late>>

RollbackFails(j) ==
    /\ task[j] = "rollback" /\ Faulty
    /\ littered' = littered \cup {j}
    /\ Proceeds(j, StatusWithout(j))
    /\ UNCHANGED <<records, api, eviction, content, meta, unsure, notice, deletes, stuck, late>>

\* _record_failure: the error is marked; when that fails too it is logged, and the
\* failure is told all the same.
FailureGoes(j) ==
    IF mark[j] # "error" THEN Proceeds(j, "error") /\ UNCHANGED <<notice, stuck>>
    ELSE /\ task' = [task EXCEPT ![j] = "ended"]
         /\ notice' = IF Retrains(j) THEN [notice EXCEPT ![j] = Outcome(j)] ELSE notice
         /\ stuck' = stuck \cup {j} /\ mark' = mark

\* Redis fails a command of a mark.
MarkFails(j) ==
    /\ task[j] \in {"get", "save", "count", "range", "evict"} \/ First(j)
    /\ Faulty
    /\ FailureGoes(j)
    /\ late' = IF mark[j] = "done" /\ j \in meta THEN late \cup {j} ELSE late
    /\ UNCHANGED <<records, api, eviction, store, deletes>>

\* The hard time limit, or the end of the worker.
Killed(j) ==
    /\ task[j] \notin {"none", "waiting", "ended", "killed"} /\ Faulty
    /\ task' = [task EXCEPT ![j] = "killed"]
    /\ stuck' = stuck \cup {j}
    /\ littered' = IF task[j] \in {"meta", "rollback"} THEN littered \cup {j} ELSE littered
    /\ UNCHANGED <<records, api, mark, eviction, content, meta, unsure, notice, deletes, late>>

-----------------------------------------------------------------------------
(* The users.                                                               *)

Deletion == deletes < MaxDeletes /\ deletes' = deletes + 1

\* delete_job, delete_round.
DeletesRecord(j) ==
    /\ record[j] # None /\ Deletion
    /\ Removed(j, {j})
    /\ deleted' = deleted \cup {j}
    /\ raced' = IF task[j] = "save" THEN raced \cup {j} ELSE raced
    /\ UNCHANGED <<kind, api, task, mark, over, stale, wrote, store, notice, faults, stuck, late>>

\* LabStore.delete: metadata, then content, which may fail.
DeletesArtifact(j) ==
    /\ j \in meta /\ Deletion
    /\ meta' = meta \ {j}
    /\ \/ content' = content \ {j} /\ UNCHANGED <<littered, faults>>
       \/ j \in content /\ Faulty /\ littered' = littered \cup {j} /\ content' = content
    /\ deleted' = deleted
    /\ UNCHANGED <<kind, record, raced, clients, unsure, notice, stuck, late>>

-----------------------------------------------------------------------------

Request(j) ==
    \/ Submit(j) \/ ApiCounts(j) \/ ApiRanges(j) \/ ApiEvicts(j)
    \/ Sends(j) \/ SendFails(j) \/ Undoes(j) \/ ApiFails(j)
Task(j) ==
    \/ Takes(j) \/ Gets(j) \/ Saves(j) \/ TaskCounts(j) \/ TaskRanges(j) \/ TaskEvicts(j)
    \/ Marked(j) \/ Works(j) \/ Writes(j) \/ Commits(j) \/ RollsBack(j)
Fault(j) == WriteFails(j) \/ CommitFails(j) \/ RollbackFails(j) \/ MarkFails(j) \/ Killed(j)

Next ==
    \E j \in Jobs :
        \/ Request(j) \/ Task(j) \/ Ticks(j) \/ Fault(j)
        \/ DeletesRecord(j) \/ DeletesArtifact(j)

\* Workers go on with what they have and take what their queues hold.
Fairness == \A j \in Jobs : WF_vars(Task(j))
Spec == Init /\ [][Next]_vars /\ Fairness

-----------------------------------------------------------------------------
(* Properties.                                                              *)

TypeOK ==
    /\ record \in [Jobs -> Statuses \cup {None}]
    /\ api \in [Jobs -> {"idle", "count", "range", "evict", "send", "undo",
                         "answered", "refused", "failed"}]
    /\ task \in [Jobs -> {"none", "waiting", "first_count", "first_range", "first_evict", "get",
                          "save", "count", "range", "evict", "marked", "work", "write", "meta", "rollback",
                          "ended", "killed"}]
    /\ mark \in [Jobs -> Statuses \ {"queued"}]
    /\ content \subseteq Jobs /\ meta \subseteq Jobs
    /\ notice \in [Jobs -> {None, "done", "failed"}]
    /\ faults \in 0..MaxFaults /\ deletes \in 0..MaxDeletes

Over(j) ==
    /\ task[j] \in {"none", "ended", "killed"}
    /\ api[j] \in {"idle", "answered", "refused", "failed"}

\* No record is left queued or running once nobody works on the job, unless the
\* process that would have written it ended, or that write failed.
NoneIsLeftHanging ==
    \A j \in Jobs : Over(j) /\ record[j] \in {"queued", "running"} => j \in stuck

\* A job that says it is done, a factor round apart, has its model in the store,
\* whole, until a user deletes it.
DoneHasItsModel ==
    \A j \in Jobs : record[j] = "done" /\ Retrains(j) /\ deletes = 0 =>
        j \in meta \cap content

\* A retraining that told of its failure has put no model into the store, unless
\* the database or Redis failed after the model had been committed.
FailureLeavesNoModel ==
    \A j \in Jobs : notice[j] = "failed" => j \notin meta \/ j \in late \cup unsure

\* Metadata has its content unless its commit was reported as failed, and once a
\* job is over its content has metadata unless the clean-up failed.
ArtifactsAreWhole ==
    /\ meta \subseteq content \cup unsure
    /\ \A j \in content \ meta : Over(j) => j \in littered

\* Every retraining that ends tells its users how, and tells of success only when
\* it has committed its model.
EndsAreTold ==
    \A j \in Jobs :
        /\ task[j] = "ended" /\ Retrains(j) => notice[j] # None
        /\ notice[j] = "done" => j \notin late \cup unsure

\* A record a user has deleted comes back only when the task was between the read
\* and the write of a mark at that moment.
DeletedStaysDeleted ==
    \A j \in deleted : record[j] # None => j \in raced

\* A store exceeds its capacity at most by those whose eviction is under way, or
\* failed.
RecordsAreBounded ==
    \A s \in Stores : Cardinality(Recorded(s)) <= Capacity(s) + Cardinality(Trimming(s)) + faults

\* What an eviction may do to its store, whatever is written and removed between its
\* count, its reading and its deletes: it leaves at most the capacity and what was
\* written since it counted, at least the capacity less what others have removed
\* since then, and an older record than one it takes only if that was written since.
EvictsTheOldest ==
    [][\A j \in Jobs : ApiEvicts(j) \/ TaskEvicts(j) =>
          /\ Cardinality(Recorded(Store(j))') <= Capacity(Store(j)) + Cardinality(wrote[j])
          /\ Cardinality(Recorded(Store(j))') >= Capacity(Store(j)) - Cardinality(lost[j])
          /\ \A k \in Recorded(Store(j)), l \in Recorded(Store(j))' \ wrote[j] :
                record'[k] = None => k < l]_vars

\* A job that was handed to the queue is worked on to its end, if its worker lives.
JobsEnd == \A j \in Jobs : task[j] = "waiting" ~> task[j] \in {"ended", "killed"}

\* The records of the jobs are kept as users rely on them: none is left hanging,
\* every end is told, what was deleted stays deleted, the stores are bounded and
\* evictions that overlap take the oldest, no more than there was too much and what
\* others have removed meanwhile (retrain_store.py, loop_store.py, tasks/retrain.py).
RecordsAreKept ==
    /\ [](TypeOK /\ NoneIsLeftHanging /\ EndsAreTold /\ DeletedStaysDeleted /\ RecordsAreBounded)
    /\ EvictsTheOldest

\* Records and artifacts agree: "done" has its model, a failure has left none, and
\* an artifact that is listed can be read (tasks/retrain.py, lab/store.py).
ArtifactsMatchRecords == DoneHasItsModel /\ FailureLeavesNoModel /\ ArtifactsAreWhole
=============================================================================
