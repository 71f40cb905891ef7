------------------------------- MODULE Tasks -------------------------------
(***************************************************************************)
(* The tasks in the background: the task of a parent order (AlgoExecutor)  *)
(* and the jobs of the laboratory (ResearchJobs).  Each behaviour is one   *)
(* of the chosen side; the other stays as it was.                          *)
(***************************************************************************)
EXTENDS AlgoExecutor

CONSTANTS
  Sides,                                                            \* the sides to check
  JobCount, Kinds, MaxJobs, MaxRounds, Queues, None, MaxFaults, MaxDeletes   \* see ResearchJobs

ASSUME JobsAssumption ==
  /\ JobCount \in Nat /\ Kinds \subseteq [1..JobCount -> {"retrain", "beat", "drift", "loop"}]
  /\ MaxJobs \in Nat /\ MaxRounds \in Nat /\ MaxFaults \in Nat /\ MaxDeletes \in Nat
  /\ None \notin {"queued", "running", "done", "error", "failed"}

VARIABLES
  side, kind, record, api, job, mark, over, stale, content, meta, notice, faults, deletes,
  deleted, raced, stuck, late, unsure, littered, wrote, lost

Lab == INSTANCE ResearchJobs WITH N <- JobCount, task <- job
labVars ==
  <<kind, record, api, job, mark, over, stale, content, meta, notice, faults, deletes,
    deleted, raced, stuck, late, unsure, littered, wrote, lost>>

TasksInit == side \in Sides /\ Init /\ Lab!Init
TasksNext ==
  \/ side = "algo" /\ Next /\ UNCHANGED <<side, labVars>>
  \/ side = "lab" /\ Lab!Next /\ UNCHANGED <<side, vars>>

\* In its initial state a side has no fair action enabled.
TasksSpec ==
  /\ TasksInit /\ [][TasksNext]_<<side, vars, labVars>>
  /\ AlgoFairness /\ Lab!Fairness

\* See ResearchJobs: records stay as users rely on them.
RecordsAreKept == Lab!RecordsAreKept
\* See ResearchJobs: records and artifacts agree.
ArtifactsMatchRecords == Lab!ArtifactsMatchRecords
\* See ResearchJobs: a job that waits in a queue ends.
JobsEnd == Lab!JobsEnd
=============================================================================
