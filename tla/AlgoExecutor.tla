---------------------------- MODULE AlgoExecutor ----------------------------
(***************************************************************************)
(* One parent order of the algo executor (oms/algos/executor.py): the task *)
(* that submits its slices one after the other, the callers that cancel    *)
(* it, and the child orders in the OMS, which fill while the task sleeps.  *)
(*                                                                         *)
(* The task is suspended at a sleep, at the gateway call inside            *)
(* OrderManager.submit_order ("placing"), or at the event and audit writes *)
(* that follow it ("publishing").  task.cancel() makes the await it is     *)
(* suspended at raise CancelledError, even when its result had arrived.    *)
(* Parent orders share nothing, so one is enough.                          *)
(***************************************************************************)
EXTENDS Integers, FiniteSets

CONSTANTS
  N,      \* the number of slices of the plan
  Qty     \* the quantity of each slice

ASSUME PlanAssumption == N \in Nat \ {0} /\ Qty \in Nat \ {0}

VARIABLES
  status,          \* AlgoOrder.status, "none" before submit_algo
  cancelled,       \* TRUE iff the id is in self._cancelled
  task,            \* where the task is
  interrupted,     \* TRUE iff task.cancel() was called and has not landed
  cur,             \* the slice the task deals with
  slice,           \* ChildSlice.status
  child_order_id,  \* TRUE iff ChildSlice.child_order_id is set
  filled_qty,      \* ChildSlice.filled_qty
  child,           \* the child order in the OMS ("sent": not recorded yet)
  executed         \* its filled_qty

algoVars == <<status, cancelled, task, interrupted, cur>>
sliceVars == <<slice, child_order_id, filled_qty>>
childVars == <<child, executed>>
vars == <<algoVars, sliceVars, childVars>>

Slices == 1 .. N

Terminal == {"completed", "cancelled", "failed"}
AlgoStatus == {"none", "pending", "running"} \union Terminal
SliceStatus == {"scheduled", "submitted", "filled", "rejected", "skipped"}
LiveChild == {"submitted", "partial"}
ChildStatus == LiveChild \union
               {"none", "sent", "filled", "cancelled", "rejected", "expired"}

-----------------------------------------------------------------------------
Init ==
  /\ status = "none"
  /\ cancelled = FALSE
  /\ task = "none"
  /\ interrupted = FALSE
  /\ cur = 0
  /\ slice = [s \in Slices |-> "scheduled"]
  /\ child_order_id = [s \in Slices |-> FALSE]
  /\ filled_qty = [s \in Slices |-> 0]
  /\ child = [s \in Slices |-> "none"]
  /\ executed = [s \in Slices |-> 0]

\* submit_algo: the task is created, and runs later.
SubmitAlgo ==
  /\ status = "none"
  /\ status' = "pending"
  /\ task' = "created"
  /\ UNCHANGED <<cancelled, interrupted, cur, sliceVars, childVars>>

-----------------------------------------------------------------------------
(* The end of the task *)

\* _refresh_slices: the slices with a child order take over its status.
Refreshed(sl, ids) ==
  [s \in Slices |-> IF ids[s] /\ child[s] \in {"filled", "rejected"} THEN child[s] ELSE sl[s]]

RefreshedQty(ids) ==
  [s \in Slices |-> IF ids[s] THEN executed[s] ELSE filled_qty[s]]

\* _finalize
Finalized(sl) ==
  IF status \in Terminal THEN status
  ELSE IF cancelled THEN "cancelled"
  ELSE IF \A s \in Slices : sl[s] \notin {"submitted", "filled"} THEN "failed"
  ELSE "completed"

\* The finally clause of _run, with these slices.
Finishes(sl, ids) ==
  /\ task' = "done"
  /\ interrupted' = FALSE
  /\ child_order_id' = ids
  /\ slice' = Refreshed(sl, ids)
  /\ filled_qty' = RefreshedQty(ids)
  /\ status' = Finalized(slice')

\* The loop goes on after slice k: to the next slice's sleep, or to the end.
GoesOn(k, sl, ids, filled) ==
  IF k = N THEN Finishes(sl, ids) /\ UNCHANGED cur
  ELSE /\ task' = "sleeping"
       /\ cur' = k + 1
       /\ slice' = sl
       /\ child_order_id' = ids
       /\ filled_qty' = filled
       /\ status' = IF task = "created" THEN "running" ELSE status
       /\ UNCHANGED interrupted

-----------------------------------------------------------------------------
(* The task *)

\* The task reaches slice k: it starts (the first slice has no delay), or the
\* sleep before the slice ends.
Reaches(k) ==
  /\ ~interrupted
  /\ (task = "created" /\ k = 1) \/ (task = "sleeping" /\ cur = k)

\* No OMS to submit to: every slice is SKIPPED.
TaskAborts ==
  /\ task = "created"
  /\ ~interrupted
  /\ Finishes([s \in Slices |-> "skipped"], child_order_id)
  /\ UNCHANGED <<cancelled, cur, childVars>>

\* No order comes of the slice: submit_order raises before it awaits anything
\* (risk check, trading control, gateway), or self._cancelled is seen.
SliceNotSent(k) ==
  /\ Reaches(k)
  /\ GoesOn(k, [slice EXCEPT ![k] = IF cancelled THEN "skipped" ELSE "rejected"],
            child_order_id, filled_qty)
  /\ UNCHANGED <<cancelled, childVars>>

\* submit_order awaits the gateway.
SliceSends(k) ==
  /\ Reaches(k)
  /\ ~cancelled
  /\ task' = "placing"
  /\ cur' = k
  /\ status' = IF task = "created" THEN "running" ELSE status
  /\ child' = [child EXCEPT ![k] = "sent"]
  /\ UNCHANGED <<cancelled, interrupted, sliceVars, executed>>

\* submit_order records the order without suspending: refused by a control or
\* a protection, or filled by the paper gateway.
SliceAtOnce(k) ==
  /\ Reaches(k)
  /\ ~cancelled
  /\ task' = "publishing"
  /\ cur' = k
  /\ status' = IF task = "created" THEN "running" ELSE status
  /\ \/ /\ child' = [child EXCEPT ![k] = "rejected"]
        /\ UNCHANGED executed
     \/ /\ child' = [child EXCEPT ![k] = "filled"]
        /\ executed' = [executed EXCEPT ![k] = Qty]
  /\ UNCHANGED <<cancelled, interrupted, sliceVars>>

\* The gateway answers or raises: the order is recorded.
SlicePlaced(k) ==
  /\ task = "placing"
  /\ cur = k
  /\ ~interrupted
  /\ task' = "publishing"
  /\ \E s \in {"submitted", "rejected"} : child' = [child EXCEPT ![k] = s]
  /\ UNCHANGED <<status, cancelled, interrupted, cur, sliceVars, executed>>

\* Mutant: a failing event write escapes from submit_order.
SliceReturnsLost(k) ==
  /\ task = "publishing"
  /\ cur = k
  /\ ~interrupted
  /\ GoesOn(k, [slice EXCEPT ![k] = "rejected"], child_order_id, filled_qty)
  /\ UNCHANGED <<cancelled, childVars>>

\* submit_order returns and the slice takes over the child's id, status and
\* quantity, as they are by now.
SliceReturns(k) ==
  /\ task = "publishing"
  /\ cur = k
  /\ ~interrupted
  /\ GoesOn(k,
            [slice EXCEPT ![k] =
               IF child[k] \in {"rejected", "filled"} THEN child[k] ELSE "submitted"],
            [child_order_id EXCEPT ![k] = TRUE],
            [filled_qty EXCEPT ![k] = executed[k]])
  /\ UNCHANGED <<cancelled, childVars>>

\* Mutant: the parent order is not finalised.
InterruptLandsBare ==
  /\ interrupted
  /\ interrupted' = FALSE
  /\ task' = "done"
  /\ slice' = [s \in Slices |-> IF slice[s] = "scheduled" THEN "skipped" ELSE slice[s]]
  /\ UNCHANGED <<status, cancelled, cur, child_order_id, filled_qty, childVars>>

\* CancelledError is raised where the task is suspended.  A task that never
\* started does nothing; otherwise what is SCHEDULED becomes SKIPPED.
InterruptLands ==
  /\ interrupted
  /\ IF task = "created"
     THEN /\ task' = "done"
          /\ interrupted' = FALSE
          /\ UNCHANGED <<status, sliceVars>>
     ELSE Finishes([s \in Slices |-> IF slice[s] = "scheduled" THEN "skipped" ELSE slice[s]],
                   child_order_id)
  /\ UNCHANGED <<cancelled, cur, childVars>>

-----------------------------------------------------------------------------
(* Callers *)

\* Mutant: the task is not cancelled.
CancelAlgoNoInterrupt ==
  /\ status \in {"pending", "running"}
  /\ status' = "cancelled"
  /\ cancelled' = TRUE
  /\ UNCHANGED <<interrupted, task, cur, sliceVars, childVars>>

\* cancel_algo
CancelAlgo ==
  /\ status \in {"pending", "running"}
  /\ status' = "cancelled"
  /\ cancelled' = TRUE
  /\ interrupted' = (task # "done")
  /\ UNCHANGED <<task, cur, sliceVars, childVars>>

\* shutdown: the status is left to the task's own end.
Shutdown ==
  /\ task # "none"
  /\ ~cancelled
  /\ cancelled' = TRUE
  /\ interrupted' = (task # "done")
  /\ UNCHANGED <<status, task, cur, sliceVars, childVars>>

-----------------------------------------------------------------------------
(* The OMS: recorded child orders fill and close; see OrderManager *)

ChildFills(s) ==
  /\ child[s] \in LiveChild
  /\ \E n \in (executed[s] + 1) .. Qty :
       /\ executed' = [executed EXCEPT ![s] = n]
       /\ child' = [child EXCEPT ![s] = IF n = Qty THEN "filled" ELSE "partial"]
  /\ UNCHANGED <<algoVars, sliceVars>>

ChildCloses(s) ==
  /\ child[s] \in LiveChild
  /\ \E end \in {"cancelled", "expired", "rejected"} :
       /\ end = "rejected" => executed[s] = 0
       /\ child' = [child EXCEPT ![s] = end]
  /\ UNCHANGED <<algoVars, sliceVars, executed>>

-----------------------------------------------------------------------------
Run(k) ==
  \/ SliceNotSent(k)
  \/ SliceSends(k)
  \/ SliceAtOnce(k)
  \/ SlicePlaced(k)
  \/ SliceReturns(k)

Next ==
  \/ SubmitAlgo
  \/ TaskAborts
  \/ \E k \in Slices : Run(k)
  \/ InterruptLands
  \/ CancelAlgo
  \/ Shutdown
  \/ \E s \in Slices : ChildFills(s) \/ ChildCloses(s)

Spec == Init /\ [][Next]_vars

\* Sleeps end, gateway calls and event writes return, and CancelledError is
\* delivered: the event loop runs what is ready.  Nothing is assumed of
\* callers, nor of the children, which need not fill.
AlgoFairness == WF_vars(TaskAborts \/ InterruptLands \/ \E k \in Slices : Run(k))
FairSpec == Spec /\ AlgoFairness

-----------------------------------------------------------------------------
(* Properties *)

TypeOK ==
  /\ status \in AlgoStatus
  /\ cancelled \in BOOLEAN
  /\ task \in {"none", "created", "sleeping", "placing", "publishing", "done"}
  /\ interrupted \in BOOLEAN
  /\ cur \in 0 .. N
  /\ slice \in [Slices -> SliceStatus]
  /\ child_order_id \in [Slices -> BOOLEAN]
  /\ filled_qty \in [Slices -> 0 .. Qty]
  /\ child \in [Slices -> ChildStatus]
  /\ executed \in [Slices -> 0 .. Qty]

\* A finished parent order keeps its status: in particular a task that had not
\* started when cancel_algo came does not set RUNNING over CANCELLED.
FinishedStays == [][(status \in Terminal => status' = status)]_vars

\* cancel_algo and shutdown: no child order is sent once they were called,
\* whatever the task was waiting for.
NothingSentAfterCancel ==
  [][status = "cancelled" \/ cancelled
       => \A s \in Slices : child[s] = "none" => child'[s] = "none"]_vars

\* Every child order that reached the gateway or the order book is referenced
\* by its slice, or is about to be, unless the task was cancelled meanwhile.
ChildrenAccounted ==
  \A s \in Slices :
    child[s] # "none" /\ ~child_order_id[s]
      => cancelled \/ (cur = s /\ task \in {"placing", "publishing"})

\* COMPLETED: every slice was tried and some order came of it; FAILED: no child
\* order was ever executed or can still be.
OutcomeIsTrue ==
  /\ status = "completed" =>
       /\ \A s \in Slices : slice[s] \in {"submitted", "filled", "rejected"}
       /\ \E s \in Slices : child_order_id[s] /\ child[s] \notin {"none", "sent"}
  /\ status = "failed" =>
       \A s \in Slices : child[s] \in {"none", "rejected"} /\ executed[s] = 0

\* A running parent order ends: by its last slice, by cancel_algo or shutdown,
\* wherever the task is at that moment.
AlgoEnds == status = "running" ~> status \in Terminal

\* What a parent order shows of itself is true: its slices reference the child
\* orders that were sent, and its status is what became of them (executor.py).
ParentIsTrue == TypeOK /\ ChildrenAccounted /\ OutcomeIsTrue

\* cancel_algo and shutdown are final, wherever they find the task: the status
\* stays and no child order follows.
CancelIsFinal == FinishedStays /\ NothingSentAfterCancel
=============================================================================
