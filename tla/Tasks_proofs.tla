----------------------------- MODULE Tasks_proofs -----------------------------
(***************************************************************************)
(* Proofs about the tasks in the background, for every plan, every set of  *)
(* jobs and every limit.                                                   *)
(*                                                                         *)
(* What a parent order shows is true because the task leaves no gap        *)
(* between its slices and the child orders: those behind it were tried,    *)
(* those ahead of it have no child yet, and the one it deals with is known *)
(* by where the task is.                                                   *)
(*                                                                         *)
(* Records and artifacts of a job agree because of the order the task      *)
(* writes them in, and how far it has come is known from what it marks; a  *)
(* step of one job changes nothing of another but may evict its record.    *)
(* An eviction counts, reads and deletes with others in between; what they *)
(* wrote and removed since its count tells how far the store may be from   *)
(* its capacity when it is done, and who wrote has yet to count himself.   *)
(***************************************************************************)
EXTENDS Tasks, DataTheorems

-----------------------------------------------------------------------------
(* The parent order.                                                        *)

Active == {"sleeping", "placing", "publishing"}

\* The status goes with the task; a cancel that has not landed is on its way.
StatusOfTask ==
  /\ task = "none" <=> status = "none"
  /\ task = "none" => ~cancelled
  /\ task = "created" => status \in {"pending", "cancelled"}
  /\ task \in Active => status \in {"running", "cancelled"}
  /\ interrupted => cancelled /\ task \notin {"none", "done"}
  /\ cancelled => interrupted \/ task = "done"
  /\ status = "cancelled" => cancelled

\* The slices behind the task were tried, those ahead have no child.
Ahead(s) ==
  \/ task \in {"none", "created"}
  \/ task = "sleeping" /\ s >= cur
  \/ task \in {"placing", "publishing"} /\ s > cur

Tried ==
  /\ task \in Active => cur >= 1
  /\ \A s \in Slices :
       /\ Ahead(s) => child[s] = "none"
       /\ task \in Active /\ s < cur => slice[s] \in {"submitted", "filled", "rejected"}
       /\ task = "placing" /\ cur = s => child[s] = "sent"
       /\ task = "publishing" /\ cur = s => child[s] \notin {"none", "sent"}

\* What slices sl with references ids say of their children.
Agrees(sl, ids) ==
  \A s \in Slices :
    /\ ids[s] => \/ child[s] \notin {"none", "sent"} /\ sl[s] = "submitted"
                 \/ child[s] \in {"filled", "rejected"} /\ sl[s] = child[s]
    /\ sl[s] \in {"submitted", "filled"} => ids[s]

RejectedIsEmpty == \A s \in Slices : child[s] \in {"none", "sent", "rejected"} => executed[s] = 0

IInv ==
  /\ TypeOK /\ StatusOfTask /\ Tried
  /\ Agrees(slice, child_order_id) /\ RejectedIsEmpty
  /\ ChildrenAccounted /\ OutcomeIsTrue

-----------------------------------------------------------------------------
\* Before submit_algo nothing is there.
THEOREM InitHolds == Init => IInv
<1> SUFFICES ASSUME Init PROVE IInv
  OBVIOUS
<1>1. TypeOK
  <2>1. 0 \in 0 .. N /\ 0 \in 0 .. Qty
    BY PlanAssumption
  <2>2. /\ "none" \in AlgoStatus /\ "none" \in ChildStatus /\ "scheduled" \in SliceStatus
        /\ FALSE \in BOOLEAN
    BY DEF AlgoStatus, ChildStatus, SliceStatus
  <2>3. /\ child_order_id \in [Slices -> BOOLEAN] /\ slice \in [Slices -> SliceStatus]
        /\ child \in [Slices -> ChildStatus]
        /\ filled_qty \in [Slices -> 0 .. Qty] /\ executed \in [Slices -> 0 .. Qty]
    BY <2>1, <2>2 DEF Init
  <2> QED
    BY <2>1, <2>2, <2>3 DEF Init, TypeOK
<1>2. StatusOfTask /\ Tried /\ Agrees(slice, child_order_id) /\ RejectedIsEmpty
  BY DEF Init, StatusOfTask, Tried, Ahead, Active, Agrees, RejectedIsEmpty
<1>3. ChildrenAccounted /\ OutcomeIsTrue
  BY DEF Init, ChildrenAccounted, OutcomeIsTrue
<1> QED
  BY <1>1, <1>2, <1>3 DEF IInv

-----------------------------------------------------------------------------
(* The end of the task.                                                     *)

\* The end of the task keeps the invariant when the slices it is given agree with
\* their children and, unless the task was cancelled, leave no child out and were
\* all tried, or none.
LEMMA FinishesHold ==
  ASSUME IInv, task \notin {"none", "done"},
         NEW sl \in [Slices -> SliceStatus], NEW ids \in [Slices -> BOOLEAN],
         Finishes(sl, ids), UNCHANGED <<cancelled, childVars>>, cur' \in 0 .. N,
         Agrees(sl, ids),
         ~cancelled => /\ \A s \in Slices : child[s] # "none" => ids[s]
                       /\ \/ \A s \in Slices : sl[s] \in {"submitted", "filled", "rejected"}
                          \/ \A s \in Slices : sl[s] = "skipped"
  PROVE  IInv'
<1>1. /\ task' = "done" /\ interrupted' = FALSE /\ child_order_id' = ids
      /\ slice' = Refreshed(sl, ids) /\ filled_qty' = RefreshedQty(ids)
      /\ status' = Finalized(slice')
      /\ child' = child /\ executed' = executed /\ cancelled' = cancelled
  BY DEF Finishes, childVars
<1>2. \A s \in Slices :
        slice'[s] = IF ids[s] /\ child[s] \in {"filled", "rejected"} THEN child[s] ELSE sl[s]
  BY <1>1 DEF Refreshed
<1>3. status \notin {"none", "completed", "failed"}
  BY DEF IInv, StatusOfTask, Active, TypeOK
<1>4. TypeOK'
  <2>1. slice' \in [Slices -> SliceStatus]
    BY <1>1 DEF Refreshed, SliceStatus
  <2>2. filled_qty' \in [Slices -> 0 .. Qty]
    BY <1>1 DEF RefreshedQty, IInv, TypeOK
  <2>3. status' \in AlgoStatus
    BY <1>1 DEF Finalized, IInv, TypeOK, AlgoStatus, Terminal
  <2> QED
    BY <1>1, <2>1, <2>2, <2>3 DEF IInv, TypeOK
<1>5. status' \in Terminal /\ (status' = "cancelled" <=> cancelled)
  BY <1>1, <1>3 DEF Finalized, Terminal, IInv, StatusOfTask
<1>6. StatusOfTask'
  BY <1>1, <1>5 DEF IInv, StatusOfTask, Active, Terminal
<1>7. Tried' /\ RejectedIsEmpty'
  BY <1>1 DEF IInv, Tried, Ahead, Active, RejectedIsEmpty
<1>8. Agrees(slice, child_order_id)'
  BY <1>1, <1>2 DEF Agrees
<1>9. ChildrenAccounted'
  BY <1>1 DEF ChildrenAccounted
<1>10. OutcomeIsTrue'
  <2>1. CASE cancelled
    BY <1>5, <2>1 DEF OutcomeIsTrue
  <2>2. CASE ~cancelled
    <3>1. status \notin Terminal
      BY <1>3, <2>2 DEF Terminal, IInv, StatusOfTask
    <3>2. status' = IF \A s \in Slices : slice'[s] \notin {"submitted", "filled"}
                    THEN "failed" ELSE "completed"
      BY <1>1, <2>2, <3>1 DEF Finalized
    <3>3. CASE \A s \in Slices : slice'[s] \notin {"submitted", "filled"}
      <4>1. \A s \in Slices : child[s] \in {"none", "rejected"}
        BY <1>2, <2>2, <3>3 DEF Agrees
      <4> QED
        BY <1>1, <3>2, <3>3, <4>1 DEF OutcomeIsTrue, IInv, RejectedIsEmpty
    <3>4. CASE ~ \A s \in Slices : slice'[s] \notin {"submitted", "filled"}
      <4>1. PICK s \in Slices : slice'[s] \in {"submitted", "filled"}
        BY <3>4
      <4>2. ids[s] /\ child[s] \notin {"none", "sent"} /\ sl[s] # "skipped"
        BY <1>2, <4>1 DEF Agrees
      <4>3. \A r \in Slices : slice'[r] \in {"submitted", "filled", "rejected"}
        BY <1>2, <2>2, <4>2
      <4> QED
        BY <1>1, <3>2, <3>4, <4>2, <4>3 DEF OutcomeIsTrue
    <3> QED
      BY <3>3, <3>4
  <2> QED
    BY <2>1, <2>2
<1> QED
  BY <1>4, <1>6, <1>7, <1>8, <1>9, <1>10 DEF IInv

\* The loop goes on after slice k, or ends with it.
LEMMA GoesOnHolds ==
  ASSUME IInv, ~interrupted, NEW k \in Slices,
         (task = "created" /\ k = 1) \/ (task \in {"sleeping", "publishing"} /\ cur = k),
         NEW st \in {"submitted", "filled", "rejected"}, NEW ids \in [Slices -> BOOLEAN],
         NEW filled \in [Slices -> 0 .. Qty],
         GoesOn(k, [slice EXCEPT ![k] = st], ids, filled),
         UNCHANGED <<cancelled, childVars>>,
         Agrees([slice EXCEPT ![k] = st], ids),
         \A s \in Slices : s # k => ids[s] = child_order_id[s],
         child[k] # "none" => ids[k]
  PROVE  IInv'
<1> DEFINE sl == [slice EXCEPT ![k] = st]
<1>1. sl \in [Slices -> SliceStatus] /\ k \in 1 .. N
  BY DEF IInv, TypeOK, SliceStatus, Slices
<1>2. ~cancelled /\ status \in {"pending", "running"} /\ task \notin {"none", "done"}
  BY DEF IInv, StatusOfTask, Active
<1>3. \A s \in Slices : s < k => sl[s] \in {"submitted", "filled", "rejected"}
  BY PlanAssumption DEF IInv, TypeOK, Tried, Active, Slices
<1>4. sl[k] = st
  BY DEF IInv, TypeOK
<1>5. \A s \in Slices : child[s] # "none" => ids[s]
  BY <1>2 DEF IInv, ChildrenAccounted
<1>6. CASE k = N
  <2>1. Finishes(sl, ids) /\ cur' = cur
    BY <1>6 DEF GoesOn
  <2>2. \A s \in Slices : sl[s] \in {"submitted", "filled", "rejected"}
    BY <1>3, <1>4, <1>6, PlanAssumption DEF Slices
  <2>3. cur' \in 0 .. N
    BY <2>1 DEF IInv, TypeOK
  <2> HIDE DEF sl
  <2> QED
    BY <1>1, <1>2, <1>5, <2>1, <2>2, <2>3, FinishesHold DEF sl
<1>7. CASE k # N
  <2>1. /\ task' = "sleeping" /\ cur' = k + 1 /\ slice' = sl /\ child_order_id' = ids
        /\ filled_qty' = filled /\ interrupted' = interrupted
        /\ status' = IF task = "created" THEN "running" ELSE status
        /\ child' = child /\ executed' = executed /\ cancelled' = cancelled
    BY <1>7 DEF GoesOn, childVars
  <2>2. status' = "running"
    BY <1>2, <2>1 DEF IInv, StatusOfTask, Active
  <2>3. TypeOK'
    <3>1. cur' \in 0 .. N
      BY <1>1, <1>7, <2>1, PlanAssumption
    <3> QED
      BY <1>1, <2>1, <2>2, <3>1 DEF IInv, TypeOK, AlgoStatus
  <2>4. StatusOfTask'
    BY <1>2, <2>1, <2>2 DEF IInv, StatusOfTask, Active
  <2>5. Tried'
    <3>1. cur' >= 1 /\ \A s \in Slices : s >= cur' <=> s > k
      BY <1>1, <2>1, PlanAssumption DEF Slices
    <3>2. \A s \in Slices : s > k => child[s] = "none"
      BY <1>1, PlanAssumption DEF IInv, Tried, Ahead, Slices
    <3>3. \A s \in Slices : s < cur' => sl[s] \in {"submitted", "filled", "rejected"}
      BY <1>1, <1>3, <1>4, <2>1, PlanAssumption DEF Slices
    <3> QED
      BY <2>1, <3>1, <3>2, <3>3 DEF Tried, Ahead, Active
  <2>6. Agrees(slice, child_order_id)' /\ RejectedIsEmpty'
    BY <2>1 DEF Agrees, IInv, RejectedIsEmpty
  <2>7. ChildrenAccounted' /\ OutcomeIsTrue'
    BY <1>5, <2>1, <2>2 DEF ChildrenAccounted, OutcomeIsTrue
  <2> QED
    BY <2>3, <2>4, <2>5, <2>6, <2>7 DEF IInv
<1> QED
  BY <1>6, <1>7

-----------------------------------------------------------------------------
(* The task.                                                                *)

LEMMA TaskAbortsHolds == ASSUME IInv, TaskAborts PROVE IInv'
<1> DEFINE sl == [s \in Slices |-> "skipped"]
<1>1. task = "created" /\ ~interrupted /\ Finishes(sl, child_order_id)
      /\ UNCHANGED <<cancelled, cur, childVars>>
  BY DEF TaskAborts
<1>2. \A s \in Slices : child[s] = "none" /\ ~child_order_id[s]
  BY <1>1 DEF IInv, Tried, Ahead, Agrees
<1>3. sl \in [Slices -> SliceStatus] /\ child_order_id \in [Slices -> BOOLEAN]
      /\ cur' \in 0 .. N
  BY <1>1 DEF SliceStatus, IInv, TypeOK
<1>4. Agrees(sl, child_order_id) /\ \A s \in Slices : sl[s] = "skipped"
  BY <1>2 DEF Agrees
<1> HIDE DEF sl
<1> QED
  BY <1>1, <1>2, <1>3, <1>4, FinishesHold

LEMMA SliceNotSentHolds == ASSUME IInv, NEW k \in Slices, SliceNotSent(k) PROVE IInv'
<1>1. ~interrupted /\ ((task = "created" /\ k = 1) \/ (task = "sleeping" /\ cur = k))
  BY DEF SliceNotSent, Reaches
<1>2. ~cancelled
  BY <1>1 DEF IInv, StatusOfTask
<1>3. /\ GoesOn(k, [slice EXCEPT ![k] = "rejected"], child_order_id, filled_qty)
      /\ UNCHANGED <<cancelled, childVars>>
  BY <1>2 DEF SliceNotSent
<1>4. child[k] = "none" /\ ~child_order_id[k]
  BY <1>1 DEF IInv, TypeOK, Tried, Ahead, Agrees, Slices
<1>5. Agrees([slice EXCEPT ![k] = "rejected"], child_order_id)
  BY <1>4 DEF IInv, TypeOK, Agrees
<1>6. child_order_id \in [Slices -> BOOLEAN] /\ filled_qty \in [Slices -> 0 .. Qty]
  BY DEF IInv, TypeOK
<1> QED
  BY <1>1, <1>3, <1>4, <1>5, <1>6, GoesOnHolds

\* A child order of slice k comes up.
LEMMA SliceSendsHolds ==
  ASSUME IInv, NEW k \in Slices, SliceSends(k) \/ SliceAtOnce(k) PROVE IInv'
<1>1. /\ ~interrupted /\ ~cancelled
      /\ (task = "created" /\ k = 1) \/ (task = "sleeping" /\ cur = k)
      /\ cur' = k /\ status' = IF task = "created" THEN "running" ELSE status
      /\ UNCHANGED <<cancelled, interrupted, slice, child_order_id, filled_qty>>
  BY DEF SliceSends, SliceAtOnce, Reaches, sliceVars
<1>2. \/ /\ task' = "placing" /\ child' = [child EXCEPT ![k] = "sent"] /\ executed' = executed
      \/ /\ task' = "publishing" /\ child' = [child EXCEPT ![k] = "rejected"]
         /\ executed' = executed
      \/ /\ task' = "publishing" /\ child' = [child EXCEPT ![k] = "filled"]
         /\ executed' = [executed EXCEPT ![k] = Qty]
  BY DEF SliceSends, SliceAtOnce
<1>3. k \in 1 .. N /\ Qty \in 0 .. Qty
  BY PlanAssumption DEF Slices
<1>4. /\ \A s \in Slices : s >= k => child[s] = "none"
      /\ child[k] = "none" /\ ~child_order_id[k] /\ executed[k] = 0
  BY <1>1, <1>3, PlanAssumption DEF IInv, Tried, Ahead, Agrees, RejectedIsEmpty, Slices
<1>5. status' = "running"
  BY <1>1 DEF IInv, StatusOfTask, Active
<1>6. \A s \in Slices : s # k => child'[s] = child[s] /\ executed'[s] = executed[s]
  BY <1>2 DEF IInv, TypeOK
<1>7. child'[k] \in {"sent", "rejected", "filled"}
  BY <1>2 DEF IInv, TypeOK
<1>8. TypeOK'
  <2>1. child' \in [Slices -> ChildStatus]
    BY <1>2 DEF IInv, TypeOK, ChildStatus
  <2>2. executed' \in [Slices -> 0 .. Qty]
    BY <1>2, <1>3 DEF IInv, TypeOK
  <2>3. cur' \in 0 .. N
    BY <1>1, <1>3, PlanAssumption
  <2> QED
    BY <1>1, <1>2, <1>5, <2>1, <2>2, <2>3 DEF IInv, TypeOK, AlgoStatus
<1>9. StatusOfTask'
  BY <1>1, <1>2, <1>5 DEF IInv, StatusOfTask, Active
<1>10. Tried'
  <2>1. cur' >= 1
    BY <1>1, <1>3, PlanAssumption
  <2>2. \A s \in Slices : s > k => child'[s] = "none"
    BY <1>3, <1>4, <1>6, PlanAssumption DEF Slices
  <2>3. \A s \in Slices : s < k => slice[s] \in {"submitted", "filled", "rejected"}
    BY <1>1, <1>3, PlanAssumption DEF IInv, Tried, Active, Slices
  <2>4. (task' = "placing" => child'[k] = "sent")
        /\ (task' = "publishing" => child'[k] \notin {"none", "sent"})
    BY <1>2 DEF IInv, TypeOK
  <2> QED
    BY <1>1, <1>2, <2>1, <2>2, <2>3, <2>4 DEF Tried, Ahead, Active
<1>11. Agrees(slice, child_order_id)'
  BY <1>1, <1>4, <1>6 DEF IInv, Agrees
<1>12. RejectedIsEmpty'
  BY <1>2, <1>4, <1>6 DEF IInv, TypeOK, RejectedIsEmpty
<1>13. ChildrenAccounted'
  <2>1. \A s \in Slices : s # k => (child[s] # "none" => child_order_id[s])
    BY <1>1 DEF IInv, ChildrenAccounted
  <2> QED
    BY <1>1, <1>2, <1>6, <2>1 DEF ChildrenAccounted
<1>14. OutcomeIsTrue'
  BY <1>5 DEF OutcomeIsTrue
<1> QED
  BY <1>8, <1>9, <1>10, <1>11, <1>12, <1>13, <1>14 DEF IInv

LEMMA SlicePlacedHolds == ASSUME IInv, NEW k \in Slices, SlicePlaced(k) PROVE IInv'
<1>1. PICK st \in {"submitted", "rejected"} : child' = [child EXCEPT ![k] = st]
  BY DEF SlicePlaced
<1>2. /\ task = "placing" /\ cur = k /\ task' = "publishing"
      /\ UNCHANGED <<status, cancelled, interrupted, cur, slice, child_order_id, filled_qty,
                     executed>>
  BY DEF SlicePlaced, sliceVars
<1>3. child[k] = "sent" /\ executed[k] = 0 /\ ~child_order_id[k]
  BY <1>2 DEF IInv, TypeOK, Tried, RejectedIsEmpty, Agrees
<1>4. child'[k] = st /\ \A s \in Slices : s # k => child'[s] = child[s]
  BY <1>1 DEF IInv, TypeOK
<1>5. TypeOK'
  BY <1>1, <1>2 DEF IInv, TypeOK, ChildStatus, LiveChild
<1>6. StatusOfTask'
  BY <1>2 DEF IInv, StatusOfTask, Active
<1>7. Tried'
  BY <1>2, <1>4, PlanAssumption DEF IInv, TypeOK, Tried, Ahead, Active, Slices
<1>8. Agrees(slice, child_order_id)' /\ RejectedIsEmpty'
  BY <1>2, <1>3, <1>4 DEF IInv, Agrees, RejectedIsEmpty
<1>9. ChildrenAccounted'
  BY <1>2, <1>3, <1>4 DEF IInv, ChildrenAccounted
<1>10. OutcomeIsTrue'
  BY <1>2 DEF IInv, StatusOfTask, Active, OutcomeIsTrue
<1> QED
  BY <1>5, <1>6, <1>7, <1>8, <1>9, <1>10 DEF IInv

LEMMA SliceReturnsHolds == ASSUME IInv, NEW k \in Slices, SliceReturns(k) PROVE IInv'
<1> DEFINE st == IF child[k] \in {"rejected", "filled"} THEN child[k] ELSE "submitted"
           ids == [child_order_id EXCEPT ![k] = TRUE]
           filled == [filled_qty EXCEPT ![k] = executed[k]]
<1>1. /\ ~interrupted /\ task \in {"sleeping", "publishing"} /\ cur = k
      /\ GoesOn(k, [slice EXCEPT ![k] = st], ids, filled)
      /\ UNCHANGED <<cancelled, childVars>>
  BY DEF SliceReturns
<1>2. child[k] \notin {"none", "sent"}
  BY DEF SliceReturns, IInv, Tried
<1>3. st \in {"submitted", "filled", "rejected"} /\ ids \in [Slices -> BOOLEAN]
      /\ filled \in [Slices -> 0 .. Qty]
  BY DEF IInv, TypeOK
<1>4. ids[k] /\ \A s \in Slices : s # k => ids[s] = child_order_id[s]
  BY DEF IInv, TypeOK
<1>5. Agrees([slice EXCEPT ![k] = st], ids)
  <2> SUFFICES ASSUME NEW s \in Slices
               PROVE  /\ ids[s] => \/ /\ child[s] \notin {"none", "sent"}
                                      /\ [slice EXCEPT ![k] = st][s] = "submitted"
                                   \/ /\ child[s] \in {"filled", "rejected"}
                                      /\ [slice EXCEPT ![k] = st][s] = child[s]
                      /\ [slice EXCEPT ![k] = st][s] \in {"submitted", "filled"} => ids[s]
    BY DEF Agrees
  <2>1. [slice EXCEPT ![k] = st][s] = IF s = k THEN st ELSE slice[s]
    BY DEF IInv, TypeOK
  <2>2. CASE s = k
    BY <1>2, <1>4, <2>1, <2>2
  <2>3. CASE s # k
    BY <1>4, <2>1, <2>3 DEF IInv, Agrees
  <2> QED
    BY <2>2, <2>3
<1> HIDE DEF st, ids, filled
<1> QED
  BY <1>1, <1>3, <1>4, <1>5, GoesOnHolds

\* A cancelled task ends where it stands.
LEMMA InterruptLandsHolds == ASSUME IInv, InterruptLands PROVE IInv'
<1>1. interrupted /\ cancelled /\ task \notin {"none", "done"}
      /\ UNCHANGED <<cancelled, cur, childVars>>
  BY DEF InterruptLands, IInv, StatusOfTask
<1>2. CASE task = "created"
  <2>1. /\ task' = "done" /\ interrupted' = FALSE
        /\ UNCHANGED <<status, slice, child_order_id, filled_qty, child, executed, cancelled,
                       cur>>
    BY <1>1, <1>2 DEF InterruptLands, sliceVars, childVars
  <2>2. TypeOK'
    BY <2>1 DEF IInv, TypeOK
  <2>3. StatusOfTask'
    BY <1>1, <2>1 DEF IInv, StatusOfTask, Active
  <2>4. Tried' /\ Agrees(slice, child_order_id)' /\ RejectedIsEmpty'
    BY <2>1 DEF IInv, Tried, Ahead, Active, Agrees, RejectedIsEmpty
  <2>5. ChildrenAccounted' /\ OutcomeIsTrue'
    BY <1>1, <2>1 DEF IInv, ChildrenAccounted, OutcomeIsTrue
  <2> QED
    BY <2>2, <2>3, <2>4, <2>5 DEF IInv
<1>3. CASE task # "created"
  <2> DEFINE sl == [s \in Slices |-> IF slice[s] = "scheduled" THEN "skipped" ELSE slice[s]]
  <2>1. Finishes(sl, child_order_id)
    BY <1>3 DEF InterruptLands
  <2>2. sl \in [Slices -> SliceStatus] /\ child_order_id \in [Slices -> BOOLEAN]
        /\ cur' \in 0 .. N
    BY <1>1 DEF IInv, TypeOK, SliceStatus
  <2>3. Agrees(sl, child_order_id)
    BY DEF IInv, TypeOK, Agrees
  <2> HIDE DEF sl
  <2> QED
    BY <1>1, <2>1, <2>2, <2>3, FinishesHold
<1> QED
  BY <1>2, <1>3

-----------------------------------------------------------------------------
(* Callers and children.                                                    *)

LEMMA SubmitAlgoHolds == ASSUME IInv, SubmitAlgo PROVE IInv'
<1>1. /\ task = "none" /\ ~cancelled /\ ~interrupted
      /\ status' = "pending" /\ task' = "created"
      /\ UNCHANGED <<cancelled, interrupted, cur, slice, child_order_id, filled_qty,
                     child, executed>>
  BY DEF SubmitAlgo, sliceVars, childVars, IInv, StatusOfTask
<1>2. TypeOK' /\ StatusOfTask'
  BY <1>1 DEF IInv, TypeOK, AlgoStatus, StatusOfTask, Active
<1>3. Tried' /\ Agrees(slice, child_order_id)' /\ RejectedIsEmpty'
  BY <1>1 DEF IInv, Tried, Ahead, Active, Agrees, RejectedIsEmpty
<1>4. ChildrenAccounted' /\ OutcomeIsTrue'
  BY <1>1 DEF IInv, Tried, Ahead, ChildrenAccounted, OutcomeIsTrue
<1> QED
  BY <1>2, <1>3, <1>4 DEF IInv

LEMMA CancelHolds == ASSUME IInv, CancelAlgo \/ Shutdown PROVE IInv'
<1>1. /\ task # "none" /\ cancelled' = TRUE /\ interrupted' = (task # "done")
      /\ \/ status \in {"pending", "running"} /\ status' = "cancelled"
         \/ status' = status
      /\ UNCHANGED <<task, cur, slice, child_order_id, filled_qty, child, executed>>
  BY DEF CancelAlgo, Shutdown, sliceVars, childVars, IInv, StatusOfTask
<1>2. TypeOK' /\ StatusOfTask'
  BY <1>1 DEF IInv, TypeOK, AlgoStatus, Terminal, StatusOfTask, Active
<1>3. Tried' /\ Agrees(slice, child_order_id)' /\ RejectedIsEmpty'
  BY <1>1 DEF IInv, Tried, Ahead, Active, Agrees, RejectedIsEmpty
<1>4. ChildrenAccounted' /\ OutcomeIsTrue'
  BY <1>1 DEF IInv, ChildrenAccounted, OutcomeIsTrue
<1> QED
  BY <1>2, <1>3, <1>4 DEF IInv

\* A live child order fills or closes.
LEMMA ChildHolds ==
  ASSUME IInv, NEW s \in Slices, ChildFills(s) \/ ChildCloses(s) PROVE IInv'
<1>1. /\ child[s] \in LiveChild
      /\ UNCHANGED <<status, cancelled, task, interrupted, cur, slice, child_order_id,
                     filled_qty>>
  BY DEF ChildFills, ChildCloses, algoVars, sliceVars
<1>2. PICK st \in {"partial", "filled", "cancelled", "expired", "rejected"}, n \in 0 .. Qty :
         /\ child' = [child EXCEPT ![s] = st] /\ executed' = [executed EXCEPT ![s] = n]
         /\ st = "rejected" => n = 0
  <2>1. CASE ChildFills(s)
    <3>1. PICK n \in (executed[s] + 1) .. Qty :
             /\ executed' = [executed EXCEPT ![s] = n]
             /\ child' = [child EXCEPT ![s] = IF n = Qty THEN "filled" ELSE "partial"]
      BY <2>1 DEF ChildFills
    <3>2. n \in 0 .. Qty
      BY <3>1, PlanAssumption DEF IInv, TypeOK
    <3> QED
      BY <3>1, <3>2
  <2>2. CASE ChildCloses(s)
    <3>1. PICK end \in {"cancelled", "expired", "rejected"} :
             (end = "rejected" => executed[s] = 0) /\ child' = [child EXCEPT ![s] = end]
      BY <2>2 DEF ChildCloses
    <3>2. executed' = [executed EXCEPT ![s] = executed[s]] /\ executed[s] \in 0 .. Qty
      BY <2>2 DEF ChildCloses, IInv, TypeOK
    <3> QED
      BY <3>1, <3>2
  <2> QED
    BY <2>1, <2>2
<1>3. \A r \in Slices : /\ child'[r] = IF r = s THEN st ELSE child[r]
                        /\ executed'[r] = IF r = s THEN n ELSE executed[r]
  BY <1>2 DEF IInv, TypeOK
<1>4. TypeOK'
  <2>1. st \in ChildStatus
    BY DEF ChildStatus, LiveChild
  <2> QED
    BY <1>1, <1>2, <2>1 DEF IInv, TypeOK
<1>5. StatusOfTask'
  BY <1>1 DEF IInv, StatusOfTask, Active
<1>6. Tried'
  BY <1>1, <1>3 DEF IInv, Tried, Ahead, Active, LiveChild
<1>7. Agrees(slice, child_order_id)'
  BY <1>1, <1>3 DEF IInv, Agrees, LiveChild
<1>8. RejectedIsEmpty'
  BY <1>2, <1>3 DEF IInv, RejectedIsEmpty
<1>9. ChildrenAccounted'
  BY <1>1, <1>3 DEF IInv, ChildrenAccounted, LiveChild
<1>10. OutcomeIsTrue'
  BY <1>1, <1>3 DEF IInv, OutcomeIsTrue, LiveChild
<1> QED
  BY <1>4, <1>5, <1>6, <1>7, <1>8, <1>9, <1>10 DEF IInv

-----------------------------------------------------------------------------
\* Every step of the task, its callers and its child orders keeps the invariant.
THEOREM StepHolds == IInv /\ [Next]_vars => IInv'
<1> SUFFICES ASSUME IInv, [Next]_vars PROVE IInv'
  OBVIOUS
<1>1. CASE \E k \in Slices : Run(k)
  BY <1>1, SliceNotSentHolds, SliceSendsHolds, SlicePlacedHolds, SliceReturnsHolds DEF Run
<1>2. CASE \E s \in Slices : ChildFills(s) \/ ChildCloses(s)
  BY <1>2, ChildHolds
<1>3. CASE UNCHANGED vars
  BY <1>3 DEF vars, algoVars, sliceVars, childVars, IInv, TypeOK, StatusOfTask, Tried, Ahead,
              Agrees, RejectedIsEmpty, ChildrenAccounted, OutcomeIsTrue
<1> QED
  BY <1>1, <1>2, <1>3, SubmitAlgoHolds, TaskAbortsHolds, InterruptLandsHolds, CancelHolds
  DEF Next

\* What a parent order shows of itself is true, for every plan: its slices reference
\* the child orders, COMPLETED and FAILED say what became of them (executor.py).
THEOREM ParentStaysTrue == Spec => []ParentIsTrue
<1>1. IInv => ParentIsTrue
  BY DEF IInv, ParentIsTrue
<1> QED
  BY <1>1, InitHolds, StepHolds, PTL DEF Spec

\* cancel_algo and shutdown are final, wherever they find the task.
THEOREM CancelStaysFinal == Spec => CancelIsFinal
<1>1. IInv /\ [Next]_vars => [(status \in Terminal => status' = status)]_vars
  <2> SUFFICES ASSUME IInv, Next, status \in Terminal PROVE status' = status
    OBVIOUS
  <2>1. task = "created" => interrupted
    BY DEF IInv, StatusOfTask, Terminal
  <2>2. ASSUME NEW sl, Finalized(sl) # status PROVE FALSE
    BY <2>2 DEF Finalized
  <2>3. \A sl, ids : Finishes(sl, ids) => status' = status
    BY <2>2 DEF Finishes
  <2>4. ASSUME NEW k \in Slices, Run(k) PROVE status' = status
    BY <2>1, <2>3, <2>4 DEF Run, SliceNotSent, SliceSends, SliceAtOnce, SlicePlaced,
                            SliceReturns, Reaches, GoesOn
  <2> QED
    BY <2>1, <2>3, <2>4 DEF Next, SubmitAlgo, TaskAborts, InterruptLands, CancelAlgo, Shutdown,
                            ChildFills, ChildCloses, algoVars, Terminal
<1>2. IInv /\ [Next]_vars =>
        [status = "cancelled" \/ cancelled
           => \A s \in Slices : child[s] = "none" => child'[s] = "none"]_vars
  <2> SUFFICES ASSUME IInv, Next, status = "cancelled" \/ cancelled, NEW s \in Slices,
                      child[s] = "none"
               PROVE  child'[s] = "none"
    OBVIOUS
  <2>1. cancelled /\ (task = "placing" => child[cur] = "sent" \/ cur \notin Slices)
    BY DEF IInv, StatusOfTask, Tried
  <2>2. ASSUME NEW k \in Slices, Run(k) PROVE child'[s] = "none"
    BY <2>1, <2>2 DEF Run, SliceNotSent, SliceSends, SliceAtOnce, SlicePlaced,
                      SliceReturns, childVars, IInv, TypeOK
  <2>3. ASSUME NEW r \in Slices, ChildFills(r) \/ ChildCloses(r) PROVE child'[s] = "none"
    <3>1. r # s
      BY <2>3 DEF ChildFills, ChildCloses, LiveChild
    <3> QED
      BY <2>3, <3>1 DEF ChildFills, ChildCloses, IInv, TypeOK
  <2> QED
    BY <2>2, <2>3 DEF Next, SubmitAlgo, TaskAborts, InterruptLands, CancelAlgo, Shutdown, childVars
<1> QED
  BY <1>1, <1>2, InitHolds, StepHolds, PTL
  DEF Spec, CancelIsFinal, FinishedStays, NothingSentAfterCancel

-----------------------------------------------------------------------------
(* The jobs of the laboratory.                                              *)

Kind == {"retrain", "beat", "drift", "loop"}
First == {"first_count", "first_range", "first_evict"}
Before == {"none", "waiting", "work", "write", "meta", "rollback"} \cup First

Types ==
    /\ Lab!TypeOK
    /\ kind \in [Lab!Jobs -> Kind] /\ over \in [Lab!Jobs -> Nat]
    /\ stale \in [Lab!Jobs -> SUBSET Lab!Jobs] /\ wrote \in [Lab!Jobs -> SUBSET Lab!Jobs]
    /\ lost \in [Lab!Jobs -> SUBSET Lab!Jobs] /\ deleted \subseteq Lab!Jobs

\* Where the request and the task of a job can be.
Control(j) ==
    /\ kind[j] = "beat" => api[j] = "idle"
    /\ kind[j] # "beat" /\ api[j] = "idle" => job[j] = "none"
    /\ api[j] \in {"count", "range", "evict", "send"} => job[j] = "none"
    /\ api[j] = "answered" => job[j] # "none"
    /\ job[j] \in Before => mark[j] = "running"
    /\ ~Lab!Created(j) => record[j] = None /\ j \notin deleted

\* What the record of a job says, and when.
RecordGoes(j) ==
    /\ job[j] = "none" /\ api[j] = "refused" => record[j] = None
    /\ job[j] \in {"count", "range", "evict", "marked"} => record[j] \in {mark[j], None}
    /\ job[j] = "ended" => j \in stuck \/ record[j] \notin {"queued", "running"}
    /\ job[j] = "killed" \/ api[j] = "failed" => j \in stuck
    /\ record[j] = "done" => mark[j] # "running"
    /\ j \in deleted \ raced => record[j] = None /\ job[j] # "save"

\* Why an artifact is there, or is not.
ArtifactGoes(j) ==
    /\ (mark[j] = "done" \/ record[j] = "done") /\ Lab!Retrains(j) /\ deletes = 0 =>
           j \in meta \cap content
    /\ j \in meta => mark[j] = "done" \/ j \in late \cup unsure
    /\ j \in meta => j \in content \cup unsure
    /\ j \in content \ meta => j \in littered \/ job[j] \in {"meta", "rollback"}
    /\ job[j] = "meta" => j \in content
    /\ j \in late => mark[j] = "error"
    /\ j \in unsure => mark[j] # "running" \/ job[j] \in {"rollback", "killed"}
    /\ j \in unsure /\ Lab!Retrains(j) => mark[j] # "done"

\* What is told is what the job came to.
NoticeGoes(j) ==
    /\ notice[j] # None => job[j] = "ended" /\ Lab!Retrains(j)
    /\ notice[j] = "failed" => mark[j] = "error"
    /\ notice[j] = "done" => mark[j] = "done"
    /\ job[j] = "ended" /\ Lab!Retrains(j) => notice[j] # None

\* The records of the store of j, and its capacity.
Rec(j) == Lab!Recorded(Lab!Store(j))
Cap(j) == Lab!Capacity(Lab!Store(j))

\* The eviction for j has not read the oldest records yet.
Ranging(j) == api[j] = "range" \/ job[j] \in {"range", "first_range"}

\* Who has written since the eviction for j counted, and has evictions of his own to do.
Open(j) == wrote[j] \cap Lab!Trimming(Lab!Store(j))

\* What will be left when the eviction has taken what it means to take: of the records,
\* and of the records and all that was written meanwhile.
Rest(j) == IF Ranging(j) THEN Cardinality(Rec(j)) - over[j] ELSE Cardinality(Rec(j) \ stale[j])
Full(j) == IF Ranging(j) THEN Cardinality(Rec(j) \cup wrote[j]) - over[j]
           ELSE Cardinality((Rec(j) \cup wrote[j]) \ stale[j])

\* An eviction under way has counted too many.  What was added to or removed from its
\* store since then is in its history, and those who added count after it.
EvictionGoes(j) ==
    Lab!Evicting(j) =>
      /\ over[j] > 0 /\ j \notin wrote[j]
      /\ \A k \in wrote[j] : /\ Lab!Store(k) = Lab!Store(j)
                             /\ Lab!Evicting(k) => wrote[k] \subseteq wrote[j]
      /\ Cardinality(Rec(j) \cup lost[j]) >= Cap(j) + over[j]
      /\ Full(j) <= Cap(j) + Cardinality(wrote[j])
      /\ Rest(j) <= Cap(j) + Cardinality(Open(j)) + faults
      /\ ~Ranging(j) =>
           /\ Cardinality(stale[j]) <= over[j]
           /\ \A k \in stale[j] : Lab!Store(k) = Lab!Store(j)
           /\ \A k \in stale[j], l \in Rec(j) \ (stale[j] \cup wrote[j]) : k < l

\* Who trims may leave one record too many, and every fault one for good.
RecordsBound ==
    \A s \in Lab!Stores :
      Cardinality(Lab!Recorded(s)) <= Lab!Capacity(s) + Cardinality(Lab!Trimming(s)) + faults

CountsAreExact == RecordsBound /\ \A j \in Lab!Jobs : EvictionGoes(j)

\* Of the job with number j: what is known of it.
JobInv(j) == Control(j) /\ RecordGoes(j) /\ ArtifactGoes(j) /\ NoticeGoes(j)

JobsInv ==
    /\ Types /\ CountsAreExact
    /\ \A j \in Lab!Jobs : JobInv(j)

-----------------------------------------------------------------------------
(* The records that are counted.                                            *)

LEMMA SameSize == \A S : Lab!Cardinality(S) = Cardinality(S)
BY DEF Lab!Cardinality, Cardinality

\* One more, or one less.
LEMMA OneApart ==
    ASSUME NEW S, IsFiniteSet(S), NEW x
    PROVE  /\ IsFiniteSet(S \cup {x}) /\ IsFiniteSet(S \ {x})
           /\ Cardinality(S) \in Nat /\ Cardinality(S \cup {x}) \in Nat /\ Cardinality(S \ {x}) \in Nat
           /\ Cardinality(S \cup {x}) <= Cardinality(S) + 1
           /\ Cardinality(S \ {x}) >= Cardinality(S) - 1
           /\ x \in S => Cardinality(S \ {x}) = Cardinality(S) - 1
           /\ x \notin S => Cardinality(S \cup {x}) = Cardinality(S) + 1
<1>0. Cardinality(S) \in Nat
  BY FS_CardinalityType
<1>1. CASE x \in S
  <2>1. S \cup {x} = S /\ IsFiniteSet(S \ {x}) /\ Cardinality(S \ {x}) = Cardinality(S) - 1
    BY <1>1, FS_RemoveElement
  <2>2. Cardinality(S \ {x}) \in Nat
    BY <2>1, FS_CardinalityType
  <2>3. IsFiniteSet(S \cup {x}) /\ Cardinality(S \cup {x}) = Cardinality(S)
    BY <2>1
  <2> QED
    BY <1>0, <1>1, <2>1, <2>2, <2>3
<1>2. CASE x \notin S
  <2>1. /\ S \ {x} = S /\ IsFiniteSet(S \cup {x})
        /\ Cardinality(S \cup {x}) = Cardinality(S) + 1
    BY <1>2, FS_AddElement
  <2>2. Cardinality(S \cup {x}) \in Nat
    BY <2>1, FS_CardinalityType
  <2>3. IsFiniteSet(S \ {x}) /\ Cardinality(S \ {x}) = Cardinality(S)
    BY <2>1
  <2> QED
    BY <1>0, <1>2, <2>1, <2>2, <2>3
<1> QED
  BY <1>1, <1>2

\* Sets of jobs, with one more or some less.
LEMMA JobSets ==
    ASSUME NEW S \in SUBSET Lab!Jobs
    PROVE  /\ IsFiniteSet(S) /\ Cardinality(S) \in Nat /\ S \subseteq Int
           /\ \A T \in SUBSET S : Cardinality(T) \in Nat /\ Cardinality(T) <= Cardinality(S)
           /\ \A x : /\ Cardinality(S \cup {x}) \in Nat /\ Cardinality(S \ {x}) \in Nat
                     /\ Cardinality(S \cup {x}) <= Cardinality(S) + 1
                     /\ Cardinality(S \ {x}) >= Cardinality(S) - 1
                     /\ x \in S => Cardinality(S \ {x}) = Cardinality(S) - 1
                     /\ x \notin S => Cardinality(S \cup {x}) = Cardinality(S) + 1
<1>1. IsFiniteSet(Lab!Jobs) /\ Lab!Jobs \subseteq Int
  BY FS_Interval, JobsAssumption DEF Lab!Jobs
<1>2. IsFiniteSet(S)
  BY <1>1, FS_Subset
<1>3. ASSUME NEW T \in SUBSET S PROVE Cardinality(T) \in Nat /\ Cardinality(T) <= Cardinality(S)
  BY <1>2, FS_Subset, FS_CardinalityType
<1> QED
  BY <1>1, <1>2, <1>3, OneApart, FS_CardinalityType

\* What is over is over by two parts at most.
LEMMA UnionSize ==
    ASSUME NEW S \in SUBSET Lab!Jobs, NEW T \in SUBSET Lab!Jobs
    PROVE  Cardinality(S \cup T) <= Cardinality(S) + Cardinality(T)
<1>1. IsFiniteSet(S) /\ IsFiniteSet(T \ S) /\ S \cap (T \ S) = {} /\ S \cup T = S \cup (T \ S)
  <2>1. T \ S \in SUBSET Lab!Jobs
    OBVIOUS
  <2> QED
    BY <2>1, JobSets
<1>2. Cardinality(S \cup T) = Cardinality(S) + Cardinality(T \ S)
  BY <1>1, DisjointSizes
<1>3. /\ Cardinality(T \ S) <= Cardinality(T) /\ Cardinality(T \ S) \in Nat
      /\ Cardinality(T) \in Nat /\ Cardinality(S) \in Nat
  <2>1. T \ S \in SUBSET T
    OBVIOUS
  <2> QED
    BY <2>1, JobSets
<1> QED
  BY <1>2, <1>3

LEMMA CountTypes ==
    ASSUME Types
    PROVE  /\ MaxJobs \in Nat /\ faults \in Nat /\ deletes \in Nat
           /\ \A s : /\ Lab!Capacity(s) \in Nat
                     /\ Lab!Recorded(s) \in SUBSET Lab!Jobs /\ Lab!Trimming(s) \in SUBSET Lab!Jobs
           /\ \A j \in Lab!Jobs :
                /\ Lab!Store(j) \in Lab!Stores /\ Cap(j) \in Nat /\ over[j] \in Nat
                /\ Rec(j) \in SUBSET Lab!Jobs /\ Open(j) \in SUBSET Lab!Jobs
                /\ wrote[j] \in SUBSET Lab!Jobs /\ lost[j] \in SUBSET Lab!Jobs
                /\ stale[j] \in SUBSET Lab!Jobs
<1>1. faults \in Nat /\ deletes \in Nat
  BY JobsAssumption DEF Types, Lab!TypeOK
<1>2. \A s : /\ Lab!Capacity(s) \in Nat
             /\ Lab!Recorded(s) \in SUBSET Lab!Jobs /\ Lab!Trimming(s) \in SUBSET Lab!Jobs
  BY JobsAssumption DEF Lab!Capacity, Lab!Recorded, Lab!Trimming
<1> QED
  BY <1>1, <1>2, JobsAssumption DEF Types, Lab!Store, Lab!Stores, Cap, Rec, Open

LEMMA OverflowIs ==
    ASSUME Types, NEW s \in Lab!Stores
    PROVE  /\ Lab!Overflow(s) \in Nat
           /\ Lab!Overflow(s) = 0 => Cardinality(Lab!Recorded(s)) <= Lab!Capacity(s)
           /\ Lab!Overflow(s) > 0 =>
                Cardinality(Lab!Recorded(s)) = Lab!Capacity(s) + Lab!Overflow(s)
<1> DEFINE n == Cardinality(Lab!Recorded(s)) - Lab!Capacity(s)
<1>1. n \in Int /\ Cardinality(Lab!Recorded(s)) \in Nat /\ Lab!Capacity(s) \in Nat
  <2>1. Lab!Recorded(s) \in SUBSET Lab!Jobs /\ Lab!Capacity(s) \in Nat
    BY CountTypes
  <2> QED
    BY <2>1, JobSets
<1>2. Lab!Overflow(s) = CHOOSE x \in {n, 0} : \A y \in {n, 0} : x >= y
  BY DEF Lab!Overflow, Lab!Max, Lab!Cardinality, Cardinality
<1> HIDE DEF n
<1>3. \E x \in {n, 0} : \A y \in {n, 0} : x >= y
  BY <1>1
<1>4. Lab!Overflow(s) \in {n, 0} /\ \A y \in {n, 0} : Lab!Overflow(s) >= y
  BY <1>2, <1>3
<1>5. Lab!Overflow(s) \in Nat /\ Lab!Overflow(s) >= n /\ (Lab!Overflow(s) > 0 => Lab!Overflow(s) = n)
  BY <1>1, <1>4
<1> QED
  BY <1>1, <1>5 DEF n

-----------------------------------------------------------------------------
(* What the step of job j does to the evictions of others.                  *)

\* All others stay where they are.
Moves(j) == kind' = kind /\ \A k \in Lab!Jobs \ {j} : api'[k] = api[k] /\ job'[k] = job[k]

\* Of e, an eviction under way, nothing but the store may have changed.
Unmoved(e) == /\ Ranging(e)' <=> Ranging(e)
              /\ over'[e] = over[e] /\ stale'[e] = stale[e] /\ wrote'[e] = wrote[e]

LEMMA OthersStand ==
    ASSUME NEW j \in Lab!Jobs, Moves(j)
    PROVE  /\ \A k \in Lab!Jobs : Lab!Store(k)' = Lab!Store(k) /\ Cap(k)' = Cap(k)
           /\ \A s : Lab!Capacity(s)' = Lab!Capacity(s)
           /\ Lab!Stores' = Lab!Stores /\ Lab!Jobs' = Lab!Jobs
           /\ \A k \in Lab!Jobs \ {j} : /\ Lab!Evicting(k)' <=> Lab!Evicting(k)
                                        /\ Ranging(k)' <=> Ranging(k)
                                        /\ Lab!Trims(k)' <=> Lab!Trims(k)
           /\ \A s : Lab!Trimming(s)' \ {j} = Lab!Trimming(s) \ {j}
           /\ \A s : j \in Lab!Trimming(s)' <=> Lab!Store(j) = s /\ Lab!Trims(j)'
           /\ \A s : j \in Lab!Trimming(s) <=> Lab!Store(j) = s /\ Lab!Trims(j)
<1>1. /\ \A k \in Lab!Jobs : Lab!Store(k)' = Lab!Store(k) /\ Cap(k)' = Cap(k)
      /\ \A s : Lab!Capacity(s)' = Lab!Capacity(s)
      /\ Lab!Stores' = Lab!Stores /\ Lab!Jobs' = Lab!Jobs
  BY DEF Moves, Lab!Store, Cap, Lab!Capacity, Lab!Stores, Lab!Jobs
<1>2. \A k \in Lab!Jobs \ {j} : /\ Lab!Evicting(k)' <=> Lab!Evicting(k)
                                /\ Ranging(k)' <=> Ranging(k)
                                /\ Lab!Trims(k)' <=> Lab!Trims(k)
  BY DEF Moves, Lab!Evicting, Ranging, Lab!Trims
<1>3. \A s : /\ Lab!Trimming(s) = {k \in Lab!Jobs : Lab!Store(k) = s /\ Lab!Trims(k)}
             /\ Lab!Trimming(s)' = {k \in Lab!Jobs : Lab!Store(k)' = s /\ Lab!Trims(k)'}
  BY DEF Lab!Trimming, Lab!Jobs
<1> QED
  BY <1>1, <1>2, <1>3

\* Without new records less is left, and never more than there is.
LEMMA LessIsLeft ==
    ASSUME Types, Types', NEW e \in Lab!Jobs, Unmoved(e), Rec(e)' \subseteq Rec(e)
    PROVE  /\ Rest(e) \in Int /\ Rest(e)' \in Int /\ Full(e) \in Int /\ Full(e)' \in Int
           /\ Rest(e)' <= Rest(e) /\ Full(e)' <= Full(e)
           /\ Rest(e)' <= Cardinality(Rec(e)')
<1>1. /\ Rec(e) \in SUBSET Lab!Jobs /\ wrote[e] \in SUBSET Lab!Jobs
      /\ stale[e] \in SUBSET Lab!Jobs /\ over[e] \in Nat
  BY CountTypes
<1>2. /\ Rec(e)' \in SUBSET Rec(e) /\ Rec(e)' \cup wrote[e] \in SUBSET (Rec(e) \cup wrote[e])
      /\ Rec(e)' \ stale[e] \in SUBSET (Rec(e) \ stale[e])
      /\ (Rec(e)' \cup wrote[e]) \ stale[e] \in SUBSET ((Rec(e) \cup wrote[e]) \ stale[e])
      /\ Rec(e)' \ stale[e] \in SUBSET Rec(e)'
      /\ Rec(e) \cup wrote[e] \in SUBSET Lab!Jobs /\ Rec(e) \ stale[e] \in SUBSET Lab!Jobs
      /\ (Rec(e) \cup wrote[e]) \ stale[e] \in SUBSET Lab!Jobs /\ Rec(e)' \in SUBSET Lab!Jobs
  BY <1>1
<1>3. /\ Cardinality(Rec(e)) \in Nat /\ Cardinality(Rec(e)') \in Nat
      /\ Cardinality(Rec(e)') <= Cardinality(Rec(e))
      /\ Cardinality(Rec(e) \cup wrote[e]) \in Nat /\ Cardinality(Rec(e)' \cup wrote[e]) \in Nat
      /\ Cardinality(Rec(e)' \cup wrote[e]) <= Cardinality(Rec(e) \cup wrote[e])
  BY <1>1, <1>2, JobSets
<1>4. /\ Cardinality(Rec(e) \ stale[e]) \in Nat /\ Cardinality(Rec(e)' \ stale[e]) \in Nat
      /\ Cardinality(Rec(e)' \ stale[e]) <= Cardinality(Rec(e) \ stale[e])
      /\ Cardinality(Rec(e)' \ stale[e]) <= Cardinality(Rec(e)')
  BY <1>1, <1>2, JobSets
<1>5. /\ Cardinality((Rec(e) \cup wrote[e]) \ stale[e]) \in Nat
      /\ Cardinality((Rec(e)' \cup wrote[e]) \ stale[e]) \in Nat
      /\ Cardinality((Rec(e)' \cup wrote[e]) \ stale[e])
           <= Cardinality((Rec(e) \cup wrote[e]) \ stale[e])
  BY <1>1, <1>2, JobSets
<1>6. Ranging(e)' <=> Ranging(e)
  BY DEF Unmoved, Ranging
<1>7. /\ Rest(e)' = IF Ranging(e) THEN Cardinality(Rec(e)') - over[e]
                     ELSE Cardinality(Rec(e)' \ stale[e])
      /\ Full(e)' = IF Ranging(e) THEN Cardinality(Rec(e)' \cup wrote[e]) - over[e]
                     ELSE Cardinality((Rec(e)' \cup wrote[e]) \ stale[e])
  BY <1>6 DEF Unmoved, Rest, Full
<1> QED
  BY <1>1, <1>3, <1>4, <1>5, <1>7 DEF Rest, Full

\* Some records of its store may go: an eviction goes on if its bound holds.
LEMMA LessGoesOn ==
    ASSUME JobsInv, Types', NEW e \in Lab!Jobs, Unmoved(e), Lab!Evicting(e), kind' = kind,
           Rec(e)' \subseteq Rec(e), Rec(e)' \cup lost'[e] = Rec(e) \cup lost[e],
           \A k \in wrote[e] : Lab!Evicting(k)' => wrote'[k] \subseteq wrote[e],
           Rest(e)' <= Cap(e) + Cardinality(Open(e)') + faults'
    PROVE  EvictionGoes(e)'
<1>1. /\ over[e] > 0 /\ e \notin wrote[e]
      /\ \A k \in wrote[e] : Lab!Store(k) = Lab!Store(e)
      /\ Cardinality(Rec(e) \cup lost[e]) >= Cap(e) + over[e]
      /\ Full(e) <= Cap(e) + Cardinality(wrote[e])
      /\ ~Ranging(e) =>
           /\ Cardinality(stale[e]) <= over[e]
           /\ \A k \in stale[e] : Lab!Store(k) = Lab!Store(e)
           /\ \A k \in stale[e], l \in Rec(e) \ (stale[e] \cup wrote[e]) : k < l
  BY DEF JobsInv, CountsAreExact, EvictionGoes
<1>2. /\ Cap(e)' = Cap(e) /\ Lab!Store(e)' = Lab!Store(e) /\ (Ranging(e)' <=> Ranging(e))
      /\ \A k : Lab!Store(k)' = Lab!Store(k)
  BY DEF Cap, Lab!Store, Lab!Capacity, Ranging, Unmoved
<1>3. Full(e)' <= Cap(e) + Cardinality(wrote[e])
  <2>1. Full(e)' <= Full(e) /\ Full(e) \in Int /\ Full(e)' \in Int /\ Types
    BY LessIsLeft DEF JobsInv
  <2>2. Cap(e) \in Nat /\ Cardinality(wrote[e]) \in Nat
    BY <2>1, CountTypes, JobSets
  <2> QED
    BY <1>1, <2>1, <2>2
<1>4. over'[e] = over[e] /\ stale'[e] = stale[e] /\ wrote'[e] = wrote[e]
  BY DEF Unmoved
<1>5. Cardinality(Rec(e)' \cup lost'[e]) >= Cap(e)' + over'[e]
  BY <1>1, <1>2, <1>4
<1>6. ~Ranging(e)' =>
           /\ Cardinality(stale'[e]) <= over'[e]
           /\ \A k \in stale'[e] : Lab!Store(k)' = Lab!Store(e)'
           /\ \A k \in stale'[e], l \in Rec(e)' \ (stale'[e] \cup wrote'[e]) : k < l
  BY <1>1, <1>2, <1>4
<1>7. /\ over'[e] > 0 /\ e \notin wrote'[e]
      /\ \A k \in wrote'[e] : /\ Lab!Store(k)' = Lab!Store(e)'
                              /\ Lab!Evicting(k)' => wrote'[k] \subseteq wrote'[e]
  BY <1>1, <1>2, <1>4
<1> QED
  BY <1>2, <1>3, <1>4, <1>5, <1>6, <1>7 DEF EvictionGoes

\* The bound of an eviction is as it was, or one of its followers has failed.
LEMMA BoundGoesOn ==
    ASSUME JobsInv, Types', NEW e \in Lab!Jobs, Unmoved(e), Lab!Evicting(e),
           NEW j \in Lab!Jobs, Moves(j), Rec(e)' \subseteq Rec(e),
           \/ faults' \in {faults, faults + 1} /\ (Lab!Trims(j) => Lab!Trims(j)' \/ j \notin wrote[e])
           \/ faults' = faults + 1
    PROVE  Rest(e)' <= Cap(e) + Cardinality(Open(e)') + faults'
<1>1. Rest(e) <= Cap(e) + Cardinality(Open(e)) + faults
  BY DEF JobsInv, CountsAreExact, EvictionGoes
<1>2. Types /\ Rest(e)' <= Rest(e) /\ Rest(e) \in Int /\ Rest(e)' \in Int
  BY LessIsLeft DEF JobsInv
<1>3. Cap(e) \in Nat /\ faults \in Nat /\ Open(e) \in SUBSET Lab!Jobs /\ wrote[e] \in SUBSET Lab!Jobs
  BY <1>2, CountTypes
<1>4. Open(e)' = wrote[e] \cap Lab!Trimming(Lab!Store(e))'
  BY DEF Open, Unmoved, Moves, Lab!Store, Lab!Trimming
<1>5. /\ Lab!Trimming(Lab!Store(e))' \ {j} = Lab!Trimming(Lab!Store(e)) \ {j}
      /\ j \in Lab!Trimming(Lab!Store(e))' <=> Lab!Store(j) = Lab!Store(e) /\ Lab!Trims(j)'
      /\ j \in Lab!Trimming(Lab!Store(e)) <=> Lab!Store(j) = Lab!Store(e) /\ Lab!Trims(j)
  BY OthersStand
<1>6. Open(e) \ {j} \in SUBSET Open(e)' /\ Open(e)' \in SUBSET Lab!Jobs
  BY <1>3, <1>4, <1>5 DEF Open
<1>7. /\ Cardinality(Open(e)') \in Nat /\ Cardinality(Open(e)) \in Nat
      /\ Cardinality(Open(e)') >= Cardinality(Open(e)) - 1
  <2>1. /\ Cardinality(Open(e) \ {j}) \in Nat /\ Cardinality(Open(e)) \in Nat
        /\ Cardinality(Open(e) \ {j}) >= Cardinality(Open(e)) - 1
    BY <1>3, JobSets
  <2>2. Cardinality(Open(e) \ {j}) <= Cardinality(Open(e)') /\ Cardinality(Open(e)') \in Nat
    BY <1>6, JobSets
  <2> QED
    BY <2>1, <2>2
<1>8. CASE faults' \in {faults, faults + 1} /\ (Lab!Trims(j) => Lab!Trims(j)' \/ j \notin wrote[e])
  <2>1. Open(e) \in SUBSET Open(e)'
    BY <1>4, <1>5, <1>6, <1>8 DEF Open
  <2>2. Cardinality(Open(e)) <= Cardinality(Open(e)')
    BY <1>6, <2>1, JobSets
  <2> QED
    BY <1>1, <1>2, <1>3, <1>7, <1>8, <2>2
<1>9. CASE faults' = faults + 1
  BY <1>1, <1>2, <1>3, <1>7, <1>9
<1> QED
  BY <1>8, <1>9

\* The bound of the stores where records may go: as it was, or one has failed.
LEMMA StoresGoOn ==
    ASSUME JobsInv, Types', NEW j \in Lab!Jobs, Moves(j),
           \A s \in Lab!Stores : Lab!Recorded(s)' \subseteq Lab!Recorded(s),
           \/ faults' \in {faults, faults + 1} /\ (Lab!Trims(j) => Lab!Trims(j)')
           \/ faults' = faults + 1
           \/ /\ faults' = faults
              /\ Cardinality(Rec(j)') <= Cap(j) + Cardinality(Lab!Trimming(Lab!Store(j))') + faults
    PROVE  RecordsBound'
<1> SUFFICES ASSUME NEW s \in Lab!Stores
             PROVE  Cardinality(Lab!Recorded(s)')
                      <= Lab!Capacity(s) + Cardinality(Lab!Trimming(s)') + faults'
  BY OthersStand DEF RecordsBound
<1>1. /\ Cardinality(Lab!Recorded(s)) <= Lab!Capacity(s) + Cardinality(Lab!Trimming(s)) + faults
      /\ Types
  BY DEF JobsInv, CountsAreExact, RecordsBound
<1>2. /\ Lab!Capacity(s) \in Nat /\ faults \in Nat /\ faults' \in Nat
      /\ Lab!Recorded(s) \in SUBSET Lab!Jobs /\ Lab!Trimming(s) \in SUBSET Lab!Jobs
  BY <1>1, CountTypes, JobsAssumption DEF Types, Lab!TypeOK
<1>3. /\ Cardinality(Lab!Recorded(s)') \in Nat /\ Cardinality(Lab!Recorded(s)) \in Nat
      /\ Cardinality(Lab!Recorded(s)') <= Cardinality(Lab!Recorded(s))
  BY <1>2, JobSets
<1>4. /\ Lab!Trimming(s)' \ {j} = Lab!Trimming(s) \ {j}
      /\ j \in Lab!Trimming(s)' <=> Lab!Store(j) = s /\ Lab!Trims(j)'
      /\ j \in Lab!Trimming(s) <=> Lab!Store(j) = s /\ Lab!Trims(j)
  BY OthersStand
<1>5. Lab!Trimming(s) \ {j} \in SUBSET (Lab!Trimming(s)') /\ Lab!Trimming(s)' \in SUBSET Lab!Jobs
  BY <1>2, <1>4
<1>6. /\ Cardinality(Lab!Trimming(s)') \in Nat /\ Cardinality(Lab!Trimming(s)) \in Nat
      /\ Cardinality(Lab!Trimming(s)') >= Cardinality(Lab!Trimming(s)) - 1
  <2>1. /\ Cardinality(Lab!Trimming(s) \ {j}) \in Nat /\ Cardinality(Lab!Trimming(s)) \in Nat
        /\ Cardinality(Lab!Trimming(s) \ {j}) >= Cardinality(Lab!Trimming(s)) - 1
    BY <1>2, JobSets
  <2>2. /\ Cardinality(Lab!Trimming(s) \ {j}) <= Cardinality(Lab!Trimming(s)')
        /\ Cardinality(Lab!Trimming(s)') \in Nat
    BY <1>5, JobSets
  <2> QED
    BY <2>1, <2>2
<1>7. CASE faults' \in {faults, faults + 1}
             /\ ((Lab!Trims(j) => Lab!Trims(j)') \/ s # Lab!Store(j))
  <2>1. Lab!Trimming(s) \in SUBSET (Lab!Trimming(s)')
    BY <1>4, <1>5, <1>7
  <2>2. Cardinality(Lab!Trimming(s)) <= Cardinality(Lab!Trimming(s)')
    BY <1>5, <2>1, JobSets
  <2> QED
    BY <1>1, <1>2, <1>3, <1>6, <1>7, <2>2
<1>8. CASE faults' = faults + 1
  BY <1>1, <1>2, <1>3, <1>6, <1>8
<1>9. CASE /\ s = Lab!Store(j) /\ faults' = faults
           /\ Cardinality(Rec(j)') <= Cap(j) + Cardinality(Lab!Trimming(Lab!Store(j))') + faults
  <2>1. Rec(j)' = Lab!Recorded(s)' /\ Cap(j) = Lab!Capacity(s)
    BY <1>9 DEF Rec, Cap, Moves, Lab!Store, Lab!Recorded
  <2>2. Lab!Trimming(Lab!Store(j))' = Lab!Trimming(s)'
    BY <1>9 DEF Moves, Lab!Store, Lab!Trimming
  <2> QED
    BY <1>9, <2>1, <2>2
<1> QED
  BY <1>7, <1>8, <1>9

-----------------------------------------------------------------------------
(* The steps that matter to the counts.                                     *)

\* Nothing is counted, and j trims as before, or has failed.
LEMMA CountsAlone ==
    ASSUME JobsInv, Types', NEW j \in Lab!Jobs, Moves(j),
           UNCHANGED <<record, over, stale, wrote, lost>>,
           \/ /\ faults' \in {faults, faults + 1}
              /\ Lab!Trims(j)' <=> Lab!Trims(j)
              /\ Lab!Evicting(j)' => Lab!Evicting(j) /\ (Ranging(j)' <=> Ranging(j))
           \/ faults' = faults + 1 /\ ~Lab!Trims(j)'
    PROVE  CountsAreExact'
<1>1. \A s : Lab!Recorded(s)' = Lab!Recorded(s)
  BY DEF Lab!Recorded, Moves, Lab!Store
<1>2. RecordsBound'
  BY <1>1, StoresGoOn
<1>3. ASSUME NEW e \in Lab!Jobs, Lab!Evicting(e)' PROVE EvictionGoes(e)'
  <2>1. Lab!Evicting(e) /\ Unmoved(e)
    BY <1>3, OthersStand DEF Unmoved, Moves, Lab!Trims
  <2>2. Rec(e)' = Rec(e) /\ kind' = kind
    BY <1>1 DEF Rec, Moves, Lab!Store
  <2>3. \A k \in wrote[e] : Lab!Evicting(k)' => wrote'[k] \subseteq wrote[e]
    <3>1. \A k \in wrote[e] : k \in Lab!Jobs /\ (Lab!Evicting(k) => wrote[k] \subseteq wrote[e])
      BY <2>1, CountTypes DEF JobsInv, CountsAreExact, EvictionGoes
    <3>2. \A k \in Lab!Jobs : Lab!Evicting(k)' => Lab!Evicting(k)
      BY OthersStand DEF Lab!Trims
    <3> QED
      BY <3>1, <3>2
  <2>4. Rest(e)' <= Cap(e) + Cardinality(Open(e)') + faults'
    BY <2>1, <2>2, BoundGoesOn
  <2> QED
    BY <2>1, <2>2, <2>3, <2>4, LessGoesOn
<1>4. \A e \in Lab!Jobs : EvictionGoes(e)'
  BY <1>3 DEF EvictionGoes
<1> QED
  BY <1>2, <1>4, OthersStand DEF CountsAreExact

\* A record is removed: by a user, or by the request that wrote it.
LEMMA CountsRemoved ==
    ASSUME JobsInv, Types', NEW j \in Lab!Jobs, Moves(j), Lab!Removed(j, {j}),
           UNCHANGED <<over, stale, wrote, faults>>,
           Lab!Trims(j)' <=> Lab!Trims(j),
           Lab!Evicting(j)' => Lab!Evicting(j) /\ (Ranging(j)' <=> Ranging(j))
    PROVE  CountsAreExact'
<1>1. /\ record' = [k \in Lab!Jobs |-> IF k \in {j} THEN None ELSE record[k]]
      /\ lost' = [k \in Lab!Jobs |-> IF Lab!Evicting(k) /\ Lab!Store(k) = Lab!Store(j)
                                    THEN lost[k] \cup ({j} \cap Lab!Recorded(Lab!Store(j)))
                                    ELSE lost[k]]
  BY DEF Lab!Removed
<1>2. \A s : Lab!Recorded(s)' = Lab!Recorded(s) \ {j}
  BY <1>1, OthersStand DEF Lab!Recorded
<1>3. RecordsBound'
  BY <1>2, StoresGoOn
<1>4. ASSUME NEW e \in Lab!Jobs, Lab!Evicting(e)' PROVE EvictionGoes(e)'
  <2>1. Lab!Evicting(e) /\ Unmoved(e)
    BY <1>4, OthersStand DEF Unmoved, Moves
  <2>2. Rec(e)' = Rec(e) \ {j} /\ kind' = kind
    BY <1>2 DEF Rec, Moves, Lab!Store
  <2>3. \A k \in wrote[e] : Lab!Evicting(k)' => wrote'[k] \subseteq wrote[e]
    <3>1. \A k \in wrote[e] : k \in Lab!Jobs /\ (Lab!Evicting(k) => wrote[k] \subseteq wrote[e])
      BY <2>1, CountTypes DEF JobsInv, CountsAreExact, EvictionGoes
    <3>2. \A k \in Lab!Jobs : Lab!Evicting(k)' => Lab!Evicting(k)
      BY OthersStand
    <3> QED
      BY <3>1, <3>2
  <2>4. Rest(e)' <= Cap(e) + Cardinality(Open(e)') + faults'
    <3>1. faults' \in {faults, faults + 1} /\ (Lab!Trims(j) => Lab!Trims(j)' \/ j \notin wrote[e])
          /\ Rec(e)' \subseteq Rec(e)
      BY <2>2
    <3> QED
      BY <2>1, <3>1, BoundGoesOn
  <2>5. Rec(e)' \cup lost'[e] = Rec(e) \cup lost[e]
    BY <1>1, <2>1, <2>2 DEF Rec, Lab!Recorded
  <2> QED
    BY <2>1, <2>2, <2>3, <2>4, <2>5, LessGoesOn
<1>5. \A e \in Lab!Jobs : EvictionGoes(e)'
  BY <1>4 DEF EvictionGoes
<1> QED
  BY <1>3, <1>5, OthersStand DEF CountsAreExact

\* A record is written, and its writer goes on to count.
LEMMA CountsSaved ==
    ASSUME JobsInv, Types', NEW j \in Lab!Jobs, Moves(j), NEW st, st # None, Lab!Saved(j, st),
           faults' = faults, ~Lab!Trims(j), Lab!Trims(j)', ~Lab!Evicting(j)'
    PROVE  CountsAreExact'
<1>1. /\ record' = [record EXCEPT ![j] = st]
      /\ wrote' = [k \in Lab!Jobs |-> IF Lab!Evicting(k) /\ Lab!Store(k) = Lab!Store(j)
                                     THEN wrote[k] \cup {j} ELSE wrote[k]]
      /\ UNCHANGED <<over, stale, lost>>
  BY DEF Lab!Saved
<1>2. Types /\ record \in [Lab!Jobs -> Lab!Statuses \cup {None}]
  BY DEF JobsInv, Types, Lab!TypeOK
<1>3. \A s : Lab!Recorded(s)' = IF Lab!Store(j) = s THEN Lab!Recorded(s) \cup {j} ELSE Lab!Recorded(s)
  BY <1>1, <1>2, OthersStand DEF Lab!Recorded
<1>4. \A s : Lab!Trimming(s)' = IF Lab!Store(j) = s THEN Lab!Trimming(s) \cup {j} ELSE Lab!Trimming(s)
  BY OthersStand
<1>5. \A s : j \notin Lab!Trimming(s)
  BY OthersStand
<1>6. faults \in Nat /\ \A s : /\ Lab!Capacity(s) \in Nat
                               /\ Lab!Recorded(s) \in SUBSET Lab!Jobs
                               /\ Lab!Trimming(s) \in SUBSET Lab!Jobs
  BY <1>2, CountTypes
<1>7. ASSUME NEW s \in Lab!Stores
      PROVE  Cardinality(Lab!Recorded(s)')
               <= Lab!Capacity(s) + Cardinality(Lab!Trimming(s)') + faults
  <2>1. Cardinality(Lab!Recorded(s)) <= Lab!Capacity(s) + Cardinality(Lab!Trimming(s)) + faults
    BY DEF JobsInv, CountsAreExact, RecordsBound
  <2>2. /\ Cardinality(Lab!Recorded(s)) \in Nat /\ Cardinality(Lab!Recorded(s) \cup {j}) \in Nat
        /\ Cardinality(Lab!Recorded(s) \cup {j}) <= Cardinality(Lab!Recorded(s)) + 1
        /\ Cardinality(Lab!Trimming(s)) \in Nat
        /\ Cardinality(Lab!Trimming(s) \cup {j}) = Cardinality(Lab!Trimming(s)) + 1
    BY <1>5, <1>6, JobSets
  <2>3. CASE Lab!Store(j) = s
    <3>1. Lab!Recorded(s)' = Lab!Recorded(s) \cup {j} /\ Lab!Trimming(s)' = Lab!Trimming(s) \cup {j}
      BY <1>3, <1>4, <2>3
    <3> QED
      BY <1>6, <2>1, <2>2, <3>1
  <2>4. CASE Lab!Store(j) # s
    <3>1. Lab!Recorded(s)' = Lab!Recorded(s) /\ Lab!Trimming(s)' = Lab!Trimming(s)
      BY <1>3, <1>4, <2>4
    <3> QED
      BY <2>1, <3>1
  <2> QED
    BY <2>3, <2>4
<1>8. RecordsBound'
  BY <1>7, OthersStand DEF RecordsBound
<1>9. ASSUME NEW e \in Lab!Jobs, Lab!Evicting(e)' PROVE EvictionGoes(e)'
  <2>1. e # j /\ Lab!Evicting(e) /\ (Ranging(e)' <=> Ranging(e))
    BY <1>9, OthersStand
  <2>2. /\ over[e] > 0 /\ e \notin wrote[e]
        /\ \A k \in wrote[e] : /\ Lab!Store(k) = Lab!Store(e)
                               /\ Lab!Evicting(k) => wrote[k] \subseteq wrote[e]
        /\ Cardinality(Rec(e) \cup lost[e]) >= Cap(e) + over[e]
        /\ Full(e) <= Cap(e) + Cardinality(wrote[e])
        /\ Rest(e) <= Cap(e) + Cardinality(Open(e)) + faults
        /\ ~Ranging(e) =>
             /\ Cardinality(stale[e]) <= over[e]
             /\ \A k \in stale[e] : Lab!Store(k) = Lab!Store(e)
             /\ \A k \in stale[e], l \in Rec(e) \ (stale[e] \cup wrote[e]) : k < l
    BY <2>1 DEF JobsInv, CountsAreExact, EvictionGoes
  <2>3. /\ Cap(e) \in Nat /\ over[e] \in Nat /\ Rec(e) \in SUBSET Lab!Jobs
        /\ Open(e) \in SUBSET Lab!Jobs /\ wrote[e] \in SUBSET Lab!Jobs
        /\ lost[e] \in SUBSET Lab!Jobs /\ stale[e] \in SUBSET Lab!Jobs
    BY <1>2, CountTypes
  <2>4. /\ over'[e] = over[e] /\ stale'[e] = stale[e] /\ lost'[e] = lost[e]
        /\ Cap(e)' = Cap(e) /\ \A k \in Lab!Jobs : Lab!Store(k)' = Lab!Store(k)
    BY <1>1, OthersStand
  <2>5. CASE Lab!Store(e) # Lab!Store(j)
    <3>1. /\ wrote'[e] = wrote[e] /\ Rec(e)' = Rec(e)
      BY <1>1, <1>3, <2>4, <2>5 DEF Rec
    <3>2. Open(e)' = Open(e)
      BY <1>4, <2>4, <2>5, <3>1 DEF Open
    <3>3. Full(e)' = Full(e) /\ Rest(e)' = Rest(e)
      BY <2>1, <2>4, <3>1 DEF Full, Rest
    <3>4. \A k \in wrote[e] : Lab!Evicting(k)' => wrote'[k] \subseteq wrote[e]
      BY <1>1, <2>2, <2>3, <2>5, OthersStand
    <3> QED
      BY <2>1, <2>2, <2>3, <2>4, <3>1, <3>2, <3>3, <3>4 DEF EvictionGoes
  <2>6. CASE Lab!Store(e) = Lab!Store(j)
    <3>1. wrote'[e] = wrote[e] \cup {j} /\ Rec(e)' = Rec(e) \cup {j}
      BY <1>1, <1>3, <2>1, <2>4, <2>6 DEF Rec
    <3>2. Open(e)' = Open(e) \cup {j} /\ j \notin Open(e)
      BY <1>4, <1>5, <2>4, <2>6, <3>1 DEF Open
    <3>3. \A k \in wrote'[e] : /\ Lab!Store(k)' = Lab!Store(e)'
                               /\ Lab!Evicting(k)' => wrote'[k] \subseteq wrote'[e]
      BY <1>1, <2>2, <2>3, <2>4, <2>6, <3>1, OthersStand
    <3>4. Cardinality(Rec(e)' \cup lost[e]) >= Cap(e) + over[e]
      <4>1. /\ Rec(e) \cup lost[e] \in SUBSET (Rec(e)' \cup lost[e])
            /\ Rec(e)' \cup lost[e] \in SUBSET Lab!Jobs
        BY <2>3, <3>1
      <4>2. /\ Cardinality(Rec(e) \cup lost[e]) \in Nat /\ Cardinality(Rec(e)' \cup lost[e]) \in Nat
            /\ Cardinality(Rec(e) \cup lost[e]) <= Cardinality(Rec(e)' \cup lost[e])
        BY <4>1, JobSets
      <4> QED
        BY <2>2, <2>3, <4>2
    <3>5. Rest(e)' <= Cap(e) + Cardinality(Open(e)') + faults
      <4>1. Cardinality(Open(e)') = Cardinality(Open(e)) + 1 /\ Cardinality(Open(e)) \in Nat
        BY <2>3, <3>2, JobSets
      <4>2. /\ Cardinality(Rec(e)') <= Cardinality(Rec(e)) + 1 /\ Cardinality(Rec(e)) \in Nat
            /\ Cardinality(Rec(e)') \in Nat
        BY <2>3, <3>1, JobSets
      <4>3. /\ Cardinality(Rec(e)' \ stale[e]) <= Cardinality(Rec(e) \ stale[e]) + 1
            /\ Cardinality(Rec(e) \ stale[e]) \in Nat /\ Cardinality(Rec(e)' \ stale[e]) \in Nat
        <5>1. /\ Rec(e) \ stale[e] \in SUBSET Lab!Jobs
              /\ (Rec(e) \ stale[e]) \cup {j} \in SUBSET Lab!Jobs
              /\ Rec(e)' \ stale[e] \in SUBSET ((Rec(e) \ stale[e]) \cup {j})
          BY <2>3, <3>1
        <5>2. /\ Cardinality((Rec(e) \ stale[e]) \cup {j}) <= Cardinality(Rec(e) \ stale[e]) + 1
              /\ Cardinality(Rec(e) \ stale[e]) \in Nat
              /\ Cardinality((Rec(e) \ stale[e]) \cup {j}) \in Nat
          BY <5>1, JobSets
        <5>3. /\ Cardinality(Rec(e)' \ stale[e]) <= Cardinality((Rec(e) \ stale[e]) \cup {j})
              /\ Cardinality(Rec(e)' \ stale[e]) \in Nat
          BY <5>1, JobSets
        <5> QED
          BY <5>2, <5>3
      <4>4. Rest(e)' <= Rest(e) + 1 /\ Rest(e) \in Int /\ Rest(e)' \in Int
        BY <2>1, <2>3, <2>4, <4>2, <4>3 DEF Rest
      <4> QED
        BY <1>6, <2>2, <2>3, <4>1, <4>4
    <3>6. Full(e)' <= Cap(e) + Cardinality(wrote'[e])
      <4>1. CASE j \in wrote[e]
        <5>1. wrote'[e] = wrote[e] /\ Rec(e)' \cup wrote'[e] = Rec(e) \cup wrote[e]
          BY <3>1, <4>1
        <5>2. Full(e)' = Full(e)
          BY <2>1, <2>4, <5>1 DEF Full
        <5> QED
          BY <2>2, <5>1, <5>2
      <4>2. CASE j \notin wrote[e]
        <5>1. /\ Cardinality(wrote'[e]) = Cardinality(wrote[e]) + 1 /\ Cardinality(wrote[e]) \in Nat
          BY <2>3, <3>1, <4>2, JobSets
        <5>2. /\ Rec(e)' \cup wrote'[e] = (Rec(e) \cup wrote[e]) \cup {j}
              /\ Rec(e) \cup wrote[e] \in SUBSET Lab!Jobs
              /\ (Rec(e) \cup wrote[e]) \ stale[e] \in SUBSET Lab!Jobs
              /\ ((Rec(e) \cup wrote[e]) \ stale[e]) \cup {j} \in SUBSET Lab!Jobs
              /\ (Rec(e)' \cup wrote'[e]) \ stale[e]
                   \in SUBSET (((Rec(e) \cup wrote[e]) \ stale[e]) \cup {j})
          BY <2>3, <3>1
        <5>3. /\ Cardinality((Rec(e) \cup wrote[e]) \cup {j}) <= Cardinality(Rec(e) \cup wrote[e]) + 1
              /\ Cardinality((Rec(e) \cup wrote[e]) \cup {j}) \in Nat
              /\ Cardinality(Rec(e) \cup wrote[e]) \in Nat
          BY <5>2, JobSets
        <5>4. /\ Cardinality(((Rec(e) \cup wrote[e]) \ stale[e]) \cup {j})
                   <= Cardinality((Rec(e) \cup wrote[e]) \ stale[e]) + 1
              /\ Cardinality((Rec(e) \cup wrote[e]) \ stale[e]) \in Nat
              /\ Cardinality(((Rec(e) \cup wrote[e]) \ stale[e]) \cup {j}) \in Nat
          BY <5>2, JobSets
        <5>5. /\ Cardinality((Rec(e)' \cup wrote'[e]) \ stale[e])
                   <= Cardinality(((Rec(e) \cup wrote[e]) \ stale[e]) \cup {j})
              /\ Cardinality((Rec(e)' \cup wrote'[e]) \ stale[e]) \in Nat
          BY <5>2, JobSets
        <5>6. Full(e)' <= Full(e) + 1 /\ Full(e) \in Int /\ Full(e)' \in Int
          <6>1. CASE Ranging(e)
            <7>1. /\ Full(e) = Cardinality(Rec(e) \cup wrote[e]) - over[e]
                  /\ Full(e)' = Cardinality((Rec(e) \cup wrote[e]) \cup {j}) - over[e]
              BY <2>1, <2>4, <5>2, <6>1 DEF Full
            <7> QED
              BY <2>3, <5>3, <7>1
          <6>2. CASE ~Ranging(e)
            <7>1. /\ Full(e) = Cardinality((Rec(e) \cup wrote[e]) \ stale[e])
                  /\ Full(e)' = Cardinality((Rec(e)' \cup wrote'[e]) \ stale[e])
              BY <2>1, <2>4, <6>2 DEF Full
            <7> QED
              BY <5>4, <5>5, <7>1
          <6> QED
            BY <6>1, <6>2
        <5> QED
          BY <2>2, <2>3, <5>1, <5>6
      <4> QED
        BY <4>1, <4>2
    <3>7. e \notin wrote'[e] /\ \A k \in stale[e], l \in Rec(e)' \ (stale[e] \cup wrote'[e]) :
                                   ~Ranging(e) => k < l
      BY <2>1, <2>2, <3>1
    <3> QED
      BY <2>1, <2>2, <2>3, <2>4, <3>3, <3>4, <3>5, <3>6, <3>7 DEF EvictionGoes
  <2> QED
    BY <2>5, <2>6
<1>10. \A e \in Lab!Jobs : EvictionGoes(e)'
  BY <1>9 DEF EvictionGoes
<1> QED
  BY <1>8, <1>10, OthersStand DEF CountsAreExact

\* The overflow is counted: there is one, or j is done.
LEMMA CountsCounted ==
    ASSUME JobsInv, Types', NEW j \in Lab!Jobs, Moves(j), Lab!Counted(j),
           UNCHANGED <<record, faults>>, Lab!Trims(j), ~Lab!Evicting(j),
           IF Lab!Overflow(Lab!Store(j)) > 0 THEN Lab!Evicting(j)' /\ Ranging(j)' ELSE ~Lab!Trims(j)'
    PROVE  CountsAreExact'
<1>1. /\ over' = [over EXCEPT ![j] = Lab!Overflow(Lab!Store(j))]
      /\ wrote' = [wrote EXCEPT ![j] = {}] /\ lost' = [lost EXCEPT ![j] = {}] /\ stale' = stale
  BY DEF Lab!Counted
<1>2. Types /\ over \in [Lab!Jobs -> Nat] /\ wrote \in [Lab!Jobs -> SUBSET Lab!Jobs]
      /\ lost \in [Lab!Jobs -> SUBSET Lab!Jobs]
  BY DEF JobsInv, Types
<1>3. \A s : Lab!Recorded(s)' = Lab!Recorded(s)
  BY OthersStand DEF Lab!Recorded
<1>4. /\ Lab!Store(j) \in Lab!Stores /\ Cap(j) \in Nat /\ faults \in Nat
      /\ \A s : Lab!Recorded(s) \in SUBSET Lab!Jobs /\ Lab!Trimming(s) \in SUBSET Lab!Jobs
  BY <1>2, CountTypes
<1>5. /\ Lab!Overflow(Lab!Store(j)) \in Nat
      /\ Lab!Overflow(Lab!Store(j)) = 0 => Cardinality(Rec(j)) <= Cap(j)
      /\ Lab!Overflow(Lab!Store(j)) > 0 => Cardinality(Rec(j)) = Cap(j) + Lab!Overflow(Lab!Store(j))
  BY <1>2, <1>4, OverflowIs DEF Rec, Cap
<1>6. Cardinality(Rec(j)) \in Nat /\ Rec(j)' = Rec(j) /\ Rec(j) \in SUBSET Lab!Jobs
  <2>1. Rec(j) \in SUBSET Lab!Jobs /\ Rec(j)' = Rec(j)
    BY <1>2, <1>3, CountTypes DEF Rec, Moves, Lab!Store
  <2> QED
    BY <2>1, JobSets
<1>7. Lab!Trims(j)' \/ Cardinality(Rec(j)) <= Cap(j)
  BY <1>5 DEF Lab!Trims
<1>8. RecordsBound'
  <2>1. CASE Lab!Trims(j)'
    BY <1>3, <2>1, StoresGoOn
  <2>2. CASE Cardinality(Rec(j)) <= Cap(j)
    <3>1. Lab!Trimming(Lab!Store(j))' \in SUBSET Lab!Jobs
      BY DEF Lab!Trimming, Lab!Jobs
    <3>2. Cardinality(Lab!Trimming(Lab!Store(j))') \in Nat
      BY <3>1, JobSets
    <3>3. Cardinality(Rec(j)') <= Cap(j) + Cardinality(Lab!Trimming(Lab!Store(j))') + faults
      BY <1>4, <1>6, <2>2, <3>2
    <3> QED
      BY <1>3, <3>3, StoresGoOn
  <2> QED
    BY <1>7, <2>1, <2>2
<1>9. ASSUME NEW e \in Lab!Jobs, e # j, Lab!Evicting(e)' PROVE EvictionGoes(e)'
  <2>1. Lab!Evicting(e) /\ Unmoved(e) /\ lost'[e] = lost[e] /\ kind' = kind
    BY <1>1, <1>2, <1>9, OthersStand DEF Unmoved, Moves
  <2>2. Rec(e)' = Rec(e)
    BY <1>3 DEF Rec, Moves, Lab!Store
  <2>3. \A k \in wrote[e] : Lab!Evicting(k)' => wrote'[k] \subseteq wrote[e]
    <3>1. \A k \in wrote[e] : k \in Lab!Jobs /\ (Lab!Evicting(k) => wrote[k] \subseteq wrote[e])
      BY <1>2, <2>1, CountTypes DEF JobsInv, CountsAreExact, EvictionGoes
    <3> QED
      BY <1>1, <1>2, <3>1, OthersStand
  <2>4. Rest(e)' <= Cap(e) + Cardinality(Open(e)') + faults'
    <3>1. CASE Lab!Trims(j)' \/ j \notin wrote[e]
      BY <2>1, <2>2, <3>1, BoundGoesOn
    <3>2. CASE Cardinality(Rec(j)) <= Cap(j) /\ j \in wrote[e]
      <4>1. Lab!Store(j) = Lab!Store(e)
        BY <2>1, <3>2 DEF JobsInv, CountsAreExact, EvictionGoes
      <4>2. Rec(e)' = Rec(j) /\ Cap(e) = Cap(j) /\ Rest(e)' <= Cardinality(Rec(e)') /\ Rest(e)' \in Int
        BY <1>2, <2>1, <2>2, <4>1, LessIsLeft DEF Rec, Cap
      <4>3. Open(e)' \in SUBSET Lab!Jobs
        BY <1>2, CountTypes DEF Open, Unmoved, Lab!Trimming, Lab!Jobs
      <4>4. Cardinality(Open(e)') \in Nat
        BY <4>3, JobSets
      <4> QED
        BY <1>4, <1>6, <3>2, <4>2, <4>4
    <3> QED
      BY <1>7, <3>1, <3>2
  <2> QED
    BY <2>1, <2>2, <2>3, <2>4, LessGoesOn
<1>10. ASSUME Lab!Evicting(j)' PROVE EvictionGoes(j)'
  <2>1. Lab!Overflow(Lab!Store(j)) > 0 /\ Ranging(j)'
    BY <1>10 DEF Lab!Trims
  <2>2. /\ over'[j] = Lab!Overflow(Lab!Store(j)) /\ wrote'[j] = {} /\ lost'[j] = {}
    BY <1>1, <1>2
  <2>3. Cap(j)' = Cap(j) /\ Rec(j)' \cup lost'[j] = Rec(j) /\ Rec(j)' \cup wrote'[j] = Rec(j)
    BY <1>6, <2>2, OthersStand
  <2>4. Open(j)' = {} /\ Cardinality({}) = 0
    BY <2>2, FS_EmptySet DEF Open
  <2>5. /\ Full(j)' = Cardinality(Rec(j)) - Lab!Overflow(Lab!Store(j))
        /\ Rest(j)' = Cardinality(Rec(j)) - Lab!Overflow(Lab!Store(j))
    BY <1>6, <2>1, <2>2, <2>3 DEF Full, Rest
  <2>6. /\ Full(j)' <= Cap(j)' + Cardinality(wrote'[j])
        /\ Rest(j)' <= Cap(j)' + Cardinality(Open(j)') + faults'
        /\ Cardinality(Rec(j)' \cup lost'[j]) >= Cap(j)' + over'[j]
    BY <1>4, <1>5, <1>6, <2>1, <2>2, <2>3, <2>4, <2>5
  <2> QED
    BY <2>1, <2>2, <2>6 DEF EvictionGoes
<1>11. \A e \in Lab!Jobs : EvictionGoes(e)'
  BY <1>9, <1>10 DEF EvictionGoes
<1> QED
  BY <1>8, <1>11, OthersStand DEF CountsAreExact

\* The oldest are read: there are some, or the store is empty.
LEMMA CountsRanged ==
    ASSUME JobsInv, Types', NEW j \in Lab!Jobs, Moves(j), Lab!Ranged(j),
           UNCHANGED <<record, faults>>, Lab!Evicting(j), Ranging(j),
           IF stale'[j] = {} THEN ~Lab!Trims(j)' ELSE Lab!Evicting(j)' /\ ~Ranging(j)'
    PROVE  CountsAreExact'
<1> DEFINE L == Lowest(Rec(j), over[j])
<1>1. /\ stale' = [stale EXCEPT ![j] = Lab!OldestOf(Rec(j), over[j])]
      /\ UNCHANGED <<over, wrote, lost>>
  BY DEF Lab!Ranged, Rec
<1>2. Types /\ stale \in [Lab!Jobs -> SUBSET Lab!Jobs]
  BY DEF JobsInv, Types
<1>3. \A s : Lab!Recorded(s)' = Lab!Recorded(s)
  BY OthersStand DEF Lab!Recorded
<1>4. /\ Lab!Store(j) \in Lab!Stores /\ Cap(j) \in Nat /\ faults \in Nat /\ over[j] \in Nat
      /\ wrote[j] \in SUBSET Lab!Jobs /\ lost[j] \in SUBSET Lab!Jobs /\ Open(j) \in SUBSET Lab!Jobs
      /\ \A s : Lab!Recorded(s) \in SUBSET Lab!Jobs /\ Lab!Trimming(s) \in SUBSET Lab!Jobs
  BY <1>2, CountTypes
<1>5. /\ over[j] > 0 /\ j \notin wrote[j]
      /\ \A k \in wrote[j] : /\ Lab!Store(k) = Lab!Store(j)
                             /\ Lab!Evicting(k) => wrote[k] \subseteq wrote[j]
      /\ Cardinality(Rec(j) \cup lost[j]) >= Cap(j) + over[j]
      /\ Full(j) <= Cap(j) + Cardinality(wrote[j])
      /\ Rest(j) <= Cap(j) + Cardinality(Open(j)) + faults
  BY DEF JobsInv, CountsAreExact, EvictionGoes
<1>6. /\ Cardinality(Rec(j)) \in Nat /\ Rec(j)' = Rec(j) /\ Rec(j) \in SUBSET Lab!Jobs
      /\ IsFiniteSet(Rec(j)) /\ Rec(j) \subseteq Int
  <2>1. Rec(j) \in SUBSET Lab!Jobs /\ Rec(j)' = Rec(j)
    BY <1>2, <1>3, CountTypes DEF Rec, Moves, Lab!Store
  <2> QED
    BY <2>1, JobSets
<1>7. stale'[j] = L /\ L \subseteq Rec(j)
  BY <1>1, <1>2, SameSize DEF Lab!OldestOf, Lowest
<1>8. Cardinality(L) = IF over[j] <= Cardinality(Rec(j)) THEN over[j] ELSE Cardinality(Rec(j))
  BY <1>4, <1>6, LowestSize
<1> HIDE DEF L
<1>9. Cardinality(Rec(j) \ L) \in Nat /\ Cardinality(Rec(j)) = Cardinality(Rec(j) \ L) + Cardinality(L)
  <2>1. /\ Rec(j) \ L \in SUBSET Lab!Jobs /\ L \in SUBSET Lab!Jobs
        /\ Rec(j) = (Rec(j) \ L) \cup L /\ (Rec(j) \ L) \cap L = {}
    BY <1>6, <1>7
  <2>2. IsFiniteSet(Rec(j) \ L) /\ IsFiniteSet(L) /\ Cardinality(Rec(j) \ L) \in Nat
    BY <2>1, JobSets
  <2> QED
    BY <2>1, <2>2, DisjointSizes
<1>10. L = {} => Cardinality(Rec(j)) = 0
  <2>1. Cardinality({}) = 0
    BY FS_EmptySet
  <2> QED
    BY <1>4, <1>5, <1>6, <1>8, <2>1
<1>11. RecordsBound'
  <2>1. CASE Lab!Trims(j)'
    BY <1>3, <2>1, StoresGoOn
  <2>2. CASE L = {}
    <3>1. Lab!Trimming(Lab!Store(j))' \in SUBSET Lab!Jobs
      BY DEF Lab!Trimming, Lab!Jobs
    <3>2. Cardinality(Lab!Trimming(Lab!Store(j))') \in Nat
      BY <3>1, JobSets
    <3>3. Cardinality(Rec(j)') <= Cap(j) + Cardinality(Lab!Trimming(Lab!Store(j))') + faults
      BY <1>4, <1>6, <1>10, <2>2, <3>2
    <3> QED
      BY <1>3, <3>3, StoresGoOn
  <2> QED
    BY <1>7, <2>1, <2>2 DEF Lab!Trims
<1>12. ASSUME NEW e \in Lab!Jobs, e # j, Lab!Evicting(e)' PROVE EvictionGoes(e)'
  <2>1. Lab!Evicting(e) /\ Unmoved(e) /\ lost'[e] = lost[e] /\ kind' = kind
    BY <1>1, <1>2, <1>12, OthersStand DEF Unmoved, Moves
  <2>2. Rec(e)' = Rec(e)
    BY <1>3 DEF Rec, Moves, Lab!Store
  <2>3. \A k \in wrote[e] : Lab!Evicting(k)' => wrote'[k] \subseteq wrote[e]
    <3>1. \A k \in wrote[e] : k \in Lab!Jobs /\ (Lab!Evicting(k) => wrote[k] \subseteq wrote[e])
      BY <1>2, <2>1, CountTypes DEF JobsInv, CountsAreExact, EvictionGoes
    <3>2. wrote' = wrote /\ \A k \in Lab!Jobs : Lab!Evicting(k)' => Lab!Evicting(k)
      BY <1>1, OthersStand
    <3> QED
      BY <3>1, <3>2
  <2>4. Rest(e)' <= Cap(e) + Cardinality(Open(e)') + faults'
    <3>1. CASE Lab!Trims(j)' \/ j \notin wrote[e]
      BY <2>1, <2>2, <3>1, BoundGoesOn
    <3>2. CASE L = {} /\ j \in wrote[e]
      <4>1. Lab!Store(j) = Lab!Store(e)
        BY <2>1, <3>2 DEF JobsInv, CountsAreExact, EvictionGoes
      <4>2. Rec(e)' = Rec(j) /\ Cap(e) = Cap(j) /\ Rest(e)' <= Cardinality(Rec(e)') /\ Rest(e)' \in Int
        BY <1>2, <2>1, <2>2, <4>1, LessIsLeft DEF Rec, Cap
      <4>3. Open(e)' \in SUBSET Lab!Jobs
        BY <1>2, CountTypes DEF Open, Unmoved, Lab!Trimming, Lab!Jobs
      <4>4. Cardinality(Open(e)') \in Nat
        BY <4>3, JobSets
      <4> QED
        BY <1>4, <1>10, <3>2, <4>2, <4>4
    <3> QED
      BY <1>7, <3>1, <3>2 DEF Lab!Trims
  <2> QED
    BY <2>1, <2>2, <2>3, <2>4, LessGoesOn
<1>13. ASSUME Lab!Evicting(j)' PROVE EvictionGoes(j)'
  <2>1. ~Ranging(j)' /\ L # {}
    BY <1>7, <1>13 DEF Lab!Trims
  <2>2. over'[j] = over[j] /\ wrote'[j] = wrote[j] /\ lost'[j] = lost[j] /\ Cap(j)' = Cap(j)
    BY <1>1, OthersStand
  <2>3. /\ Cardinality(stale'[j]) <= over'[j] /\ Cardinality(stale'[j]) \in Nat
        /\ \A k \in stale'[j] : Lab!Store(k)' = Lab!Store(j)'
    <3>1. \A k \in Rec(j) : Lab!Store(k)' = Lab!Store(j)'
      BY <1>6, OthersStand DEF Rec, Lab!Recorded
    <3> QED
      BY <1>4, <1>6, <1>7, <1>8, <2>2, <3>1
  <2>4. /\ Full(j) = Cardinality(Rec(j) \cup wrote[j]) - over[j]
        /\ Rest(j) = Cardinality(Rec(j)) - over[j]
        /\ Full(j)' = Cardinality((Rec(j) \cup wrote[j]) \ L)
        /\ Rest(j)' = Cardinality(Rec(j) \ L)
    BY <1>6, <1>7, <2>1, <2>2 DEF Full, Rest
  <2>5. Open(j)' = Open(j)
    <3>1. Lab!Trims(j) /\ Lab!Trims(j)'
      BY <1>13 DEF Lab!Trims
    <3>2. Lab!Trimming(Lab!Store(j))' = Lab!Trimming(Lab!Store(j))
      BY <3>1, OthersStand DEF Lab!Trimming
    <3> QED
      BY <2>2, <3>2 DEF Open
  <2>6. Rest(j)' <= Cap(j)' + Cardinality(Open(j)') + faults'
    <3>1. Cardinality(Open(j)) \in Nat
      BY <1>4, JobSets
    <3>2. CASE over[j] <= Cardinality(Rec(j))
      BY <1>4, <1>5, <1>6, <1>8, <1>9, <2>2, <2>4, <2>5, <3>1, <3>2
    <3>3. CASE ~(over[j] <= Cardinality(Rec(j)))
      BY <1>4, <1>5, <1>6, <1>8, <1>9, <2>2, <2>4, <2>5, <3>1, <3>3
    <3> QED
      BY <3>2, <3>3
  <2>7. Full(j)' <= Cap(j)' + Cardinality(wrote'[j])
    <3>1. /\ (Rec(j) \cup wrote[j]) \ L \in SUBSET Lab!Jobs /\ L \in SUBSET Lab!Jobs
          /\ Rec(j) \cup wrote[j] = ((Rec(j) \cup wrote[j]) \ L) \cup L
          /\ ((Rec(j) \cup wrote[j]) \ L) \cap L = {}
      BY <1>4, <1>6, <1>7
    <3>2. /\ IsFiniteSet((Rec(j) \cup wrote[j]) \ L) /\ IsFiniteSet(L)
          /\ Cardinality((Rec(j) \cup wrote[j]) \ L) \in Nat
      BY <3>1, JobSets
    <3>3. Cardinality(Rec(j) \cup wrote[j]) = Cardinality((Rec(j) \cup wrote[j]) \ L) + Cardinality(L)
      BY <3>1, <3>2, DisjointSizes
    <3>4. Cardinality(wrote[j]) \in Nat
      BY <1>4, JobSets
    <3>5. CASE over[j] <= Cardinality(Rec(j))
      BY <1>4, <1>5, <1>8, <2>2, <2>4, <3>2, <3>3, <3>4, <3>5
    <3>6. CASE ~(over[j] <= Cardinality(Rec(j)))
      <4>1. Cardinality(Rec(j) \ L) = 0
        BY <1>4, <1>6, <1>8, <1>9, <3>6
      <4>2. Rec(j) \ L = {}
        <5>1. Rec(j) \ L \in SUBSET Lab!Jobs
          BY <1>6
        <5>2. IsFiniteSet(Rec(j) \ L)
          BY <5>1, JobSets
        <5> QED
          BY <4>1, <5>2, FS_EmptySet
      <4>3. (Rec(j) \cup wrote[j]) \ L \in SUBSET wrote[j]
        BY <4>2
      <4>4. Cardinality((Rec(j) \cup wrote[j]) \ L) <= Cardinality(wrote[j])
        BY <1>4, <4>3, JobSets
      <4> QED
        BY <1>4, <2>2, <2>4, <3>2, <3>4, <4>4
    <3> QED
      BY <3>5, <3>6
  <2>8. \A k \in stale'[j], l \in Rec(j)' \ (stale'[j] \cup wrote'[j]) : k < l
    <3>1. \A k \in L, l \in Rec(j) \ L : k < l
      BY <1>4, <1>6, LowestAreBelow DEF L
    <3> QED
      BY <1>6, <1>7, <3>1
  <2>9. \A k \in wrote'[j] : /\ Lab!Store(k)' = Lab!Store(j)'
                             /\ Lab!Evicting(k)' => wrote'[k] \subseteq wrote'[j]
    <3>1. \A k \in wrote[j] : k \in Lab!Jobs \ {j}
      BY <1>4, <1>5
    <3>2. wrote' = wrote /\ \A k \in Lab!Jobs : Lab!Store(k)' = Lab!Store(k)
      BY <1>1, OthersStand
    <3>3. \A k \in Lab!Jobs \ {j} : Lab!Evicting(k)' => Lab!Evicting(k)
      BY OthersStand
    <3> QED
      BY <1>5, <3>1, <3>2, <3>3
  <2>10. Cardinality(Rec(j)' \cup lost'[j]) >= Cap(j)' + over'[j]
    BY <1>5, <1>6, <2>2
  <2> QED
    BY <1>5, <2>2, <2>3, <2>6, <2>7, <2>8, <2>9, <2>10 DEF EvictionGoes
<1>14. \A e \in Lab!Jobs : EvictionGoes(e)'
  BY <1>12, <1>13 DEF EvictionGoes
<1> QED
  BY <1>11, <1>14, OthersStand DEF CountsAreExact

\* What an eviction has done to its store.
Oldest(j) ==
    /\ Cardinality(Rec(j)') <= Cap(j) + Cardinality(wrote[j])
    /\ Cardinality(Rec(j)') >= Cap(j) - Cardinality(lost[j])
    /\ \A k \in Rec(j), l \in Rec(j)' \ wrote[j] : record'[k] = None => k < l

\* The records that were read are deleted.
LEMMA CountsEvicted ==
    ASSUME JobsInv, Types', NEW j \in Lab!Jobs, Moves(j), Lab!Evicted(j), faults' = faults,
           Lab!Evicting(j), ~Ranging(j), ~Lab!Trims(j)'
    PROVE  CountsAreExact' /\ Oldest(j)
<1>1. /\ record' = [k \in Lab!Jobs |-> IF k \in stale[j] THEN None ELSE record[k]]
      /\ lost' = [k \in Lab!Jobs |-> IF Lab!Evicting(k) /\ Lab!Store(k) = Lab!Store(j)
                                    THEN lost[k] \cup (stale[j] \cap Lab!Recorded(Lab!Store(j)))
                                    ELSE lost[k]]
      /\ over' = [over EXCEPT ![j] = 0] /\ stale' = [stale EXCEPT ![j] = {}]
      /\ wrote' = [wrote EXCEPT ![j] = {}]
  BY DEF Lab!Evicted, Lab!Removed
<1>2. Types /\ over \in [Lab!Jobs -> Nat] /\ stale \in [Lab!Jobs -> SUBSET Lab!Jobs]
      /\ wrote \in [Lab!Jobs -> SUBSET Lab!Jobs]
  BY DEF JobsInv, Types
<1>3. /\ over[j] > 0 /\ j \notin wrote[j]
      /\ Cardinality(Rec(j) \cup lost[j]) >= Cap(j) + over[j]
      /\ Full(j) <= Cap(j) + Cardinality(wrote[j])
      /\ Rest(j) <= Cap(j) + Cardinality(Open(j)) + faults
      /\ Cardinality(stale[j]) <= over[j]
      /\ \A k \in stale[j] : Lab!Store(k) = Lab!Store(j)
      /\ \A k \in stale[j], l \in Rec(j) \ (stale[j] \cup wrote[j]) : k < l
  BY DEF JobsInv, CountsAreExact, EvictionGoes
<1>4. \A s : Lab!Recorded(s)' = Lab!Recorded(s) \ stale[j]
  BY <1>1, OthersStand DEF Lab!Recorded
<1>5. Rec(j)' = Rec(j) \ stale[j]
  BY <1>4 DEF Rec, Moves, Lab!Store
<1>6. /\ Cap(j) \in Nat /\ faults \in Nat /\ over[j] \in Nat /\ Rec(j) \in SUBSET Lab!Jobs
      /\ wrote[j] \in SUBSET Lab!Jobs /\ lost[j] \in SUBSET Lab!Jobs /\ Open(j) \in SUBSET Lab!Jobs
      /\ stale[j] \in SUBSET Lab!Jobs
  BY <1>2, CountTypes
<1>7. /\ Rest(j) = Cardinality(Rec(j)') /\ Cardinality(Rec(j)') \in Nat
      /\ Cardinality(Open(j)) \in Nat /\ Rec(j)' \in SUBSET Lab!Jobs
  <2>1. Rec(j)' \in SUBSET Lab!Jobs
    BY <1>5, <1>6
  <2> QED
    BY <1>5, <1>6, <2>1, JobSets DEF Rest
<1>8. Lab!Trims(j) /\ Lab!Trimming(Lab!Store(j))' = Lab!Trimming(Lab!Store(j)) \ {j}
  <2>1. Lab!Trims(j) /\ Lab!Trimming(Lab!Store(j))' \ {j} = Lab!Trimming(Lab!Store(j)) \ {j}
    BY OthersStand DEF Lab!Trims, Lab!Trimming, Moves, Lab!Store
  <2>2. j \notin Lab!Trimming(Lab!Store(j))'
    BY OthersStand DEF Lab!Trimming
  <2> QED
    BY <2>1, <2>2
<1>9. Open(j) \in SUBSET (Lab!Trimming(Lab!Store(j))') /\ Lab!Trimming(Lab!Store(j))' \in SUBSET Lab!Jobs
  BY <1>2, <1>3, <1>8, CountTypes DEF Open
<1>10. RecordsBound'
  <2>1. /\ Cardinality(Open(j)) <= Cardinality(Lab!Trimming(Lab!Store(j))')
        /\ Cardinality(Lab!Trimming(Lab!Store(j))') \in Nat
    BY <1>9, JobSets
  <2>2. Cardinality(Rec(j)') <= Cap(j) + Cardinality(Lab!Trimming(Lab!Store(j))') + faults
    BY <1>3, <1>6, <1>7, <2>1
  <2> QED
    BY <1>4, <2>2, StoresGoOn
<1>11. ASSUME NEW e \in Lab!Jobs, Lab!Evicting(e)' PROVE EvictionGoes(e)'
  <2>1. e # j /\ Lab!Evicting(e) /\ Unmoved(e) /\ kind' = kind
    BY <1>1, <1>2, <1>11, OthersStand DEF Unmoved, Moves, Lab!Trims
  <2>2. Rec(e)' = Rec(e) \ stale[j]
    BY <1>4 DEF Rec, Moves, Lab!Store
  <2>3. /\ \A k \in wrote[e] : /\ k \in Lab!Jobs /\ Lab!Store(k) = Lab!Store(e)
                               /\ Lab!Evicting(k) => wrote[k] \subseteq wrote[e]
    BY <1>2, <2>1, CountTypes DEF JobsInv, CountsAreExact, EvictionGoes
  <2>4. \A k \in wrote[e] : Lab!Evicting(k)' => wrote'[k] \subseteq wrote[e]
    BY <1>1, <1>2, <2>3, OthersStand DEF Lab!Trims
  <2>5. Rest(e)' <= Cap(e) + Cardinality(Open(e)') + faults'
    <3>1. CASE j \notin wrote[e]
      <4>1. faults' \in {faults, faults + 1} /\ Rec(e)' \subseteq Rec(e)
        BY <2>2
      <4> QED
        BY <2>1, <3>1, <4>1, BoundGoesOn
    <3>2. CASE j \in wrote[e]
      <4>1. Lab!Store(j) = Lab!Store(e) /\ wrote[j] \subseteq wrote[e]
        BY <2>3, <3>2
      <4>2. Rec(e)' = Rec(j)' /\ Cap(e) = Cap(j) /\ Rest(e)' <= Cardinality(Rec(e)') /\ Rest(e)' \in Int
        BY <1>2, <1>5, <2>1, <2>2, <4>1, LessIsLeft DEF Rec, Cap
      <4>3. Open(e)' = wrote[e] \cap Lab!Trimming(Lab!Store(j))'
        BY <2>1, <4>1 DEF Open, Unmoved, Lab!Store, Lab!Trimming
      <4>4. Open(j) \in SUBSET (Open(e)') /\ Open(e)' \in SUBSET Lab!Jobs
        BY <1>9, <4>1, <4>3 DEF Open
      <4>5. Cardinality(Open(j)) <= Cardinality(Open(e)') /\ Cardinality(Open(e)') \in Nat
        BY <4>4, JobSets
      <4> QED
        BY <1>3, <1>6, <1>7, <4>2, <4>5
    <3> QED
      BY <3>1, <3>2
  <2>6. Rec(e)' \cup lost'[e] = Rec(e) \cup lost[e]
    <3>1. CASE Lab!Store(e) = Lab!Store(j)
      BY <1>1, <2>1, <2>2, <3>1 DEF Rec
    <3>2. CASE Lab!Store(e) # Lab!Store(j)
      <4>1. lost'[e] = lost[e]
        BY <1>1, <3>2
      <4>2. \A k \in stale[j] : k \notin Rec(e)
        BY <1>3, <3>2 DEF Rec, Lab!Recorded
      <4> QED
        BY <2>2, <4>1, <4>2
    <3> QED
      BY <3>1, <3>2
  <2> QED
    BY <2>1, <2>2, <2>4, <2>5, <2>6, LessGoesOn
<1>12. \A e \in Lab!Jobs : EvictionGoes(e)'
  BY <1>11 DEF EvictionGoes
<1>13. Oldest(j)
  <2>1. Cardinality(Rec(j)') <= Cap(j) + Cardinality(wrote[j])
    <3>1. /\ Rec(j)' \in SUBSET ((Rec(j) \cup wrote[j]) \ stale[j])
          /\ (Rec(j) \cup wrote[j]) \ stale[j] \in SUBSET Lab!Jobs
      BY <1>5, <1>6
    <3>2. /\ Cardinality(Rec(j)') <= Cardinality((Rec(j) \cup wrote[j]) \ stale[j])
          /\ Cardinality((Rec(j) \cup wrote[j]) \ stale[j]) \in Nat
      BY <3>1, JobSets
    <3>3. Full(j) = Cardinality((Rec(j) \cup wrote[j]) \ stale[j]) /\ Cardinality(wrote[j]) \in Nat
      BY <1>6, JobSets DEF Full
    <3> QED
      BY <1>3, <1>6, <1>7, <3>2, <3>3
  <2>2. Cardinality(Rec(j)') >= Cap(j) - Cardinality(lost[j])
    <3>1. /\ Rec(j) \cup lost[j] \in SUBSET ((Rec(j)' \cup stale[j]) \cup lost[j])
          /\ Rec(j)' \cup stale[j] \in SUBSET Lab!Jobs
          /\ (Rec(j)' \cup stale[j]) \cup lost[j] \in SUBSET Lab!Jobs
      BY <1>5, <1>6
    <3>2. /\ Cardinality(Rec(j) \cup lost[j]) <= Cardinality((Rec(j)' \cup stale[j]) \cup lost[j])
          /\ Cardinality((Rec(j)' \cup stale[j]) \cup lost[j]) \in Nat
          /\ Cardinality(Rec(j) \cup lost[j]) \in Nat
      BY <3>1, JobSets
    <3>3. /\ Cardinality((Rec(j)' \cup stale[j]) \cup lost[j])
               <= Cardinality(Rec(j)' \cup stale[j]) + Cardinality(lost[j])
          /\ Cardinality(Rec(j)' \cup stale[j]) <= Cardinality(Rec(j)') + Cardinality(stale[j])
      BY <1>6, <1>7, <3>1, UnionSize
    <3>4. /\ Cardinality(Rec(j)' \cup stale[j]) \in Nat /\ Cardinality(lost[j]) \in Nat
          /\ Cardinality(stale[j]) \in Nat
      BY <1>6, <3>1, JobSets
    <3> QED
      BY <1>3, <1>6, <1>7, <3>2, <3>3, <3>4
  <2>3. ASSUME NEW k \in Rec(j), NEW l \in Rec(j)' \ wrote[j], record'[k] = None PROVE k < l
    <3>1. k \in Lab!Jobs /\ record[k] # None
      BY DEF Rec, Lab!Recorded
    <3>2. k \in stale[j]
      BY <1>1, <2>3, <3>1
    <3> QED
      BY <1>3, <1>5, <3>2
  <2> QED
    BY <2>1, <2>2, <2>3 DEF Oldest
<1> QED
  BY <1>10, <1>12, <1>13, OthersStand DEF CountsAreExact

-----------------------------------------------------------------------------
(* What a step of one job leaves alone.                                     *)

\* Job k has not moved; its record may have been evicted.
Stays(k) ==
    /\ api'[k] = api[k] /\ job'[k] = job[k] /\ mark'[k] = mark[k] /\ notice'[k] = notice[k]
    /\ record'[k] = record[k] \/ record'[k] = None
    /\ k \in content' <=> k \in content
    /\ k \in meta' <=> k \in meta
    /\ k \in deleted' <=> k \in deleted
    /\ k \in raced' <=> k \in raced
    /\ k \in stuck' <=> k \in stuck
    /\ k \in late' <=> k \in late
    /\ k \in unsure' <=> k \in unsure
    /\ k \in littered' <=> k \in littered

LEMMA StaysTrue ==
    ASSUME JobsInv, NEW k \in Lab!Jobs, Stays(k), kind' = kind,
           deletes' = deletes \/ deletes' = deletes + 1
    PROVE  JobInv(k)'
<1>1. Control(k) /\ RecordGoes(k) /\ ArtifactGoes(k) /\ NoticeGoes(k)
  BY DEF JobsInv, JobInv
<1>2. None \notin {"queued", "running", "done", "error"} /\ deletes \in Nat
  BY CountTypes, JobsAssumption DEF JobsInv
<1>3. Control(k)'
  BY <1>1 DEF Stays, Control, Lab!Created
<1>4. RecordGoes(k)'
  BY <1>1, <1>2 DEF Stays, RecordGoes
<1>5. ArtifactGoes(k)'
  BY <1>1, <1>2 DEF Stays, ArtifactGoes, Lab!Retrains
<1>6. NoticeGoes(k)'
  BY <1>1 DEF Stays, NoticeGoes, Lab!Retrains
<1> QED
  BY <1>3, <1>4, <1>5, <1>6 DEF JobInv

\* A step of job j keeps the invariant if it keeps that of j, the types and the counts.
LEMMA OneJob ==
    ASSUME JobsInv, NEW j \in Lab!Jobs, Types', CountsAreExact', JobInv(j)',
           kind' = kind, deletes' = deletes \/ deletes' = deletes + 1,
           \A k \in Lab!Jobs \ {j} : Stays(k)
    PROVE  JobsInv'
<1>1. ASSUME NEW k \in Lab!Jobs PROVE JobInv(k)'
  BY StaysTrue
<1>2. Lab!Jobs' = Lab!Jobs
  BY DEF Lab!Jobs
<1> QED
  BY <1>1, <1>2 DEF JobsInv

LEMMA Facts ==
    ASSUME JobsInv, NEW j \in Lab!Jobs
    PROVE  /\ Types /\ Lab!TypeOK /\ Control(j) /\ RecordGoes(j) /\ ArtifactGoes(j) /\ NoticeGoes(j)
           /\ kind[j] \in Kind
BY DEF JobsInv, JobInv, Types

-----------------------------------------------------------------------------
(* The request.                                                             *)

LEMMA SubmitKeeps == ASSUME JobsInv, NEW j \in Lab!Jobs, Lab!Submit(j) PROVE JobsInv'
<1>1. /\ kind[j] # "beat" /\ api[j] = "idle"
      /\ record' = [record EXCEPT ![j] = "queued"]
      /\ api' = [api EXCEPT ![j] = "count"]
      /\ wrote' = [k \in Lab!Jobs |-> IF Lab!Evicting(k) /\ Lab!Store(k) = Lab!Store(j)
                                     THEN wrote[k] \cup {j} ELSE wrote[k]]
      /\ UNCHANGED <<kind, deleted, raced, job, mark, over, stale, lost, content, meta, unsure, littered,
                     notice, faults, deletes, stuck, late>>
  BY DEF Lab!Submit, Lab!Saved, Lab!store, Lab!bounds
<1>2. Types /\ Lab!TypeOK /\ Control(j) /\ RecordGoes(j) /\ ArtifactGoes(j) /\ NoticeGoes(j)
  BY Facts
<1>3. Types'
  BY <1>1, <1>2 DEF Types, Lab!TypeOK, Lab!Statuses
<1>4. job[j] = "none" /\ mark[j] = "running" /\ record[j] = None /\ j \notin deleted
  BY <1>1, <1>2 DEF Control, Lab!Created, Before
<1>5. JobInv(j)'
  <2>1. api'[j] = "count" /\ record'[j] = "queued"
    BY <1>1, <1>2 DEF Lab!TypeOK
  <2> QED
    BY <1>1, <1>2, <1>4, <2>1 DEF JobInv, Control, RecordGoes, ArtifactGoes, NoticeGoes,
       Lab!Created, Lab!Retrains
<1>6. Moves(j) /\ ~Lab!Trims(j) /\ Lab!Trims(j)' /\ ~Lab!Evicting(j)'
  BY <1>1, <1>2, <1>4 DEF Moves, Lab!Trims, Lab!Evicting, Lab!TypeOK, Lab!Jobs, Control
<1>7. CountsAreExact'
  <2>1. Lab!Saved(j, "queued") /\ "queued" # None
    BY <1>2, JobsAssumption DEF Lab!Submit, Lab!TypeOK, Lab!Statuses
  <2> QED
    BY <1>1, <1>3, <1>6, <2>1, CountsSaved
<1>8. \A k \in Lab!Jobs \ {j} : Stays(k)
  BY <1>1, <1>2 DEF Stays, Lab!TypeOK
<1> QED
  BY <1>1, <1>3, <1>5, <1>7, <1>8, OneJob

\* Celery takes the message.
LEMMA SendsKeeps == ASSUME JobsInv, NEW j \in Lab!Jobs, Lab!Sends(j) PROVE JobsInv'
<1>1. /\ api[j] = "send"
      /\ api' = [api EXCEPT ![j] = "answered"]
      /\ job' = [job EXCEPT ![j] = "waiting"]
      /\ UNCHANGED <<kind, record, deleted, raced, mark, over, stale, wrote, lost, content, meta,
                      unsure, littered, notice, faults, deletes, stuck, late>>
  BY DEF Lab!Sends, Lab!records, Lab!store, Lab!bounds, Lab!eviction
<1>2. Types /\ Lab!TypeOK /\ Control(j) /\ RecordGoes(j) /\ ArtifactGoes(j) /\ NoticeGoes(j)
  BY Facts
<1>3. Types'
  BY <1>1, <1>2 DEF Types, Lab!TypeOK, Lab!Statuses
<1>4. job[j] = "none" /\ mark[j] = "running" /\ kind[j] # "beat"
  BY <1>1, <1>2, JobsAssumption DEF Control, Before
<1>5. JobInv(j)'
  <2>1. /\ api'[j] = "answered" /\ job'[j] = "waiting"
    BY <1>1, <1>2, <1>4 DEF Lab!TypeOK
  <2>2. Control(j)'
    BY <1>1, <1>2, <1>4, <2>1, JobsAssumption DEF Control, Lab!Created, Before, First
  <2>3. RecordGoes(j)'
    BY <1>1, <1>2, <1>4, <2>1, JobsAssumption DEF Control, RecordGoes, Before, Lab!TypeOK, Lab!Statuses
  <2>4. ArtifactGoes(j)'
    BY <1>1, <1>2, <1>4, <2>1, JobsAssumption DEF Control, RecordGoes, ArtifactGoes, Lab!Retrains,
       Before
  <2>5. NoticeGoes(j)'
    BY <1>1, <1>2, <1>4, <2>1, JobsAssumption DEF Control, ArtifactGoes, NoticeGoes, Lab!Retrains
  <2> QED
    BY <2>2, <2>3, <2>4, <2>5 DEF JobInv
<1>6. /\ Moves(j) /\ (Lab!Trims(j)' <=> Lab!Trims(j))
      /\ Lab!Evicting(j)' => Lab!Evicting(j) /\ (Ranging(j)' <=> Ranging(j))
  BY <1>1, <1>2, <1>4 DEF Moves, Lab!Trims, Lab!Evicting, Ranging, Lab!TypeOK, Lab!Jobs, Control
<1>7. CountsAreExact'
  BY <1>1, <1>3, <1>6, CountsAlone
<1>8. \A k \in Lab!Jobs \ {j} : Stays(k)
  BY <1>1, <1>2 DEF Stays, Lab!TypeOK
<1> QED
  BY <1>1, <1>3, <1>5, <1>7, <1>8, OneJob

\* The message is lost, or delivered all the same.
LEMMA SendFailsKeeps == ASSUME JobsInv, NEW j \in Lab!Jobs, Lab!SendFails(j) PROVE JobsInv'
<1>1. /\ api[j] = "send" /\ faults < MaxFaults /\ faults' = faults + 1
      /\ api' = [api EXCEPT ![j] = "undo"]
      /\ job' = [job EXCEPT ![j] = "waiting"] \/ job' = job
      /\ UNCHANGED <<kind, record, deleted, raced, mark, over, stale, wrote, lost, content, meta,
                      unsure, littered, notice, deletes, stuck, late>>
  BY DEF Lab!SendFails, Lab!Faulty, Lab!records, Lab!store, Lab!bounds, Lab!eviction
<1>2. Types /\ Lab!TypeOK /\ Control(j) /\ RecordGoes(j) /\ ArtifactGoes(j) /\ NoticeGoes(j)
  BY Facts
<1>3. Types'
  <2>1. faults' \in 0..MaxFaults
    BY <1>1, <1>2, JobsAssumption DEF Lab!TypeOK
  <2> QED
    BY <1>1, <1>2, <2>1 DEF Types, Lab!TypeOK, Lab!Statuses
<1>4. job[j] = "none" /\ mark[j] = "running" /\ kind[j] # "beat"
  BY <1>1, <1>2, JobsAssumption DEF Control, Before
<1>5. JobInv(j)'
  <2>1. /\ api'[j] = "undo" /\ job'[j] \in {"waiting", job[j]}
    BY <1>1, <1>2, <1>4 DEF Lab!TypeOK
  <2>2. Control(j)'
    BY <1>1, <1>2, <1>4, <2>1, JobsAssumption DEF Control, Lab!Created, Before, First
  <2>3. RecordGoes(j)'
    BY <1>1, <1>2, <1>4, <2>1, JobsAssumption DEF Control, RecordGoes, Before, Lab!TypeOK, Lab!Statuses
  <2>4. ArtifactGoes(j)'
    BY <1>1, <1>2, <1>4, <2>1, JobsAssumption DEF Control, RecordGoes, ArtifactGoes, Lab!Retrains,
       Before
  <2>5. NoticeGoes(j)'
    BY <1>1, <1>2, <1>4, <2>1, JobsAssumption DEF Control, ArtifactGoes, NoticeGoes, Lab!Retrains
  <2> QED
    BY <2>2, <2>3, <2>4, <2>5 DEF JobInv
<1>6. /\ Moves(j) /\ (Lab!Trims(j)' <=> Lab!Trims(j))
      /\ Lab!Evicting(j)' => Lab!Evicting(j) /\ (Ranging(j)' <=> Ranging(j))
  BY <1>1, <1>2, <1>4 DEF Moves, Lab!Trims, Lab!Evicting, Ranging, Lab!TypeOK, Lab!Jobs, Control
<1>7. CountsAreExact'
  BY <1>1, <1>3, <1>6, CountsAlone
<1>8. \A k \in Lab!Jobs \ {j} : Stays(k)
  BY <1>1, <1>2 DEF Stays, Lab!TypeOK
<1> QED
  BY <1>1, <1>3, <1>5, <1>7, <1>8, OneJob

\* The record is taken back, which its task may have read already.
LEMMA UndoesKeeps == ASSUME JobsInv, NEW j \in Lab!Jobs, Lab!Undoes(j) PROVE JobsInv'
<1>1. /\ api[j] = "undo"
      /\ record' = [k \in Lab!Jobs |-> IF k \in {j} THEN None ELSE record[k]]
      /\ api' = [api EXCEPT ![j] = "refused"]
      /\ raced' = IF job[j] = "save" THEN raced \cup {j} ELSE raced
      /\ lost' = [k \in Lab!Jobs |-> IF Lab!Evicting(k) /\ Lab!Store(k) = Lab!Store(j)
                                     THEN lost[k] \cup ({j} \cap Lab!Recorded(Lab!Store(j)))
                                     ELSE lost[k]]
      /\ UNCHANGED <<kind, deleted, job, mark, over, stale, wrote, content, meta, unsure, littered,
                      notice, faults, deletes, stuck, late>>
  BY DEF Lab!Undoes, Lab!Removed, Lab!store, Lab!bounds
<1>2. Types /\ Lab!TypeOK /\ Control(j) /\ RecordGoes(j) /\ ArtifactGoes(j) /\ NoticeGoes(j)
  BY Facts
<1>3. Types'
  BY <1>1, <1>2 DEF Types, Lab!TypeOK, Lab!Statuses
<1>4. kind[j] # "beat"
  BY <1>1, <1>2, JobsAssumption DEF Control
<1>5. JobInv(j)'
  <2>1. /\ api'[j] = "refused" /\ record'[j] = None
    BY <1>1, <1>2, <1>4 DEF Lab!TypeOK
  <2>2. Control(j)'
    BY <1>1, <1>2, <1>4, <2>1, JobsAssumption DEF Control, Lab!Created, Before, First
  <2>3. RecordGoes(j)'
    BY <1>1, <1>2, <1>4, <2>1, JobsAssumption DEF Control, RecordGoes, Before, Lab!TypeOK, Lab!Statuses
  <2>4. ArtifactGoes(j)'
    BY <1>1, <1>2, <1>4, <2>1, JobsAssumption DEF Control, RecordGoes, ArtifactGoes, Lab!Retrains,
       Before
  <2>5. NoticeGoes(j)'
    BY <1>1, <1>2, <1>4, <2>1, JobsAssumption DEF Control, ArtifactGoes, NoticeGoes, Lab!Retrains
  <2> QED
    BY <2>2, <2>3, <2>4, <2>5 DEF JobInv
<1>6. /\ Moves(j) /\ (Lab!Trims(j)' <=> Lab!Trims(j))
      /\ Lab!Evicting(j)' => Lab!Evicting(j) /\ (Ranging(j)' <=> Ranging(j))
  BY <1>1, <1>2, <1>4 DEF Moves, Lab!Trims, Lab!Evicting, Ranging, Lab!TypeOK, Lab!Jobs, Control
<1>7. CountsAreExact'
  <2>1. Lab!Removed(j, {j})
    BY DEF Lab!Undoes
  <2> QED
    BY <1>1, <1>3, <1>6, <2>1, CountsRemoved
<1>8. \A k \in Lab!Jobs \ {j} : Stays(k)
  BY <1>1, <1>2 DEF Stays, Lab!TypeOK
<1> QED
  BY <1>1, <1>3, <1>5, <1>7, <1>8, OneJob

\* The request is over, with what it has written.
LEMMA ApiFailsKeeps == ASSUME JobsInv, NEW j \in Lab!Jobs, Lab!ApiFails(j) PROVE JobsInv'
<1>1. /\ api[j] \in {"count", "range", "evict", "send", "undo"} /\ faults < MaxFaults /\ faults' = faults + 1
      /\ api' = [api EXCEPT ![j] = "failed"]
      /\ stuck' = stuck \cup {j}
      /\ UNCHANGED <<kind, record, deleted, raced, job, mark, over, stale, wrote, lost, content, meta,
                      unsure, littered, notice, deletes, late>>
  BY DEF Lab!ApiFails, Lab!Faulty, Lab!records, Lab!store, Lab!eviction
<1>2. Types /\ Lab!TypeOK /\ Control(j) /\ RecordGoes(j) /\ ArtifactGoes(j) /\ NoticeGoes(j)
  BY Facts
<1>3. Types'
  <2>1. faults' \in 0..MaxFaults
    BY <1>1, <1>2, JobsAssumption DEF Lab!TypeOK
  <2> QED
    BY <1>1, <1>2, <2>1 DEF Types, Lab!TypeOK, Lab!Statuses
<1>4. kind[j] # "beat"
  BY <1>1, <1>2, JobsAssumption DEF Control
<1>5. JobInv(j)'
  <2>1. /\ api'[j] = "failed"
    BY <1>1, <1>2, <1>4 DEF Lab!TypeOK
  <2>2. Control(j)'
    BY <1>1, <1>2, <1>4, <2>1, JobsAssumption DEF Control, Lab!Created, Before, First
  <2>3. RecordGoes(j)'
    BY <1>1, <1>2, <1>4, <2>1, JobsAssumption DEF Control, RecordGoes, Before, Lab!TypeOK, Lab!Statuses
  <2>4. ArtifactGoes(j)'
    BY <1>1, <1>2, <1>4, <2>1, JobsAssumption DEF Control, RecordGoes, ArtifactGoes, Lab!Retrains,
       Before
  <2>5. NoticeGoes(j)'
    BY <1>1, <1>2, <1>4, <2>1, JobsAssumption DEF Control, ArtifactGoes, NoticeGoes, Lab!Retrains
  <2> QED
    BY <2>2, <2>3, <2>4, <2>5 DEF JobInv
<1>6. /\ Moves(j)
      /\ \/ /\ Lab!Trims(j)' <=> Lab!Trims(j)
            /\ Lab!Evicting(j)' => Lab!Evicting(j) /\ (Ranging(j)' <=> Ranging(j))
         \/ ~Lab!Trims(j)'
  BY <1>1, <1>2, <1>4 DEF Moves, Lab!Trims, Lab!Evicting, Ranging, Lab!TypeOK, Lab!Jobs, Control
<1>7. CountsAreExact'
  BY <1>1, <1>3, <1>6, CountsAlone
<1>8. \A k \in Lab!Jobs \ {j} : Stays(k)
  BY <1>1, <1>2 DEF Stays, Lab!TypeOK
<1> QED
  BY <1>1, <1>3, <1>5, <1>7, <1>8, OneJob

\* A worker takes the message.
LEMMA TakesKeeps == ASSUME JobsInv, NEW j \in Lab!Jobs, Lab!Takes(j) PROVE JobsInv'
<1>1. /\ job[j] = "waiting"
      /\ job' = [job EXCEPT ![j] = "get"]
      /\ UNCHANGED <<kind, record, deleted, raced, api, mark, over, stale, wrote, lost, content, meta,
                      unsure, littered, notice, faults, deletes, stuck, late>>
  BY DEF Lab!Takes, Lab!records, Lab!store, Lab!bounds, Lab!eviction
<1>2. Types /\ Lab!TypeOK /\ Control(j) /\ RecordGoes(j) /\ ArtifactGoes(j) /\ NoticeGoes(j)
  BY Facts
<1>3. Types'
  BY <1>1, <1>2 DEF Types, Lab!TypeOK, Lab!Statuses
<1>5. JobInv(j)'
  <2>1. /\ job'[j] = "get"
    BY <1>1, <1>2 DEF Lab!TypeOK
  <2>2. Control(j)'
    BY <1>1, <1>2, <2>1, JobsAssumption DEF Control, Lab!Created, Before, First
  <2>3. RecordGoes(j)'
    BY <1>1, <1>2, <2>1, JobsAssumption DEF Control, RecordGoes, Before, Lab!TypeOK, Lab!Statuses
  <2>4. ArtifactGoes(j)'
    BY <1>1, <1>2, <2>1, JobsAssumption DEF Control, RecordGoes, ArtifactGoes, Lab!Retrains, Before
  <2>5. NoticeGoes(j)'
    BY <1>1, <1>2, <2>1, JobsAssumption DEF Control, ArtifactGoes, NoticeGoes, Lab!Retrains
  <2> QED
    BY <2>2, <2>3, <2>4, <2>5 DEF JobInv
<1>6. /\ Moves(j) /\ (Lab!Trims(j)' <=> Lab!Trims(j))
      /\ Lab!Evicting(j)' => Lab!Evicting(j) /\ (Ranging(j)' <=> Ranging(j))
  BY <1>1, <1>2 DEF Moves, Lab!Trims, Lab!Evicting, Ranging, Lab!TypeOK, Lab!Jobs, Control
<1>7. CountsAreExact'
  BY <1>1, <1>3, <1>6, CountsAlone
<1>8. \A k \in Lab!Jobs \ {j} : Stays(k)
  BY <1>1, <1>2 DEF Stays, Lab!TypeOK
<1> QED
  BY <1>1, <1>3, <1>5, <1>7, <1>8, OneJob

\* The clock starts a retraining that writes its record itself.
LEMMA TicksKeeps == ASSUME JobsInv, NEW j \in Lab!Jobs, Lab!Ticks(j) PROVE JobsInv'
<1>1. /\ kind[j] = "beat" /\ job[j] = "none"
      /\ record' = [record EXCEPT ![j] = "queued"]
      /\ job' = [job EXCEPT ![j] = "first_count"]
      /\ wrote' = [k \in Lab!Jobs |-> IF Lab!Evicting(k) /\ Lab!Store(k) = Lab!Store(j)
                                     THEN wrote[k] \cup {j} ELSE wrote[k]]
      /\ UNCHANGED <<kind, deleted, raced, api, mark, over, stale, lost, content, meta, unsure, littered,
                      notice, faults, deletes, stuck, late>>
  BY DEF Lab!Ticks, Lab!Saved, Lab!store, Lab!bounds
<1>2. Types /\ Lab!TypeOK /\ Control(j) /\ RecordGoes(j) /\ ArtifactGoes(j) /\ NoticeGoes(j)
  BY Facts
<1>3. Types'
  BY <1>1, <1>2 DEF Types, Lab!TypeOK, Lab!Statuses
<1>4. api[j] = "idle" /\ mark[j] = "running" /\ record[j] = None /\ j \notin deleted
  BY <1>1, <1>2, JobsAssumption DEF Control, Before, Lab!Created
<1>5. JobInv(j)'
  <2>1. /\ record'[j] = "queued" /\ job'[j] = "first_count"
    BY <1>1, <1>2, <1>4 DEF Lab!TypeOK
  <2>2. Control(j)'
    BY <1>1, <1>2, <1>4, <2>1, JobsAssumption DEF Control, Lab!Created, Before, First
  <2>3. RecordGoes(j)'
    BY <1>1, <1>2, <1>4, <2>1, JobsAssumption DEF Control, RecordGoes, Before, Lab!TypeOK, Lab!Statuses
  <2>4. ArtifactGoes(j)'
    BY <1>1, <1>2, <1>4, <2>1, JobsAssumption DEF Control, RecordGoes, ArtifactGoes, Lab!Retrains,
       Before
  <2>5. NoticeGoes(j)'
    BY <1>1, <1>2, <1>4, <2>1, JobsAssumption DEF Control, ArtifactGoes, NoticeGoes, Lab!Retrains
  <2> QED
    BY <2>2, <2>3, <2>4, <2>5 DEF JobInv
<1>6. Moves(j) /\ ~Lab!Trims(j) /\ Lab!Trims(j)' /\ ~Lab!Evicting(j)'
  BY <1>1, <1>2, <1>4 DEF Moves, Lab!Trims, Lab!Evicting, Lab!TypeOK, Lab!Jobs, Control
<1>7. CountsAreExact'
  <2>1. Lab!Saved(j, "queued") /\ "queued" # None
    BY <1>2, JobsAssumption DEF Lab!Ticks, Lab!TypeOK, Lab!Statuses
  <2> QED
    BY <1>1, <1>3, <1>6, <2>1, CountsSaved
<1>8. \A k \in Lab!Jobs \ {j} : Stays(k)
  BY <1>1, <1>2 DEF Stays, Lab!TypeOK
<1> QED
  BY <1>1, <1>3, <1>5, <1>7, <1>8, OneJob

\* Without a record there is nothing to mark.
LEMMA GetsKeeps == ASSUME JobsInv, NEW j \in Lab!Jobs, Lab!Gets(j) PROVE JobsInv'
<1>1. /\ job[j] = "get"
      /\ job' = [job EXCEPT ![j] = IF Lab!Known(j) THEN "save" ELSE "marked"]
      /\ UNCHANGED <<kind, record, deleted, raced, api, mark, over, stale, wrote, lost, content, meta,
                      unsure, littered, notice, faults, deletes, stuck, late>>
  BY DEF Lab!Gets, Lab!records, Lab!store, Lab!bounds, Lab!eviction
<1>2. Types /\ Lab!TypeOK /\ Control(j) /\ RecordGoes(j) /\ ArtifactGoes(j) /\ NoticeGoes(j)
  BY Facts
<1>3. Types'
  BY <1>1, <1>2 DEF Types, Lab!TypeOK, Lab!Statuses
<1>5. JobInv(j)'
  <2>1. /\ job'[j] = IF Lab!Known(j) THEN "save" ELSE "marked"
    BY <1>1, <1>2 DEF Lab!TypeOK
  <2>2. Control(j)'
    BY <1>1, <1>2, <2>1, JobsAssumption DEF Control, Lab!Created, Before, First, Lab!Known
  <2>3. RecordGoes(j)'
    BY <1>1, <1>2, <2>1, JobsAssumption DEF Control, RecordGoes, Before, Lab!TypeOK, Lab!Statuses,
       Lab!Known
  <2>4. ArtifactGoes(j)'
    BY <1>1, <1>2, <2>1, JobsAssumption DEF Control, RecordGoes, ArtifactGoes, Lab!Retrains,
       Before, Lab!Known
  <2>5. NoticeGoes(j)'
    BY <1>1, <1>2, <2>1, JobsAssumption DEF Control, ArtifactGoes, NoticeGoes, Lab!Retrains, Lab!Known
  <2> QED
    BY <2>2, <2>3, <2>4, <2>5 DEF JobInv
<1>6. /\ Moves(j) /\ (Lab!Trims(j)' <=> Lab!Trims(j))
      /\ Lab!Evicting(j)' => Lab!Evicting(j) /\ (Ranging(j)' <=> Ranging(j))
  BY <1>1, <1>2 DEF Moves, Lab!Trims, Lab!Evicting, Ranging, Lab!TypeOK, Lab!Jobs, Control
<1>7. CountsAreExact'
  BY <1>1, <1>3, <1>6, CountsAlone
<1>8. \A k \in Lab!Jobs \ {j} : Stays(k)
  BY <1>1, <1>2 DEF Stays, Lab!TypeOK
<1> QED
  BY <1>1, <1>3, <1>5, <1>7, <1>8, OneJob

\* The mark is written.
LEMMA SavesKeeps == ASSUME JobsInv, NEW j \in Lab!Jobs, Lab!Saves(j) PROVE JobsInv'
<1>1. /\ job[j] = "save"
      /\ record' = [record EXCEPT ![j] = mark[j]]
      /\ job' = [job EXCEPT ![j] = "count"]
      /\ wrote' = [k \in Lab!Jobs |-> IF Lab!Evicting(k) /\ Lab!Store(k) = Lab!Store(j)
                                     THEN wrote[k] \cup {j} ELSE wrote[k]]
      /\ UNCHANGED <<kind, deleted, raced, api, mark, over, stale, lost, content, meta, unsure, littered,
                      notice, faults, deletes, stuck, late>>
  BY DEF Lab!Saves, Lab!Saved, Lab!store, Lab!bounds
<1>2. Types /\ Lab!TypeOK /\ Control(j) /\ RecordGoes(j) /\ ArtifactGoes(j) /\ NoticeGoes(j)
  BY Facts
<1>3. Types'
  BY <1>1, <1>2 DEF Types, Lab!TypeOK, Lab!Statuses
<1>5. JobInv(j)'
  <2>1. /\ record'[j] = mark[j] /\ job'[j] = "count" /\ mark[j] \in Lab!Statuses \ {"queued"}
    BY <1>1, <1>2 DEF Lab!TypeOK
  <2>2. Control(j)'
    BY <1>1, <1>2, <2>1, JobsAssumption DEF Control, Lab!Created, Before, First
  <2>3. RecordGoes(j)'
    BY <1>1, <1>2, <2>1, JobsAssumption DEF Control, RecordGoes, Before, Lab!TypeOK, Lab!Statuses
  <2>4. ArtifactGoes(j)'
    BY <1>1, <1>2, <2>1, JobsAssumption DEF Control, RecordGoes, ArtifactGoes, Lab!Retrains, Before
  <2>5. NoticeGoes(j)'
    BY <1>1, <1>2, <2>1, JobsAssumption DEF Control, ArtifactGoes, NoticeGoes, Lab!Retrains
  <2> QED
    BY <2>2, <2>3, <2>4, <2>5 DEF JobInv
<1>6. Moves(j) /\ ~Lab!Trims(j) /\ Lab!Trims(j)' /\ ~Lab!Evicting(j)'
  BY <1>1, <1>2 DEF Moves, Lab!Trims, Lab!Evicting, Lab!TypeOK, Lab!Jobs, Control
<1>7. CountsAreExact'
  <2>1. Lab!Saved(j, mark[j]) /\ mark[j] # None
    BY <1>2, JobsAssumption DEF Lab!Saves, Lab!TypeOK, Lab!Statuses
  <2> QED
    BY <1>1, <1>3, <1>6, <2>1, CountsSaved
<1>8. \A k \in Lab!Jobs \ {j} : Stays(k)
  BY <1>1, <1>2 DEF Stays, Lab!TypeOK
<1> QED
  BY <1>1, <1>3, <1>5, <1>7, <1>8, OneJob

\* The mark is there: the work begins, or the job is over and told.
LEMMA MarkedKeeps == ASSUME JobsInv, NEW j \in Lab!Jobs, Lab!Marked(j) PROVE JobsInv'
<1>1. /\ job[j] = "marked"
      /\ job' = [job EXCEPT ![j] = IF mark[j] = "running" THEN "work" ELSE "ended"]
      /\ \/ notice' = notice /\ (mark[j] = "running" \/ ~Lab!Retrains(j))
         \/ notice' = [notice EXCEPT ![j] = Lab!Outcome(j)] /\ mark[j] # "running" /\ Lab!Retrains(j)
      /\ UNCHANGED <<kind, record, deleted, raced, api, mark, over, stale, wrote, lost, content, meta,
                      unsure, littered, faults, deletes, stuck, late>>
  BY DEF Lab!Marked, Lab!records, Lab!store, Lab!bounds, Lab!eviction
<1>2. Types /\ Lab!TypeOK /\ Control(j) /\ RecordGoes(j) /\ ArtifactGoes(j) /\ NoticeGoes(j)
  BY Facts
<1>3. Types'
  BY <1>1, <1>2 DEF Types, Lab!TypeOK, Lab!Statuses, Lab!Outcome
<1>5. JobInv(j)'
  <2>2. Control(j)'
    BY <1>1, <1>2, JobsAssumption DEF Control, Lab!Created, Before, First
  <2>3. RecordGoes(j)'
    BY <1>1, <1>2, JobsAssumption DEF Control, RecordGoes, Before, Lab!TypeOK, Lab!Statuses
  <2>4. ArtifactGoes(j)'
    BY <1>1, <1>2, JobsAssumption DEF Control, RecordGoes, ArtifactGoes, Lab!Retrains, Before
  <2>5. NoticeGoes(j)'
    BY <1>1, <1>2, JobsAssumption DEF Control, ArtifactGoes, NoticeGoes, Lab!Retrains, Lab!TypeOK,
      Lab!Statuses, Lab!Outcome
  <2> QED
    BY <2>2, <2>3, <2>4, <2>5 DEF JobInv
<1>6. /\ Moves(j) /\ (Lab!Trims(j)' <=> Lab!Trims(j))
      /\ Lab!Evicting(j)' => Lab!Evicting(j) /\ (Ranging(j)' <=> Ranging(j))
  BY <1>1, <1>2 DEF Moves, Lab!Trims, Lab!Evicting, Ranging, Lab!TypeOK, Lab!Jobs, Control
<1>7. CountsAreExact'
  BY <1>1, <1>3, <1>6, CountsAlone
<1>8. \A k \in Lab!Jobs \ {j} : Stays(k)
  BY <1>1, <1>2 DEF Stays, Lab!TypeOK
<1> QED
  BY <1>1, <1>3, <1>5, <1>7, <1>8, OneJob

\* The content is stored.
LEMMA WritesKeeps == ASSUME JobsInv, NEW j \in Lab!Jobs, Lab!Writes(j) PROVE JobsInv'
<1>1. /\ job[j] = "write"
      /\ content' = content \cup {j}
      /\ job' = [job EXCEPT ![j] = "meta"]
      /\ UNCHANGED <<kind, record, deleted, raced, api, mark, over, stale, wrote, lost, meta, unsure,
                      littered, notice, faults, deletes, stuck, late>>
  BY DEF Lab!Writes, Lab!records, Lab!store, Lab!bounds, Lab!eviction
<1>2. Types /\ Lab!TypeOK /\ Control(j) /\ RecordGoes(j) /\ ArtifactGoes(j) /\ NoticeGoes(j)
  BY Facts
<1>3. Types'
  BY <1>1, <1>2 DEF Types, Lab!TypeOK, Lab!Statuses
<1>5. JobInv(j)'
  <2>1. /\ job'[j] = "meta"
    BY <1>1, <1>2 DEF Lab!TypeOK
  <2>2. Control(j)'
    BY <1>1, <1>2, <2>1, JobsAssumption DEF Control, Lab!Created, Before, First
  <2>3. RecordGoes(j)'
    BY <1>1, <1>2, <2>1, JobsAssumption DEF Control, RecordGoes, Before, Lab!TypeOK, Lab!Statuses
  <2>4. ArtifactGoes(j)'
    BY <1>1, <1>2, <2>1, JobsAssumption DEF Control, RecordGoes, ArtifactGoes, Lab!Retrains, Before
  <2>5. NoticeGoes(j)'
    BY <1>1, <1>2, <2>1, JobsAssumption DEF Control, ArtifactGoes, NoticeGoes, Lab!Retrains
  <2> QED
    BY <2>2, <2>3, <2>4, <2>5 DEF JobInv
<1>6. /\ Moves(j) /\ (Lab!Trims(j)' <=> Lab!Trims(j))
      /\ Lab!Evicting(j)' => Lab!Evicting(j) /\ (Ranging(j)' <=> Ranging(j))
  BY <1>1, <1>2 DEF Moves, Lab!Trims, Lab!Evicting, Ranging, Lab!TypeOK, Lab!Jobs, Control
<1>7. CountsAreExact'
  BY <1>1, <1>3, <1>6, CountsAlone
<1>8. \A k \in Lab!Jobs \ {j} : Stays(k)
  BY <1>1, <1>2 DEF Stays, Lab!TypeOK
<1> QED
  BY <1>1, <1>3, <1>5, <1>7, <1>8, OneJob

\* The metadata is committed.
LEMMA CommitsKeeps == ASSUME JobsInv, NEW j \in Lab!Jobs, Lab!Commits(j) PROVE JobsInv'
<1>1. /\ job[j] = "meta"
      /\ meta' = meta \cup {j}
      /\ job' = [job EXCEPT ![j] = "get"]
      /\ mark' = [mark EXCEPT ![j] = "done"]
      /\ UNCHANGED <<kind, record, deleted, raced, api, over, stale, wrote, lost, content, unsure,
                      littered, notice, faults, deletes, stuck, late>>
  BY DEF Lab!Commits, Lab!Proceeds, Lab!Committed, Lab!records, Lab!store, Lab!bounds, Lab!eviction
<1>2. Types /\ Lab!TypeOK /\ Control(j) /\ RecordGoes(j) /\ ArtifactGoes(j) /\ NoticeGoes(j)
  BY Facts
<1>3. Types'
  BY <1>1, <1>2 DEF Types, Lab!TypeOK, Lab!Statuses
<1>5. JobInv(j)'
  <2>1. /\ job'[j] = "get" /\ mark'[j] = "done"
    BY <1>1, <1>2 DEF Lab!TypeOK
  <2>2. Control(j)'
    BY <1>1, <1>2, <2>1, JobsAssumption DEF Control, Lab!Created, Before, First
  <2>3. RecordGoes(j)'
    BY <1>1, <1>2, <2>1, JobsAssumption DEF Control, RecordGoes, Before, Lab!TypeOK, Lab!Statuses
  <2>4. ArtifactGoes(j)'
    BY <1>1, <1>2, <2>1, JobsAssumption DEF Control, RecordGoes, ArtifactGoes, Lab!Retrains, Before
  <2>5. NoticeGoes(j)'
    BY <1>1, <1>2, <2>1, JobsAssumption DEF Control, ArtifactGoes, NoticeGoes, Lab!Retrains
  <2> QED
    BY <2>2, <2>3, <2>4, <2>5 DEF JobInv
<1>6. /\ Moves(j) /\ (Lab!Trims(j)' <=> Lab!Trims(j))
      /\ Lab!Evicting(j)' => Lab!Evicting(j) /\ (Ranging(j)' <=> Ranging(j))
  BY <1>1, <1>2 DEF Moves, Lab!Trims, Lab!Evicting, Ranging, Lab!TypeOK, Lab!Jobs, Control
<1>7. CountsAreExact'
  BY <1>1, <1>3, <1>6, CountsAlone
<1>8. \A k \in Lab!Jobs \ {j} : Stays(k)
  BY <1>1, <1>2 DEF Stays, Lab!TypeOK
<1> QED
  BY <1>1, <1>3, <1>5, <1>7, <1>8, OneJob

\* The content is taken back.
LEMMA RollsBackKeeps == ASSUME JobsInv, NEW j \in Lab!Jobs, Lab!RollsBack(j) PROVE JobsInv'
<1>1. /\ job[j] = "rollback"
      /\ content' = content \ {j}
      /\ job' = [job EXCEPT ![j] = "get"]
      /\ mark' = [mark EXCEPT ![j] = Lab!StatusWithout(j)]
      /\ UNCHANGED <<kind, record, deleted, raced, api, over, stale, wrote, lost, meta, unsure,
                      littered, notice, faults, deletes, stuck, late>>
  BY DEF Lab!RollsBack, Lab!TakenBack, Lab!Proceeds, Lab!records, Lab!store, Lab!bounds, Lab!eviction
<1>2. Types /\ Lab!TypeOK /\ Control(j) /\ RecordGoes(j) /\ ArtifactGoes(j) /\ NoticeGoes(j)
  BY Facts
<1>3. Types'
  BY <1>1, <1>2 DEF Types, Lab!TypeOK, Lab!Statuses, Lab!StatusWithout
<1>5. JobInv(j)'
  <2>1. /\ job'[j] = "get" /\ mark'[j] = Lab!StatusWithout(j)
    BY <1>1, <1>2 DEF Lab!TypeOK
  <2>2. Control(j)'
    BY <1>1, <1>2, <2>1, JobsAssumption DEF Control, Lab!Created, Before, First, Lab!StatusWithout,
       Lab!Retrains
  <2>3. RecordGoes(j)'
    BY <1>1, <1>2, <2>1, JobsAssumption DEF Control, RecordGoes, Before, Lab!TypeOK, Lab!Statuses,
       Lab!StatusWithout, Lab!Retrains
  <2>4. ArtifactGoes(j)'
    BY <1>1, <1>2, <2>1, JobsAssumption DEF Control, RecordGoes, ArtifactGoes, Lab!Retrains,
       Before, Lab!StatusWithout, Lab!Retrains
  <2>5. NoticeGoes(j)'
    BY <1>1, <1>2, <2>1, JobsAssumption DEF Control, ArtifactGoes, NoticeGoes, Lab!Retrains,
       Lab!StatusWithout, Lab!Retrains
  <2> QED
    BY <2>2, <2>3, <2>4, <2>5 DEF JobInv
<1>6. /\ Moves(j) /\ (Lab!Trims(j)' <=> Lab!Trims(j))
      /\ Lab!Evicting(j)' => Lab!Evicting(j) /\ (Ranging(j)' <=> Ranging(j))
  BY <1>1, <1>2 DEF Moves, Lab!Trims, Lab!Evicting, Ranging, Lab!TypeOK, Lab!Jobs, Control
<1>7. CountsAreExact'
  BY <1>1, <1>3, <1>6, CountsAlone
<1>8. \A k \in Lab!Jobs \ {j} : Stays(k)
  BY <1>1, <1>2 DEF Stays, Lab!TypeOK
<1> QED
  BY <1>1, <1>3, <1>5, <1>7, <1>8, OneJob

\* The content could not be stored.
LEMMA WriteFailsKeeps == ASSUME JobsInv, NEW j \in Lab!Jobs, Lab!WriteFails(j) PROVE JobsInv'
<1>1. /\ job[j] = "write" /\ faults < MaxFaults /\ faults' = faults + 1
      /\ job' = [job EXCEPT ![j] = "get"]
      /\ mark' = [mark EXCEPT ![j] = Lab!StatusWithout(j)]
      /\ UNCHANGED <<kind, record, deleted, raced, api, over, stale, wrote, lost, content, meta, unsure,
                      littered, notice, deletes, stuck, late>>
  BY DEF Lab!WriteFails, Lab!Faulty, Lab!Proceeds, Lab!records, Lab!store, Lab!eviction
<1>2. Types /\ Lab!TypeOK /\ Control(j) /\ RecordGoes(j) /\ ArtifactGoes(j) /\ NoticeGoes(j)
  BY Facts
<1>3. Types'
  <2>1. faults' \in 0..MaxFaults
    BY <1>1, <1>2, JobsAssumption DEF Lab!TypeOK
  <2> QED
    BY <1>1, <1>2, <2>1 DEF Types, Lab!TypeOK, Lab!Statuses, Lab!StatusWithout
<1>5. JobInv(j)'
  <2>1. /\ job'[j] = "get" /\ mark'[j] = Lab!StatusWithout(j)
    BY <1>1, <1>2 DEF Lab!TypeOK
  <2>2. Control(j)'
    BY <1>1, <1>2, <2>1, JobsAssumption DEF Control, Lab!Created, Before, First, Lab!StatusWithout,
       Lab!Retrains
  <2>3. RecordGoes(j)'
    BY <1>1, <1>2, <2>1, JobsAssumption DEF Control, RecordGoes, Before, Lab!TypeOK, Lab!Statuses,
       Lab!StatusWithout, Lab!Retrains
  <2>4. ArtifactGoes(j)'
    BY <1>1, <1>2, <2>1, JobsAssumption DEF Control, RecordGoes, ArtifactGoes, Lab!Retrains,
       Before, Lab!StatusWithout, Lab!Retrains
  <2>5. NoticeGoes(j)'
    BY <1>1, <1>2, <2>1, JobsAssumption DEF Control, ArtifactGoes, NoticeGoes, Lab!Retrains,
       Lab!StatusWithout, Lab!Retrains
  <2> QED
    BY <2>2, <2>3, <2>4, <2>5 DEF JobInv
<1>6. /\ Moves(j) /\ (Lab!Trims(j)' <=> Lab!Trims(j))
      /\ Lab!Evicting(j)' => Lab!Evicting(j) /\ (Ranging(j)' <=> Ranging(j))
  BY <1>1, <1>2 DEF Moves, Lab!Trims, Lab!Evicting, Ranging, Lab!TypeOK, Lab!Jobs, Control
<1>7. CountsAreExact'
  BY <1>1, <1>3, <1>6, CountsAlone
<1>8. \A k \in Lab!Jobs \ {j} : Stays(k)
  BY <1>1, <1>2 DEF Stays, Lab!TypeOK
<1> QED
  BY <1>1, <1>3, <1>5, <1>7, <1>8, OneJob

\* The commit raises, done or not.
LEMMA CommitFailsKeeps == ASSUME JobsInv, NEW j \in Lab!Jobs, Lab!CommitFails(j) PROVE JobsInv'
<1>1. /\ job[j] = "meta" /\ faults < MaxFaults /\ faults' = faults + 1
      /\ \/ meta' = meta /\ unsure' = unsure
         \/ meta' = meta \cup {j} /\ unsure' = unsure \cup {j}
      /\ job' = [job EXCEPT ![j] = "rollback"]
      /\ UNCHANGED <<kind, record, deleted, raced, api, mark, over, stale, wrote, lost, content,
                      littered, notice, deletes, stuck, late>>
  BY DEF Lab!CommitFails, Lab!Faulty, Lab!records, Lab!eviction
<1>2. Types /\ Lab!TypeOK /\ Control(j) /\ RecordGoes(j) /\ ArtifactGoes(j) /\ NoticeGoes(j)
  BY Facts
<1>3. Types'
  <2>1. faults' \in 0..MaxFaults
    BY <1>1, <1>2, JobsAssumption DEF Lab!TypeOK
  <2> QED
    BY <1>1, <1>2, <2>1 DEF Types, Lab!TypeOK, Lab!Statuses
<1>5. JobInv(j)'
  <2>1. /\ job'[j] = "rollback"
    BY <1>1, <1>2 DEF Lab!TypeOK
  <2>2. Control(j)'
    BY <1>1, <1>2, <2>1, JobsAssumption DEF Control, Lab!Created, Before, First
  <2>3. RecordGoes(j)'
    BY <1>1, <1>2, <2>1, JobsAssumption DEF Control, RecordGoes, Before, Lab!TypeOK, Lab!Statuses
  <2>4. ArtifactGoes(j)'
    BY <1>1, <1>2, <2>1, JobsAssumption DEF Control, RecordGoes, ArtifactGoes, Lab!Retrains, Before
  <2>5. NoticeGoes(j)'
    BY <1>1, <1>2, <2>1, JobsAssumption DEF Control, ArtifactGoes, NoticeGoes, Lab!Retrains
  <2> QED
    BY <2>2, <2>3, <2>4, <2>5 DEF JobInv
<1>6. /\ Moves(j) /\ (Lab!Trims(j)' <=> Lab!Trims(j))
      /\ Lab!Evicting(j)' => Lab!Evicting(j) /\ (Ranging(j)' <=> Ranging(j))
  BY <1>1, <1>2 DEF Moves, Lab!Trims, Lab!Evicting, Ranging, Lab!TypeOK, Lab!Jobs, Control
<1>7. CountsAreExact'
  BY <1>1, <1>3, <1>6, CountsAlone
<1>8. \A k \in Lab!Jobs \ {j} : Stays(k)
  BY <1>1, <1>2 DEF Stays, Lab!TypeOK
<1> QED
  BY <1>1, <1>3, <1>5, <1>7, <1>8, OneJob

\* The content stays behind.
LEMMA RollbackFailsKeeps == ASSUME JobsInv, NEW j \in Lab!Jobs, Lab!RollbackFails(j) PROVE JobsInv'
<1>1. /\ job[j] = "rollback" /\ faults < MaxFaults /\ faults' = faults + 1
      /\ littered' = littered \cup {j}
      /\ job' = [job EXCEPT ![j] = "get"]
      /\ mark' = [mark EXCEPT ![j] = Lab!StatusWithout(j)]
      /\ UNCHANGED <<kind, record, deleted, raced, api, over, stale, wrote, lost, content, meta, unsure,
                      notice, deletes, stuck, late>>
  BY DEF Lab!RollbackFails, Lab!Faulty, Lab!Proceeds, Lab!records, Lab!eviction
<1>2. Types /\ Lab!TypeOK /\ Control(j) /\ RecordGoes(j) /\ ArtifactGoes(j) /\ NoticeGoes(j)
  BY Facts
<1>3. Types'
  <2>1. faults' \in 0..MaxFaults
    BY <1>1, <1>2, JobsAssumption DEF Lab!TypeOK
  <2> QED
    BY <1>1, <1>2, <2>1 DEF Types, Lab!TypeOK, Lab!Statuses, Lab!StatusWithout
<1>5. JobInv(j)'
  <2>1. /\ job'[j] = "get" /\ mark'[j] = Lab!StatusWithout(j)
    BY <1>1, <1>2 DEF Lab!TypeOK
  <2>2. Control(j)'
    BY <1>1, <1>2, <2>1, JobsAssumption DEF Control, Lab!Created, Before, First, Lab!StatusWithout,
       Lab!Retrains
  <2>3. RecordGoes(j)'
    BY <1>1, <1>2, <2>1, JobsAssumption DEF Control, RecordGoes, Before, Lab!TypeOK, Lab!Statuses,
       Lab!StatusWithout, Lab!Retrains
  <2>4. ArtifactGoes(j)'
    BY <1>1, <1>2, <2>1, JobsAssumption DEF Control, RecordGoes, ArtifactGoes, Lab!Retrains,
       Before, Lab!StatusWithout, Lab!Retrains
  <2>5. NoticeGoes(j)'
    BY <1>1, <1>2, <2>1, JobsAssumption DEF Control, ArtifactGoes, NoticeGoes, Lab!Retrains,
       Lab!StatusWithout, Lab!Retrains
  <2> QED
    BY <2>2, <2>3, <2>4, <2>5 DEF JobInv
<1>6. /\ Moves(j) /\ (Lab!Trims(j)' <=> Lab!Trims(j))
      /\ Lab!Evicting(j)' => Lab!Evicting(j) /\ (Ranging(j)' <=> Ranging(j))
  BY <1>1, <1>2 DEF Moves, Lab!Trims, Lab!Evicting, Ranging, Lab!TypeOK, Lab!Jobs, Control
<1>7. CountsAreExact'
  BY <1>1, <1>3, <1>6, CountsAlone
<1>8. \A k \in Lab!Jobs \ {j} : Stays(k)
  BY <1>1, <1>2 DEF Stays, Lab!TypeOK
<1> QED
  BY <1>1, <1>3, <1>5, <1>7, <1>8, OneJob

\* The worker is gone, wherever the task was.
LEMMA KilledKeeps == ASSUME JobsInv, NEW j \in Lab!Jobs, Lab!Killed(j) PROVE JobsInv'
<1>1. /\ job[j] \notin {"none", "waiting", "ended", "killed"}
      /\ faults < MaxFaults /\ faults' = faults + 1
      /\ job' = [job EXCEPT ![j] = "killed"]
      /\ stuck' = stuck \cup {j}
      /\ littered' = IF job[j] \in {"meta", "rollback"} THEN littered \cup {j} ELSE littered
      /\ UNCHANGED <<kind, record, deleted, raced, api, mark, over, stale, wrote, lost, content, meta,
                      unsure, notice, deletes, late>>
  BY DEF Lab!Killed, Lab!Faulty, Lab!records, Lab!eviction
<1>2. Types /\ Lab!TypeOK /\ Control(j) /\ RecordGoes(j) /\ ArtifactGoes(j) /\ NoticeGoes(j)
  BY Facts
<1>3. Types'
  <2>1. faults' \in 0..MaxFaults
    BY <1>1, <1>2, JobsAssumption DEF Lab!TypeOK
  <2> QED
    BY <1>1, <1>2, <2>1 DEF Types, Lab!TypeOK, Lab!Statuses
<1>5. JobInv(j)'
  <2>1. /\ job'[j] = "killed"
    BY <1>1, <1>2 DEF Lab!TypeOK
  <2>2. Control(j)'
    BY <1>1, <1>2, <2>1, JobsAssumption DEF Control, Lab!Created, Before, First
  <2>3. RecordGoes(j)'
    BY <1>1, <1>2, <2>1, JobsAssumption DEF Control, RecordGoes, Before, Lab!TypeOK, Lab!Statuses
  <2>4. ArtifactGoes(j)'
    BY <1>1, <1>2, <2>1, JobsAssumption DEF Control, RecordGoes, ArtifactGoes, Lab!Retrains, Before
  <2>5. NoticeGoes(j)'
    BY <1>1, <1>2, <2>1, JobsAssumption DEF Control, ArtifactGoes, NoticeGoes, Lab!Retrains
  <2> QED
    BY <2>2, <2>3, <2>4, <2>5 DEF JobInv
<1>6. /\ Moves(j)
      /\ \/ /\ Lab!Trims(j)' <=> Lab!Trims(j)
            /\ Lab!Evicting(j)' => Lab!Evicting(j) /\ (Ranging(j)' <=> Ranging(j))
         \/ ~Lab!Trims(j)'
  BY <1>1, <1>2 DEF Moves, Lab!Trims, Lab!Evicting, Ranging, Lab!TypeOK, Lab!Jobs, Control
<1>7. CountsAreExact'
  BY <1>1, <1>3, <1>6, CountsAlone
<1>8. \A k \in Lab!Jobs \ {j} : Stays(k)
  BY <1>1, <1>2 DEF Stays, Lab!TypeOK
<1> QED
  BY <1>1, <1>3, <1>5, <1>7, <1>8, OneJob

\* A user deletes the record.
LEMMA DeletesRecordKeeps == ASSUME JobsInv, NEW j \in Lab!Jobs, Lab!DeletesRecord(j) PROVE JobsInv'
<1>1. /\ record[j] # None /\ deletes < MaxDeletes /\ deletes' = deletes + 1
      /\ record' = [k \in Lab!Jobs |-> IF k \in {j} THEN None ELSE record[k]]
      /\ deleted' = deleted \cup {j}
      /\ raced' = IF job[j] = "save" THEN raced \cup {j} ELSE raced
      /\ lost' = [k \in Lab!Jobs |-> IF Lab!Evicting(k) /\ Lab!Store(k) = Lab!Store(j)
                                     THEN lost[k] \cup ({j} \cap Lab!Recorded(Lab!Store(j)))
                                     ELSE lost[k]]
      /\ UNCHANGED <<kind, api, job, mark, over, stale, wrote, content, meta, unsure, littered, notice,
                      faults, stuck, late>>
  BY DEF Lab!DeletesRecord, Lab!Removed, Lab!Deletion, Lab!store
<1>2. Types /\ Lab!TypeOK /\ Control(j) /\ RecordGoes(j) /\ ArtifactGoes(j) /\ NoticeGoes(j)
  BY Facts
<1>3. Types'
  <2>1. deletes' \in 0..MaxDeletes
    BY <1>1, <1>2, JobsAssumption DEF Lab!TypeOK
  <2> QED
    BY <1>1, <1>2, <2>1 DEF Types, Lab!TypeOK, Lab!Statuses
<1>4. deletes' # 0
  BY <1>1, <1>2, JobsAssumption DEF Lab!TypeOK
<1>5. JobInv(j)'
  <2>1. /\ record'[j] = None
    BY <1>1, <1>2, <1>4 DEF Lab!TypeOK
  <2>2. Control(j)'
    BY <1>1, <1>2, <1>4, <2>1, JobsAssumption DEF Control, Lab!Created, Before, First
  <2>3. RecordGoes(j)'
    BY <1>1, <1>2, <1>4, <2>1, JobsAssumption DEF Control, RecordGoes, Before, Lab!TypeOK, Lab!Statuses
  <2>4. ArtifactGoes(j)'
    BY <1>1, <1>2, <1>4, <2>1, JobsAssumption DEF Control, RecordGoes, ArtifactGoes, Lab!Retrains,
       Before
  <2>5. NoticeGoes(j)'
    BY <1>1, <1>2, <1>4, <2>1, JobsAssumption DEF Control, ArtifactGoes, NoticeGoes, Lab!Retrains
  <2> QED
    BY <2>2, <2>3, <2>4, <2>5 DEF JobInv
<1>6. /\ Moves(j) /\ (Lab!Trims(j)' <=> Lab!Trims(j))
      /\ Lab!Evicting(j)' => Lab!Evicting(j) /\ (Ranging(j)' <=> Ranging(j))
  BY <1>1, <1>2, <1>4 DEF Moves, Lab!Trims, Lab!Evicting, Ranging, Lab!TypeOK, Lab!Jobs, Control
<1>7. CountsAreExact'
  <2>1. Lab!Removed(j, {j})
    BY DEF Lab!DeletesRecord
  <2> QED
    BY <1>1, <1>3, <1>6, <2>1, CountsRemoved
<1>8. \A k \in Lab!Jobs \ {j} : Stays(k)
  BY <1>1, <1>2 DEF Stays, Lab!TypeOK
<1> QED
  BY <1>1, <1>3, <1>5, <1>7, <1>8, OneJob

\* A user deletes the artifact, whose content may stay behind.
LEMMA DeletesArtifactKeeps == ASSUME JobsInv, NEW j \in Lab!Jobs, Lab!DeletesArtifact(j) PROVE JobsInv'
<1>1. /\ j \in meta /\ deletes < MaxDeletes /\ deletes' = deletes + 1
      /\ meta' = meta \ {j}
      /\ \/ content' = content \ {j} /\ littered' = littered /\ faults' = faults
         \/ content' = content /\ littered' = littered \cup {j}
            /\ faults < MaxFaults /\ faults' = faults + 1
      /\ UNCHANGED <<kind, record, deleted, raced, api, job, mark, over, stale, wrote, lost, unsure,
                      notice, stuck, late>>
  BY DEF Lab!DeletesArtifact, Lab!Deletion, Lab!Faulty, Lab!clients, Lab!eviction
<1>2. Types /\ Lab!TypeOK /\ Control(j) /\ RecordGoes(j) /\ ArtifactGoes(j) /\ NoticeGoes(j)
  BY Facts
<1>3. Types'
  <2>1. faults' \in 0..MaxFaults /\ deletes' \in 0..MaxDeletes
    BY <1>1, <1>2, JobsAssumption DEF Lab!TypeOK
  <2> QED
    BY <1>1, <1>2, <2>1 DEF Types, Lab!TypeOK, Lab!Statuses
<1>4. deletes' # 0
  BY <1>1, <1>2, JobsAssumption DEF Lab!TypeOK
<1>5. JobInv(j)'
  <2>2. Control(j)'
    BY <1>1, <1>2, <1>4, JobsAssumption DEF Control, Lab!Created, Before, First
  <2>3. RecordGoes(j)'
    BY <1>1, <1>2, <1>4, JobsAssumption DEF Control, RecordGoes, Before, Lab!TypeOK, Lab!Statuses
  <2>4. ArtifactGoes(j)'
    BY <1>1, <1>2, <1>4, JobsAssumption DEF Control, RecordGoes, ArtifactGoes, Lab!Retrains, Before
  <2>5. NoticeGoes(j)'
    BY <1>1, <1>2, <1>4, JobsAssumption DEF Control, ArtifactGoes, NoticeGoes, Lab!Retrains
  <2> QED
    BY <2>2, <2>3, <2>4, <2>5 DEF JobInv
<1>6. /\ Moves(j) /\ (Lab!Trims(j)' <=> Lab!Trims(j))
      /\ Lab!Evicting(j)' => Lab!Evicting(j) /\ (Ranging(j)' <=> Ranging(j))
  BY <1>1, <1>2, <1>4 DEF Moves, Lab!Trims, Lab!Evicting, Ranging, Lab!TypeOK, Lab!Jobs, Control
<1>7. CountsAreExact'
  BY <1>1, <1>3, <1>6, CountsAlone
<1>8. \A k \in Lab!Jobs \ {j} : Stays(k)
  BY <1>1, <1>2 DEF Stays, Lab!TypeOK
<1> QED
  BY <1>1, <1>3, <1>5, <1>7, <1>8, OneJob

\* The request counts the records.
LEMMA ApiCountsKeeps ==
    ASSUME JobsInv, NEW j \in Lab!Jobs, Lab!ApiCounts(j) PROVE JobsInv'
<1>1. /\ api[j] = "count"
      /\ api' = [api EXCEPT ![j] = IF Lab!Overflow(Lab!Store(j)) > 0 THEN "range" ELSE "send"]
      /\ over' = [over EXCEPT ![j] = Lab!Overflow(Lab!Store(j))]
      /\ wrote' = [wrote EXCEPT ![j] = {}] /\ lost' = [lost EXCEPT ![j] = {}] /\ stale' = stale
      /\ UNCHANGED <<kind, record, deleted, raced, job, mark, content, meta, unsure,
                      littered, notice, faults, deletes, stuck, late>>
  BY DEF Lab!ApiCounts, Lab!Counted, Lab!records, Lab!store, Lab!bounds
<1>2. Types /\ Lab!TypeOK /\ Control(j) /\ RecordGoes(j) /\ ArtifactGoes(j) /\ NoticeGoes(j)
  BY Facts
<1>3. Types'
  <2>1. Lab!Overflow(Lab!Store(j)) \in Nat
    BY <1>2, CountTypes, OverflowIs
  <2> QED
    BY <1>1, <1>2, <2>1 DEF Types, Lab!TypeOK, Lab!Statuses
<1>4. job[j] = "none" /\ mark[j] = "running" /\ kind[j] # "beat"
  BY <1>1, <1>2, JobsAssumption DEF Control, Before
<1>5. JobInv(j)'
  <2>1. api'[j] \in {"range", "send"}
    BY <1>1, <1>2, <1>4 DEF Lab!TypeOK
  <2>2. Control(j)'
    BY <1>1, <1>2, <1>4, <2>1, JobsAssumption DEF Control, Lab!Created, Before, First
  <2>3. RecordGoes(j)'
    BY <1>1, <1>2, <1>4, <2>1, JobsAssumption DEF Control, RecordGoes, Before, Lab!TypeOK, Lab!Statuses
  <2>4. ArtifactGoes(j)'
    BY <1>1, <1>2, <1>4, <2>1, JobsAssumption DEF Control, RecordGoes, ArtifactGoes, Lab!Retrains,
       Before
  <2>5. NoticeGoes(j)'
    BY <1>1, <1>2, <1>4, <2>1, JobsAssumption DEF Control, ArtifactGoes, NoticeGoes, Lab!Retrains
  <2> QED
    BY <2>2, <2>3, <2>4, <2>5 DEF JobInv
<1>6. /\ Moves(j) /\ Lab!Trims(j) /\ ~Lab!Evicting(j)
      /\ IF Lab!Overflow(Lab!Store(j)) > 0 THEN Lab!Evicting(j)' /\ Ranging(j)' ELSE ~Lab!Trims(j)'
  <2>1. Lab!Overflow(Lab!Store(j)) \in Nat
    BY <1>2, CountTypes, OverflowIs
  <2> QED
    BY <1>1, <1>2, <1>4, <2>1 DEF Moves, Lab!Trims, Lab!Evicting, Ranging, Lab!TypeOK, Lab!Jobs
<1>7. CountsAreExact'
  BY <1>1, <1>3, <1>6, CountsCounted DEF Lab!ApiCounts
<1>8. \A k \in Lab!Jobs \ {j} : Stays(k)
  BY <1>1, <1>2 DEF Stays, Lab!TypeOK
<1> QED
  BY <1>1, <1>3, <1>5, <1>7, <1>8, OneJob

\* It reads which are the oldest.
LEMMA ApiRangesKeeps ==
    ASSUME JobsInv, NEW j \in Lab!Jobs, Lab!ApiRanges(j) PROVE JobsInv'
<1>1. /\ api[j] = "range"
      /\ api' = [api EXCEPT ![j] = IF stale'[j] = {} THEN "send" ELSE "evict"]
      /\ stale' = [stale EXCEPT ![j] = Lab!OldestOf(Rec(j), over[j])]
      /\ UNCHANGED <<kind, record, deleted, raced, job, mark, over, wrote, lost, content, meta,
                      unsure, littered, notice, faults, deletes, stuck, late>>
  BY DEF Lab!ApiRanges, Lab!Ranged, Rec, Lab!records, Lab!store, Lab!bounds
<1>2. Types /\ Lab!TypeOK /\ Control(j) /\ RecordGoes(j) /\ ArtifactGoes(j) /\ NoticeGoes(j)
  BY Facts
<1>3. Types'
  <2>1. Lab!OldestOf(Rec(j), over[j]) \in SUBSET Lab!Jobs
    BY <1>2, CountTypes DEF Lab!OldestOf
  <2> QED
    BY <1>1, <1>2, <2>1 DEF Types, Lab!TypeOK, Lab!Statuses
<1>4. job[j] = "none" /\ mark[j] = "running" /\ kind[j] # "beat"
  BY <1>1, <1>2, JobsAssumption DEF Control, Before
<1>5. JobInv(j)'
  <2>1. api'[j] \in {"evict", "send"}
    BY <1>1, <1>2, <1>4 DEF Lab!TypeOK
  <2>2. Control(j)'
    BY <1>1, <1>2, <1>4, <2>1, JobsAssumption DEF Control, Lab!Created, Before, First
  <2>3. RecordGoes(j)'
    BY <1>1, <1>2, <1>4, <2>1, JobsAssumption DEF Control, RecordGoes, Before, Lab!TypeOK, Lab!Statuses
  <2>4. ArtifactGoes(j)'
    BY <1>1, <1>2, <1>4, <2>1, JobsAssumption DEF Control, RecordGoes, ArtifactGoes, Lab!Retrains,
       Before
  <2>5. NoticeGoes(j)'
    BY <1>1, <1>2, <1>4, <2>1, JobsAssumption DEF Control, ArtifactGoes, NoticeGoes, Lab!Retrains
  <2> QED
    BY <2>2, <2>3, <2>4, <2>5 DEF JobInv
<1>6. /\ Moves(j) /\ Lab!Evicting(j) /\ Ranging(j)
      /\ IF stale'[j] = {} THEN ~Lab!Trims(j)' ELSE Lab!Evicting(j)' /\ ~Ranging(j)'
  BY <1>1, <1>2, <1>4 DEF Moves, Lab!Trims, Lab!Evicting, Ranging, Lab!TypeOK, Lab!Jobs
<1>7. CountsAreExact'
  BY <1>1, <1>3, <1>6, CountsRanged DEF Lab!ApiRanges
<1>8. \A k \in Lab!Jobs \ {j} : Stays(k)
  BY <1>1, <1>2 DEF Stays, Lab!TypeOK
<1> QED
  BY <1>1, <1>3, <1>5, <1>7, <1>8, OneJob

\* It deletes those.
LEMMA ApiEvictsKeeps ==
    ASSUME JobsInv, NEW j \in Lab!Jobs, Lab!ApiEvicts(j) PROVE JobsInv' /\ Oldest(j)
<1>1. /\ api[j] = "evict" /\ api' = [api EXCEPT ![j] = "send"]
      /\ record' = [k \in Lab!Jobs |-> IF k \in stale[j] THEN None ELSE record[k]]
      /\ lost' = [k \in Lab!Jobs |-> IF Lab!Evicting(k) /\ Lab!Store(k) = Lab!Store(j)
                                     THEN lost[k] \cup (stale[j] \cap Lab!Recorded(Lab!Store(j)))
                                     ELSE lost[k]]
      /\ over' = [over EXCEPT ![j] = 0] /\ stale' = [stale EXCEPT ![j] = {}]
      /\ wrote' = [wrote EXCEPT ![j] = {}]
      /\ UNCHANGED <<kind, deleted, raced, job, mark, content, meta, unsure, littered, notice,
                      faults, deletes, stuck, late>>
  BY DEF Lab!ApiEvicts, Lab!Evicted, Lab!Removed, Lab!store, Lab!bounds
<1>2. Types /\ Lab!TypeOK /\ Control(j) /\ RecordGoes(j) /\ ArtifactGoes(j) /\ NoticeGoes(j)
  BY Facts
<1>3. Types'
  <2>1. lost' \in [Lab!Jobs -> SUBSET Lab!Jobs]
    BY <1>1, <1>2 DEF Types, Lab!Recorded
  <2>2. record' \in [Lab!Jobs -> Lab!Statuses \cup {None}]
    BY <1>1, <1>2 DEF Lab!TypeOK
  <2> QED
    BY <1>1, <1>2, <2>1, <2>2 DEF Types, Lab!TypeOK, Lab!Statuses
<1>4. job[j] = "none" /\ mark[j] = "running" /\ kind[j] # "beat"
  BY <1>1, <1>2, JobsAssumption DEF Control, Before
<1>5. JobInv(j)'
  <2>1. api'[j] = "send" /\ record'[j] \in {record[j], None}
    BY <1>1, <1>2, <1>4 DEF Lab!TypeOK
  <2>2. Control(j)'
    BY <1>1, <1>2, <1>4, <2>1, JobsAssumption DEF Control, Lab!Created, Before, First
  <2>3. RecordGoes(j)'
    BY <1>1, <1>2, <1>4, <2>1, JobsAssumption DEF Control, RecordGoes, Before, Lab!TypeOK, Lab!Statuses
  <2>4. ArtifactGoes(j)'
    BY <1>1, <1>2, <1>4, <2>1, JobsAssumption DEF Control, RecordGoes, ArtifactGoes, Lab!Retrains,
       Before
  <2>5. NoticeGoes(j)'
    BY <1>1, <1>2, <1>4, <2>1, JobsAssumption DEF Control, ArtifactGoes, NoticeGoes, Lab!Retrains
  <2> QED
    BY <2>2, <2>3, <2>4, <2>5 DEF JobInv
<1>6. Moves(j) /\ Lab!Evicting(j) /\ ~Ranging(j) /\ ~Lab!Trims(j)'
  BY <1>1, <1>2, <1>4 DEF Moves, Lab!Trims, Lab!Evicting, Ranging, Lab!TypeOK, Lab!Jobs
<1>7. CountsAreExact' /\ Oldest(j)
  BY <1>1, <1>3, <1>6, CountsEvicted DEF Lab!ApiEvicts
<1>8. \A k \in Lab!Jobs \ {j} : Stays(k)
  BY <1>1, <1>2 DEF Stays, Lab!TypeOK
<1> QED
  BY <1>1, <1>3, <1>5, <1>7, <1>8, OneJob

\* The task counts the records after each of its writes.
LEMMA TaskCountsKeeps ==
    ASSUME JobsInv, NEW j \in Lab!Jobs, Lab!TaskCounts(j) PROVE JobsInv'
<1>1. /\ job[j] \in {"count", "first_count"}
      /\ job' = [job EXCEPT ![j] =
           IF Lab!Overflow(Lab!Store(j)) = 0 THEN IF job[j] = "count" THEN "marked" ELSE "get"
           ELSE IF job[j] = "count" THEN "range" ELSE "first_range"]
      /\ over' = [over EXCEPT ![j] = Lab!Overflow(Lab!Store(j))]
      /\ wrote' = [wrote EXCEPT ![j] = {}] /\ lost' = [lost EXCEPT ![j] = {}] /\ stale' = stale
      /\ UNCHANGED <<kind, record, deleted, raced, api, mark, content, meta, unsure,
                      littered, notice, faults, deletes, stuck, late>>
  BY DEF Lab!TaskCounts, Lab!Counted, Lab!records, Lab!store, Lab!bounds, Lab!AfterTrim, Lab!First
<1>2. Types /\ Lab!TypeOK /\ Control(j) /\ RecordGoes(j) /\ ArtifactGoes(j) /\ NoticeGoes(j)
  BY Facts
<1>3. Types'
  <2>1. Lab!Overflow(Lab!Store(j)) \in Nat
    BY <1>2, CountTypes, OverflowIs
  <2> QED
    BY <1>1, <1>2, <2>1 DEF Types, Lab!TypeOK, Lab!Statuses
<1>4. api[j] \notin {"count", "range", "evict", "send"}
  BY <1>1, <1>2, JobsAssumption DEF Control
<1>5. JobInv(j)'
  <2>1. job'[j] \in IF job[j] = "count" THEN {"range", "marked"} ELSE {"first_range", "get"}
    BY <1>1, <1>2, <1>4 DEF Lab!TypeOK
  <2>2. Control(j)'
    BY <1>1, <1>2, <1>4, <2>1, JobsAssumption DEF Control, Lab!Created, Before, First
  <2>3. RecordGoes(j)'
    BY <1>1, <1>2, <1>4, <2>1, JobsAssumption DEF Control, RecordGoes, Before, Lab!TypeOK, Lab!Statuses
  <2>4. ArtifactGoes(j)'
    BY <1>1, <1>2, <1>4, <2>1, JobsAssumption DEF Control, RecordGoes, ArtifactGoes, Lab!Retrains,
       Before
  <2>5. NoticeGoes(j)'
    BY <1>1, <1>2, <1>4, <2>1, JobsAssumption DEF Control, ArtifactGoes, NoticeGoes, Lab!Retrains
  <2> QED
    BY <2>2, <2>3, <2>4, <2>5 DEF JobInv
<1>6. /\ Moves(j) /\ Lab!Trims(j) /\ ~Lab!Evicting(j)
      /\ IF Lab!Overflow(Lab!Store(j)) > 0 THEN Lab!Evicting(j)' /\ Ranging(j)' ELSE ~Lab!Trims(j)'
  <2>1. Lab!Overflow(Lab!Store(j)) \in Nat
    BY <1>2, CountTypes, OverflowIs
  <2> QED
    BY <1>1, <1>2, <1>4, <2>1 DEF Moves, Lab!Trims, Lab!Evicting, Ranging, Lab!TypeOK, Lab!Jobs
<1>7. CountsAreExact'
  BY <1>1, <1>3, <1>6, CountsCounted DEF Lab!TaskCounts
<1>8. \A k \in Lab!Jobs \ {j} : Stays(k)
  BY <1>1, <1>2 DEF Stays, Lab!TypeOK
<1> QED
  BY <1>1, <1>3, <1>5, <1>7, <1>8, OneJob

\* It reads which are the oldest.
LEMMA TaskRangesKeeps ==
    ASSUME JobsInv, NEW j \in Lab!Jobs, Lab!TaskRanges(j) PROVE JobsInv'
<1>1. /\ job[j] \in {"range", "first_range"}
      /\ job' = [job EXCEPT ![j] =
           IF stale'[j] = {} THEN IF job[j] = "range" THEN "marked" ELSE "get"
           ELSE IF job[j] = "range" THEN "evict" ELSE "first_evict"]
      /\ stale' = [stale EXCEPT ![j] = Lab!OldestOf(Rec(j), over[j])]
      /\ UNCHANGED <<kind, record, deleted, raced, api, mark, over, wrote, lost, content, meta,
                      unsure, littered, notice, faults, deletes, stuck, late>>
  BY DEF Lab!TaskRanges, Lab!Ranged, Rec, Lab!records, Lab!store, Lab!bounds, Lab!AfterTrim, Lab!First
<1>2. Types /\ Lab!TypeOK /\ Control(j) /\ RecordGoes(j) /\ ArtifactGoes(j) /\ NoticeGoes(j)
  BY Facts
<1>3. Types'
  <2>1. Lab!OldestOf(Rec(j), over[j]) \in SUBSET Lab!Jobs
    BY <1>2, CountTypes DEF Lab!OldestOf
  <2> QED
    BY <1>1, <1>2, <2>1 DEF Types, Lab!TypeOK, Lab!Statuses
<1>4. api[j] \notin {"count", "range", "evict", "send"}
  BY <1>1, <1>2, JobsAssumption DEF Control
<1>5. JobInv(j)'
  <2>1. job'[j] \in IF job[j] = "range" THEN {"evict", "marked"} ELSE {"first_evict", "get"}
    BY <1>1, <1>2, <1>4 DEF Lab!TypeOK
  <2>2. Control(j)'
    BY <1>1, <1>2, <1>4, <2>1, JobsAssumption DEF Control, Lab!Created, Before, First
  <2>3. RecordGoes(j)'
    BY <1>1, <1>2, <1>4, <2>1, JobsAssumption DEF Control, RecordGoes, Before, Lab!TypeOK, Lab!Statuses
  <2>4. ArtifactGoes(j)'
    BY <1>1, <1>2, <1>4, <2>1, JobsAssumption DEF Control, RecordGoes, ArtifactGoes, Lab!Retrains,
       Before
  <2>5. NoticeGoes(j)'
    BY <1>1, <1>2, <1>4, <2>1, JobsAssumption DEF Control, ArtifactGoes, NoticeGoes, Lab!Retrains
  <2> QED
    BY <2>2, <2>3, <2>4, <2>5 DEF JobInv
<1>6. /\ Moves(j) /\ Lab!Evicting(j) /\ Ranging(j)
      /\ IF stale'[j] = {} THEN ~Lab!Trims(j)' ELSE Lab!Evicting(j)' /\ ~Ranging(j)'
  BY <1>1, <1>2, <1>4 DEF Moves, Lab!Trims, Lab!Evicting, Ranging, Lab!TypeOK, Lab!Jobs
<1>7. CountsAreExact'
  BY <1>1, <1>3, <1>6, CountsRanged DEF Lab!TaskRanges
<1>8. \A k \in Lab!Jobs \ {j} : Stays(k)
  BY <1>1, <1>2 DEF Stays, Lab!TypeOK
<1> QED
  BY <1>1, <1>3, <1>5, <1>7, <1>8, OneJob

\* It deletes those.
LEMMA TaskEvictsKeeps ==
    ASSUME JobsInv, NEW j \in Lab!Jobs, Lab!TaskEvicts(j) PROVE JobsInv' /\ Oldest(j)
<1>1. /\ job[j] \in {"evict", "first_evict"}
      /\ job' = [job EXCEPT ![j] = IF job[j] = "evict" THEN "marked" ELSE "get"]
      /\ record' = [k \in Lab!Jobs |-> IF k \in stale[j] THEN None ELSE record[k]]
      /\ lost' = [k \in Lab!Jobs |-> IF Lab!Evicting(k) /\ Lab!Store(k) = Lab!Store(j)
                                     THEN lost[k] \cup (stale[j] \cap Lab!Recorded(Lab!Store(j)))
                                     ELSE lost[k]]
      /\ over' = [over EXCEPT ![j] = 0] /\ stale' = [stale EXCEPT ![j] = {}]
      /\ wrote' = [wrote EXCEPT ![j] = {}]
      /\ UNCHANGED <<kind, deleted, raced, api, mark, content, meta, unsure, littered, notice,
                      faults, deletes, stuck, late>>
  BY DEF Lab!TaskEvicts, Lab!Evicted, Lab!Removed, Lab!store, Lab!bounds, Lab!AfterTrim, Lab!First
<1>2. Types /\ Lab!TypeOK /\ Control(j) /\ RecordGoes(j) /\ ArtifactGoes(j) /\ NoticeGoes(j)
  BY Facts
<1>3. Types'
  <2>1. lost' \in [Lab!Jobs -> SUBSET Lab!Jobs]
    BY <1>1, <1>2 DEF Types, Lab!Recorded
  <2>2. record' \in [Lab!Jobs -> Lab!Statuses \cup {None}]
    BY <1>1, <1>2 DEF Lab!TypeOK
  <2> QED
    BY <1>1, <1>2, <2>1, <2>2 DEF Types, Lab!TypeOK, Lab!Statuses
<1>4. api[j] \notin {"count", "range", "evict", "send"}
  BY <1>1, <1>2, JobsAssumption DEF Control
<1>5. JobInv(j)'
  <2>1. job'[j] = (IF job[j] = "evict" THEN "marked" ELSE "get") /\ record'[j] \in {record[j], None}
    BY <1>1, <1>2, <1>4 DEF Lab!TypeOK
  <2>2. Control(j)'
    BY <1>1, <1>2, <1>4, <2>1, JobsAssumption DEF Control, Lab!Created, Before, First
  <2>3. RecordGoes(j)'
    BY <1>1, <1>2, <1>4, <2>1, JobsAssumption DEF Control, RecordGoes, Before, Lab!TypeOK, Lab!Statuses
  <2>4. ArtifactGoes(j)'
    BY <1>1, <1>2, <1>4, <2>1, JobsAssumption DEF Control, RecordGoes, ArtifactGoes, Lab!Retrains,
       Before
  <2>5. NoticeGoes(j)'
    BY <1>1, <1>2, <1>4, <2>1, JobsAssumption DEF Control, ArtifactGoes, NoticeGoes, Lab!Retrains
  <2> QED
    BY <2>2, <2>3, <2>4, <2>5 DEF JobInv
<1>6. Moves(j) /\ Lab!Evicting(j) /\ ~Ranging(j) /\ ~Lab!Trims(j)'
  BY <1>1, <1>2, <1>4 DEF Moves, Lab!Trims, Lab!Evicting, Ranging, Lab!TypeOK, Lab!Jobs
<1>7. CountsAreExact' /\ Oldest(j)
  BY <1>1, <1>3, <1>6, CountsEvicted DEF Lab!TaskEvicts
<1>8. \A k \in Lab!Jobs \ {j} : Stays(k)
  BY <1>1, <1>2 DEF Stays, Lab!TypeOK
<1> QED
  BY <1>1, <1>3, <1>5, <1>7, <1>8, OneJob

\* The work is done: there is something to store, or nothing, or an error.
LEMMA WorksKeeps == ASSUME JobsInv, NEW j \in Lab!Jobs, Lab!Works(j) PROVE JobsInv'
<1>1. /\ job[j] = "work"
      /\ \/ kind[j] # "drift" /\ job' = [job EXCEPT ![j] = "write"] /\ mark' = mark
         \/ /\ kind[j] \in {"drift", "loop"}
            /\ job' = [job EXCEPT ![j] = "get"] /\ mark' = [mark EXCEPT ![j] = "done"]
         \/ job' = [job EXCEPT ![j] = "get"] /\ mark' = [mark EXCEPT ![j] = "error"]
      /\ UNCHANGED <<kind, record, deleted, raced, api, over, stale, wrote, lost, content, meta, unsure,
                      littered, notice, faults, deletes, stuck, late>>
  BY DEF Lab!Works, Lab!Proceeds, Lab!records, Lab!store, Lab!bounds, Lab!eviction
<1>2. Types /\ Lab!TypeOK /\ Control(j) /\ RecordGoes(j) /\ ArtifactGoes(j) /\ NoticeGoes(j)
  BY Facts
<1>3. Types'
  BY <1>1, <1>2 DEF Types, Lab!TypeOK, Lab!Statuses
<1>5. JobInv(j)'
  <2>1. \/ job'[j] = "write" /\ mark'[j] = mark[j] /\ kind[j] # "drift"
        \/ job'[j] = "get" /\ mark'[j] = "done" /\ kind[j] \in {"drift", "loop"}
        \/ job'[j] = "get" /\ mark'[j] = "error"
    BY <1>1, <1>2 DEF Lab!TypeOK
  <2>2. Control(j)'
    BY <1>1, <1>2, <2>1, JobsAssumption DEF Control, Lab!Created, Before, First, Lab!Retrains
  <2>3. RecordGoes(j)'
    BY <1>1, <1>2, <2>1, JobsAssumption DEF Control, RecordGoes, Before, Lab!TypeOK, Lab!Statuses,
       Lab!Retrains
  <2>4. ArtifactGoes(j)'
    BY <1>1, <1>2, <2>1, JobsAssumption DEF Control, RecordGoes, ArtifactGoes, Lab!Retrains,
       Before, Lab!Retrains
  <2>5. NoticeGoes(j)'
    BY <1>1, <1>2, <2>1, JobsAssumption DEF Control, ArtifactGoes, NoticeGoes, Lab!Retrains,
       Lab!Retrains
  <2> QED
    BY <2>2, <2>3, <2>4, <2>5 DEF JobInv
<1>6. /\ Moves(j) /\ (Lab!Trims(j)' <=> Lab!Trims(j))
      /\ Lab!Evicting(j)' => Lab!Evicting(j) /\ (Ranging(j)' <=> Ranging(j))
  BY <1>1, <1>2 DEF Moves, Lab!Trims, Lab!Evicting, Ranging, Lab!TypeOK, Lab!Jobs, Control
<1>7. CountsAreExact'
  BY <1>1, <1>3, <1>6, CountsAlone
<1>8. \A k \in Lab!Jobs \ {j} : Stays(k)
  BY <1>1, <1>2 DEF Stays, Lab!TypeOK
<1> QED
  BY <1>1, <1>3, <1>5, <1>7, <1>8, OneJob

\* The error is marked; when that fails too it is told.
LEMMA MarkFailsKeeps == ASSUME JobsInv, NEW j \in Lab!Jobs, Lab!MarkFails(j) PROVE JobsInv'
<1>1. /\ job[j] \in {"get", "save", "count", "range", "evict", "first_count", "first_range", "first_evict"}
      /\ faults < MaxFaults /\ faults' = faults + 1
      /\ \/ /\ mark[j] # "error" /\ notice' = notice /\ stuck' = stuck
            /\ mark' = [mark EXCEPT ![j] = "error"] /\ job' = [job EXCEPT ![j] = "get"]
         \/ /\ mark[j] = "error" /\ mark' = mark /\ stuck' = stuck \cup {j}
            /\ job' = [job EXCEPT ![j] = "ended"]
            /\ notice' = IF Lab!Retrains(j) THEN [notice EXCEPT ![j] = "failed"] ELSE notice
      /\ late' = IF mark[j] = "done" /\ j \in meta THEN late \cup {j} ELSE late
      /\ UNCHANGED <<kind, record, deleted, raced, api, over, stale, wrote, lost, content, meta, unsure,
                      littered, deletes>>
  BY DEF Lab!MarkFails, Lab!First, First, Lab!Faulty, Lab!FailureGoes, Lab!Proceeds, Lab!Outcome,
         Lab!records, Lab!store, Lab!eviction
<1>2. Types /\ Lab!TypeOK /\ Control(j) /\ RecordGoes(j) /\ ArtifactGoes(j) /\ NoticeGoes(j)
  BY Facts
<1>3. Types'
  <2>1. faults' \in 0..MaxFaults
    BY <1>1, <1>2, JobsAssumption DEF Lab!TypeOK
  <2> QED
    BY <1>1, <1>2, <2>1 DEF Types, Lab!TypeOK, Lab!Statuses
<1>4. api[j] \notin {"count", "range", "evict", "send"}
  BY <1>1, <1>2, JobsAssumption DEF Control
<1>5. JobInv(j)'
  <2>1. \/ /\ job'[j] = "get" /\ mark[j] # "error" /\ mark'[j] = "error"
           /\ notice'[j] = notice[j]
        \/ /\ job'[j] = "ended" /\ mark[j] = "error" /\ mark'[j] = "error" /\ j \in stuck'
           /\ notice'[j] = IF Lab!Retrains(j) THEN "failed" ELSE notice[j]
    BY <1>1, <1>2, <1>4 DEF Lab!TypeOK
  <2>2. Control(j)'
    BY <1>1, <1>2, <1>4, <2>1, JobsAssumption DEF Control, Lab!Created, Before, First
  <2>3. RecordGoes(j)'
    BY <1>1, <1>2, <1>4, <2>1, JobsAssumption DEF Control, RecordGoes, Before, Lab!TypeOK, Lab!Statuses
  <2>4. ArtifactGoes(j)'
    BY <1>1, <1>2, <1>4, <2>1, JobsAssumption DEF Control, RecordGoes, ArtifactGoes, Lab!Retrains,
       Before
  <2>5. NoticeGoes(j)'
    BY <1>1, <1>2, <1>4, <2>1, JobsAssumption DEF Control, ArtifactGoes, NoticeGoes, Lab!Retrains
  <2> QED
    BY <2>2, <2>3, <2>4, <2>5 DEF JobInv
<1>6. /\ Moves(j)
      /\ \/ /\ Lab!Trims(j)' <=> Lab!Trims(j)
            /\ Lab!Evicting(j)' => Lab!Evicting(j) /\ (Ranging(j)' <=> Ranging(j))
         \/ ~Lab!Trims(j)'
  BY <1>1, <1>2, <1>4 DEF Moves, Lab!Trims, Lab!Evicting, Ranging, Lab!TypeOK, Lab!Jobs, Control
<1>7. CountsAreExact'
  BY <1>1, <1>3, <1>6, CountsAlone
<1>8. \A k \in Lab!Jobs \ {j} : Stays(k)
  BY <1>1, <1>2 DEF Stays, Lab!TypeOK
<1> QED
  BY <1>1, <1>3, <1>5, <1>7, <1>8, OneJob

-----------------------------------------------------------------------------
(* Every step, and what follows.                                            *)

LEMMA JobsStart == Lab!Init => JobsInv
<1> SUFFICES ASSUME Lab!Init PROVE JobsInv
  OBVIOUS
<1>1. /\ kind \in Kinds /\ record = [j \in Lab!Jobs |-> None]
      /\ api = [j \in Lab!Jobs |-> "idle"] /\ job = [j \in Lab!Jobs |-> "none"]
      /\ mark = [j \in Lab!Jobs |-> "running"]
      /\ over = [j \in Lab!Jobs |-> 0] /\ stale = [j \in Lab!Jobs |-> {}]
      /\ wrote = [j \in Lab!Jobs |-> {}] /\ lost = [j \in Lab!Jobs |-> {}]
      /\ content = {} /\ meta = {} /\ notice = [j \in Lab!Jobs |-> None]
      /\ faults = 0 /\ deletes = 0 /\ deleted = {} /\ raced = {}
      /\ stuck = {} /\ late = {} /\ unsure = {} /\ littered = {}
  BY DEF Lab!Init
<1>2. Types
  <2>1. kind \in [Lab!Jobs -> Kind]
    BY <1>1, JobsAssumption DEF Lab!Jobs, Kind
  <2>2. faults \in 0..MaxFaults /\ deletes \in 0..MaxDeletes
    BY <1>1, JobsAssumption
  <2> QED
    BY <1>1, <2>1, <2>2 DEF Types, Lab!TypeOK, Lab!Statuses
<1>3. \A s : Lab!Recorded(s) = {} /\ Lab!Trimming(s) = {}
  BY <1>1 DEF Lab!Recorded, Lab!Trimming, Lab!Trims, Lab!Evicting
<1>4. RecordsBound
  <2>1. \A s : Cardinality(Lab!Recorded(s)) = 0 /\ Cardinality(Lab!Trimming(s)) = 0
    BY <1>3, FS_EmptySet
  <2>2. \A s : Lab!Capacity(s) \in Nat
    BY <1>2, CountTypes
  <2> QED
    BY <1>1, <2>1, <2>2 DEF RecordsBound
<1>5. CountsAreExact
  BY <1>1, <1>4 DEF CountsAreExact, EvictionGoes, Lab!Evicting
<1>6. ASSUME NEW j \in Lab!Jobs PROVE JobInv(j)
  <2>1. /\ api[j] = "idle" /\ job[j] = "none" /\ mark[j] = "running"
        /\ record[j] = None /\ notice[j] = None
    BY <1>1
  <2>2. Control(j) /\ RecordGoes(j)
    BY <1>1, <2>1, JobsAssumption DEF Control, Lab!Created, RecordGoes
  <2>3. ArtifactGoes(j) /\ NoticeGoes(j)
    BY <1>1, <2>1, JobsAssumption DEF ArtifactGoes, NoticeGoes
  <2> QED
    BY <2>2, <2>3 DEF JobInv
<1> QED
  BY <1>2, <1>5, <1>6 DEF JobsInv

LEMMA JobsStutter == JobsInv /\ UNCHANGED Lab!vars => JobsInv'
<1> SUFFICES ASSUME JobsInv, UNCHANGED Lab!vars PROVE JobsInv'
  OBVIOUS
<1>1. UNCHANGED <<kind, record, deleted, raced, api, job, mark, over, stale, wrote, lost, content, meta,
                  unsure, littered, notice, faults, deletes, stuck, late>>
  BY DEF Lab!vars, Lab!records, Lab!clients, Lab!eviction, Lab!store, Lab!bounds
<1>2. Types'
  BY <1>1 DEF JobsInv, Types, Lab!TypeOK, Lab!Jobs, Lab!Statuses
<1>3. CountsAreExact'
  <2>1. \A s : /\ Lab!Recorded(s)' = Lab!Recorded(s) /\ Lab!Trimming(s)' = Lab!Trimming(s)
               /\ Lab!Capacity(s)' = Lab!Capacity(s)
    BY <1>1 DEF Lab!Recorded, Lab!Trimming, Lab!Trims, Lab!Evicting, Lab!Jobs, Lab!Store, Lab!Capacity
  <2>2. RecordsBound'
    BY <1>1, <2>1 DEF JobsInv, CountsAreExact, RecordsBound, Lab!Stores
  <2>3. ASSUME NEW j \in Lab!Jobs, Lab!Evicting(j)' PROVE EvictionGoes(j)'
    <3>1. Lab!Evicting(j) /\ EvictionGoes(j) /\ (\A k : Lab!Evicting(k)' <=> Lab!Evicting(k))
          /\ (Ranging(j)' <=> Ranging(j)) /\ \A k : Lab!Store(k)' = Lab!Store(k)
      BY <1>1, <2>3 DEF JobsInv, CountsAreExact, Lab!Evicting, Ranging, Lab!Store
    <3>2. Rec(j)' = Rec(j) /\ Cap(j)' = Cap(j) /\ Open(j)' = Open(j)
      BY <1>1, <2>1, <3>1 DEF Rec, Cap, Open
    <3>3. Full(j)' = Full(j) /\ Rest(j)' = Rest(j)
      BY <1>1, <3>1, <3>2 DEF Full, Rest
    <3> QED
      BY <1>1, <3>1, <3>2, <3>3 DEF EvictionGoes
  <2> QED
    BY <2>2, <2>3 DEF CountsAreExact, EvictionGoes, Lab!Jobs
<1>4. ASSUME NEW j \in Lab!Jobs PROVE JobInv(j)'
  <2>1. Stays(j)
    BY <1>1 DEF Stays
  <2> QED
    BY <1>1, <2>1, StaysTrue
<1>5. Lab!Jobs' = Lab!Jobs
  BY DEF Lab!Jobs
<1> QED
  BY <1>2, <1>3, <1>4, <1>5 DEF JobsInv

LEMMA JobsStep == JobsInv /\ [Lab!Next]_(Lab!vars) => JobsInv'
<1> SUFFICES ASSUME JobsInv, [Lab!Next]_(Lab!vars) PROVE JobsInv'
  OBVIOUS
<1>1. CASE UNCHANGED Lab!vars
  BY <1>1, JobsStutter
<1>2. ASSUME NEW j \in Lab!Jobs, Lab!Request(j) PROVE JobsInv'
  BY <1>2, SubmitKeeps, ApiCountsKeeps, ApiRangesKeeps, ApiEvictsKeeps, SendsKeeps, SendFailsKeeps, UndoesKeeps,
     ApiFailsKeeps DEF Lab!Request
<1>3. ASSUME NEW j \in Lab!Jobs, Lab!Task(j) PROVE JobsInv'
  BY <1>3, TakesKeeps, GetsKeeps, SavesKeeps, TaskCountsKeeps, TaskRangesKeeps, TaskEvictsKeeps, MarkedKeeps,
     WorksKeeps, WritesKeeps, CommitsKeeps, RollsBackKeeps DEF Lab!Task
<1>4. ASSUME NEW j \in Lab!Jobs, Lab!Fault(j) PROVE JobsInv'
  BY <1>4, WriteFailsKeeps, CommitFailsKeeps, RollbackFailsKeeps, MarkFailsKeeps,
     KilledKeeps DEF Lab!Fault
<1>5. ASSUME NEW j \in Lab!Jobs, Lab!Ticks(j) \/ Lab!DeletesRecord(j) \/ Lab!DeletesArtifact(j)
      PROVE  JobsInv'
  BY <1>5, TicksKeeps, DeletesRecordKeeps, DeletesArtifactKeeps
<1> QED
  BY <1>1, <1>2, <1>3, <1>4, <1>5 DEF Lab!Next

LEMMA JobsImply ==
    JobsInv => Lab!ArtifactsMatchRecords /\ Lab!TypeOK /\ Lab!NoneIsLeftHanging /\ Lab!EndsAreTold
               /\ Lab!DeletedStaysDeleted /\ Lab!RecordsAreBounded
<1> SUFFICES ASSUME JobsInv
             PROVE  Lab!ArtifactsMatchRecords /\ Lab!TypeOK /\ Lab!NoneIsLeftHanging /\ Lab!EndsAreTold
                    /\ Lab!DeletedStaysDeleted /\ Lab!RecordsAreBounded
  OBVIOUS
<1>1. ASSUME NEW j \in Lab!Jobs
      PROVE Types /\ Lab!TypeOK /\ Control(j) /\ RecordGoes(j) /\ ArtifactGoes(j) /\ NoticeGoes(j)
  BY Facts
<1>2. Lab!NoneIsLeftHanging
  BY <1>1, JobsAssumption DEF Lab!NoneIsLeftHanging, Lab!Over, Control, RecordGoes, Lab!Created
<1>3. Lab!EndsAreTold
  BY <1>1, JobsAssumption DEF Lab!EndsAreTold, NoticeGoes, ArtifactGoes
<1>4. Lab!TypeOK /\ Lab!RecordsAreBounded
  BY SameSize DEF JobsInv, CountsAreExact, Types, RecordsBound, Lab!RecordsAreBounded
<1>5. Lab!DeletedStaysDeleted
  <2>1. deleted \subseteq Lab!Jobs
    BY DEF JobsInv, Types
  <2> QED
    BY <1>1, <2>1 DEF Lab!DeletedStaysDeleted, RecordGoes
<1>6. Lab!DoneHasItsModel
  BY <1>1 DEF Lab!DoneHasItsModel, ArtifactGoes
<1>7. Lab!FailureLeavesNoModel
  BY <1>1, JobsAssumption DEF Lab!FailureLeavesNoModel, ArtifactGoes, NoticeGoes
<1>8. Lab!ArtifactsAreWhole
  BY <1>1, <1>4 DEF Lab!ArtifactsAreWhole, ArtifactGoes, Lab!Over, Lab!TypeOK
<1> QED
  BY <1>2, <1>3, <1>4, <1>5, <1>6, <1>7, <1>8 DEF Lab!ArtifactsMatchRecords

-----------------------------------------------------------------------------
(* The jobs as one side of the tasks.                                       *)

LEMMA TasksStart == TasksInit => JobsInv
BY JobsStart DEF TasksInit

LEMMA TasksStep == JobsInv /\ [TasksNext]_<<side, vars, labVars>> => JobsInv'
<1> SUFFICES ASSUME JobsInv, [TasksNext]_<<side, vars, labVars>> PROVE JobsInv'
  OBVIOUS
<1>1. CASE Lab!Next
  BY <1>1, JobsStep
<1>2. CASE UNCHANGED labVars
  <2>1. UNCHANGED Lab!vars
    BY <1>2 DEF labVars, Lab!vars, Lab!records, Lab!clients, Lab!eviction, Lab!store, Lab!bounds
  <2> QED
    BY <2>1, JobsStutter
<1> QED
  BY <1>1, <1>2 DEF TasksNext

\* Records and artifacts agree, for any jobs in any order and whatever fails: "done"
\* has its model, a failure has left none, what is listed can be read (retrain.py).
THEOREM ArtifactsStayMatched == TasksSpec => []ArtifactsMatchRecords
<1>1. JobsInv => ArtifactsMatchRecords
  BY JobsImply DEF ArtifactsMatchRecords
<1> QED
  BY <1>1, TasksStart, TasksStep, PTL DEF TasksSpec

\* An eviction leaves what fits and what came meanwhile, takes what is too much and
\* what others have taken too, and the oldest of those it could read (retrain_store.py).
LEMMA EvictionsTakeTheOldest ==
  ASSUME JobsInv, NEW j \in Lab!Jobs, Lab!ApiEvicts(j) \/ Lab!TaskEvicts(j)
  PROVE  /\ Lab!Cardinality(Lab!Recorded(Lab!Store(j))') <= Lab!Capacity(Lab!Store(j)) + Lab!Cardinality(wrote[j])
         /\ Lab!Cardinality(Lab!Recorded(Lab!Store(j))') >= Lab!Capacity(Lab!Store(j)) - Lab!Cardinality(lost[j])
         /\ \A k \in Lab!Recorded(Lab!Store(j)), l \in Lab!Recorded(Lab!Store(j))' \ wrote[j] :
               record'[k] = None => k < l
BY ApiEvictsKeeps, TaskEvictsKeeps, SameSize DEF Oldest, Rec, Cap

\* The records stay as users rely on them, for any jobs in any order and whatever
\* fails: none is left hanging, every end is told, what was deleted stays deleted,
\* their number is bounded and the oldest make room (retrain_store.py, retrain.py).
THEOREM RecordsStayKept == TasksSpec => RecordsAreKept
<1> DEFINE Kept == Lab!TypeOK /\ Lab!NoneIsLeftHanging /\ Lab!EndsAreTold
                     /\ Lab!DeletedStaysDeleted /\ Lab!RecordsAreBounded
           Eviction == \A j \in Lab!Jobs : Lab!ApiEvicts(j) \/ Lab!TaskEvicts(j) =>
             /\ Lab!Cardinality(Lab!Recorded(Lab!Store(j))') <= Lab!Capacity(Lab!Store(j)) + Lab!Cardinality(wrote[j])
             /\ Lab!Cardinality(Lab!Recorded(Lab!Store(j))') >= Lab!Capacity(Lab!Store(j)) - Lab!Cardinality(lost[j])
             /\ \A k \in Lab!Recorded(Lab!Store(j)), l \in Lab!Recorded(Lab!Store(j))' \ wrote[j] :
                   record'[k] = None => k < l
<1>1. JobsInv => Kept
  BY JobsImply
<1>2. JobsInv /\ [TasksNext]_<<side, vars, labVars>> => [Eviction]_(Lab!vars)
  BY EvictionsTakeTheOldest
<1>3. TasksSpec => [][Eviction]_(Lab!vars)
  <2> HIDE DEF Eviction
  <2> QED
    BY <1>2, TasksStart, TasksStep, PTL DEF TasksSpec
<1>4. TasksSpec => []Kept
  <2> HIDE DEF Kept
  <2> QED
    BY <1>1, TasksStart, TasksStep, PTL DEF TasksSpec
<1> QED
  BY <1>3, <1>4 DEF RecordsAreKept, Lab!RecordsAreKept, Lab!EvictsTheOldest
=============================================================================
