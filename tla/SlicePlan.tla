----------------------------- MODULE SlicePlan -----------------------------
(***************************************************************************)
(* How the algo executor splits a parent order (oms/algos/base.py, twap.py, *)
(* vwap.py, iceberg.py): submit_algo validates a request and plans its     *)
(* slices.  A plan gives slots their quantities; slot i is submitted after *)
(* i - 1 times duration / n, n being the number of slots, and a slot       *)
(* without quantity has no slice.                                          *)
(*                                                                         *)
(* The code computes shares in floating point; here they are exact.        *)
(***************************************************************************)
EXTENDS Integers, FiniteSets, FiniteSetsExt, Functions

CONSTANTS
  SliceTotals,          \* the total_qty asked for
  Counts,          \* the slice_count asked for
  Displays,        \* the display_qty asked for, 0 for none
  MinSlices,       \* MIN_SLICES
  MaxSlices,       \* MAX_SLICES
  MaxTotal,        \* MAX_TOTAL_QTY
  MaxIceberg       \* _MAX_ICEBERG_SLICES

\* Quantities are whole; the limits of the code are 1, 100, 1000000 and 100.
ASSUME SliceAssumption ==
  /\ SliceTotals \subseteq Int /\ Counts \subseteq Int /\ Displays \subseteq Int
  /\ MinSlices \in Nat \ {0} /\ MaxSlices \in Nat \ {0}
  /\ MaxTotal \in Nat /\ MaxIceberg \in Nat \ {0}

VARIABLES
  request,   \* the request: algo_type, total, count, display
  outcome,   \* "none", "refused" (AlgoValidationError) or "planned"
  plan       \* slot -> quantity of its slice

sliceVars == <<request, outcome, plan>>

Requests ==
  [algo : {"twap", "vwap", "iceberg"}, total : SliceTotals, count : Counts, display : Displays]

-----------------------------------------------------------------------------
(* Shares *)

SumOf(f, S) == SumFunctionOnSet(f, S)

CeilDiv(a, b) == (a + b - 1) \div b

\* u_shaped_weights, times 10 (n-1)^2: 1 + 1.6 (2t - 1)^2 at t = (i-1)/(n-1).
UWeights(n) ==
  IF n = 1 THEN [i \in 1 .. 1 |-> 1]
  ELSE [i \in 1 .. n |-> 10 * (n - 1) * (n - 1) + 16 * (2 * i - n - 1) * (2 * i - n - 1)]

\* Mutant: every share is rounded down.
DistributedDown(total, w) ==
  [i \in DOMAIN w |-> (total * w[i]) \div SumOf(w, DOMAIN w)]

\* distribute_qty: shares rounded down, then one unit more to those with the
\* largest remainders, the earlier first among equals.
Distributed(total, w) ==
  LET sum == SumOf(w, DOMAIN w)
      rest(i) == (total * w[i]) % sum
      floors == [i \in DOMAIN w |-> (total * w[i]) \div sum]
      before(i) == {j \in DOMAIN w : rest(j) > rest(i) \/ (rest(j) = rest(i) /\ j < i)}
      left == total - SumOf(floors, DOMAIN w)
  IN [i \in DOMAIN w |-> floors[i] + IF Cardinality(before(i)) < left THEN 1 ELSE 0]

\* The slices of these quantities; empty ones are left out.
Scheduled(qtys) == [i \in {i \in DOMAIN qtys : qtys[i] > 0} |-> qtys[i]]

\* plan_twap, plan_vwap
Twap(total, n) == Scheduled(Distributed(total, [i \in 1 .. n |-> 1]))
Vwap(total, n) == Scheduled(Distributed(total, UWeights(n)))

\* plan_iceberg
Iceberg(total, display) ==
  IF display >= total THEN Scheduled(<<total>>)
  ELSE LET wanted == CeilDiv(total, display)
           n == Min({wanted, MaxIceberg})
           shown == IF wanted > MaxIceberg THEN CeilDiv(total, n) ELSE display
       IN Scheduled([i \in 1 .. n |-> Min({shown, total - (i - 1) * shown})])

-----------------------------------------------------------------------------
SliceInit ==
  /\ request \in Requests
  /\ outcome = "none"
  /\ plan = <<>>

\* _validate: the slice count is clamped to the limits.
Clamped == Min({Max({request.count, MinSlices}), MaxSlices})

ValidRequest ==
  /\ request.total \in 1 .. MaxTotal
  /\ request.algo = "iceberg" => request.display > 0

RefusePlan ==
  /\ outcome = "none"
  /\ ~ValidRequest
  /\ outcome' = "refused"
  /\ UNCHANGED <<request, plan>>

\* _build_plan
Build ==
  /\ outcome = "none"
  /\ ValidRequest
  /\ outcome' = "planned"
  /\ plan' = CASE request.algo = "twap" -> Twap(request.total, Clamped)
               [] request.algo = "vwap" -> Vwap(request.total, Clamped)
               [] request.algo = "iceberg" -> Iceberg(request.total, request.display)
  /\ UNCHANGED request

SliceNext == RefusePlan \/ Build

SliceSpec == SliceInit /\ [][SliceNext]_sliceVars

-----------------------------------------------------------------------------
(* Properties *)

Planned(algo) == outcome = "planned" /\ request.algo = algo

Cap == IF request.algo = "iceberg" THEN MaxIceberg ELSE Clamped

\* A plan has at least one slice and no more than its cap, none of them empty,
\* at delays within the duration.
SliceTypeOK ==
  /\ request \in Requests
  /\ outcome \in {"none", "refused", "planned"}
  /\ outcome = "planned" =>
       /\ DOMAIN plan # {} /\ DOMAIN plan \subseteq 1 .. Cap
       /\ \A i \in DOMAIN plan : plan[i] \in Nat \ {0}

\* The slices add up to the parent order: nothing is left unsubmitted and
\* nothing is traded twice, whatever the rounding.
PlanIsWhole ==
  outcome = "planned" => SumOf(plan, DOMAIN plan) = request.total

\* What the plan submits at slot i, 0 for a slot left out.
QtyAt(i) == IF i \in DOMAIN plan THEN plan[i] ELSE 0

\* Each share is within one unit of its exact quota, so that rounding biases
\* no slice; and a larger weight never receives less.
SharesAreFair ==
  Planned("twap") \/ Planned("vwap") =>
    LET w == IF request.algo = "twap" THEN [i \in 1 .. Clamped |-> 1] ELSE UWeights(Clamped)
        sum == SumOf(w, DOMAIN w)
    IN /\ \A i \in DOMAIN w :
            QtyAt(i) * sum - request.total * w[i] \in (1 - sum) .. (sum - 1)
       /\ \A i, j \in DOMAIN w : w[i] > w[j] => QtyAt(i) >= QtyAt(j)

\* An iceberg order never shows more than display_qty, unless that would take
\* more slices than allowed, and then no more than it must.
DisplayIsKept ==
  Planned("iceberg") =>
    \A i \in DOMAIN plan :
      plan[i] <= Max({request.display, CeilDiv(request.total, MaxIceberg)})

\* A plan is the whole order in fair parts: no quantity is lost or added, shares
\* differ by one unit at most, and an iceberg shows no more than it may.
SlicesAreWhole == SliceTypeOK /\ PlanIsWhole /\ SharesAreFair /\ DisplayIsKept
=============================================================================
