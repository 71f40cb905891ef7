----------------------------- MODULE Allocation -----------------------------
(***************************************************************************)
(* From target weights to whole shares (engine/portfolio/                  *)
(* discrete_allocation.py): greedy_allocation buys what each target allows *)
(* in whole shares, then share after share of the asset furthest below its *)
(* target.  Weights are integers, to be taken over their sum; the solver   *)
(* of the other method is left out.                                        *)
(***************************************************************************)
EXTENDS Integers, FiniteSetsExt, Functions

CONSTANTS
  Assets,
  Weights, Negligible,   \* a weight below Negligible is dropped
  AssetPrices,                \* 0 for an asset without a price
  AccountTotals

ASSUME AllocationAssumption ==
  /\ IsFiniteSet(Assets)
  /\ Weights \subseteq Nat /\ Negligible \in Nat \ {0}
  /\ AssetPrices \subseteq Nat /\ AccountTotals \subseteq Nat

VARIABLES
  weight, assetPrice, total,  \* the request
  phase,                 \* "new", "filling", "done" or "refused"
  kept,                  \* the assets _prepare keeps
  shares, remaining

allocationVars == <<weight, assetPrice, total, phase, kept, shares, remaining>>

AllocationInit ==
  /\ weight \in [Assets -> Weights] /\ assetPrice \in [Assets -> AssetPrices]
  /\ total \in AccountTotals
  /\ phase = "new" /\ kept = {} /\ shares = [a \in Assets |-> 0] /\ remaining = 0

WeightSum(S) == SumFunctionOnSet(weight, S)
Spent(sh) == SumFunctionOnSet([a \in Assets |-> sh[a] * assetPrice[a]], Assets)

\* _prepare: assets that are worth a position and have a price.
Wanted == {a \in Assets : weight[a] >= Negligible /\ assetPrice[a] > 0}

\* Mutant: the first pass rounds to the nearest share.
FloorNearest(a) == (2 * weight[a] * total + WeightSum(Wanted) * assetPrice[a])
                     \div (2 * WeightSum(Wanted) * assetPrice[a])

\* The whole shares of the target of an asset.
Floor(a) == (weight[a] * total) \div (WeightSum(Wanted) * assetPrice[a])

\* greedy_allocation: the first pass.
Buy ==
  /\ phase = "new" /\ Wanted # {}
  /\ kept' = Wanted
  /\ shares' = [a \in Assets |-> IF a \in Wanted THEN Floor(a) ELSE 0]
  /\ remaining' = total - Spent(shares')
  /\ phase' = "filling"
  /\ UNCHANGED <<weight, assetPrice, total>>

RefuseAllocation ==
  /\ phase = "new" /\ Wanted = {}
  /\ phase' = "refused"
  /\ UNCHANGED <<weight, assetPrice, total, kept, shares, remaining>>

\* What an asset lacks to its target, times the sum of the weights.
Deficit(a) == weight[a] * total - shares[a] * assetPrice[a] * WeightSum(kept)

Affordable == {a \in kept : assetPrice[a] <= remaining}

\* The assets to buy one more of: of those that can be paid, the furthest below
\* its target, if it is below it (the first among equals; here any of them).
Best ==
  {a \in Affordable : Deficit(a) > 0 /\ \A b \in Affordable : Deficit(b) <= Deficit(a)}

\* One round of the second pass.
Fill ==
  /\ phase = "filling"
  /\ \E a \in Best :
       /\ shares' = [shares EXCEPT ![a] = @ + 1]
       /\ remaining' = remaining - assetPrice[a]
       /\ phase' = IF remaining' < Min({assetPrice[b] : b \in kept}) THEN "done" ELSE "filling"
  /\ UNCHANGED <<weight, assetPrice, total, kept>>

FillEnds ==
  /\ phase = "filling" /\ Best = {}
  /\ phase' = "done"
  /\ UNCHANGED <<weight, assetPrice, total, kept, shares, remaining>>

AllocationNext == Buy \/ RefuseAllocation \/ Fill \/ FillEnds

AllocationSpec == AllocationInit /\ [][AllocationNext]_allocationVars

-----------------------------------------------------------------------------
(* Properties *)

AllocationTypeOK ==
  /\ weight \in [Assets -> Weights] /\ assetPrice \in [Assets -> AssetPrices]
  /\ total \in AccountTotals
  /\ phase \in {"new", "filling", "done", "refused"} /\ kept \subseteq Assets
  /\ shares \in [Assets -> Nat]

\* No more is spent than there is, and every unit is in a share or left over.
NeverOverspends ==
  phase \in {"filling", "done"} => remaining >= 0 /\ Spent(shares) + remaining = total

\* The second pass corrects the rounding and nothing else: no asset gets more
\* than one share beyond what its target allows, however unequal the prices.
WithinOneShare ==
  \A a \in kept : shares[a] - Floor(a) \in 0 .. 1

\* When it ends, no asset that is below its target could still be bought: the
\* stop at the cheapest price leaves nothing undone.
NothingMoreToBuy ==
  phase = "done" => \A a \in kept : assetPrice[a] <= remaining => Deficit(a) <= 0

\* Whole shares for weights: no more is spent than there is, no asset is more than a
\* share above its target, and what is left buys nothing that is wanted.
AllocationIsSound == AllocationTypeOK /\ NeverOverspends /\ WithinOneShare /\ NothingMoreToBuy
=============================================================================
