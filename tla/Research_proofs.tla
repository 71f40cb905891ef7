------------------------- MODULE Research_proofs -------------------------
(***************************************************************************)
(* Proofs about the algorithms of the research side, for all inputs.  Each *)
(* part is one of the extended modules: its inductive invariant, what its  *)
(* operators yield, and the theorem about the properties its run checks.   *)
(***************************************************************************)
EXTENDS Allocation, SampleSplits, PriceHistory, SlicePlan, FrameworkStrategy, Rotation,
        SequenceTheorems, DataTheorems

-----------------------------------------------------------------------------
(* Whole-share allocation: the first pass spends at most what the weights allow,
   and the second adds one share at most where the first rounded down. *)

WantedSum == WeightSum(Wanted)

AllocationInv ==
  /\ AllocationTypeOK
  /\ remaining \in Int
  /\ phase \in {"filling", "done"} =>
       /\ kept = Wanted /\ Wanted # {}
       /\ remaining >= 0 /\ Spent(shares) + remaining = total
  /\ phase \in {"new", "refused"} => kept = {}
  /\ WithinOneShare /\ NothingMoreToBuy

\* What is wanted has a weight and a price, and together a positive weight.
LEMMA WantedIsPositive ==
  ASSUME AllocationTypeOK
  PROVE  /\ Wanted \subseteq Assets /\ IsFiniteSet(Wanted)
         /\ \A a \in Assets : weight[a] \in Nat /\ assetPrice[a] \in Nat
         /\ \A a \in Wanted : weight[a] \in Nat \ {0} /\ assetPrice[a] \in Nat \ {0}
         /\ total \in Nat
         /\ WantedSum \in Nat
         /\ Wanted # {} => WantedSum \in Nat \ {0}
<1> USE AllocationAssumption DEF AllocationAssumption
<1>1. \A a \in Assets : weight[a] \in Nat /\ assetPrice[a] \in Nat
  BY DEF AllocationTypeOK
<1>2. total \in Nat
  BY DEF AllocationTypeOK
<1>3. Wanted \subseteq Assets /\ IsFiniteSet(Wanted)
  BY FS_Subset DEF Wanted
<1>4. \A a \in Wanted : weight[a] \in Nat \ {0} /\ assetPrice[a] \in Nat \ {0}
  BY <1>1 DEF Wanted
<1>5. WantedSum \in Nat
  BY <1>1, <1>3, SumNat DEF WantedSum, WeightSum
<1>6. ASSUME NEW a \in Wanted PROVE WantedSum \in Nat \ {0}
  <2>1. weight[a] <= WantedSum
    BY <1>1, <1>3, SumHasPart DEF WantedSum, WeightSum
  <2> QED BY <1>4, <1>5, <2>1
<1> QED BY <1>1, <1>2, <1>3, <1>4, <1>5, <1>6

\* The whole shares of a target are worth no more than it.
LEMMA FloorIsBelow ==
  ASSUME AllocationTypeOK, NEW a \in Wanted
  PROVE  /\ Floor(a) \in Nat
         /\ (Floor(a) * assetPrice[a]) * WantedSum <= weight[a] * total
         /\ weight[a] * total < ((Floor(a) + 1) * assetPrice[a]) * WantedSum
<1> DEFINE w == weight[a]
           p == assetPrice[a]
           d == WantedSum * p
           n == w * total
<1>1. w \in Nat \ {0} /\ p \in Nat \ {0} /\ total \in Nat /\ WantedSum \in Nat \ {0}
  BY WantedIsPositive
<1>2. n \in Nat /\ d \in Nat \ {0}
  BY <1>1
<1>3. Floor(a) = n \div d
  BY DEF Floor, WantedSum
<1> HIDE DEF n, d
<1>4. Floor(a) \in Nat /\ Floor(a) * d <= n /\ n < (Floor(a) + 1) * d
  BY <1>2, <1>3, Division
<1> HIDE DEF p, w
<1>5. \A x \in Nat : x * d = (x * p) * WantedSum
  BY <1>1 DEF d
<1>6. Floor(a) + 1 \in Nat
  BY <1>4
<1> QED BY <1>4, <1>5, <1>6 DEF n, p, w

\* Spent is a sum of naturals.
LEMMA SpentType ==
  ASSUME AllocationTypeOK, NEW sh \in [Assets -> Nat]
  PROVE  Spent(sh) \in Nat
<1> DEFINE f == [a \in Assets |-> sh[a] * assetPrice[a]]
<1>1. \A a \in Assets : f[a] \in Nat
  BY WantedIsPositive
<1>2. IsFiniteSet(Assets)
  BY AllocationAssumption DEF AllocationAssumption
<1> HIDE DEF f
<1>3. SumFunctionOnSet(f, Assets) \in Nat
  BY <1>1, <1>2, SumNat
<1> QED BY <1>3 DEF Spent, f

\* The first pass spends no more than there is.
LEMMA FloorsFit ==
  ASSUME AllocationTypeOK, Wanted # {}, NEW sh \in [Assets -> Nat],
         sh = [a \in Assets |-> IF a \in Wanted THEN Floor(a) ELSE 0]
  PROVE  Spent(sh) <= total
<1> DEFINE f == [a \in Assets |-> sh[a] * assetPrice[a]]
           g == [a \in Assets |-> WantedSum * f[a]]
           h == [a \in Assets |-> total * weight[a]]
<1>1. /\ Wanted \subseteq Assets /\ IsFiniteSet(Wanted)
      /\ \A a \in Assets : weight[a] \in Nat /\ assetPrice[a] \in Nat
      /\ total \in Nat /\ WantedSum \in Nat \ {0} /\ IsFiniteSet(Assets)
  BY WantedIsPositive, AllocationAssumption DEF AllocationAssumption
<1>2. \A a \in Assets : f[a] \in Nat
  BY <1>1
<1>3. \A a \in Assets \ Wanted : f[a] = 0
  BY <1>1
<1>4. Spent(sh) = SumFunctionOnSet(f, Assets)
  BY DEF Spent
<1>5. \A a \in Wanted : WantedSum * f[a] <= total * weight[a]
  <2> TAKE a \in Wanted
  <2>1. f[a] = Floor(a) * assetPrice[a] /\ f[a] \in Nat
    BY <1>1, <1>2
  <2>2. f[a] * WantedSum <= weight[a] * total
    BY <2>1, FloorIsBelow
  <2> HIDE DEF f
  <2>3. weight[a] \in Nat
    BY <1>1
  <2>4. f[a] * WantedSum = WantedSum * f[a] /\ weight[a] * total = total * weight[a]
    BY <1>1, <2>1, <2>3
  <2> QED BY <2>2, <2>4
<1> HIDE DEF f
<1>6. \A a \in Wanted : /\ g[a] \in Int /\ h[a] \in Int /\ g[a] <= h[a]
                        /\ f[a] \in Int /\ g[a] = WantedSum * f[a]
                        /\ weight[a] \in Int /\ h[a] = total * weight[a]
  BY <1>1, <1>2, <1>5
<1> HIDE DEF g, h
<1>7. SumFunctionOnSet(g, Wanted) <= SumFunctionOnSet(h, Wanted)
  BY <1>1, <1>6, SumAtMost
<1>8. SumFunctionOnSet(g, Wanted) = WantedSum * SumFunctionOnSet(f, Wanted)
  BY <1>1, <1>6, SumScaled
<1>9. SumFunctionOnSet(h, Wanted) = total * WantedSum
  <2>1. SumFunctionOnSet(h, Wanted) = total * SumFunctionOnSet(weight, Wanted)
    BY <1>1, <1>6, SumScaled
  <2> QED BY <2>1 DEF WantedSum, WeightSum
<1>10. SumFunctionOnSet(f, Assets) = SumFunctionOnSet(f, Wanted)
  <2>1. \A a \in Assets : f[a] \in Int
    BY <1>2
  <2> QED BY <1>1, <1>3, <2>1, SumPart
<1>11. SumFunctionOnSet(f, Wanted) \in Nat
  BY <1>1, <1>2, SumNat
<1> DEFINE s == SumFunctionOnSet(f, Wanted)
<1>12. WantedSum * s <= total * WantedSum /\ s \in Nat
  BY <1>7, <1>8, <1>9, <1>11
<1> HIDE DEF s
<1>13. s <= total
  <2> SUFFICES ASSUME s >= total + 1 PROVE FALSE
    BY <1>1, <1>12
  <2>1. WantedSum * s >= WantedSum * (total + 1)
    BY <1>1, <1>12
  <2>2. WantedSum * (total + 1) = total * WantedSum + WantedSum
    BY <1>1
  <2>3. total * WantedSum \in Nat /\ WantedSum * s \in Nat
    BY <1>1, <1>12
  <2> QED BY <1>1, <1>12, <2>1, <2>2, <2>3
<1> QED BY <1>4, <1>10, <1>13 DEF s

\* One more share costs its price.
LEMMA SpentMore ==
  ASSUME AllocationTypeOK, NEW sh \in [Assets -> Nat], NEW a \in Assets
  PROVE  Spent([sh EXCEPT ![a] = @ + 1]) = Spent(sh) + assetPrice[a]
<1> DEFINE more == [sh EXCEPT ![a] = @ + 1]
           f == [b \in Assets |-> sh[b] * assetPrice[b]]
           g == [b \in Assets |-> more[b] * assetPrice[b]]
<1>1. \A b \in Assets : assetPrice[b] \in Nat /\ sh[b] \in Nat
  BY WantedIsPositive
<1>2. \A b \in Assets : f[b] \in Int /\ g[b] \in Int
  BY <1>1
<1>3. \A b \in Assets \ {a} : f[b] = g[b]
  OBVIOUS
<1>4. g[a] = f[a] + assetPrice[a]
  <2>1. more[a] = sh[a] + 1
    OBVIOUS
  <2>2. (sh[a] + 1) * assetPrice[a] = sh[a] * assetPrice[a] + assetPrice[a]
    BY <1>1
  <2> QED BY <2>1, <2>2
<1>5. Spent(sh) = SumFunctionOnSet(f, Assets) /\ Spent(more) = SumFunctionOnSet(g, Assets)
  BY DEF Spent
<1>6. IsFiniteSet(Assets)
  BY AllocationAssumption DEF AllocationAssumption
<1> HIDE DEF f, g
<1>7. SumFunctionOnSet(g, Assets) = SumFunctionOnSet(f, Assets) - f[a] + g[a]
  BY <1>2, <1>3, <1>6, SumChange
<1>8. SumFunctionOnSet(f, Assets) \in Int
  BY <1>2, <1>6, SumType
<1> QED BY <1>1, <1>2, <1>4, <1>5, <1>7, <1>8

\* Before the first pass nothing is kept.
LEMMA AllocationInvInit == AllocationInit => AllocationInv
<1> SUFFICES ASSUME AllocationInit PROVE AllocationInv
  OBVIOUS
<1>1. AllocationTypeOK
  BY DEF AllocationInit, AllocationTypeOK
<1> QED BY <1>1 DEF AllocationInit, AllocationInv, WithinOneShare, NothingMoreToBuy

\* The request stays, and with it what is wanted.
LEMMA WantedStays ==
  ASSUME UNCHANGED <<weight, assetPrice, total>>
  PROVE  /\ Wanted' = Wanted /\ WantedSum' = WantedSum
         /\ \A a \in Assets : Floor(a)' = Floor(a)
BY DEF Wanted, WantedSum, WeightSum, Floor

\* The first pass.
LEMMA BuyKeeps == AllocationInv /\ Buy => AllocationInv'
<1> SUFFICES ASSUME AllocationInv, Buy PROVE AllocationInv'
  OBVIOUS
<1>1. AllocationTypeOK /\ Wanted # {} /\ phase = "new" /\ kept' = Wanted /\ phase' = "filling"
      /\ UNCHANGED <<weight, assetPrice, total>>
  BY DEF AllocationInv, Buy
<1>2. Wanted' = Wanted /\ \A a \in Assets : Floor(a)' = Floor(a)
  BY <1>1, WantedStays
<1>3. Wanted \subseteq Assets /\ total \in Nat
  BY <1>1, WantedIsPositive
<1>4. shares' = [a \in Assets |-> IF a \in Wanted THEN Floor(a) ELSE 0]
  BY DEF Buy
<1>5. shares' \in [Assets -> Nat]
  BY <1>1, <1>4, FloorIsBelow
<1>6. Spent(shares') \in Nat /\ Spent(shares') <= total
  BY <1>1, <1>4, <1>5, SpentType, FloorsFit
<1>7. remaining' = total - Spent(shares') /\ Spent(shares)' = Spent(shares')
  BY <1>1 DEF Buy, Spent
<1>8. AllocationTypeOK'
  BY <1>1, <1>3, <1>5 DEF AllocationTypeOK
<1>9. remaining' \in Int /\ remaining' >= 0 /\ Spent(shares)' + remaining' = total'
  BY <1>1, <1>3, <1>6, <1>7
<1>10. WithinOneShare'
  <2>1. \A a \in Wanted : shares'[a] - Floor(a) \in 0 .. 1
    BY <1>1, <1>3, <1>4, FloorIsBelow
  <2> QED BY <1>1, <1>2, <1>3, <2>1 DEF WithinOneShare
<1>11. NothingMoreToBuy'
  BY <1>1 DEF NothingMoreToBuy
<1> QED BY <1>1, <1>2, <1>8, <1>9, <1>10, <1>11 DEF AllocationInv

\* A share in the second pass: what is below its target has its whole shares only.
LEMMA FillKeeps == AllocationInv /\ Fill => AllocationInv'
<1> SUFFICES ASSUME AllocationInv, Fill PROVE AllocationInv'
  OBVIOUS
<1>1. PICK a \in Best :
        /\ shares' = [shares EXCEPT ![a] = @ + 1]
        /\ remaining' = remaining - assetPrice[a]
        /\ phase' = IF remaining' < Min({assetPrice[b] : b \in kept}) THEN "done" ELSE "filling"
  BY DEF Fill
<1>2. /\ AllocationTypeOK /\ phase = "filling" /\ kept = Wanted /\ Wanted # {}
      /\ UNCHANGED <<weight, assetPrice, total, kept>> /\ remaining \in Int
      /\ Spent(shares) + remaining = total /\ WithinOneShare
      /\ shares \in [Assets -> Nat]
  BY DEF AllocationInv, Fill, AllocationTypeOK
<1>3. Wanted' = Wanted /\ \A b \in Assets : Floor(b)' = Floor(b)
  BY <1>2, WantedStays
<1>4. a \in Wanted /\ assetPrice[a] <= remaining /\ Deficit(a) > 0
  BY <1>2 DEF Best, Affordable
<1>5. /\ Wanted \subseteq Assets /\ WantedSum \in Nat \ {0} /\ total \in Nat
      /\ \A b \in Wanted : weight[b] \in Nat \ {0} /\ assetPrice[b] \in Nat \ {0}
  BY <1>2, WantedIsPositive
<1>6. shares' \in [Assets -> Nat]
  BY <1>1, <1>2, <1>4, <1>5
<1>7. AllocationTypeOK'
  BY <1>1, <1>2, <1>6 DEF AllocationTypeOK
<1>8. remaining' \in Int /\ remaining' >= 0 /\ Spent(shares)' + remaining' = total'
  <2>1. Spent(shares)' = Spent(shares')
    BY <1>2 DEF Spent
  <2>2. Spent(shares') = Spent(shares) + assetPrice[a]
    BY <1>1, <1>2, <1>4, <1>5, SpentMore
  <2>3. Spent(shares) \in Nat /\ assetPrice[a] \in Nat
    BY <1>2, <1>4, <1>5, SpentType
  <2> QED BY <1>1, <1>2, <1>4, <1>5, <2>1, <2>2, <2>3
<1>9. shares[a] = Floor(a)
  <2>1. Floor(a) \in Nat /\ weight[a] * total < ((Floor(a) + 1) * assetPrice[a]) * WantedSum
    BY <1>2, <1>4, FloorIsBelow
  <2>2. shares[a] - Floor(a) \in 0 .. 1 /\ shares[a] \in Nat
    BY <1>2, <1>4, <1>5 DEF WithinOneShare
  <2>3. weight[a] * total - shares[a] * assetPrice[a] * WantedSum > 0
    BY <1>2, <1>4 DEF Deficit, WantedSum
  <2> SUFFICES ASSUME shares[a] = Floor(a) + 1 PROVE FALSE
    BY <2>1, <2>2
  <2>4. shares[a] * assetPrice[a] * WantedSum = ((Floor(a) + 1) * assetPrice[a]) * WantedSum
    OBVIOUS
  <2> DEFINE n == weight[a] * total
             m == ((Floor(a) + 1) * assetPrice[a]) * WantedSum
  <2>5. n \in Int /\ m \in Int
    BY <1>4, <1>5, <2>1
  <2>6. n < m /\ n - m > 0
    BY <2>1, <2>3, <2>4
  <2> HIDE DEF n, m
  <2> QED BY <2>5, <2>6
<1>10. WithinOneShare'
  <2>1. ASSUME NEW b \in Wanted PROVE shares'[b] - Floor(b) \in 0 .. 1
    <3>1. Floor(b) \in Nat /\ b \in Assets /\ shares[b] - Floor(b) \in 0 .. 1
      BY <1>2, <1>5, FloorIsBelow DEF WithinOneShare
    <3>2. CASE b = a
      BY <1>1, <1>2, <1>9, <3>1, <3>2
    <3>3. CASE b # a
      BY <1>1, <1>2, <3>1, <3>3
    <3> QED BY <3>2, <3>3
  <2> QED BY <1>2, <1>3, <1>5, <2>1 DEF WithinOneShare
<1>11. NothingMoreToBuy'
  <2> DEFINE P == {assetPrice[b] : b \in Wanted}
  <2> SUFFICES ASSUME phase' = "done", NEW b \in Wanted, assetPrice[b] <= remaining'
               PROVE  FALSE
    BY <1>2 DEF NothingMoreToBuy
  <2>1. remaining' < Min(P)
    BY <1>1, <1>2
  <2>2. P \subseteq Nat /\ P # {} /\ assetPrice[b] \in P
    BY <1>5
  <2> HIDE DEF P
  <2>3. Min(P) \in P /\ \A y \in P : Min(P) <= y
    BY <2>2, SmallestElement DEF Min
  <2>4. Min(P) <= assetPrice[b] /\ Min(P) \in Nat /\ assetPrice[b] \in Nat
    BY <2>2, <2>3
  <2> QED BY <1>8, <2>1, <2>4
<1>12. phase' \in {"filling", "done"}
  BY <1>1
<1> QED BY <1>2, <1>3, <1>7, <1>8, <1>10, <1>11, <1>12 DEF AllocationInv

\* The end of the second pass: of what could be bought, nothing is the furthest
\* below its target, so that nothing is below it.
LEMMA FillEndsKeeps == AllocationInv /\ FillEnds => AllocationInv'
<1> SUFFICES ASSUME AllocationInv, FillEnds PROVE AllocationInv'
  OBVIOUS
<1>1. /\ AllocationTypeOK /\ phase = "filling" /\ phase' = "done" /\ Best = {}
      /\ UNCHANGED <<weight, assetPrice, total, kept, shares, remaining>>
      /\ kept = Wanted
  BY DEF AllocationInv, FillEnds
<1>2. AllocationTypeOK'
  BY <1>1 DEF AllocationTypeOK
<1>3. Wanted' = Wanted /\ Spent(shares)' = Spent(shares) /\ \A b \in Assets : Floor(b)' = Floor(b)
  BY <1>1, WantedStays DEF Spent
<1>4. /\ Wanted \subseteq Assets /\ IsFiniteSet(Wanted) /\ WantedSum \in Nat /\ total \in Nat
      /\ \A b \in Wanted : weight[b] \in Nat \ {0} /\ assetPrice[b] \in Nat \ {0}
  BY <1>1, WantedIsPositive
<1>5. WithinOneShare'
  <2>1. WithinOneShare
    BY DEF AllocationInv
  <2> QED BY <1>1, <1>3, <1>4, <2>1 DEF WithinOneShare
<1>6. NothingMoreToBuy'
  <2> DEFINE D == [b \in Affordable |-> Deficit(b)]
  <2>1. Affordable \subseteq Wanted /\ IsFiniteSet(Affordable)
    <3>1. Affordable \subseteq Wanted
      BY <1>1 DEF Affordable
    <3> QED BY <1>4, <3>1, FS_Subset
  <2>2. \A b \in Affordable : D[b] \in Int /\ D[b] = Deficit(b)
    <3> TAKE b \in Affordable
    <3>1. weight[b] \in Nat /\ assetPrice[b] \in Nat /\ shares[b] \in Nat
      BY <1>1, <1>4, <2>1 DEF AllocationTypeOK
    <3>2. Deficit(b) = weight[b] * total - shares[b] * assetPrice[b] * WantedSum
      BY <1>1 DEF Deficit, WantedSum
    <3>3. weight[b] * total \in Int /\ shares[b] * assetPrice[b] * WantedSum \in Int
      BY <1>4, <3>1
    <3> QED BY <3>2, <3>3
  <2> HIDE DEF D
  <2>3. ASSUME NEW b \in Affordable PROVE Deficit(b) <= 0
    <3>1. PICK x \in Affordable : \A y \in Affordable : D[y] <= D[x]
      BY <2>1, <2>2, <2>3, LargestBy
    <3>2. ~(Deficit(x) > 0)
      BY <1>1, <2>2, <3>1 DEF Best
    <3>3. D[b] <= D[x] /\ D[b] \in Int /\ D[x] \in Int /\ D[x] = Deficit(x) /\ D[b] = Deficit(b)
      BY <2>2, <2>3, <3>1
    <3> QED BY <3>2, <3>3
  <2>4. \A b \in kept : assetPrice[b] <= remaining => Deficit(b) <= 0
    BY <2>3 DEF Affordable
  <2>5. \A b : Deficit(b)' = Deficit(b)
    BY <1>1 DEF Deficit, WeightSum
  <2> QED BY <1>1, <2>4, <2>5 DEF NothingMoreToBuy
<1> QED BY <1>1, <1>2, <1>3, <1>5, <1>6 DEF AllocationInv

\* Every step keeps it.
LEMMA AllocationInvStep == AllocationInv /\ [AllocationNext]_allocationVars => AllocationInv'
<1> SUFFICES ASSUME AllocationInv, [AllocationNext]_allocationVars PROVE AllocationInv'
  OBVIOUS
<1>1. CASE RefuseAllocation
  <2>1. /\ UNCHANGED <<weight, assetPrice, total, kept, shares, remaining>>
        /\ phase' = "refused" /\ phase = "new" /\ kept = {}
    BY <1>1 DEF RefuseAllocation, AllocationInv
  <2>2. AllocationTypeOK'
    BY <2>1 DEF AllocationInv, AllocationTypeOK
  <2> QED BY <2>1, <2>2 DEF AllocationInv, WithinOneShare, NothingMoreToBuy
<1>2. CASE UNCHANGED allocationVars
  <2>1. UNCHANGED <<weight, assetPrice, total, kept, shares, remaining, phase>>
    BY <1>2 DEF allocationVars
  <2>2. /\ Wanted' = Wanted /\ \A b : Floor(b)' = Floor(b) /\ Deficit(b)' = Deficit(b)
        /\ Spent(shares)' = Spent(shares)
    BY <2>1 DEF Wanted, WeightSum, Floor, Deficit, Spent
  <2>3. WithinOneShare' /\ NothingMoreToBuy'
    BY <2>1, <2>2 DEF AllocationInv, WithinOneShare, NothingMoreToBuy
  <2> QED BY <2>1, <2>2, <2>3 DEF AllocationInv, AllocationTypeOK
<1> QED BY <1>1, <1>2, BuyKeeps, FillKeeps, FillEndsKeeps DEF AllocationNext

\* Whole shares for weights, for all assets, weights, prices and totals: no more is
\* spent than there is, no asset is more than a share above its target, and what is
\* left buys nothing that is wanted (greedy_allocation).
THEOREM AllocationIsKept == AllocationSpec => []AllocationIsSound
<1>1. AllocationInit => AllocationInv
  BY AllocationInvInit
<1>2. AllocationInv /\ [AllocationNext]_allocationVars => AllocationInv'
  BY AllocationInvStep
<1>3. AllocationInv => AllocationIsSound
  BY DEF AllocationInv, AllocationIsSound, NeverOverspends
<1> QED BY <1>1, <1>2, <1>3, PTL DEF AllocationSpec

-----------------------------------------------------------------------------
(* Sample splits: the properties are inductive, since the one step is a cut of what
   came before *)

\* The days of an instrument, and what a label reads.
LEMMA DaysFinite ==
  ASSUME SplitTypeOK, NEW i \in Instruments, NEW D, D \subseteq days[i]
  PROVE  /\ IsFiniteSet(D) /\ D \subseteq Int /\ D \subseteq 1 .. LastSampleDay
         /\ Cardinality(D) \in Nat /\ period \in Nat \ {0}
<1>1. days[i] \subseteq 1 .. LastSampleDay /\ period \in Nat \ {0}
  BY SplitAssumption DEF SplitTypeOK, SampleDays
<1>2. IsFiniteSet(1 .. LastSampleDay)
  BY FS_Interval, SplitAssumption
<1>3. D \subseteq 1 .. LastSampleDay /\ 1 .. LastSampleDay \subseteq Int
  BY <1>1
<1>4. IsFiniteSet(D)
  BY <1>2, <1>3, FS_Subset
<1> QED BY <1>1, <1>3, <1>4, FS_CardinalityType

LEMMA LabelIs ==
  ASSUME SplitTypeOK, NEW i \in Instruments, NEW d \in Int
  PROVE  IF Cardinality(After(i, d)) < period THEN LabelDay(i, d) = 0
         ELSE /\ LabelDay(i, d) \in After(i, d)
              /\ Cardinality({x \in After(i, d) : x <= LabelDay(i, d)}) = period
<1>1. /\ IsFiniteSet(After(i, d)) /\ After(i, d) \subseteq Int
      /\ Cardinality(After(i, d)) \in Nat /\ period \in Nat \ {0}
  <2>1. After(i, d) \subseteq days[i]
    BY DEF After
  <2> QED BY <2>1, DaysFinite
<1>2. CASE Cardinality(After(i, d)) < period
  BY <1>2 DEF LabelDay
<1>3. CASE ~(Cardinality(After(i, d)) < period)
  <2>1. period \in 1 .. Cardinality(After(i, d))
    BY <1>1, <1>3
  <2>2. \E e \in After(i, d) : Cardinality({x \in After(i, d) : x <= e}) = period
    BY <1>1, <2>1, RankExists
  <2>3. LabelDay(i, d)
          = CHOOSE e \in After(i, d) : Cardinality({x \in After(i, d) : x <= e}) = period
    BY <1>3 DEF LabelDay
  <2> QED BY <1>3, <2>2, <2>3
<1> QED BY <1>2, <1>3

\* _embargo keeps the rows whose label is known and inside the sample.
LEMMA EmbargoIsExact ==
  ASSUME SplitTypeOK, NEW end \in SampleDays
  PROVE  Embargoed({r \in Rows : r[2] <= end}, end)
           = {r \in Rows : LabelDay(r[1], r[2]) \in 1 .. end}
<1> DEFINE within == {r \in Rows : r[2] <= end}
           later(r) == {x \in within : x[1] = r[1] /\ x[2] > r[2]}
<1>1. ASSUME NEW r \in Rows
      PROVE  (r[2] <= end /\ Cardinality(later(r)) >= period)
               <=> LabelDay(r[1], r[2]) \in 1 .. end
  <2> DEFINE i == r[1]
             d == r[2]
             D == {e \in After(i, d) : e <= end}
             l == LabelDay(i, d)
  <2>1. i \in Instruments /\ d \in days[i] /\ d \in SampleDays /\ r = <<i, d>>
    BY DEF Rows
  <2>2. /\ IsFiniteSet(After(i, d)) /\ After(i, d) \subseteq 1 .. LastSampleDay
        /\ Cardinality(After(i, d)) \in Nat /\ period \in Nat \ {0}
    <3>1. After(i, d) \subseteq days[i]
      BY DEF After
    <3> HIDE DEF i, d
    <3> QED BY <2>1, <3>1, DaysFinite
  <2>3. IsFiniteSet(D) /\ D \subseteq After(i, d)
    BY <2>2, FS_Subset
  <2>4. later(r) = {<<i, e>> : e \in D}
    <3>1. ASSUME NEW x \in later(r) PROVE x \in {<<i, e>> : e \in D}
      <4>1. x \in Rows /\ x[2] <= end /\ x[1] = i /\ x[2] > d
        OBVIOUS
      <4>2. x = <<i, x[2]>> /\ x[2] \in D
        BY <4>1 DEF Rows, After
      <4> QED BY <4>2
    <3>2. ASSUME NEW e \in D PROVE <<i, e>> \in later(r)
      <4>1. e \in days[i] /\ e > d /\ e <= end /\ e \in SampleDays
        BY <2>2 DEF After, SampleDays
      <4>2. <<i, e>> \in Rows
        BY <2>1, <4>1 DEF Rows
      <4> QED BY <4>1, <4>2
    <3> QED BY <3>1, <3>2
  <2>5. Cardinality(later(r)) = Cardinality(D) /\ Cardinality(D) \in Nat
    <3> HIDE DEF i, d, D, later
    <3>1. Cardinality({<<i, e>> : e \in D}) = Cardinality(D)
      BY <2>2, <2>3, ColumnSize
    <3>2. Cardinality(D) \in Nat
      BY <2>3, FS_CardinalityType
    <3> QED BY <2>4, <3>1, <3>2
  <2>6. IF Cardinality(After(i, d)) < period THEN l = 0
        ELSE /\ l \in After(i, d) /\ Cardinality({x \in After(i, d) : x <= l}) = period
    <3>1. d \in Int
      BY <2>1, SplitAssumption DEF SampleDays
    <3> HIDE DEF i, d
    <3> QED BY <2>1, <3>1, LabelIs DEF l
  <2>7. end \in Nat
    BY SplitAssumption DEF SampleDays
  <2> DEFINE labelled == {x \in After(i, d) : x <= l}
  <2>8. labelled \subseteq After(i, d) /\ IsFiniteSet(labelled)
    BY <2>2, FS_Subset
  <2>9. ASSUME d <= end, Cardinality(D) >= period PROVE l \in 1 .. end
    <3>1. Cardinality(D) <= Cardinality(After(i, d))
      BY <2>2, <2>3, FewerInPart
    <3>2. l \in After(i, d) /\ Cardinality(labelled) = period /\ l \in 1 .. LastSampleDay
      BY <2>2, <2>5, <2>6, <2>9, <3>1
    <3>3. SUFFICES ASSUME l > end PROVE FALSE
      BY <2>7, <3>2
    <3>4. D \subseteq labelled /\ l \in labelled \ D
      BY <2>2, <2>7, <3>2, <3>3
    <3>5. Cardinality(D) < Cardinality(labelled)
      <4> HIDE DEF D, labelled
      <4> QED BY <2>8, <3>4, FewerInPart
    <3> QED BY <2>2, <2>5, <2>9, <3>2, <3>5
  <2>10. ASSUME l \in 1 .. end PROVE d <= end /\ Cardinality(D) >= period
    <3>1. l \in After(i, d) /\ Cardinality(labelled) = period
      BY <2>6, <2>10
    <3>2. d < l /\ l <= end /\ d \in Nat /\ l \in Nat
      BY <2>1, <2>2, <2>7, <2>10, <3>1 DEF After, SampleDays
    <3>3. labelled \subseteq D
      BY <2>2, <2>7, <3>2
    <3>4. Cardinality(labelled) <= Cardinality(D)
      <4> HIDE DEF D, labelled
      <4> QED BY <2>3, <3>3, FewerInPart
    <3> QED BY <2>7, <3>1, <3>2, <3>4
  <2> QED BY <2>5, <2>9, <2>10
<1>2. Embargoed(within, end) = {r \in within : Cardinality(later(r)) >= period}
  BY DEF Embargoed
<1> QED BY <1>1, <1>2

\* round() errs by half a unit at most.
LEMMA RoundedIsNearest ==
  ASSUME NEW n \in Nat, NEW tenths \in Nat
  PROVE  /\ Rounded(n, tenths) \in Nat
         /\ 2 * Rounded(n, tenths) * 10 - 2 * n * tenths \in -10 .. 10
<1> DEFINE p == n * tenths
           q == p \div 10
           s == p % 10
<1>1. p \in Nat
  OBVIOUS
<1> HIDE DEF p
<1>2. q \in Nat /\ s \in 0 .. 9 /\ p = q * 10 + s
  BY <1>1
<1>3. Rounded(n, tenths) = IF s > 5 \/ (s = 5 /\ q % 2 = 1) THEN q + 1 ELSE q
  BY DEF Rounded, p
<1>4. 2 * n * tenths = 2 * p
  BY DEF p
<1> HIDE DEF q, s
<1>5. (s > 5 \/ (s = 5 /\ q % 2 = 1)) => s >= 5
  BY <1>2
<1>6. ~(s > 5 \/ (s = 5 /\ q % 2 = 1)) => s <= 5
  BY <1>2
<1>7. CASE s > 5 \/ (s = 5 /\ q % 2 = 1)
  <2>1. Rounded(n, tenths) = q + 1 /\ s >= 5
    BY <1>3, <1>5, <1>7
  <2> QED BY <1>2, <1>4, <2>1
<1>8. CASE ~(s > 5 \/ (s = 5 /\ q % 2 = 1))
  <2>1. Rounded(n, tenths) = q /\ s <= 5
    BY <1>3, <1>6, <1>8
  <2> QED BY <1>2, <1>4, <2>1
<1> QED BY <1>7, <1>8

\* The dates of the training are the first, and the others as many as asked for.
LEMMA TrainDatesAreFirst ==
  ASSUME NEW D, IsFiniteSet(D), D \subseteq Int, NEW tenths \in Nat
  PROVE  LET T == TrainDates(D, tenths)
             late == Cardinality(D \ T)
         IN /\ T \subseteq D
            /\ \A d \in T, e \in D \ T : d < e
            /\ T # {} =>
                 /\ late \in Nat /\ late >= 1 /\ late <= Cardinality(D)
                 /\ late > 1 => late = Rounded(Cardinality(D), tenths)
<1> DEFINE n == Cardinality(D)
           h == Max({1, Rounded(n, tenths)})
           T == TrainDates(D, tenths)
<1>1. n \in Nat /\ Rounded(n, tenths) \in Nat
  BY FS_CardinalityType, RoundedIsNearest
<1>2. h \in Nat /\ h >= 1 /\ (h = 1 \/ h = Rounded(n, tenths))
  BY <1>1 DEF Max
<1>3. T = {d \in D : Cardinality({e \in D : e > d}) >= h}
  BY DEF TrainDates
<1> HIDE DEF h, T
<1>4. \A d \in D : LET b == Cardinality({e \in D : e < d})
                   IN Cardinality({e \in D : e > d}) = n - 1 - b /\ b \in Nat
  <2> TAKE d \in D
  <2>1. Cardinality({e \in D : e > d}) = n - 1 - Cardinality({e \in D : e < d})
    BY AboveAndBelow
  <2>2. {e \in D : e < d} \subseteq D
    OBVIOUS
  <2> QED BY <2>1, <2>2, FS_Subset, FS_CardinalityType
<1>5. CASE h > n
  <2>1. \A d \in D : ~(Cardinality({e \in D : e > d}) >= h)
    <3> TAKE d \in D
    <3> DEFINE a == Cardinality({e \in D : e > d})
               b == Cardinality({e \in D : e < d})
    <3>1. a = n - 1 - b /\ b \in Nat
      BY <1>4
    <3> HIDE DEF a, b, n
    <3>2. ~(a >= h)
      BY <1>1, <1>2, <1>5, <3>1
    <3> QED BY <3>2 DEF a
  <2>2. T = {}
    BY <1>3, <2>1
  <2> QED BY <2>2 DEF T
<1>6. CASE h <= n
  <2>1. n - h \in Nat
    BY <1>1, <1>2, <1>6
  <2>2. T = Lowest(D, n - h)
    <3>1. \A d \in D : Cardinality({e \in D : e > d}) >= h
                         <=> Cardinality({e \in D : e < d}) < n - h
      BY <1>1, <1>2, <1>4
    <3> QED BY <1>3, <3>1 DEF Lowest
  <2>3. Cardinality(T) = n - h
    <3>1. Cardinality(Lowest(D, n - h)) = IF n - h <= n THEN n - h ELSE n
      BY <2>1, LowestSize
    <3> QED BY <1>1, <1>2, <2>1, <2>2, <3>1
  <2>4. T \subseteq D /\ IsFiniteSet(T) /\ IsFiniteSet(D \ T)
    BY <1>3, FS_Subset, FS_Difference
  <2>5. \A d \in T, e \in D \ T : d < e
    BY <2>1, <2>2, LowestAreBelow
  <2>6. Cardinality(D \ T) = h
    <3>1. T \cap (D \ T) = {} /\ T \cup (D \ T) = D
      BY <2>4
    <3>2. Cardinality(D) = Cardinality(T) + Cardinality(D \ T)
      BY <2>4, <3>1, DisjointSizes
    <3>3. Cardinality(D \ T) \in Nat
      BY <2>4, FS_CardinalityType
    <3> QED BY <1>1, <1>2, <2>3, <3>2, <3>3
  <2> QED BY <1>1, <1>2, <1>6, <2>4, <2>5, <2>6 DEF T
<1> QED BY <1>1, <1>2, <1>5, <1>6

\* The rows with a label, and those of the first dates among them.
LabelledRows == {r \in Rows : LabelDay(r[1], r[2]) # 0}
DatesOf(rows) == {r[2] : r \in rows}
EarlyRows(tenths) == {r \in LabelledRows : r[2] \in TrainDates(DatesOf(LabelledRows), tenths)}

LEMMA HoldoutParts ==
  ASSUME SplitTypeOK, NEW tenths \in Ratios
  PROVE  LET all == DatesOf(LabelledRows)
             T == TrainDates(all, tenths)
             early == EarlyRows(tenths)
             later == LabelledRows \ early
         IN /\ tenths \in Nat /\ IsFiniteSet(all) /\ all \subseteq Nat /\ T \subseteq all
            /\ DatesOf(early) = T /\ DatesOf(later) = all \ T
            /\ \A d \in T, e \in all \ T : d < e
<1> DEFINE all == DatesOf(LabelledRows)
           T == TrainDates(all, tenths)
           early == EarlyRows(tenths)
           later == LabelledRows \ early
<1>1. tenths \in Nat
  BY SplitAssumption
<1>2. all \subseteq 1 .. LastSampleDay
  BY DEF DatesOf, LabelledRows, Rows, SampleDays
<1>3. IsFiniteSet(all) /\ all \subseteq Nat /\ all \subseteq Int
  <2>1. IsFiniteSet(1 .. LastSampleDay) /\ 1 .. LastSampleDay \subseteq Nat
    BY FS_Interval, SplitAssumption
  <2> HIDE DEF all
  <2>2. IsFiniteSet(all)
    BY <1>2, <2>1, FS_Subset
  <2>3. \A d \in 1 .. LastSampleDay : d \in Nat /\ d \in Int
    OBVIOUS
  <2> QED BY <1>2, <2>2, <2>3
<1> HIDE DEF all
<1>4. T \subseteq all /\ \A d \in T, e \in all \ T : d < e
  BY <1>1, <1>3, TrainDatesAreFirst
<1>5. all = {r[2] : r \in LabelledRows} /\ early = {r \in LabelledRows : r[2] \in T}
  BY DEF all, DatesOf, EarlyRows
<1> HIDE DEF T, early
<1>6. DatesOf(early) = T /\ DatesOf(later) = all \ T
  BY <1>4, <1>5 DEF DatesOf
<1> QED BY <1>1, <1>3, <1>4, <1>6 DEF all, T, early

LEMMA HoldoutIsExact ==
  ASSUME SplitTypeOK, NEW tenths \in Ratios, EarlyRows(tenths) # {},
         split' = [by |-> "holdout", tenths |-> tenths, train |-> EarlyRows(tenths),
                   test |-> LabelledRows \ EarlyRows(tenths)],
         UNCHANGED <<days, period>>
  PROVE  HoldoutIsLater'
<1> DEFINE all == DatesOf(LabelledRows)
           T == TrainDates(all, tenths)
           early == EarlyRows(tenths)
           later == LabelledRows \ early
<1>1. /\ tenths \in Nat /\ IsFiniteSet(all) /\ all \subseteq Nat /\ all \subseteq Int
      /\ T \subseteq all /\ DatesOf(early) = T /\ DatesOf(later) = all \ T
      /\ \A d \in T, e \in all \ T : d < e
  BY HoldoutParts
<1>2. split'.train = early /\ split'.test = later /\ split'.tenths = tenths
  OBVIOUS
<1>3. LabelledRows' = LabelledRows
  BY DEF LabelledRows, Rows, LabelDay, After
<1>4. early \subseteq LabelledRows /\ early \cup later = LabelledRows
  BY DEF EarlyRows
<1>5. T # {}
  <2>1. PICK r \in early : TRUE
    OBVIOUS
  <2>2. r[2] \in DatesOf(early)
    BY DEF DatesOf
  <2> HIDE DEF early, T
  <2> QED BY <1>1, <2>2
<1> HIDE DEF all, T, early
<1>6. LET late == Cardinality(all \ T)
      IN /\ late \in Nat /\ late >= 1
         /\ late > 1 => late = Rounded(Cardinality(all), tenths)
  <2> HIDE DEF later
  <2> QED BY <1>1, <1>5, TrainDatesAreFirst DEF T
<1>7. (DatesOf(early) \cup DatesOf(later)) = all
  BY <1>1
<1>8. Cardinality(all) \in Nat
  BY <1>1, FS_CardinalityType
<1>9. Cardinality(all \ T) > 1 =>
        2 * Cardinality(all \ T) * 10 - 2 * Cardinality(all) * tenths \in -10 .. 10
  BY <1>1, <1>6, <1>8, RoundedIsNearest
<1>10. \A r \in early, s \in later : r[2] < s[2]
  BY <1>1 DEF DatesOf
<1>11. LabelledRows = {r \in Rows : LabelDay(r[1], r[2]) # 0}'
  BY <1>3 DEF LabelledRows
<1> DEFINE dates(rows) == {r[2] : r \in rows}
<1>12. dates(early) \cup dates(later) = all /\ dates(later) = all \ T
  BY <1>1, <1>7 DEF DatesOf
<1> HIDE DEF later, dates
<1>13. /\ \A r \in split'.train, s \in split'.test : r[2] < s[2]
       /\ split'.train \cup split'.test = {r \in Rows : LabelDay(r[1], r[2]) # 0}'
       /\ Cardinality(dates(split'.test)) >= 1
       /\ Cardinality(dates(split'.test)) > 1 =>
            2 * Cardinality(dates(split'.test)) * 10
              - 2 * Cardinality(dates(split'.train) \cup dates(split'.test)) * split'.tenths \in -10 .. 10
  BY <1>2, <1>4, <1>6, <1>9, <1>10, <1>11, <1>12 DEF later
<1> QED BY <1>13 DEF HoldoutIsLater, dates

\* What reads a price of the holdout is at the end of an instrument's training.
LEMMA LeaksAreFew ==
  ASSUME SplitTypeOK, NEW tenths \in Ratios, EarlyRows(tenths) # {},
         split' = [by |-> "holdout", tenths |-> tenths, train |-> EarlyRows(tenths),
                   test |-> LabelledRows \ EarlyRows(tenths)],
         UNCHANGED <<days, period>>
  PROVE  LeaksAreBounded'
<1> DEFINE all == DatesOf(LabelledRows)
           T == TrainDates(all, tenths)
           early == EarlyRows(tenths)
           later == LabelledRows \ early
           cut == Min({r[2] : r \in later})
<1>1. /\ tenths \in Nat /\ IsFiniteSet(all) /\ all \subseteq Nat /\ all \subseteq Int
      /\ T \subseteq all /\ DatesOf(early) = T /\ DatesOf(later) = all \ T
      /\ \A d \in T, e \in all \ T : d < e
  BY HoldoutParts
<1>2. early \subseteq Rows
  BY DEF EarlyRows, LabelledRows
<1>3. \A r \in early : r[2] \in T
  BY <1>1 DEF DatesOf
<1>4. T # {}
  BY <1>3
<1>5. all \ T # {}
  <2>1. Cardinality(all \ T) >= 1 /\ Cardinality(all \ T) \in Nat
    <3> HIDE DEF all, early
    <3> QED BY <1>1, <1>4, TrainDatesAreFirst
  <2>2. Cardinality({}) = 0
    BY FS_EmptySet
  <2> HIDE DEF all, T
  <2> QED BY <2>1, <2>2
<1>6. {r[2] : r \in later} = all \ T
  BY <1>1 DEF DatesOf
<1> HIDE DEF all, T, early, later
<1>7. cut \in all \ T
  <2>1. all \ T \subseteq Nat
    BY <1>1
  <2>2. \E d \in all \ T : \A e \in all \ T : d <= e
    BY <1>5, <2>1, SmallestElement
  <2> QED BY <1>6, <2>2 DEF Min
<1>8. cut \in Nat /\ \A d \in T : d < cut
  BY <1>1, <1>7
<1> HIDE DEF cut
<1> DEFINE leaks(i) == {r \in early : r[1] = i /\ LabelDay(i, r[2]) >= cut}
<1>9. ASSUME NEW i \in Instruments PROVE Cardinality(leaks(i)) <= period
  <2> DEFINE L == {d \in days[i] : <<i, d>> \in early /\ LabelDay(i, d) >= cut}
  <2>1. /\ IsFiniteSet(L) /\ L \subseteq Int /\ L \subseteq 1 .. LastSampleDay
        /\ Cardinality(L) \in Nat /\ period \in Nat \ {0}
    <3>1. L \subseteq days[i]
      OBVIOUS
    <3> HIDE DEF L
    <3> QED BY <3>1, DaysFinite
  <2>2. leaks(i) = {<<i, d>> : d \in L}
    <3>1. ASSUME NEW r \in leaks(i) PROVE r \in {<<i, d>> : d \in L}
      <4>1. r \in early /\ r[1] = i /\ LabelDay(i, r[2]) >= cut
        OBVIOUS
      <4>2. r = <<i, r[2]>> /\ r[2] \in days[i]
        BY <1>2, <4>1 DEF Rows
      <4> QED BY <4>1, <4>2
    <3>2. \A d \in L : <<i, d>> \in leaks(i)
      OBVIOUS
    <3> QED BY <3>1, <3>2
  <2>3. Cardinality(leaks(i)) = Cardinality(L)
    <3> HIDE DEF L, leaks
    <3>1. Cardinality({<<i, d>> : d \in L}) = Cardinality(L)
      BY <2>1, ColumnSize
    <3> QED BY <2>2, <3>1
  <2>4. CASE L = {}
    <3>1. Cardinality(L) = 0
      BY <2>4, FS_EmptySet
    <3> HIDE DEF L, leaks
    <3> QED BY <2>1, <2>3, <3>1
  <2>5. CASE L # {}
    <3>1. PICK d \in L : \A e \in L : d <= e
      <4>1. L \subseteq Nat
        BY <2>1
      <4> HIDE DEF L
      <4> QED BY <2>5, <4>1, SmallestElement
    <3>2. d \in days[i] /\ d \in 1 .. LastSampleDay /\ d \in Int /\ LabelDay(i, d) >= cut
      BY <2>1
    <3> DEFINE l == LabelDay(i, d)
               labelled == {x \in After(i, d) : x <= l}
    <3>3. IF Cardinality(After(i, d)) < period THEN l = 0
          ELSE l \in After(i, d) /\ Cardinality(labelled) = period
      BY <3>2, LabelIs
    <3>4. cut >= 1
      BY <1>8, <1>3, <3>2, <2>1
    <3>5. l \in After(i, d) /\ Cardinality(labelled) = period
      BY <1>8, <3>2, <3>3, <3>4
    <3>6. IsFiniteSet(After(i, d)) /\ After(i, d) \subseteq Int
      <4>1. After(i, d) \subseteq days[i]
        BY DEF After
      <4> QED BY <4>1, DaysFinite
    <3>7. IsFiniteSet(labelled) /\ l \in labelled /\ l \in Int
      BY <3>5, <3>6, FS_Subset
    <3> HIDE DEF l
    <3> DEFINE rest == labelled \ {l}
    <3>8. IsFiniteSet(rest) /\ Cardinality(rest) = period - 1
      <4> HIDE DEF labelled
      <4> QED BY <3>5, <3>7, FS_RemoveElement
    <3>9. L \subseteq rest \cup {d}
      <4> SUFFICES ASSUME NEW e \in L, e # d PROVE e \in rest
        OBVIOUS
      <4>1. e \in days[i] /\ e \in Int /\ d < e
        BY <2>1, <3>1, <3>2
      <4>2. e < cut
        BY <1>3, <1>8
      <4>3. e < l
        BY <1>8, <3>2, <3>7, <4>1, <4>2 DEF l
      <4> QED BY <3>7, <4>1, <4>3 DEF After
    <3>10. IsFiniteSet(rest \cup {d}) /\ Cardinality(rest \cup {d}) <= period
      <4> HIDE DEF rest
      <4>1. /\ IsFiniteSet(rest \cup {d})
            /\ Cardinality(rest \cup {d})
                 = IF d \in rest THEN Cardinality(rest) ELSE Cardinality(rest) + 1
        BY <3>8, FS_AddElement
      <4> QED BY <2>1, <3>8, <4>1
    <3>11. Cardinality(L) <= Cardinality(rest \cup {d}) /\ Cardinality(rest \cup {d}) \in Nat
      <4> HIDE DEF L, rest
      <4> QED BY <3>9, <3>10, FewerInPart
    <3> HIDE DEF L, rest, leaks
    <3> QED BY <2>1, <2>3, <3>10, <3>11
  <2> QED BY <2>4, <2>5
<1>10. split'.train = early /\ split'.test = later
  BY DEF early, later
<1>11. \A i \in Instruments : \A d : LabelDay(i, d)' = LabelDay(i, d)
  BY DEF LabelDay, After
<1>12. \A i \in Instruments :
         Cardinality({r \in split'.train : r[1] = i /\ LabelDay(i, r[2])' >= Min({q[2] : q \in split'.test})})
           <= period'
  <2> TAKE i \in Instruments
  <2>1. {r \in split'.train : r[1] = i /\ LabelDay(i, r[2])' >= Min({q[2] : q \in split'.test})} = leaks(i)
    BY <1>10, <1>11 DEF cut
  <2> HIDE DEF leaks
  <2> QED BY <1>9, <2>1
<1> QED BY <1>12 DEF LeaksAreBounded

\* The test windows are those that fit, one after the other.
LEMMA WindowsFollow ==
  ASSUME NEW w \in Windows, w.n >= w.train + w.test, w.train > 0, w.test > 0
  PROVE  \E m \in Nat \ {0} :
           /\ m * w.test \in Nat
           /\ w.train + m * w.test <= w.n /\ w.n < w.train + (m + 1) * w.test
           /\ {k \in 0 .. w.n : Step(w, k) + w.test <= w.n} = 0 .. m - 1
<1> DEFINE n == w.n
           t == w.train
           u == w.test
           m == (n - t) \div u
<1>1. n \in Nat /\ t \in Nat \ {0} /\ u \in Nat \ {0} /\ n >= t + u
  BY SplitAssumption
<1> HIDE DEF n, t, u
<1>2. n - t \in Nat /\ n - t >= u
  BY <1>1
<1>3. m \in Nat /\ m * u <= n - t /\ n - t < (m + 1) * u
  <2> DEFINE a == n - t
  <2>1. a \in Nat /\ a \in Int
    BY <1>2
  <2> HIDE DEF a
  <2>2. a \div u \in Nat /\ (a \div u) * u <= a /\ a < (a \div u + 1) * u
    BY <1>1, <2>1, Division
  <2> QED BY <2>2 DEF a
<1> HIDE DEF m
<1>4. m * u \in Nat /\ (m + 1) * u = m * u + u
  BY <1>1, <1>3
<1>5. m # 0
  BY <1>1, <1>2, <1>3, <1>4
<1>6. ASSUME NEW k \in Nat PROVE t + k * u + u <= n <=> k <= m - 1
  <2>1. k * u \in Nat
    BY <1>1
  <2>2. ASSUME k <= m - 1 PROVE t + k * u + u <= n
    <3>1. (k + 1) * u <= m * u
      <4>1. k + 1 <= m /\ k + 1 \in Nat
        BY <1>3, <2>2
      <4> QED BY <1>1, <1>3, <4>1
    <3>2. (k + 1) * u = k * u + u
      BY <1>1
    <3> QED BY <1>1, <1>3, <1>4, <2>1, <3>1, <3>2
  <2>3. ASSUME ~(k <= m - 1) PROVE ~(t + k * u + u <= n)
    <3>1. m <= k
      BY <1>3, <2>3
    <3>2. m * u <= k * u
      BY <1>1, <1>3, <3>1
    <3> QED BY <1>1, <1>3, <1>4, <2>1, <3>2
  <2> QED BY <2>2, <2>3
<1>7. m <= n
  <2>1. m <= m * u
    <3>1. m * 1 <= m * u
      BY <1>1, <1>3
    <3> QED BY <1>3, <3>1
  <2> QED BY <1>1, <1>3, <1>4, <2>1
<1>8. {k \in 0 .. n : t + k * u + u <= n} = 0 .. m - 1
  <2>1. \A k : k \in 0 .. m - 1 => k \in Nat /\ k <= m - 1 /\ k \in 0 .. n
    BY <1>1, <1>3, <1>7
  <2>2. \A k \in 0 .. n : k \in Nat
    BY <1>1
  <2>3. \A k \in 0 .. n : k <= m - 1 => k \in 0 .. m - 1
    BY <1>3
  <2> QED BY <1>6, <2>1, <2>2, <2>3
<1>9. t + m * u <= n /\ n < t + (m + 1) * u
  BY <1>1, <1>3, <1>4
<1>10. m \in Nat \ {0}
  BY <1>3, <1>5
<1> QED BY <1>4, <1>8, <1>9, <1>10 DEF n, t, u, Step

\* They cover what they should, and the tests are as many units as windows.
LEMMA WindowsAreWhole ==
  ASSUME NEW w \in Windows, w.n >= w.train + w.test, w.train > 0, w.test > 0,
         split' = [by |-> "windows", of |-> w, all |-> Slices(w)]
  PROVE  WindowsTile'
<1> DEFINE n == w.n
           t == w.train
           u == w.test
<1>1. n \in Nat /\ t \in Nat \ {0} /\ u \in Nat \ {0}
  BY SplitAssumption
<1>2. PICK m \in Nat \ {0} :
        /\ m * u \in Nat /\ t + m * u <= n /\ n < t + (m + 1) * u
        /\ {k \in 0 .. n : Step(w, k) + u <= n} = 0 .. m - 1
  BY WindowsFollow
<1> DEFINE K == 0 .. m - 1
           slice(k) == [train_lo |-> IF w.mode = "anchored" THEN 0 ELSE Step(w, k) - w.train,
                        train_hi |-> Step(w, k), test_hi |-> Step(w, k) + w.test]
           S == Slices(w)
           tested == UNION {s.train_hi .. s.test_hi - 1 : s \in S}
<1>3. S = {slice(k) : k \in K}
  BY <1>2 DEF Slices
<1>4. \A k \in K : k \in Nat /\ k * u \in Nat /\ Step(w, k) = t + k * u
  BY <1>1 DEF Step
<1>5. /\ slice(0).train_hi = slice(0).train_hi
      /\ \A k \in K : slice(k).train_hi = t + k * u /\ slice(k).test_hi = t + k * u + u
  BY <1>4
<1> HIDE DEF n, t, u
<1>6. (m + 1) * u = m * u + u
  BY <1>1, <1>2
<1>7. \A k \in K : k * u + u <= m * u /\ (k + 1) * u = k * u + u
  <2> TAKE k \in K
  <2>1. k + 1 <= m /\ k + 1 \in Nat /\ (k + 1) * u = k * u + u
    BY <1>1, <1>2, <1>4
  <2>2. (k + 1) * u <= m * u
    BY <1>1, <1>2, <2>1
  <2> QED BY <2>1, <2>2
<1>8. tested = t .. t + m * u - 1
  <2>1. ASSUME NEW x \in tested PROVE x \in t .. t + m * u - 1
    <3>1. PICK k \in K : x \in t + k * u .. t + k * u + u - 1
      <4>1. PICK s \in S : x \in s.train_hi .. s.test_hi - 1
        OBVIOUS
      <4>2. PICK k \in K : s = slice(k)
        BY <1>3
      <4> HIDE DEF slice, S, K
      <4>3. s.train_hi = t + k * u /\ s.test_hi = t + k * u + u
        BY <1>5, <4>2
      <4> DEFINE p == k * u
      <4>4. p \in Nat /\ s.train_hi = t + p /\ s.test_hi = t + p + u
        BY <1>4, <4>3
      <4> HIDE DEF p
      <4>5. x \in t + p .. t + p + u - 1
        BY <1>1, <4>1, <4>4
      <4> QED BY <4>5 DEF p
    <3>2. k * u \in Nat /\ k * u + u <= m * u
      BY <1>4, <1>7
    <3> QED BY <1>1, <1>2, <3>1, <3>2
  <2>2. ASSUME NEW x \in t .. t + m * u - 1 PROVE x \in tested
    <3> DEFINE k == (x - t) \div u
    <3>1. x - t \in Nat /\ x \in Int
      BY <1>1
    <3>2. k \in Nat /\ k * u <= x - t /\ x - t < (k + 1) * u
      <4> DEFINE a == x - t
      <4>1. a \in Nat /\ a \in Int
        BY <3>1
      <4> HIDE DEF a
      <4>2. a \div u \in Nat /\ (a \div u) * u <= a /\ a < (a \div u + 1) * u
        BY <1>1, <4>1, Division
      <4> QED BY <4>2 DEF a
    <3> HIDE DEF k
    <3>3. k * u \in Nat /\ (k + 1) * u = k * u + u
      BY <1>1, <3>2
    <3>4. k < m
      <4> SUFFICES ASSUME k >= m PROVE FALSE
        BY <1>2, <3>2
      <4>1. m * u <= k * u
        BY <1>1, <1>2, <3>2
      <4> QED BY <1>1, <1>2, <3>1, <3>2, <3>3, <4>1
    <3>5. k \in K
      BY <1>2, <3>2, <3>4
    <3>6. slice(k) \in S /\ slice(k).train_hi = t + k * u /\ slice(k).test_hi = t + k * u + u
      BY <1>3, <1>5, <3>5
    <3>7. x \in slice(k).train_hi .. slice(k).test_hi - 1
      BY <1>1, <3>1, <3>2, <3>3, <3>6
    <3> HIDE DEF slice, S
    <3> QED BY <3>6, <3>7
  <2> HIDE DEF tested
  <2> QED BY <2>1, <2>2
<1>9. Cardinality(tested) = m * u
  <2>1. t \in Int /\ t + m * u - 1 \in Int
    BY <1>1, <1>2
  <2> DEFINE b == t + m * u - 1
  <2>2. b \in Int /\ tested = t .. b /\ b - t + 1 = m * u /\ (t > b => m * u = 0)
    BY <1>1, <1>2, <1>8
  <2> HIDE DEF b, tested
  <2>3. Cardinality(t .. b) = IF t > b THEN 0 ELSE b - t + 1
    BY <2>1, <2>2, FS_Interval
  <2> QED BY <2>2, <2>3
<1>10. Cardinality(S) = m
  <2> DEFINE f == [k \in K |-> slice(k)]
  <2>1. f \in [K -> S]
    BY <1>3
  <2>2. ASSUME NEW j \in K, NEW k \in K, f[j] = f[k] PROVE j = k
    <3>1. slice(j).train_hi = slice(k).train_hi
      BY <2>2
    <3>2. t + j * u = t + k * u
      <4> HIDE DEF slice, K
      <4> QED BY <1>5, <3>1
    <3>3. j * u = k * u
      BY <1>1, <1>4, <3>2
    <3> QED BY <1>1, <1>4, <3>3
  <2>3. f \in Injection(K, S)
    <3> HIDE DEF f, K, S
    <3> QED BY <2>1, <2>2 DEF Injection, IsInjective
  <2>4. f \in Surjection(K, S)
    BY <1>3, <2>1 DEF Surjection
  <2>5. ExistsBijection(K, S)
    <3> HIDE DEF f, K, S
    <3> QED BY <2>3, <2>4 DEF ExistsBijection, Bijection
  <2>6. IsFiniteSet(K) /\ Cardinality(K) = m
    <3>1. 0 \in Int /\ m - 1 \in Int /\ m > 0
      BY <1>2
    <3>2. IsFiniteSet(K) /\ Cardinality(K) = IF 0 > m - 1 THEN 0 ELSE m - 1 - 0 + 1
      BY <3>1, FS_Interval
    <3> HIDE DEF K
    <3> QED BY <1>2, <3>1, <3>2
  <2> HIDE DEF K, S
  <2> QED BY <2>5, <2>6, FS_Bijection
<1>11. w.test = u /\ w.train = t /\ w.n = n /\ w.mode \in {"rolling", "anchored"}
  BY SplitAssumption DEF n, t, u
<1>12. ASSUME NEW s \in S
       PROVE  /\ s.train_lo >= 0 /\ s.train_hi - s.train_lo >= w.train
              /\ w.mode = "rolling" => s.train_hi - s.train_lo = w.train
              /\ w.mode = "anchored" => s.train_lo = 0
  <2>1. PICK k \in K : s = slice(k)
    BY <1>3
  <2>2. /\ s.train_hi = t + k * u /\ k * u \in Nat
        /\ s.train_lo = IF w.mode = "anchored" THEN 0 ELSE t + k * u - t
    <3>1. /\ slice(k).train_hi = Step(w, k)
          /\ slice(k).train_lo = IF w.mode = "anchored" THEN 0 ELSE Step(w, k) - w.train
      OBVIOUS
    <3> HIDE DEF slice, S, K
    <3>2. Step(w, k) = t + k * u /\ k * u \in Nat /\ w.train = t
      BY <1>4, <1>11
    <3>3. s.train_hi = t + k * u
      BY <2>1, <3>1, <3>2
    <3>4. CASE w.mode = "anchored"
      BY <2>1, <3>1, <3>2, <3>3, <3>4
    <3>5. CASE w.mode # "anchored"
      <4>1. s.train_lo = Step(w, k) - w.train
        BY <2>1, <3>1, <3>5
      <4>2. t + k * u - t = (t + k * u) - t
        BY <1>1, <3>2
      <4> QED BY <3>2, <3>3, <3>5, <4>1, <4>2
    <3> QED BY <3>4, <3>5
  <2> HIDE DEF slice, S, K
  <2>3. CASE w.mode = "anchored"
    BY <1>1, <1>11, <2>2, <2>3
  <2>4. CASE w.mode = "rolling"
    BY <1>1, <1>11, <2>2, <2>4
  <2> QED BY <1>11, <2>3, <2>4
<1>13. \E end \in n - u + 1 .. n : tested = t .. end - 1
  <2>1. t + m * u \in n - u + 1 .. n
    BY <1>1, <1>2, <1>6
  <2> HIDE DEF tested
  <2> DEFINE last == t + m * u
  <2>2. tested = t .. last - 1
    <3>1. t + m * u - 1 = last - 1
      BY <1>1, <1>2
    <3> HIDE DEF last
    <3> QED BY <1>8, <3>1
  <2>3. last \in n - u + 1 .. n
    BY <2>1
  <2> HIDE DEF last
  <2> QED BY <2>2, <2>3
<1>14. m * u = u * m
  BY <1>1, <1>2
<1>15. split'.of = w /\ split'.all = S
  OBVIOUS
<1> HIDE DEF S, K, slice
<1> QED BY <1>9, <1>10, <1>11, <1>12, <1>13, <1>14, <1>15 DEF WindowsTile

-----------------------------------------------------------------------------

LEMMA SamplesInit == SplitInit => SamplesAreApart
<1> SUFFICES ASSUME SplitInit PROVE SamplesAreApart
  OBVIOUS
<1>1. split.by = "none"
  BY DEF SplitInit, None
<1> QED
  BY <1>1 DEF SplitInit, SamplesAreApart, SplitTypeOK, LabelsStayInside, HoldoutIsLater,
              LeaksAreBounded, WindowsTile

\* What was refused says nothing.
LEMMA RefusedIsFine ==
  ASSUME SplitTypeOK, UNCHANGED <<days, period>>, split' = [by |-> "refused"]
  PROVE  SamplesAreApart'
<1>1. split'.by = "refused"
  OBVIOUS
<1> QED
  BY <1>1 DEF SamplesAreApart, SplitTypeOK, LabelsStayInside, HoldoutIsLater,
              LeaksAreBounded, WindowsTile

LEMMA SamplesStep == SamplesAreApart /\ [SplitNext]_splitVars => SamplesAreApart'
<1> SUFFICES ASSUME SamplesAreApart, [SplitNext]_splitVars PROVE SamplesAreApart'
  OBVIOUS
<1>1. SplitTypeOK
  BY DEF SamplesAreApart
<1>3. ASSUME NEW end \in SampleDays, IsEndSplit(end) PROVE SamplesAreApart'
  <2> DEFINE within == {r \in Rows : r[2] <= end}
             labels == Embargoed(within, end)
  <2>1. UNCHANGED <<days, period>>
    BY <1>3 DEF IsEndSplit
  <2>2. CASE split' = [by |-> "refused"]
    BY <1>1, <2>1, <2>2, RefusedIsFine
  <2>3. CASE split' = [by |-> "is_end", end |-> end, features |-> within,
                       train |-> labels, test |-> Rows \ within]
    <3>1. labels = {r \in Rows : LabelDay(r[1], r[2]) \in 1 .. end}
      BY <1>1, EmbargoIsExact
    <3> HIDE DEF labels, within
    <3>2. /\ split'.by = "is_end" /\ split'.end = end /\ split'.train = labels
          /\ split'.test = Rows \ within
      BY <2>3
    <3>3. Rows' = Rows /\ \A i, d : LabelDay(i, d)' = LabelDay(i, d)
      BY <2>1 DEF Rows, LabelDay, After
    <3>4. SplitTypeOK'
      BY <1>1, <2>1, <3>1, <3>2, <3>3 DEF SplitTypeOK
    <3>5. LabelsStayInside'
      BY <3>1, <3>2, <3>3 DEF LabelsStayInside
    <3> QED
      BY <3>2, <3>4, <3>5 DEF SamplesAreApart, HoldoutIsLater, LeaksAreBounded, WindowsTile
  <2> QED BY <1>3, <2>2, <2>3 DEF IsEndSplit
<1>4. ASSUME NEW tenths \in Ratios, HoldoutSplit(tenths) PROVE SamplesAreApart'
  <2>1. UNCHANGED <<days, period>>
    BY <1>4 DEF HoldoutSplit
  <2>2. \/ split' = [by |-> "refused"]
        \/ /\ EarlyRows(tenths) # {}
           /\ split' = [by |-> "holdout", tenths |-> tenths, train |-> EarlyRows(tenths),
                        test |-> LabelledRows \ EarlyRows(tenths)]
    BY <1>4 DEF HoldoutSplit, EarlyRows, LabelledRows, DatesOf
  <2>3. CASE split' = [by |-> "refused"]
    BY <1>1, <2>1, <2>3, RefusedIsFine
  <2>4. CASE /\ EarlyRows(tenths) # {}
             /\ split' = [by |-> "holdout", tenths |-> tenths, train |-> EarlyRows(tenths),
                          test |-> LabelledRows \ EarlyRows(tenths)]
    <3>1. HoldoutIsLater' /\ LeaksAreBounded'
      BY <1>1, <2>1, <2>4, HoldoutIsExact, LeaksAreFew
    <3>2. /\ split'.by = "holdout" /\ split'.train = EarlyRows(tenths)
          /\ split'.test = LabelledRows \ EarlyRows(tenths)
      BY <2>4
    <3>3. Rows' = Rows /\ LabelledRows \subseteq Rows /\ EarlyRows(tenths) \subseteq LabelledRows
      BY <2>1 DEF Rows, LabelledRows, EarlyRows
    <3>4. SplitTypeOK'
      BY <1>1, <2>1, <3>2, <3>3 DEF SplitTypeOK
    <3> QED
      BY <3>1, <3>2, <3>4 DEF SamplesAreApart, LabelsStayInside, WindowsTile
  <2> QED BY <2>2, <2>3, <2>4
<1>5. ASSUME NEW w \in Windows, WalkForward(w) PROVE SamplesAreApart'
  <2>1. UNCHANGED <<days, period>>
    BY <1>5 DEF WalkForward
  <2>2. CASE split' = [by |-> "refused"]
    BY <1>1, <2>1, <2>2, RefusedIsFine
  <2>3. CASE split' # [by |-> "refused"]
    <3>1. /\ w.n >= w.train + w.test /\ ~(Min({w.train, w.test}) < MinWindow)
          /\ split' = [by |-> "windows", of |-> w, all |-> Slices(w)]
      <4>1. w.n \in Nat /\ w.train + w.test \in Nat
        BY SplitAssumption
      <4> QED BY <1>5, <2>3, <4>1 DEF WalkForward
    <3>2. w.train > 0 /\ w.test > 0
      <4>1. w.train \in Nat /\ w.test \in Nat /\ MinWindow \in Nat \ {0}
        BY SplitAssumption
      <4>2. Min({w.train, w.test}) <= w.train /\ Min({w.train, w.test}) <= w.test
            /\ Min({w.train, w.test}) \in Nat
        BY <4>1 DEF Min
      <4> HIDE DEF Min
      <4> QED BY <3>1, <4>1, <4>2
    <3>3. WindowsTile'
      BY <3>1, <3>2, WindowsAreWhole
    <3>4. split'.by = "windows"
      BY <3>1
    <3>5. SplitTypeOK'
      BY <1>1, <2>1, <3>4 DEF SplitTypeOK
    <3> QED
      BY <3>3, <3>4, <3>5
         DEF SamplesAreApart, LabelsStayInside, HoldoutIsLater, LeaksAreBounded
  <2> QED BY <2>2, <2>3
<1>6. CASE UNCHANGED splitVars
  <2>1. days' = days /\ period' = period /\ split' = split
    BY <1>6 DEF splitVars
  <2>2. Rows' = Rows /\ \A i, d : LabelDay(i, d)' = LabelDay(i, d)
    BY <2>1 DEF Rows, LabelDay, After
  <2>3. SplitTypeOK' /\ LabelsStayInside' /\ WindowsTile'
    BY <2>1, <2>2 DEF SamplesAreApart, SplitTypeOK, LabelsStayInside, WindowsTile
  <2>4. HoldoutIsLater' /\ LeaksAreBounded'
    BY <2>1, <2>2 DEF SamplesAreApart, HoldoutIsLater, LeaksAreBounded
  <2> QED BY <2>3, <2>4 DEF SamplesAreApart
<1> QED BY <1>3, <1>4, <1>5, <1>6 DEF SplitNext

\* Training and test are apart for any bars of any instruments, periods, ratios and
\* windows (split_by_is_end, split_train_holdout, _slice_windows): labels stay inside
\* their sample, the holdout is later and has its share, what leaks into it is bounded
\* by the label's period, and the tests of a walk-forward analysis tile the bars.
THEOREM SamplesStayApart == SplitSpec => []SamplesAreApart
<1> QED BY SamplesInit, SamplesStep, PTL DEF SplitSpec

-----------------------------------------------------------------------------
(* Price histories: adjusted prices *)

\* What is known of a history before any step, and stays.
HistoryTypes ==
  /\ close \in Histories /\ actions \in ActionSets
  /\ today \in HistoryDays \cup {0} /\ bar \in 0 .. BarsPerDay /\ qty \in {0, 1}
  /\ (today # 0 => bar >= 1)
  /\ opened \in [HistoryDays -> {0, 1}] /\ credited \in [HistoryDays -> Int]

AdjustInv ==
  /\ HistoryTypes
  /\ (factor = <<>> \/ factor = [d \in Sessions |-> FactorOf(d)])

LEMMA HistoryFacts ==
  ASSUME HistoryTypes
  PROVE  /\ Sessions \subseteq HistoryDays /\ Sessions # {} /\ IsFiniteSet(Sessions)
         /\ HistoryDays \subseteq Nat \ {0}
         /\ \A d \in Sessions : d \in Int /\ close[d] \in Nat \ {0}
         /\ IsFiniteSet(actions) /\ actions \subseteq Actions
         /\ \A a \in actions : /\ a.ex \in Nat /\ a.kind \in {"split", "dividend"}
                               /\ a.amount \in Nat \ {0}
<1>1. PICK S \in (SUBSET HistoryDays) \ {{}} : close \in [S -> HistoryPrices]
  BY DEF HistoryTypes, Histories
<1>2. HistoryDays \subseteq Nat \ {0} /\ IsFiniteSet(HistoryDays)
  BY HistoryAssumption, FS_Interval DEF HistoryDays
<1>3. Sessions = S /\ IsFiniteSet(S)
  BY <1>1, <1>2, FS_Subset DEF Sessions
<1>4. \A d \in Sessions : d \in Int /\ close[d] \in Nat \ {0}
  <2> TAKE d \in Sessions
  <2>1. d \in Nat /\ close[d] \in HistoryPrices
    BY <1>1, <1>2, <1>3
  <2>2. HistoryPrices \subseteq Nat \ {0}
    BY HistoryAssumption
  <2>3. d \in Int
    BY <2>1
  <2>4. close[d] \in Nat \ {0}
    BY <2>1, <2>2
  <2> QED BY <2>3, <2>4
<1>5. IsFiniteSet(actions) /\ actions \subseteq Actions
  BY DEF HistoryTypes, ActionSets
<1>6. \A a \in actions : a.ex \in Nat /\ a.kind \in {"split", "dividend"} /\ a.amount \in Nat \ {0}
  BY <1>5, HistoryAssumption
<1> QED BY <1>1, <1>2, <1>3, <1>4, <1>5, <1>6

\* The last close before a day, between neighbours.
LEMMA CloseBeforeIs ==
  ASSUME HistoryTypes, NEW d, NEW e, Neighbours(d, e), NEW ex \in Nat, d < ex, ex <= e
  PROVE  CloseBefore(ex) = close[d]
<1> DEFINE before == {x \in Sessions : x < ex}
<1>1. /\ d \in Sessions /\ e \in Sessions /\ d \in Int /\ e \in Int
      /\ Sessions \cap (d + 1 .. e - 1) = {} /\ Sessions \subseteq Int /\ IsFiniteSet(Sessions)
  BY HistoryFacts DEF Neighbours
<1>2. d \in before /\ before \subseteq Int /\ IsFiniteSet(before)
  BY <1>1, FS_Subset
<1>3. \A x \in before : x <= d
  <2> TAKE x \in before
  <2>1. x \in Sessions /\ x \in Int /\ x < ex
    BY <1>1
  <2>2. x \notin d + 1 .. e - 1
    BY <1>1, <2>1
  <2> QED BY <1>1, <2>1, <2>2
<1> HIDE DEF before
<1>4. Max(before) \in before /\ d <= Max(before)
  BY <1>2, MaxIs
<1>5. Max(before) = d
  <2>1. Max(before) <= d /\ Max(before) \in Int
    BY <1>2, <1>3, <1>4
  <2> QED BY <1>1, <1>4, <2>1
<1> QED BY <1>2, <1>5 DEF CloseBefore, before

\* A ratio is one of integers.
LEMMA RatioType ==
  ASSUME HistoryTypes, NEW a \in actions
  PROVE  Ratio(a)[1] \in Int /\ Ratio(a)[2] \in Int
<1>1. a.amount \in Nat \ {0}
  BY HistoryFacts
<1>2. CloseBefore(a.ex) \in Int
  <2> DEFINE before == {x \in Sessions : x < a.ex}
  <2>1. /\ IsFiniteSet(Sessions) /\ before \subseteq Sessions
        /\ \A d \in Sessions : d \in Int /\ close[d] \in Nat
    BY HistoryFacts
  <2>2. before # {} => Max(before) \in before
    <3>1. IsFiniteSet(before) /\ before \subseteq Int
      BY <2>1, FS_Subset
    <3> HIDE DEF before
    <3> QED BY <3>1, MaxIs
  <2>3. CloseBefore(a.ex) = IF before = {} THEN 0 ELSE close[Max(before)]
    BY DEF CloseBefore
  <2> HIDE DEF before
  <2> QED BY <2>1, <2>2, <2>3
<1>3. Ratio(a) = <<1, a.amount>> \/ Ratio(a) = <<1, 1>>
        \/ Ratio(a) = <<CloseBefore(a.ex) - a.amount, CloseBefore(a.ex)>>
  BY DEF Ratio
<1> QED BY <1>1, <1>2, <1>3

\* One more action multiplies the factor by its ratio.
LEMMA FactorStep ==
  ASSUME HistoryTypes, NEW d, NEW e, NEW a \in actions,
         Scaled(d) = Scaled(e) \cup {a}, a \notin Scaled(e)
  PROVE  /\ FactorOf(e)[1] \in Int /\ FactorOf(e)[2] \in Int
         /\ FactorOf(d)[1] = FactorOf(e)[1] * Ratio(a)[1]
         /\ FactorOf(d)[2] = FactorOf(e)[2] * Ratio(a)[2]
<1> DEFINE f == [x \in actions |-> Ratio(x)[1]]
           g == [x \in actions |-> Ratio(x)[2]]
<1>1. \A x \in actions : f[x] \in Int /\ g[x] \in Int /\ f[x] = Ratio(x)[1] /\ g[x] = Ratio(x)[2]
  BY RatioType
<1>2. Scaled(e) \subseteq actions /\ IsFiniteSet(Scaled(e))
  <2>1. Scaled(e) \subseteq actions
    BY DEF Scaled
  <2> QED BY <2>1, HistoryFacts, FS_Subset
<1>3. \A x \in Scaled(e) \cup {a} : f[x] \in Int /\ g[x] \in Int
  BY <1>1, <1>2
<1>4. /\ FactorOf(e)[1] = ProductOf(f, Scaled(e)) /\ FactorOf(e)[2] = ProductOf(g, Scaled(e))
      /\ FactorOf(d)[1] = ProductOf(f, Scaled(d)) /\ FactorOf(d)[2] = ProductOf(g, Scaled(d))
  BY DEF FactorOf, Product, ProductOf
<1> HIDE DEF f, g
<1>5. ProductOf(f, Scaled(e)) \in Int /\ ProductOf(g, Scaled(e)) \in Int
  BY <1>2, <1>3, ProductType
<1>6. /\ ProductOf(f, Scaled(e) \cup {a}) = ProductOf(f, Scaled(e)) * f[a]
      /\ ProductOf(g, Scaled(e) \cup {a}) = ProductOf(g, Scaled(e)) * g[a]
  BY <1>2, <1>3, ProductAdd
<1> QED BY <1>1, <1>4, <1>5, <1>6

LEMMA FactorType ==
  ASSUME HistoryTypes, NEW e PROVE FactorOf(e)[1] \in Int /\ FactorOf(e)[2] \in Int
<1> DEFINE f == [x \in actions |-> Ratio(x)[1]]
           g == [x \in actions |-> Ratio(x)[2]]
<1>1. \A x \in actions : f[x] \in Int /\ g[x] \in Int
  BY RatioType
<1>2. Scaled(e) \subseteq actions /\ IsFiniteSet(Scaled(e))
  <2>1. Scaled(e) \subseteq actions
    BY DEF Scaled
  <2> QED BY <2>1, HistoryFacts, FS_Subset
<1>3. FactorOf(e)[1] = ProductOf(f, Scaled(e)) /\ FactorOf(e)[2] = ProductOf(g, Scaled(e))
  BY DEF FactorOf, Product, ProductOf
<1> HIDE DEF f, g
<1>4. ProductOf(f, Scaled(e)) \in Int /\ ProductOf(g, Scaled(e)) \in Int
  BY <1>1, <1>2, ProductType
<1> QED BY <1>3, <1>4

\* Five integers in another order.
LEMMA Reordered ==
  \A b, c, p, q, m \in Int :
    /\ b * p * (q * m) * c = c * p * q * (b * m)
    /\ b * (p * 1) * (q * m) * c = c * p * q * (b * m)
    /\ b * p * (q * c) * m = c * (p * m) * q * b
    /\ b * p * q * c = c * p * q * b
OBVIOUS

\* Adjusted prices change as the worth of a holding does.
LEMMA ReturnsKept ==
  ASSUME HistoryTypes, NEW d, NEW e, Neighbours(d, e), Cardinality(Between(d, e)) <= 1,
         \A a \in Between(d, e) : a.kind = "dividend" => a.amount < close[d]
  PROVE  close[e] * FactorOf(e)[1] * FactorOf(d)[2] * Growth(d, e)[2]
           = close[d] * FactorOf(d)[1] * FactorOf(e)[2] * Growth(d, e)[1]
<1> DEFINE B == Between(d, e)
<1>1. /\ d \in Sessions /\ e \in Sessions /\ d \in Int /\ e \in Int /\ d < e
      /\ close[d] \in Int /\ close[e] \in Int
  BY HistoryFacts DEF Neighbours
<1>2. /\ FactorOf(e)[1] \in Int /\ FactorOf(e)[2] \in Int
  BY FactorType
<1>3. Scaled(d) = Scaled(e) \cup B /\ Scaled(e) \cap B = {} /\ B \subseteq actions
  <2>1. \A a \in actions : a.ex \in Int
    BY HistoryFacts
  <2> QED BY <1>1, <2>1 DEF Scaled, Between
<1>4. CASE B = {}
  <2>1. FactorOf(d) = FactorOf(e)
    BY <1>3, <1>4 DEF FactorOf
  <2>2. Growth(d, e) = <<close[e], close[d]>>
    BY <1>4 DEF Growth
  <2> QED BY <1>1, <1>2, <2>1, <2>2
<1>5. CASE B # {}
  <2> DEFINE a == CHOOSE a \in B : TRUE
  <2>1. a \in B
    BY <1>5
  <2>2. B = {a}
    <3>1. IsFiniteSet(B)
      BY <1>3, HistoryFacts, FS_Subset
    <3>2. B \ {a} = {}
      <4> SUFFICES ASSUME NEW x \in B, x # a PROVE FALSE
        OBVIOUS
      <4> HIDE DEF a, B
      <4>1. {a} \subseteq B /\ x \in B \ {a} /\ Cardinality({a}) = 1
        BY <2>1, FS_Singleton
      <4>2. Cardinality({a}) < Cardinality(B) /\ Cardinality(B) \in Nat
        BY <3>1, <4>1, FewerInPart
      <4> QED BY <4>1, <4>2 DEF B
    <3> QED BY <2>1, <3>2
  <2>3. Growth(d, e) = IF a.kind = "split" THEN <<close[e] * a.amount, close[d]>>
                       ELSE <<close[e], close[d] - a.amount>>
    BY <1>5 DEF Growth
  <2> HIDE DEF a
  <2>4. /\ a \in actions /\ a.ex \in Nat /\ a.kind \in {"split", "dividend"} /\ a.amount \in Nat \ {0}
        /\ d < a.ex /\ a.ex <= e
    <3>1. a \in actions /\ d < a.ex /\ a.ex <= e
      BY <2>1 DEF Between
    <3> QED BY <3>1, HistoryFacts
  <2>5. CloseBefore(a.ex) = close[d]
    BY <2>4, CloseBeforeIs
  <2>6. /\ FactorOf(d)[1] = FactorOf(e)[1] * Ratio(a)[1]
        /\ FactorOf(d)[2] = FactorOf(e)[2] * Ratio(a)[2]
    <3>1. Scaled(d) = Scaled(e) \cup {a} /\ a \notin Scaled(e)
      BY <1>3, <2>2
    <3> QED BY <2>4, <3>1, FactorStep
  <2> DEFINE p == FactorOf(e)[1]
             q == FactorOf(e)[2]
             b == close[e]
             c == close[d]
  <2>7. p \in Int /\ q \in Int /\ b \in Int /\ c \in Int
    BY <1>1, <1>2
  <2> HIDE DEF p, q, b, c
  <2>8. CASE a.kind = "split"
    <3>1. Ratio(a) = <<1, a.amount>>
      BY <2>8 DEF Ratio
    <3>2. FactorOf(d)[1] = p /\ FactorOf(d)[2] = q * a.amount
      BY <2>6, <2>7, <3>1 DEF p, q
    <3>3. Growth(d, e)[1] = b * a.amount /\ Growth(d, e)[2] = c
      BY <2>3, <2>8 DEF b, c
    <3>4. b * p * (q * a.amount) * c = c * p * q * (b * a.amount)
      BY <2>4, <2>7, Reordered
    <3> QED BY <3>2, <3>3, <3>4 DEF p, q, b, c
  <2>9. CASE a.kind = "dividend"
    <3> DEFINE m == c - a.amount
    <3>1. m \in Int /\ m > 0
      BY <2>1, <2>4, <2>7, <2>9 DEF c
    <3>2. Ratio(a) = <<m, c>>
      BY <2>5, <2>9, <3>1 DEF Ratio, c
    <3>3. Growth(d, e)[1] = b /\ Growth(d, e)[2] = m
      BY <2>3, <2>9 DEF b, c
    <3> HIDE DEF m
    <3>4. FactorOf(d)[1] = p * m /\ FactorOf(d)[2] = q * c
      BY <2>6, <3>2 DEF p, q
    <3>5. b * p * (q * c) * m = c * (p * m) * q * b
      BY <2>7, <3>1, Reordered
    <3> QED BY <3>3, <3>4, <3>5 DEF p, q, b, c
  <2> QED BY <2>4, <2>8, <2>9
<1> QED BY <1>4, <1>5

LEMMA AdjustIsConsistent == AdjustInv => AdjustmentsAreConsistent
<1> SUFFICES ASSUME AdjustInv PROVE AdjustmentsAreConsistent
  OBVIOUS
<1>1. HistoryTypes
  BY DEF AdjustInv
<1>2. factor # <<>> => \A d \in Sessions : factor[d] = FactorOf(d)
  BY DEF AdjustInv
<1>3. AdjustTypeOK
  <2>1. DOMAIN factor \in {{}, Sessions}
    BY DEF AdjustInv
  <2> QED BY <1>1, <2>1, HistoryFacts DEF AdjustTypeOK, HistoryTypes
<1>4. ReturnsAreKept
  <2> SUFFICES ASSUME factor # <<>>, NEW d \in Sessions, NEW e \in Sessions,
                      Neighbours(d, e), Cardinality(Between(d, e)) <= 1,
                      \A a \in Between(d, e) : a.kind = "dividend" => a.amount < close[d]
               PROVE  close[e] * factor[e][1] * factor[d][2] * Growth(d, e)[2]
                        = close[d] * factor[d][1] * factor[e][2] * Growth(d, e)[1]
    BY DEF ReturnsAreKept
  <2>1. factor[d] = FactorOf(d) /\ factor[e] = FactorOf(e)
    BY <1>2
  <2>2. close[e] * FactorOf(e)[1] * FactorOf(d)[2] * Growth(d, e)[2]
          = close[d] * FactorOf(d)[1] * FactorOf(e)[2] * Growth(d, e)[1]
    BY <1>1, ReturnsKept
  <2> QED BY <2>1, <2>2
<1>5. LatestIsReal
  <2> SUFFICES ASSUME factor # <<>>, \A a \in actions : a.ex <= Max(Sessions)
               PROVE  factor[Max(Sessions)][1] = factor[Max(Sessions)][2]
    BY DEF LatestIsReal
  <2> DEFINE d == Max(Sessions)
  <2>1. d \in Sessions /\ d \in Int
    <3>1. Sessions \subseteq Int /\ Sessions # {} /\ IsFiniteSet(Sessions)
      BY <1>1, HistoryFacts
    <3> QED BY <3>1, MaxIs
  <2>2. Scaled(d) = {}
    <3>1. \A a \in actions : a.ex \in Int
      BY <1>1, HistoryFacts
    <3> QED BY <2>1, <3>1 DEF Scaled
  <2> HIDE DEF d
  <2>3. FactorOf(d)[1] = 1 /\ FactorOf(d)[2] = 1
    BY <2>2, ProductEmpty DEF FactorOf, Product, ProductOf
  <2> QED BY <1>2, <2>1, <2>3 DEF d
<1> QED BY <1>3, <1>4, <1>5 DEF AdjustmentsAreConsistent

LEMMA AdjustInvInit == AdjustInit => AdjustInv
<1> SUFFICES ASSUME AdjustInit PROVE AdjustInv
  OBVIOUS
<1>1. 0 \in 0 .. BarsPerDay
  BY HistoryAssumption
<1> QED BY <1>1 DEF AdjustInit, AdjustInv, HistoryTypes

LEMMA AdjustInvStep == AdjustInv /\ [AdjustNext]_adjustVars => AdjustInv'
<1> SUFFICES ASSUME AdjustInv, [AdjustNext]_adjustVars PROVE AdjustInv'
  OBVIOUS
<1>1. HistoryTypes
  BY DEF AdjustInv
<1>2. CASE Adjust
  <2>1. UNCHANGED <<close, actions, today, bar, qty, opened, credited>>
    BY <1>2 DEF Adjust
  <2>2. HistoryTypes'
    BY <1>1, <2>1 DEF HistoryTypes
  <2>3. \A d : FactorOf(d)' = FactorOf(d)
    BY <2>1 DEF FactorOf, Ratio, Scaled, CloseBefore, Sessions
  <2>4. factor' = [d \in Sessions |-> FactorOf(d)] /\ Sessions' = Sessions
    BY <1>2, <2>1 DEF Adjust, Sessions
  <2> QED BY <2>2, <2>3, <2>4 DEF AdjustInv
<1>3. ASSUME NEW n \in {0, 1}, NextBar(n) PROVE AdjustInv'
  <2> DEFINE later == {d \in Sessions : d > today}
             newDay == today = 0 \/ bar = BarsPerDay
             d == IF newDay THEN Min(later) ELSE today
  <2>1. /\ UNCHANGED <<close, actions, factor>> /\ qty' = n /\ today' = d
        /\ newDay => later # {}
        /\ bar' = IF newDay THEN 1 ELSE bar + 1
        /\ opened' = [e \in HistoryDays |-> IF today < e /\ e <= d THEN qty ELSE opened[e]]
        /\ credited' = [credited EXCEPT ![d] = @ + Credited(d, qty, n)]
    BY <1>3 DEF NextBar
  <2>2. d \in HistoryDays
    <3>1. later \subseteq HistoryDays /\ later \subseteq Nat
      BY <1>1, HistoryFacts
    <3>2. CASE newDay
      <4>1. Min(later) \in later
        <5> HIDE DEF later
        <5> QED BY <2>1, <3>1, <3>2, MinIs
      <4> QED BY <3>1, <3>2, <4>1
    <3>3. CASE ~newDay
      BY <1>1, <3>3 DEF HistoryTypes
    <3> QED BY <3>2, <3>3
  <2>3. HistoryDays \subseteq Nat \ {0}
    BY <1>1, HistoryFacts
  <2>4. Credited(d, qty, n) \in Int
    BY <1>1 DEF Credited, HistoryTypes
  <2> HIDE DEF d, later
  <2>5. bar' \in 0 .. BarsPerDay /\ bar' >= 1
    BY <1>1, <2>1, HistoryAssumption DEF HistoryTypes
  <2>6. opened' \in [HistoryDays -> {0, 1}] /\ credited' \in [HistoryDays -> Int]
    BY <1>1, <2>1, <2>2, <2>4 DEF HistoryTypes
  <2>7. HistoryTypes'
    BY <1>1, <2>1, <2>2, <2>5, <2>6 DEF HistoryTypes, HistoryDays
  <2>8. Sessions' = Sessions /\ \A e : FactorOf(e)' = FactorOf(e)
    BY <2>1 DEF FactorOf, Ratio, Scaled, CloseBefore, Sessions
  <2> QED BY <2>1, <2>7, <2>8 DEF AdjustInv
<1>4. CASE UNCHANGED adjustVars
  <2>1. UNCHANGED <<close, actions, factor, today, bar, qty, opened, credited>>
    BY <1>4 DEF adjustVars
  <2>2. Sessions' = Sessions /\ \A e : FactorOf(e)' = FactorOf(e)
    BY <2>1 DEF FactorOf, Ratio, Scaled, CloseBefore, Sessions
  <2> QED BY <2>1, <2>2 DEF AdjustInv, HistoryTypes
<1> QED BY <1>2, <1>3, <1>4 DEF AdjustNext

\* Adjusted prices of any symbol with any splits and dividends, on daily or on intraday
\* bars (build_adjustment_factors, _apply_price_adjustments): they change from one
\* session to the next as the worth of a holding does, and end at the real price.
THEOREM AdjustmentsStayConsistent == AdjustSpec => []AdjustmentsAreConsistent
<1> QED BY AdjustInvInit, AdjustInvStep, AdjustIsConsistent, PTL DEF AdjustSpec

-----------------------------------------------------------------------------
(* Dividends on daily bars: what is later than today is untouched *)

PaidInv ==
  /\ AdjustInv
  /\ DividendPaidOnce
  /\ \A d \in HistoryDays : d > today => opened[d] = 0 /\ credited[d] = 0

LEMMA PaidInvInit == AdjustInit => PaidInv
BY AdjustInvInit DEF AdjustInit, PaidInv, DividendPaidOnce

LEMMA PaidInvStep ==
  ASSUME BarsPerDay = 1, PaidInv, [AdjustNext]_adjustVars PROVE PaidInv'
<1>1. AdjustInv' /\ HistoryTypes
  BY AdjustInvStep DEF PaidInv, AdjustInv
<1>2. HistoryDays \subseteq Nat \ {0} /\ HistoryDays \subseteq Int
  BY <1>1, HistoryFacts
<1>3. today \in Nat /\ (today # 0 => bar = 1)
  BY <1>1, <1>2 DEF HistoryTypes
<1>4. CASE Adjust \/ UNCHANGED adjustVars
  <2>1. UNCHANGED <<actions, today, opened, credited>>
    BY <1>4 DEF Adjust, adjustVars
  <2>2. Sessions' = Sessions
    BY <1>4 DEF Adjust, adjustVars, Sessions
  <2> QED BY <1>1, <2>1, <2>2 DEF PaidInv, DividendPaidOnce, Pays
<1>5. ASSUME NEW n \in {0, 1}, NextBar(n) PROVE PaidInv'
  <2> DEFINE later == {d \in Sessions : d > today}
             d == Min(later)
  <2>1. today = 0 \/ bar = BarsPerDay
    BY <1>3
  <2>2. /\ UNCHANGED <<close, actions, factor>> /\ today' = d /\ later # {}
        /\ opened' = [e \in HistoryDays |-> IF today < e /\ e <= d THEN qty ELSE opened[e]]
        /\ credited' = [credited EXCEPT ![d] = @ + Credited(d, qty, n)]
    BY <1>5, <2>1 DEF NextBar
  <2>3. d \in later /\ \A e \in later : d <= e
    <3>1. later \subseteq Nat
      BY <1>1, HistoryFacts
    <3> HIDE DEF later
    <3> QED BY <2>2, <3>1, MinIs
  <2>4. d \in HistoryDays /\ d > today /\ d \in Nat /\ d \in Sessions
    BY <1>1, <1>2, <2>3, HistoryFacts
  <2>12. \A e \in Sessions : e > today => d <= e
    BY <2>3
  <2> HIDE DEF d, later
  <2>5. opened[d] = 0 /\ credited[d] = 0
    BY <2>4 DEF PaidInv
  <2>6. /\ opened \in [HistoryDays -> {0, 1}] /\ credited \in [HistoryDays -> Int]
        /\ qty \in {0, 1} /\ HistoryDays' = HistoryDays
    BY <1>1 DEF HistoryTypes, HistoryDays
  <2>7. opened'[d] = qty /\ credited'[d] = IF Pays(d) THEN qty ELSE 0
    BY <2>2, <2>4, <2>5, <2>6 DEF Credited
  <2>8. \A e \in HistoryDays : e # d =>
          /\ credited'[e] = credited[e]
          /\ opened'[e] = opened[e] \/ (e \notin Sessions /\ e < d)
    <3> SUFFICES ASSUME NEW e \in HistoryDays, e # d
                 PROVE  /\ credited'[e] = credited[e]
                        /\ opened'[e] = opened[e] \/ (e \notin Sessions /\ e < d)
      OBVIOUS
    <3>1. e \in Nat
      BY <1>2
    <3>2. opened'[e] = IF today < e /\ e <= d THEN qty ELSE opened[e]
      BY <2>2
    <3>3. credited'[e] = credited[e]
      BY <2>2, <2>6
    <3>4. today < e /\ e <= d => e \notin Sessions /\ e < d
      BY <1>3, <2>4, <2>12, <3>1
    <3> QED BY <3>2, <3>3, <3>4
  <2>9. Sessions' = Sessions /\ \A e : Pays(e)' = Pays(e)
    BY <2>2 DEF Pays, Sessions
  <2>10. DividendPaidOnce'
    <3> SUFFICES ASSUME NEW e \in HistoryDays
                 PROVE  credited'[e] = IF Pays(e) /\ e \in Sessions THEN opened'[e] ELSE 0
      BY <2>6, <2>9 DEF DividendPaidOnce
    <3>1. credited[e] = IF Pays(e) /\ e \in Sessions THEN opened[e] ELSE 0
      BY DEF PaidInv, DividendPaidOnce
    <3> QED BY <2>4, <2>7, <2>8, <3>1
  <2>11. \A e \in HistoryDays : e > today' => opened'[e] = 0 /\ credited'[e] = 0
    <3> SUFFICES ASSUME NEW e \in HistoryDays, e > today' PROVE opened'[e] = 0 /\ credited'[e] = 0
      OBVIOUS
    <3>1. e > today /\ e # d
      BY <1>2, <1>3, <2>2, <2>4
    <3>2. ~(e < d)
      BY <1>2, <2>2, <2>4
    <3> QED BY <2>8, <3>1, <3>2 DEF PaidInv
  <2> QED BY <1>1, <2>6, <2>10, <2>11 DEF PaidInv
<1> QED BY <1>4, <1>5 DEF AdjustNext

-----------------------------------------------------------------------------
(* Continuous futures *)

FuturesInv ==
  /\ \E n \in 0 .. MaxContracts : contracts \in [1 .. n -> Candidates]
  /\ method \in {"raw", "back_adjust"}
  /\ (series = <<>> \/ (Segments # <<>> /\ series = Stitched))

FutureBars == [open : Int, close : Int]

\* The segments are the contracts with bars.
LEMMA SegmentsAre ==
  ASSUME FuturesInv
  PROVE  /\ Len(contracts) \in 0 .. MaxContracts /\ DOMAIN contracts = 1 .. Len(contracts)
         /\ \A i \in DOMAIN contracts : contracts[i] \in Candidates
         /\ Segments \in Seq(Seq(FutureBars))
         /\ \A k \in 1 .. Len(Segments) : Segments[k] # <<>>
<1>1. PICK n \in 0 .. MaxContracts : contracts \in [1 .. n -> Candidates]
  BY DEF FuturesInv
<1>2. n \in Nat /\ n \in Int /\ Candidates \subseteq Seq(FutureBars)
  BY HistoryAssumption DEF FutureBars
<1>3. Len(contracts) = n /\ DOMAIN contracts = 1 .. n
  BY <1>1, <1>2, FunctionIsSeq
<1>4. Traded \subseteq 1 .. n /\ IsFiniteSet(Traded) /\ Traded \subseteq Int
  <2>1. Traded \subseteq 1 .. n
    BY <1>3 DEF Traded
  <2>2. IsFiniteSet(1 .. n)
    BY <1>2, FS_Interval
  <2>3. \A i \in 1 .. n : i \in Int
    BY <1>2
  <2>4. IsFiniteSet(Traded)
    BY <2>1, <2>2, FS_Subset
  <2> QED BY <2>1, <2>3, <2>4
<1>5. ASSUME NEW k \in 1 .. Cardinality(Traded)
      PROVE  contracts[Nth(k)] \in Seq(FutureBars) /\ contracts[Nth(k)] # <<>>
  <2>1. \E i \in Traded : Cardinality({x \in Traded : x <= i}) = k
    BY <1>4, RankExists
  <2>2. Nth(k) \in Traded
    BY <2>1 DEF Nth
  <2>3. contracts[Nth(k)] # <<>> /\ Nth(k) \in 1 .. n
    BY <1>4, <2>2 DEF Traded
  <2> QED BY <1>1, <1>2, <2>3
<1>6. Cardinality(Traded) \in Nat
  BY <1>4, FS_CardinalityType
<1>7. Segments \in [1 .. Cardinality(Traded) -> Seq(FutureBars)]
  BY <1>5 DEF Segments
<1>8. Segments \in Seq(Seq(FutureBars)) /\ Len(Segments) = Cardinality(Traded)
  BY <1>6, <1>7, FunctionIsSeq
<1>9. \A k \in 1 .. Len(Segments) : Segments[k] # <<>>
  BY <1>5, <1>8 DEF Segments
<1> QED BY <1>1, <1>3, <1>8, <1>9

\* From one contract to the next the offset changes by the gap; the last has none.
LEMMA OffsetIs ==
  ASSUME NEW segs \in Seq(Seq(FutureBars)), \A k \in 1 .. Len(segs) : segs[k] # <<>>
  PROVE  /\ \A k \in 1 .. Len(segs) : Offset(segs, k) \in Int
         /\ \A k \in 1 .. Len(segs) - 1 :
              Gap(segs, k) \in Int /\ Offset(segs, k) = Gap(segs, k) + Offset(segs, k + 1)
         /\ Len(segs) > 0 => Offset(segs, Len(segs)) = 0
<1> DEFINE n == Len(segs)
           g == [j \in 1 .. n - 1 |-> Gap(segs, j)]
<1>1. n \in Nat
  BY LenProperties
<1>2. \A k \in 1 .. n : /\ segs[k] \in Seq(FutureBars) /\ Len(segs[k]) \in Nat /\ Len(segs[k]) > 0
                        /\ segs[k][1] \in FutureBars /\ LastOf(segs[k]) \in FutureBars
  <2> TAKE k \in 1 .. n
  <2>1. segs[k] \in Seq(FutureBars) /\ segs[k] # <<>>
    BY ElementOfSeq
  <2>2. Len(segs[k]) \in Nat \ {0}
    BY <2>1, EmptySeq
  <2>3. 1 \in 1 .. Len(segs[k]) /\ Len(segs[k]) \in 1 .. Len(segs[k])
    BY <2>2
  <2> QED BY <2>1, <2>2, <2>3, ElementOfSeq DEF LastOf
<1>3. \A k \in 1 .. n - 1 : g[k] \in Int /\ g[k] = Gap(segs, k)
  <2> TAKE k \in 1 .. n - 1
  <2>1. k \in 1 .. n /\ k + 1 \in 1 .. n
    BY <1>1
  <2>2. segs[k + 1][1].open \in Int /\ LastOf(segs[k]).close \in Int
    BY <1>2, <2>1 DEF FutureBars
  <2> QED BY <2>2 DEF Gap
<1>4. \A k : Offset(segs, k) = SumFunctionOnSet(g, k .. n - 1)
  BY DEF Offset
<1> HIDE DEF g, n
<1>5. ASSUME NEW k \in 1 .. n PROVE Offset(segs, k) \in Int
  <2>1. IsFiniteSet(k .. n - 1) /\ \A j \in k .. n - 1 : j \in 1 .. n - 1
    BY <1>1, FS_Interval
  <2>2. SumFunctionOnSet(g, k .. n - 1) \in Int
    BY <1>3, <2>1, SumType
  <2> QED BY <1>4, <2>2
<1>6. ASSUME NEW k \in 1 .. n - 1 PROVE Offset(segs, k) = Gap(segs, k) + Offset(segs, k + 1)
  <2>1. IsFiniteSet(k .. n - 1) /\ \A j \in k .. n - 1 : j \in 1 .. n - 1
    BY <1>1, FS_Interval
  <2>2. k \in k .. n - 1 /\ (k .. n - 1) \ {k} = k + 1 .. n - 1
    BY <1>1
  <2>3. SumFunctionOnSet(g, k .. n - 1) = g[k] + SumFunctionOnSet(g, (k .. n - 1) \ {k})
    <3> DEFINE S == k .. n - 1
    <3>1. IsFiniteSet(S) /\ k \in S /\ \A j \in S : g[j] \in Int
      BY <1>3, <2>1, <2>2
    <3> HIDE DEF S
    <3>2. SumFunctionOnSet(g, S) = g[k] + SumFunctionOnSet(g, S \ {k})
      BY <3>1, SumWithout
    <3> QED BY <3>2 DEF S
  <2> QED BY <1>3, <1>4, <2>2, <2>3
<1>7. n > 0 => Offset(segs, n) = 0
  <2>1. n .. n - 1 = {}
    BY <1>1
  <2> QED BY <1>4, <2>1, SumEmpty
<1> QED BY <1>3, <1>5, <1>6, <1>7 DEF n

\* A raw series, or one of a single contract, is as the contracts are.
LEMMA UnshiftedIsConsistent ==
  ASSUME FuturesInv, series = Segments, method = "raw" \/ Len(Segments) = 1
  PROVE  SeriesIsConsistent
<1>1. /\ Len(contracts) <= MaxContracts
      /\ \A i \in DOMAIN contracts : contracts[i] \in Candidates
  BY SegmentsAre, HistoryAssumption
<1>2. FuturesTypeOK
  BY <1>1 DEF FuturesTypeOK, FuturesInv
<1>3. NoJumpAtChange
  <2>1. LastOf(series) = LastOf(Segments)
    OBVIOUS
  <2>2. CASE Len(series) = 1
    <3>1. 1 .. Len(series) - 1 = {}
      BY <2>2
    <3> QED BY <2>1, <3>1 DEF NoJumpAtChange
  <2>3. CASE method = "raw"
    BY <2>3 DEF NoJumpAtChange
  <2> QED BY <2>2, <2>3
<1>4. DifferencesAreKept
  BY DEF DifferencesAreKept
<1> QED BY <1>2, <1>3, <1>4 DEF SeriesIsConsistent

\* In a back-adjusted one every contract is shifted by its offset.
LEMMA ShiftedIsConsistent ==
  ASSUME FuturesInv, Segments # <<>>,
         series = [k \in DOMAIN Segments |->
                     [i \in DOMAIN Segments[k] |-> Shift(Segments[k][i], Offset(Segments, k))]]
  PROVE  method = "back_adjust" => SeriesIsConsistent
<1> SUFFICES ASSUME method = "back_adjust" PROVE SeriesIsConsistent
  OBVIOUS
<1> DEFINE segs == Segments
           n == Len(segs)
           o(k) == Offset(segs, k)
<1>1. /\ segs \in Seq(Seq(FutureBars)) /\ \A k \in 1 .. n : segs[k] # <<>>
      /\ Len(contracts) <= MaxContracts
      /\ \A i \in DOMAIN contracts : contracts[i] \in Candidates
  BY SegmentsAre, HistoryAssumption
<1>2. n \in Nat \ {0} /\ DOMAIN segs = 1 .. n
  BY <1>1, LenProperties, EmptySeq
<1>3. \A k \in 1 .. n :
        /\ segs[k] \in Seq(FutureBars) /\ DOMAIN segs[k] = 1 .. Len(segs[k])
        /\ Len(segs[k]) \in Nat \ {0}
        /\ \A i \in 1 .. Len(segs[k]) : segs[k][i] \in FutureBars
  <2> TAKE k \in 1 .. n
  <2>1. segs[k] \in Seq(FutureBars) /\ segs[k] # <<>>
    BY <1>1, ElementOfSeq
  <2>2. Len(segs[k]) \in Nat \ {0} /\ DOMAIN segs[k] = 1 .. Len(segs[k])
    BY <2>1, EmptySeq, LenProperties
  <2> QED BY <2>1, <2>2, ElementOfSeq
<1>4. /\ \A k \in 1 .. n : o(k) \in Int
      /\ \A k \in 1 .. n - 1 : Gap(segs, k) \in Int /\ o(k) = Gap(segs, k) + o(k + 1)
      /\ o(n) = 0
  <2> HIDE DEF segs
  <2> QED BY <1>1, <1>2, OffsetIs
<1>5. series = [k \in 1 .. n |-> [i \in 1 .. Len(segs[k]) |-> Shift(segs[k][i], o(k))]]
  BY <1>2, <1>3
<1> HIDE DEF segs, o
<1>6. \A k \in 1 .. n : /\ series[k] \in Seq(FutureBars) /\ Len(series[k]) = Len(segs[k])
                        /\ DOMAIN series[k] = 1 .. Len(segs[k])
                        /\ \A i \in 1 .. Len(segs[k]) :
                             /\ series[k][i].open = segs[k][i].open + o(k)
                             /\ series[k][i].close = segs[k][i].close + o(k)
                             /\ segs[k][i].open \in Int /\ segs[k][i].close \in Int
  <2> TAKE k \in 1 .. n
  <2>1. series[k] = [i \in 1 .. Len(segs[k]) |-> Shift(segs[k][i], o(k))]
    BY <1>5
  <2>2. \A i \in 1 .. Len(segs[k]) : segs[k][i].open \in Int /\ segs[k][i].close \in Int
    BY <1>3 DEF FutureBars
  <2>3. \A i \in 1 .. Len(segs[k]) : Shift(segs[k][i], o(k)) \in FutureBars
    BY <1>4, <2>2 DEF Shift, FutureBars
  <2>4. series[k] \in [1 .. Len(segs[k]) -> FutureBars]
    BY <2>1, <2>3
  <2>5. series[k] \in Seq(FutureBars) /\ Len(series[k]) = Len(segs[k])
    BY <1>3, <2>4, FunctionIsSeq
  <2>6. \A i \in 1 .. Len(segs[k]) : /\ series[k][i].open = segs[k][i].open + o(k)
                                     /\ series[k][i].close = segs[k][i].close + o(k)
    <3> TAKE i \in 1 .. Len(segs[k])
    <3>1. series[k][i] = Shift(segs[k][i], o(k))
      BY <2>1
    <3> QED BY <3>1 DEF Shift
  <2>7. DOMAIN series[k] = 1 .. Len(segs[k])
    BY <2>4
  <2> QED BY <2>2, <2>5, <2>6, <2>7
<1>7. Len(series) = n /\ DOMAIN series = 1 .. n
  <2>1. series \in [1 .. n -> Seq(FutureBars)]
    BY <1>5, <1>6
  <2> QED BY <1>2, <2>1, FunctionIsSeq
<1>8. FuturesTypeOK
  BY <1>1, <1>7 DEF FuturesTypeOK, FuturesInv, segs
<1>9. ASSUME NEW k \in 1 .. n - 1 PROVE LastOf(series[k]).close = series[k + 1][1].open
  <2>1. k \in 1 .. n /\ k + 1 \in 1 .. n
    BY <1>2
  <2> DEFINE l == Len(segs[k])
  <2>2. l \in 1 .. l /\ 1 \in 1 .. Len(segs[k + 1]) /\ Len(series[k]) = l
    <3>1. l \in Nat \ {0} /\ Len(segs[k + 1]) \in Nat \ {0}
      BY <1>3, <2>1
    <3>2. Len(series[k]) = l
      BY <1>6, <2>1
    <3> HIDE DEF l
    <3> QED BY <3>1, <3>2
  <2> HIDE DEF l
  <2>3. /\ LastOf(series[k]).close = segs[k][l].close + o(k) /\ segs[k][l].close \in Int
        /\ LastOf(segs[k]).close = segs[k][l].close
    BY <1>6, <2>1, <2>2 DEF l, LastOf
  <2>4. series[k + 1][1].open = segs[k + 1][1].open + o(k + 1) /\ segs[k + 1][1].open \in Int
    BY <1>6, <2>1, <2>2
  <2>5. Gap(segs, k) = segs[k + 1][1].open - segs[k][l].close
    BY <2>3 DEF Gap
  <2>6. o(k) = Gap(segs, k) + o(k + 1) /\ o(k) \in Int /\ o(k + 1) \in Int
    BY <1>4, <2>1
  <2> QED BY <2>3, <2>4, <2>5, <2>6
<1>10. LastOf(series) = LastOf(segs)
  <2>1. n \in 1 .. n
    BY <1>2
  <2>2. \A i \in 1 .. Len(segs[n]) : series[n][i] = segs[n][i]
    <3> TAKE i \in 1 .. Len(segs[n])
    <3>1. segs[n][i] \in FutureBars /\ series[n][i] = Shift(segs[n][i], 0)
      BY <1>3, <1>4, <1>5, <2>1
    <3>2. Shift(segs[n][i], 0) = segs[n][i]
      BY <3>1 DEF Shift, FutureBars
    <3> QED BY <3>1, <3>2
  <2>3. series[n] = segs[n]
    <3> DEFINE s == series[n]
               t == segs[n]
    <3>1. s \in Seq(FutureBars) /\ t \in Seq(FutureBars) /\ Len(s) = Len(t)
      BY <1>3, <1>6, <2>1
    <3>2. \A i \in 1 .. Len(s) : s[i] = t[i]
      BY <2>2, <3>1
    <3> HIDE DEF s, t
    <3>3. s = t
      BY <3>1, <3>2, SeqEqual
    <3> QED BY <3>3 DEF s, t
  <2> QED BY <1>7, <2>3 DEF LastOf
<1>11. NoJumpAtChange
  BY <1>7, <1>9, <1>10 DEF NoJumpAtChange, segs
<1>12. DifferencesAreKept
  <2> SUFFICES ASSUME NEW k \in DOMAIN series, NEW i \in DOMAIN series[k], NEW j \in DOMAIN series[k]
               PROVE  series[k][i].close - series[k][j].open = segs[k][i].close - segs[k][j].open
    BY DEF DifferencesAreKept, segs
  <2>1. k \in 1 .. n /\ i \in 1 .. Len(segs[k]) /\ j \in 1 .. Len(segs[k])
    BY <1>6, <1>7
  <2>2. /\ series[k][i].close = segs[k][i].close + o(k) /\ segs[k][i].close \in Int
        /\ series[k][j].open = segs[k][j].open + o(k) /\ segs[k][j].open \in Int
        /\ o(k) \in Int
    BY <1>4, <1>6, <2>1
  <2> QED BY <2>2
<1> QED BY <1>8, <1>11, <1>12 DEF SeriesIsConsistent

LEMMA SeriesConsistent == FuturesInv => SeriesIsConsistent
<1> SUFFICES ASSUME FuturesInv PROVE SeriesIsConsistent
  OBVIOUS
<1>1. CASE series = <<>>
  <2>1. Len(series) = 0
    BY <1>1
  <2>2. /\ Len(contracts) <= MaxContracts
        /\ \A i \in DOMAIN contracts : contracts[i] \in Candidates
    BY SegmentsAre, HistoryAssumption
  <2> QED BY <1>1, <2>1, <2>2 DEF SeriesIsConsistent, FuturesTypeOK, FuturesInv,
                                  NoJumpAtChange, DifferencesAreKept
<1>2. CASE series # <<>>
  <2>1. Segments # <<>> /\ series = Stitched /\ method \in {"raw", "back_adjust"}
    BY <1>2 DEF FuturesInv
  <2>2. CASE method = "raw" \/ Len(Segments) = 1
    BY <2>1, <2>2, UnshiftedIsConsistent DEF Stitched
  <2>3. CASE ~(method = "raw" \/ Len(Segments) = 1)
    <3>1. method = "back_adjust"
      BY <2>1, <2>3
    <3> QED BY <2>1, <2>3, <3>1, ShiftedIsConsistent DEF Stitched
  <2> QED BY <2>2, <2>3
<1> QED BY <1>1, <1>2

LEMMA FuturesInvInit == FuturesInit => FuturesInv
BY DEF FuturesInit, FuturesInv

LEMMA FuturesInvStep == FuturesInv /\ [Stitch]_futuresVars => FuturesInv'
<1> SUFFICES ASSUME FuturesInv, [Stitch]_futuresVars PROVE FuturesInv'
  OBVIOUS
<1>1. UNCHANGED <<contracts, method>>
  BY DEF Stitch, futuresVars
<1>2. Segments' = Segments /\ Stitched' = Stitched
  BY <1>1 DEF Segments, Stitched, Traded, Nth
<1>3. \/ series' = series
      \/ Segments # <<>> /\ series' = Stitched
  BY DEF Stitch, futuresVars
<1> QED BY <1>1, <1>2, <1>3 DEF FuturesInv

\* A continuous series of any contracts (stitch_continuous): it changes as its contracts
\* do, it does not jump where they change, and it ends at the prices traded now.
THEOREM SeriesStaysConsistent == FuturesSpec => []SeriesIsConsistent
<1> QED BY FuturesInvInit, FuturesInvStep, SeriesConsistent, PTL DEF FuturesSpec

\* Histories show the worth of a holding, for any prices, actions and contracts, over
\* splits and dividends and over a change of contracts; and on daily bars a dividend with
\* a bar on its ex date is credited once, for what was held when the date began, and
\* nothing on any other day (_credit_dividend, engine.py:227).  A
\* dividend of an ex date without a bar is lost, which this does not rule out; intraday
\* bars are HolderPaidOnce.
THEOREM HistoriesStayConsistent ==
  AdjustSpec /\ FuturesSpec /\ BarsPerDay = 1 => []HistoryIsConsistent
<1>1. PaidInv /\ FuturesInv => HistoryIsConsistent
  BY AdjustIsConsistent, SeriesConsistent DEF PaidInv, HistoryIsConsistent
<1>2. BarsPerDay = 1 /\ PaidInv /\ [AdjustNext]_adjustVars => PaidInv'
  BY PaidInvStep
<1>3. BarsPerDay = 1 => (BarsPerDay = 1)'
  OBVIOUS
<1> QED
  BY <1>1, <1>2, <1>3, PaidInvInit, FuturesInvInit, FuturesInvStep, PTL DEF AdjustSpec, FuturesSpec

-----------------------------------------------------------------------------
(* Sliced parent orders *)

\* As many ones as there are members add up to their number.
LEMMA SumOfOnes ==
  ASSUME NEW S, IsFiniteSet(S), NEW one, \A x \in S : one[x] = 1
  PROVE  SumFunctionOnSet(one, S) = Cardinality(S)
<1> DEFINE Bad == {U \in SUBSET S : SumFunctionOnSet(one, U) # Cardinality(U)}
<1> SUFFICES ASSUME Bad # {} PROVE FALSE
  OBVIOUS
<1>1. PICK U \in Bad : \A T \in Bad : T \subseteq U => T = U
  <2>1. Bad \in SUBSET SUBSET S
    OBVIOUS
  <2> HIDE DEF Bad
  <2> QED BY <2>1, SmallestSubset
<1>2. U # {}
  <2>1. SumFunctionOnSet(one, {}) = 0 /\ Cardinality({}) = 0
    BY SumEmpty, FS_EmptySet
  <2> QED BY <2>1
<1> DEFINE e == Chosen(U)
           R == U \ {e}
<1>3. e \in U /\ e \in S BY <1>2, ChosenIn
<1>4. IsFiniteSet(U) /\ IsFiniteSet(R)
  BY FS_Subset
<1>5. SumFunctionOnSet(one, R) = Cardinality(R)
  BY <1>1, <1>3
<1>6. SumFunctionOnSet(one, U) = one[e] + SumFunctionOnSet(one, R)
  BY <1>2, <1>4, SumStep
<1>7. Cardinality(R) = Cardinality(U) - 1 /\ Cardinality(U) \in Nat
  BY <1>3, <1>4, FS_RemoveElement, FS_CardinalityType
<1>8. SumFunctionOnSet(one, U) # Cardinality(U)
  OBVIOUS
<1> HIDE DEF e, R
<1> QED BY <1>3, <1>5, <1>6, <1>7, <1>8

\* A sum is at most as many times the most a term can be.
LEMMA SumWithin ==
  ASSUME NEW f, NEW S, IsFiniteSet(S), NEW c \in Int, \A x \in S : f[x] \in Int /\ f[x] <= c
  PROVE  SumFunctionOnSet(f, S) <= c * Cardinality(S)
<1> DEFINE one == [x \in S |-> 1]
           g == [x \in S |-> c]
<1>1. SumFunctionOnSet(one, S) = Cardinality(S)
  <2>1. \A x \in S : one[x] = 1 OBVIOUS
  <2> HIDE DEF one
  <2> QED BY <2>1, SumOfOnes
<1>2. SumFunctionOnSet(g, S) = c * SumFunctionOnSet(one, S)
  <2>1. \A x \in S : one[x] \in Int /\ g[x] = c * one[x] OBVIOUS
  <2> HIDE DEF one, g
  <2> QED BY <2>1, SumScaled
<1>3. SumFunctionOnSet(f, S) <= SumFunctionOnSet(g, S)
  <2>1. \A x \in S : f[x] \in Int /\ g[x] \in Int /\ f[x] <= g[x] OBVIOUS
  <2> HIDE DEF g
  <2> QED BY <2>1, SumAtMost
<1> HIDE DEF one, g
<1> QED BY <1>1, <1>2, <1>3

\* Of two orders of the same things, the keys of the one are as many as the things.
LEMMA KeysAreAsMany ==
  ASSUME NEW S, IsFiniteSet(S), NEW k, \A x \in S, y \in S : k[x] = k[y] => x = y
  PROVE  IsFiniteSet({k[x] : x \in S}) /\ Cardinality({k[x] : x \in S}) = Cardinality(S)
<1> DEFINE T == {k[x] : x \in S}
           b == [x \in S |-> k[x]]
<1>1. b \in Bijection(S, T)
  BY DEF Bijection, Injection, IsInjective, Surjection
<1> HIDE DEF b, T
<1>2. ExistsBijection(S, T)
  BY <1>1 DEF ExistsBijection
<1>3. IsFiniteSet(T) /\ Cardinality(T) = Cardinality(S)
  BY <1>2, FS_Bijection
<1> QED BY <1>3 DEF T

-----------------------------------------------------------------------------
Weighed(n, w) == n \in Nat \ {0} /\ w \in [1 .. n -> Nat \ {0}]

\* The shares rounded down, and what rounding left of each: all that is left is
\* a whole number of units, fewer than there are shares.
WeightOf(n, w) == SumOf(w, 1 .. n)
Floors(n, w, amount) == [i \in 1 .. n |-> (amount * w[i]) \div WeightOf(n, w)]
RestsOf(n, w, amount) == [i \in 1 .. n |-> (amount * w[i]) % WeightOf(n, w)]
Remains(n, w, amount) == amount - SumOf(Floors(n, w, amount), 1 .. n)

SharesAdd(n, w, amount, sum, f, r, rem) ==
  /\ sum \in Nat \ {0} /\ f \in [1 .. n -> Nat] /\ r \in [1 .. n -> Nat]
  /\ \A i \in 1 .. n : r[i] <= sum - 1 /\ amount * w[i] = f[i] * sum + r[i]
  /\ SumOf(r, 1 .. n) = rem * sum
  /\ rem \in 0 .. n

LEMMA Shares ==
  ASSUME NEW n, NEW w, Weighed(n, w), NEW amount \in Nat,
         NEW sum, sum = WeightOf(n, w), NEW f, f = Floors(n, w, amount),
         NEW r, r = RestsOf(n, w, amount), NEW rem, rem = Remains(n, w, amount)
  PROVE  SharesAdd(n, w, amount, sum, f, r, rem)
<1> DEFINE D == 1 .. n
<1>1. IsFiniteSet(D) /\ Cardinality(D) = n /\ 1 \in D /\ n \in Nat \ {0}
  BY FS_Interval DEF Weighed
<1>2. \A i \in D : w[i] \in Nat /\ w[i] > 0 /\ w[i] \in Int
  BY DEF Weighed
<1> HIDE DEF D
<1>3. sum \in Nat /\ sum > 0
  <2>1. SumFunctionOnSet(w, D) \in Nat
    BY <1>1, <1>2, SumNat
  <2>2. w[1] <= SumFunctionOnSet(w, D)
    BY <1>1, <1>2, SumHasPart
  <2> QED BY <1>1, <1>2, <2>1, <2>2 DEF SumOf, D, WeightOf
<1>4. \A i \in D : /\ f[i] \in Nat /\ r[i] \in Nat /\ r[i] <= sum - 1
                   /\ amount * w[i] = f[i] * sum + r[i]
  <2> SUFFICES ASSUME NEW i \in D
               PROVE  /\ f[i] \in Nat /\ r[i] \in Nat /\ r[i] <= sum - 1
                      /\ amount * w[i] = f[i] * sum + r[i]
    OBVIOUS
  <2>1. f[i] = (amount * w[i]) \div sum /\ r[i] = (amount * w[i]) % sum
    BY DEF D, Floors, RestsOf
  <2> DEFINE a == amount * w[i]
  <2>2. a \in Nat
    BY <1>2
  <2> HIDE DEF a
  <2>3. a = (a \div sum) * sum + (a % sum) /\ a \div sum \in Nat /\ a % sum \in 0 .. sum - 1
    <3>1. a \in Int /\ sum \in Nat \ {0} BY <1>3, <2>2
    <3> QED BY <2>2, <3>1, Division
  <2> QED BY <1>3, <2>1, <2>3 DEF a
<1>5. f \in [1 .. n -> Nat] /\ r \in [1 .. n -> Nat]
  BY <1>4 DEF D, Floors, RestsOf
<1> DEFINE a == [i \in D |-> amount * w[i]]
           fs == [i \in D |-> sum * f[i]]
<1>6. SumFunctionOnSet(a, D) = amount * sum
  <2>1. \A i \in D : w[i] \in Int /\ a[i] = amount * w[i]
    BY <1>2
  <2> HIDE DEF a
  <2>2. SumFunctionOnSet(a, D) = amount * SumFunctionOnSet(w, D)
    BY <1>1, <2>1, SumScaled
  <2> QED BY <2>2 DEF SumOf, D, WeightOf
<1>7. SumFunctionOnSet(fs, D) = sum * SumFunctionOnSet(f, D)
  <2>1. \A i \in D : f[i] \in Int /\ fs[i] = sum * f[i]
    <3> TAKE i \in D
    <3>1. f[i] \in Int BY <1>4
    <3> QED BY <3>1
  <2> HIDE DEF fs
  <2> QED BY <1>1, <1>3, <2>1, SumScaled
<1>8. SumFunctionOnSet(a, D) = SumFunctionOnSet(fs, D) + SumFunctionOnSet(r, D)
  <2>1. \A i \in D : fs[i] \in Int /\ r[i] \in Int /\ a[i] = fs[i] + r[i]
    <3> TAKE i \in D
    <3>1. /\ f[i] \in Int /\ r[i] \in Int /\ sum \in Int
          /\ a[i] = f[i] * sum + r[i] /\ fs[i] = sum * f[i]
      BY <1>3, <1>4
    <3> HIDE DEF a, fs
    <3> QED BY <3>1
  <2> HIDE DEF fs, a
  <2> QED BY <1>1, <2>1, SumOfBoth
<1> HIDE DEF a, fs
<1>9. SumFunctionOnSet(f, D) \in Nat /\ SumFunctionOnSet(r, D) \in Nat
  BY <1>1, <1>4, SumNat
<1>10. SumFunctionOnSet(r, D) <= (sum - 1) * n
  <2> DEFINE c == sum - 1
  <2>1. c \in Int /\ \A i \in D : r[i] \in Int /\ r[i] <= c
    <3>1. c \in Int BY <1>3
    <3>2. ASSUME NEW i \in D PROVE r[i] \in Int /\ r[i] <= c
      <4>1. r[i] \in Nat /\ r[i] <= sum - 1 BY <1>4
      <4> QED BY <4>1
    <3> HIDE DEF c
    <3> QED BY <3>1, <3>2
  <2> HIDE DEF c
  <2>2. SumFunctionOnSet(r, D) <= c * Cardinality(D)
    BY <1>1, <2>1, SumWithin
  <2> QED BY <1>1, <2>2 DEF c
<1>11. rem \in Int /\ SumFunctionOnSet(r, D) = rem * sum
  <2> DEFINE sf == SumFunctionOnSet(f, D)
             sr == SumFunctionOnSet(r, D)
  <2>1. sf \in Nat /\ sr \in Nat /\ amount * sum = sum * sf + sr /\ rem = amount - sf
    BY <1>6, <1>7, <1>8, <1>9 DEF SumOf, D, Remains
  <2> HIDE DEF sf, sr
  <2>2. (amount - sf) * sum = amount * sum - sum * sf
    BY <1>3, <2>1
  <2>3. sr = rem * sum
    BY <1>3, <2>1, <2>2
  <2> QED BY <2>1, <2>3 DEF sr
<1>12. rem \in 0 .. n
  <2>1. rem >= 0
    <3>1. SUFFICES ASSUME rem < 0 PROVE FALSE
      BY <1>11
    <3>2. rem * sum <= -sum
      <4>1. (rem + 1) * sum <= 0
        BY <1>3, <1>11, <3>1
      <4> QED BY <1>3, <1>11, <4>1
    <3> QED BY <1>3, <1>9, <1>11, <3>2
  <2>2. rem <= n
    <3>1. SUFFICES ASSUME rem >= n + 1 PROVE FALSE
      BY <1>1, <1>11
    <3>2. rem * sum >= (n + 1) * sum
      <4>1. (rem - (n + 1)) * sum >= 0
        BY <1>1, <1>3, <1>11, <3>1
      <4> QED BY <1>1, <1>3, <1>11, <4>1
    <3>3. (n + 1) * sum > (sum - 1) * n
      BY <1>1, <1>3
    <3> QED BY <1>1, <1>3, <1>9, <1>10, <1>11, <3>2, <3>3
  <2> QED BY <1>1, <1>11, <2>1, <2>2
<1> QED BY <1>3, <1>4, <1>5, <1>11, <1>12 DEF SumOf, D, SharesAdd

\* Those before share i: the larger rests, and the earlier ones of equal rests.
Ahead(n, r, i) == {j \in 1 .. n : r[j] > r[i] \/ (r[j] = r[i] /\ j < i)}

\* The first k by rest are k.
LEMMA FirstByRest ==
  ASSUME NEW n \in Nat \ {0}, NEW r \in [1 .. n -> Nat], NEW k \in 0 .. n
  PROVE  Cardinality({i \in 1 .. n : Cardinality(Ahead(n, r, i)) < k}) = k
<1> DEFINE D == 1 .. n
           key == [i \in D |-> i - r[i] * (n + 1)]
           K == {key[i] : i \in D}
           E == {i \in D : Cardinality(Ahead(n, r, i)) < k}
<1>1. IsFiniteSet(D) /\ Cardinality(D) = n
  BY FS_Interval
<1>2. \A i \in D : key[i] \in Int /\ r[i] \in Nat /\ i \in Nat /\ i <= n /\ i >= 1
  OBVIOUS
<1>3. \A i \in D, j \in D : key[j] < key[i] <=> r[j] > r[i] \/ (r[j] = r[i] /\ j < i)
  <2> SUFFICES ASSUME NEW i \in D, NEW j \in D
               PROVE  key[j] < key[i] <=> r[j] > r[i] \/ (r[j] = r[i] /\ j < i)
    OBVIOUS
  <2> DEFINE u == r[i]
             v == r[j]
  <2>1. key[i] = i - u * (n + 1) /\ key[j] = j - v * (n + 1) /\ u \in Nat /\ v \in Nat
    BY <1>2
  <2>2. i \in 1 .. n /\ j \in 1 .. n OBVIOUS
  <2> HIDE DEF key, u, v, D
  <2>3. CASE v > u
    <3>1. (v - u - 1) * (n + 1) >= 0
      BY <2>1, <2>3
    <3>2. v * (n + 1) >= u * (n + 1) + (n + 1)
      BY <2>1, <3>1
    <3>3. key[j] < key[i]
      <4> DEFINE vn == v * (n + 1)
                 un == u * (n + 1)
      <4>1. vn \in Int /\ un \in Int /\ vn >= un + n + 1 /\ key[i] = i - un /\ key[j] = j - vn
        BY <2>1, <3>2
      <4> HIDE DEF vn, un
      <4> QED BY <2>2, <4>1
    <3> QED BY <2>3, <3>3 DEF u, v
  <2>4. CASE u > v
    <3>1. (u - v - 1) * (n + 1) >= 0
      BY <2>1, <2>4
    <3>2. u * (n + 1) >= v * (n + 1) + (n + 1)
      BY <2>1, <3>1
    <3>3. key[i] < key[j]
      <4> DEFINE vn == v * (n + 1)
                 un == u * (n + 1)
      <4>1. vn \in Int /\ un \in Int /\ un >= vn + n + 1 /\ key[i] = i - un /\ key[j] = j - vn
        BY <2>1, <3>2
      <4> HIDE DEF vn, un
      <4> QED BY <2>2, <4>1
    <3>4. key[i] \in Int /\ key[j] \in Int
      BY <2>1, <2>2
    <3> QED BY <2>1, <2>4, <3>3, <3>4 DEF u, v
  <2>5. CASE u = v
    <3> DEFINE un == u * (n + 1)
    <3>1. un \in Int /\ key[i] = i - un /\ key[j] = j - un
      BY <2>1, <2>5
    <3> HIDE DEF un
    <3> QED BY <2>1, <2>2, <2>5, <3>1 DEF u, v
  <2> QED BY <2>1, <2>3, <2>4, <2>5
<1>4. \A i \in D, j \in D : key[i] = key[j] => i = j
  <2> SUFFICES ASSUME NEW i \in D, NEW j \in D, key[i] = key[j] PROVE i = j
    OBVIOUS
  <2>1. ~(key[j] < key[i]) /\ ~(key[i] < key[j])
    BY <1>2
  <2>2. i \in Nat /\ j \in Nat /\ r[i] \in Nat /\ r[j] \in Nat
    BY <1>2
  <2> HIDE DEF key, D
  <2> QED BY <1>3, <2>1, <2>2
<1>5. IsFiniteSet(K) /\ Cardinality(K) = n /\ K \subseteq Int
  <2>1. K \subseteq Int BY <1>2
  <2> HIDE DEF key, D
  <2> QED BY <1>1, <1>4, <2>1, KeysAreAsMany
<1>6. \A i \in D : Cardinality(Ahead(n, r, i)) = Cardinality({m \in K : m < key[i]})
  <2> SUFFICES ASSUME NEW i \in D
               PROVE  Cardinality(Ahead(n, r, i)) = Cardinality({m \in K : m < key[i]})
    OBVIOUS
  <2> DEFINE A == Ahead(n, r, i)
  <2>1. A = {j \in D : key[j] < key[i]}
    BY <1>3 DEF Ahead
  <2>2. {m \in K : m < key[i]} = {key[j] : j \in A}
    BY <2>1
  <2>3. A \subseteq D /\ IsFiniteSet(A)
    BY <1>1, <2>1, FS_Subset
  <2>4. \A x \in A, y \in A : key[x] = key[y] => x = y
    BY <1>4, <2>3
  <2> HIDE DEF A, K, key
  <2>5. Cardinality({key[j] : j \in A}) = Cardinality(A)
    BY <2>3, <2>4, KeysAreAsMany
  <2> QED BY <2>2, <2>5 DEF A
<1>7. Lowest(K, k) = {key[i] : i \in E}
  <2>1. \A m \in K : m \in Lowest(K, k) <=> Cardinality({x \in K : x < m}) < k
    BY DEF Lowest
  <2> HIDE DEF key, D
  <2>2. Lowest(K, k) \subseteq K
    BY DEF Lowest
  <2>3. \A i \in D : key[i] \in K /\ (key[i] \in Lowest(K, k) <=> i \in E)
    BY <1>6, <2>1
  <2>4. K = {key[i] : i \in D} /\ E \subseteq D
    OBVIOUS
  <2> HIDE DEF K, E
  <2> QED BY <2>2, <2>3, <2>4
<1>8. Cardinality({key[i] : i \in E}) = Cardinality(E)
  <2>1. E \subseteq D /\ IsFiniteSet(E)
    BY <1>1, FS_Subset
  <2>2. \A x \in E, y \in E : key[x] = key[y] => x = y
    BY <1>4, <2>1
  <2> HIDE DEF E, key
  <2> QED BY <2>1, <2>2, KeysAreAsMany
<1>9. Cardinality(Lowest(K, k)) = k
  <2>0. k \in Nat /\ k <= n OBVIOUS
  <2> HIDE DEF K, D, key, E
  <2>1. Cardinality(Lowest(K, k)) = IF k <= Cardinality(K) THEN k ELSE Cardinality(K)
    BY <1>5, <2>0, LowestSize
  <2> QED BY <1>5, <2>0, <2>1
<1> QED BY <1>7, <1>8, <1>9

\* The larger of two numbers has no smaller quotient.
LEMMA LargerQuotient ==
  ASSUME NEW s \in Nat \ {0}, NEW p \in Nat, NEW q \in Nat, NEW u \in Nat, NEW v \in Nat,
         u <= s - 1, p * s + u >= q * s + v
  PROVE  p >= q
<1>1. SUFFICES ASSUME q >= p + 1 PROVE FALSE
  OBVIOUS
<1>2. (q - p - 1) * s >= 0
  BY <1>1
<1>3. q * s = (q - p - 1) * s + p * s + s
  OBVIOUS
<1> DEFINE a == p * s
           b == q * s
           c == (q - p - 1) * s
<1>4. a \in Int /\ b \in Int /\ c \in Int /\ c >= 0 /\ b = c + a + s /\ a + u >= b + v
  BY <1>2, <1>3
<1> HIDE DEF a, b, c
<1> QED BY <1>4

\* Those that get one unit of the rest.
Raised(n, r, rem) == {i \in 1 .. n : Cardinality(Ahead(n, r, i)) < rem}

LEMMA DistributedAs ==
  ASSUME NEW n, NEW w, Weighed(n, w), NEW amount \in Nat,
         NEW f, f = Floors(n, w, amount), NEW r, r = RestsOf(n, w, amount),
         NEW rem, rem = Remains(n, w, amount)
  PROVE  Distributed(amount, w)
           = [i \in 1 .. n |-> f[i] + IF i \in Raised(n, r, rem) THEN 1 ELSE 0]
<1>1. DOMAIN w = 1 .. n /\ DOMAIN f = 1 .. n
  BY DEF Weighed, Floors
<1>2. \A i \in 1 .. n : f[i] = (amount * w[i]) \div SumOf(w, 1 .. n)
                        /\ r[i] = (amount * w[i]) % SumOf(w, 1 .. n)
  BY DEF Floors, RestsOf, WeightOf
<1>3. f = [i \in 1 .. n |-> (amount * w[i]) \div SumOf(w, 1 .. n)]
  BY DEF Floors, WeightOf
<1>4. rem = amount - SumOf([i \in 1 .. n |-> (amount * w[i]) \div SumOf(w, 1 .. n)], 1 .. n)
  BY <1>3 DEF Remains
<1>5. \A i \in 1 .. n :
        Ahead(n, r, i) = {j \in 1 .. n :
             \/ (amount * w[j]) % SumOf(w, 1 .. n) > (amount * w[i]) % SumOf(w, 1 .. n)
             \/ /\ (amount * w[j]) % SumOf(w, 1 .. n) = (amount * w[i]) % SumOf(w, 1 .. n)
                /\ j < i}
  BY <1>2 DEF Ahead
<1>6. \A i \in 1 .. n : i \in Raised(n, r, rem) <=> Cardinality(Ahead(n, r, i)) < rem
  BY DEF Raised
<1>7. Distributed(amount, w)
        = [i \in 1 .. n |->
             f[i] + IF Cardinality({j \in 1 .. n :
                         \/ (amount * w[j]) % SumOf(w, 1 .. n) > (amount * w[i]) % SumOf(w, 1 .. n)
                         \/ /\ (amount * w[j]) % SumOf(w, 1 .. n) = (amount * w[i]) % SumOf(w, 1 .. n)
                            /\ j < i}) < rem THEN 1 ELSE 0]
  BY <1>1, <1>3, <1>4, Zenon DEF Distributed
<1> QED BY <1>5, <1>6, <1>7, Zenon

\* Only a share that lost something in rounding is raised.
LEMMA RaisedLost ==
  ASSUME NEW n, NEW w, Weighed(n, w), NEW amount \in Nat,
         NEW r, r = RestsOf(n, w, amount), NEW rem, rem = Remains(n, w, amount),
         NEW i \in Raised(n, r, rem)
  PROVE  r[i] > 0
<1> DEFINE D == 1 .. n
           sum == WeightOf(n, w)
           P == {j \in D : r[j] > 0}
<1>1. /\ sum \in Nat \ {0} /\ r \in [1 .. n -> Nat] /\ \A j \in 1 .. n : r[j] <= sum - 1
      /\ SumOf(r, 1 .. n) = rem * sum /\ rem \in 0 .. n
  <2> DEFINE f == Floors(n, w, amount)
  <2>1. sum = WeightOf(n, w) /\ f = Floors(n, w, amount) OBVIOUS
  <2> HIDE DEF sum, f, D, P
  <2>2. SharesAdd(n, w, amount, sum, f, r, rem)
    BY <2>1, Shares
  <2> QED BY <2>2 DEF SharesAdd
<1>2. i \in D /\ IsFiniteSet(D) /\ n \in Nat
  BY FS_Interval DEF Raised, Weighed
<1>3. SUFFICES ASSUME r[i] = 0 PROVE FALSE
  BY <1>1, <1>2
<1>4. P \subseteq Ahead(n, r, i)
  BY <1>3 DEF Ahead
<1>5. IsFiniteSet(P) /\ IsFiniteSet(Ahead(n, r, i))
  <2>1. Ahead(n, r, i) \subseteq D
    BY DEF Ahead
  <2> QED BY <1>2, <2>1, FS_Subset
<1>6. Cardinality(P) <= Cardinality(Ahead(n, r, i)) /\ Cardinality(P) \in Nat
      /\ Cardinality(Ahead(n, r, i)) \in Nat
  <2> HIDE DEF P
  <2> QED BY <1>4, <1>5, FewerInPart
<1>7. Cardinality(Ahead(n, r, i)) < rem
  BY DEF Raised
<1>8. SumFunctionOnSet(r, D) = SumFunctionOnSet(r, P)
  <2>1. \A j \in D : r[j] \in Int BY <1>1
  <2>2. \A j \in D \ P : r[j] = 0 BY <1>1
  <2>3. P \in SUBSET D OBVIOUS
  <2> HIDE DEF P, D
  <2> QED BY <1>2, <2>1, <2>2, <2>3, SumPart
<1>9. SumFunctionOnSet(r, P) <= (sum - 1) * Cardinality(P)
  <2> DEFINE c == sum - 1
  <2>1. c \in Int BY <1>1
  <2>2. \A j \in P : r[j] \in Int /\ r[j] <= c BY <1>1
  <2> HIDE DEF P, c
  <2>3. SumFunctionOnSet(r, P) <= c * Cardinality(P)
    BY <1>5, <2>1, <2>2, SumWithin
  <2> QED BY <2>3 DEF c
<1> DEFINE k == Cardinality(P)
<1>10. k \in Nat /\ rem \in Nat /\ k + 1 <= rem
  BY <1>1, <1>6, <1>7
<1>11. rem * sum <= (sum - 1) * k
  BY <1>1, <1>8, <1>9 DEF SumOf
<1> HIDE DEF k, P, sum
<1>12. (sum - 1) * k <= sum * k
  <2>1. (sum - 1) * k = sum * k - k
    BY <1>1, <1>10
  <2>2. sum * k \in Int
    BY <1>1, <1>10
  <2> QED BY <1>10, <2>1, <2>2
<1>13. (rem - k - 1) * sum >= 0
  BY <1>1, <1>10
<1>14. rem * sum = (rem - k - 1) * sum + sum * k + sum
  BY <1>1, <1>10
<1>15. rem * sum \in Int /\ sum * k \in Int /\ (rem - k - 1) * sum \in Int /\ (sum - 1) * k \in Int
  BY <1>1, <1>10
<1> QED BY <1>1, <1>11, <1>12, <1>13, <1>14, <1>15

\* What distribute_qty promises: every unit goes somewhere, a share is less than
\* one unit from its quota, and a larger weight never gets less.
LEMMA Distribution ==
  ASSUME NEW n, NEW w, Weighed(n, w), NEW amount \in Nat \ {0},
         NEW d, d = Distributed(amount, w), NEW sum, sum = WeightOf(n, w)
  PROVE  /\ d \in [1 .. n -> Nat]
         /\ SumOf(d, 1 .. n) = amount
         /\ \A i \in 1 .. n : d[i] * sum - amount * w[i] \in (1 - sum) .. (sum - 1)
         /\ \A i \in 1 .. n, j \in 1 .. n : w[i] > w[j] => d[i] >= d[j]
<1> DEFINE f == Floors(n, w, amount)
           r == RestsOf(n, w, amount)
           rem == Remains(n, w, amount)
           A == Raised(n, r, rem)
           D == 1 .. n
           e == [i \in D |-> IF i \in A THEN 1 ELSE 0]
<1>0. amount \in Nat /\ n \in Nat \ {0} /\ w \in [1 .. n -> Nat \ {0}]
  BY DEF Weighed
<1>1. /\ sum \in Nat \ {0} /\ f \in [1 .. n -> Nat] /\ r \in [1 .. n -> Nat]
      /\ \A i \in 1 .. n : r[i] <= sum - 1 /\ amount * w[i] = f[i] * sum + r[i]
      /\ rem \in 0 .. n
  <2>1. f = Floors(n, w, amount) /\ r = RestsOf(n, w, amount) /\ rem = Remains(n, w, amount)
    OBVIOUS
  <2> HIDE DEF f, r, rem, A, D, e
  <2>2. SharesAdd(n, w, amount, sum, f, r, rem)
    BY <1>0, <2>1, Shares
  <2> QED BY <2>2 DEF SharesAdd
<1>2. d = [i \in 1 .. n |-> f[i] + IF i \in A THEN 1 ELSE 0]
  BY <1>0, DistributedAs
<1>3. A \subseteq D /\ Cardinality(A) = rem /\ IsFiniteSet(D) /\ IsFiniteSet(A)
  <2>1. A \subseteq D BY DEF Raised
  <2>2. IsFiniteSet(D) BY <1>0, FS_Interval
  <2>3. Cardinality(A) = rem
    <3> HIDE DEF r, rem
    <3> QED BY <1>0, <1>1, FirstByRest DEF Raised
  <2> HIDE DEF A
  <2> QED BY <2>1, <2>2, <2>3, FS_Subset
<1>4. \A i \in A : r[i] > 0
  BY <1>0, RaisedLost
<1>5. rem = amount - SumOf(f, 1 .. n)
  BY DEF Remains
<1> HIDE DEF f, r, rem
<1>6. d \in [1 .. n -> Nat]
  BY <1>1, <1>2
<1>7. SumOf(d, 1 .. n) = amount
  <2>1. \A i \in D : f[i] \in Int /\ e[i] \in Int /\ d[i] = f[i] + e[i]
    BY <1>1, <1>2
  <2>2. \A i \in D : e[i] \in Int /\ (i \notin A => e[i] = 0) /\ (i \in A => e[i] = 1)
    OBVIOUS
  <2> HIDE DEF D, e, A
  <2>3. SumFunctionOnSet(d, D) = SumFunctionOnSet(f, D) + SumFunctionOnSet(e, D)
    BY <1>3, <2>1, SumOfBoth
  <2>4. SumFunctionOnSet(e, D) = SumFunctionOnSet(e, A)
    BY <1>3, <2>2, SumPart
  <2>5. SumFunctionOnSet(e, A) = rem
    BY <1>3, <2>2, SumOfOnes
  <2>6. SumFunctionOnSet(f, D) \in Int
    BY <1>3, <2>1, SumType
  <2> QED BY <1>5, <2>3, <2>4, <2>5, <2>6 DEF SumOf, D
<1>8. ASSUME NEW i \in 1 .. n
      PROVE  d[i] * sum - amount * w[i] \in (1 - sum) .. (sum - 1)
  <2> DEFINE x == d[i] * sum
             y == amount * w[i]
             z == f[i] * sum
             s == r[i]
  <2>1. y = z + s /\ s <= sum - 1 /\ s \in Nat /\ z \in Int
    BY <1>1
  <2>2. CASE i \in A
    <3>1. d[i] = f[i] + 1 BY <1>2, <2>2
    <3>2. x = z + sum
      <4>1. f[i] \in Nat BY <1>1
      <4>2. (f[i] + 1) * sum = f[i] * sum + sum
        BY <1>1, <4>1
      <4> QED BY <3>1, <4>2
    <3>3. s > 0 BY <1>4, <2>2
    <3> HIDE DEF x, y, z, s
    <3>4. x - y = sum - s /\ x - y \in Int BY <1>1, <2>1, <3>2
    <3>5. x - y \in (1 - sum) .. (sum - 1) BY <1>1, <2>1, <3>3, <3>4
    <3> QED BY <3>5 DEF x, y
  <2>3. CASE i \notin A
    <3>1. d[i] = f[i] BY <1>1, <1>2, <2>3
    <3>2. x = z BY <3>1
    <3> HIDE DEF x, y, z, s
    <3>3. x - y = -s /\ x - y \in Int BY <1>1, <2>1, <3>2
    <3>4. x - y \in (1 - sum) .. (sum - 1) BY <1>1, <2>1, <3>3
    <3> QED BY <3>4 DEF x, y
  <2> QED BY <2>2, <2>3
<1>9. ASSUME NEW i \in 1 .. n, NEW j \in 1 .. n, w[i] > w[j]
      PROVE  d[i] >= d[j]
  <2> DEFINE fi == f[i]
             fj == f[j]
             si == r[i]
             sj == r[j]
             y == amount * w[i]
             z == amount * w[j]
  <2>1. /\ y = fi * sum + si /\ z = fj * sum + sj /\ si <= sum - 1 /\ sj <= sum - 1
        /\ fi \in Nat /\ fj \in Nat /\ si \in Nat /\ sj \in Nat
    BY <1>1
  <2>2. y > z /\ y \in Nat /\ z \in Nat
    <3> DEFINE p == w[i]
               q == w[j]
    <3>1. p \in Nat /\ q \in Nat /\ p > q BY <1>0, <1>9
    <3> HIDE DEF p, q
    <3>2. (p - q - 1) * amount >= 0
      BY <1>0, <3>1
    <3>3. amount * p = amount * q + amount + (p - q - 1) * amount
      BY <1>0, <3>1
    <3>4. amount * p > amount * q /\ amount * p \in Nat /\ amount * q \in Nat
      BY <1>0, <3>1, <3>2, <3>3
    <3> QED BY <3>4 DEF p, q
  <2>3. /\ d[i] = (IF i \in A THEN fi + 1 ELSE fi)
        /\ d[j] = (IF j \in A THEN fj + 1 ELSE fj)
    BY <1>1, <1>2
  <2> HIDE DEF y, z, fi, fj, si, sj
  <2>4. fi >= fj
    <3>1. sum \in Nat \ {0} /\ fi * sum + si >= fj * sum + sj /\ sj >= 0
      BY <1>1, <2>1, <2>2
    <3> QED BY <2>1, <3>1, LargerQuotient
  <2>5. CASE fi >= fj + 1
    BY <2>1, <2>3, <2>5
  <2>6. CASE fi = fj
    <3>1. si > sj
      <4> DEFINE a == fi * sum
      <4>1. a \in Int BY <1>1, <2>1
      <4>2. y = a + si /\ z = a + sj BY <2>1, <2>6
      <4> HIDE DEF a
      <4> QED BY <2>1, <2>2, <4>1, <4>2
    <3>2. j \in A => i \in A
      <4>1. Ahead(n, r, i) \subseteq Ahead(n, r, j)
        <5>1. r[i] \in Nat /\ r[j] \in Nat /\ r[i] > r[j]
          BY <2>1, <3>1 DEF si, sj
        <5>2. \A k \in 1 .. n : r[k] \in Nat
          BY <1>1
        <5> HIDE DEF r
        <5> QED BY <5>1, <5>2 DEF Ahead
      <4>2. IsFiniteSet(Ahead(n, r, j))
        <5>1. Ahead(n, r, j) \subseteq D BY DEF Ahead
        <5> QED BY <1>3, <5>1, FS_Subset
      <4>3. /\ Cardinality(Ahead(n, r, i)) <= Cardinality(Ahead(n, r, j))
            /\ Cardinality(Ahead(n, r, i)) \in Nat /\ Cardinality(Ahead(n, r, j)) \in Nat
        BY <4>1, <4>2, FewerInPart
      <4> QED BY <1>1, <4>3 DEF Raised
    <3> QED BY <2>1, <2>3, <2>6, <3>2
  <2> QED BY <2>1, <2>4, <2>5, <2>6
<1> QED BY <1>6, <1>7, <1>8, <1>9

\* What is submitted of d when empty slots are left out.
IsSchedule(p, d, n) ==
  /\ DOMAIN p = {i \in 1 .. n : d[i] > 0}
  /\ \A i \in DOMAIN p : p[i] = d[i] /\ p[i] \in Nat \ {0}
  /\ DOMAIN p # {}
  /\ SumOf(p, DOMAIN p) = SumOf(d, 1 .. n)

LEMMA ScheduledAs ==
  ASSUME NEW n \in Nat, NEW d \in [1 .. n -> Int],
         \A i \in 1 .. n : d[i] >= 0, SumOf(d, 1 .. n) > 0
  PROVE  IsSchedule(Scheduled(d), d, n)
<1> DEFINE D == 1 .. n
           E == {i \in D : d[i] > 0}
           s == Scheduled(d)
<1>1. DOMAIN s = E /\ \A i \in E : s[i] = d[i]
  BY DEF Scheduled
<1>2. \A i \in E : s[i] \in Nat \ {0}
  BY <1>1
<1>3. IsFiniteSet(D) /\ IsFiniteSet(E) /\ E \in SUBSET D
  <2>1. IsFiniteSet(D) /\ E \subseteq D BY FS_Interval
  <2> HIDE DEF D, E
  <2> QED BY <2>1, FS_Subset
<1>4. SumFunctionOnSet(d, D) = SumFunctionOnSet(d, E)
  <2>1. (\A i \in D : d[i] \in Int) /\ \A i \in D \ E : d[i] = 0
    OBVIOUS
  <2> HIDE DEF D, E
  <2> QED BY <1>3, <2>1, SumPart
<1>5. SumFunctionOnSet(s, E) = SumFunctionOnSet(d, E)
  <2>1. IsFiniteSet(E) /\ \A i \in E : s[i] = d[i] BY <1>1, <1>3
  <2> HIDE DEF E, s, D
  <2> QED BY <2>1, SumSame
<1>6. E # {}
  <2>1. SUFFICES ASSUME E = {} PROVE FALSE
    OBVIOUS
  <2>2. SumFunctionOnSet(d, E) = 0
    BY <2>1, SumEmpty
  <2> QED BY <1>4, <2>2 DEF SumOf
<1> QED BY <1>1, <1>2, <1>4, <1>5, <1>6 DEF SumOf, IsSchedule

\* Every weight of a plan counts.
LEMMA WeightsArePositive ==
  ASSUME NEW n \in Nat \ {0}
  PROVE  /\ Weighed(n, [i \in 1 .. n |-> 1])
         /\ Weighed(n, UWeights(n))
<1>1. Weighed(n, [i \in 1 .. n |-> 1])
  BY DEF Weighed
<1>2. CASE n = 1
  <2>1. UWeights(n) = [i \in 1 .. 1 |-> 1]
    BY <1>2 DEF UWeights
  <2> QED BY <1>1, <1>2, <2>1
<1>3. CASE n > 1
  <2>1. ASSUME NEW i \in 1 .. n
        PROVE  10 * (n - 1) * (n - 1) + 16 * (2 * i - n - 1) * (2 * i - n - 1) \in Nat \ {0}
    <3> DEFINE a == n - 1
               b == 2 * i - n - 1
               aa == a * a
               bb == b * b
    <3>1. a \in Int /\ a >= 1 /\ b \in Int
      BY <1>3
    <3>2. aa \in Int /\ aa >= 1 /\ bb \in Int /\ bb >= 0
      <4> HIDE DEF a, b
      <4> QED BY <3>1
    <3>3. 10 * a * a = 10 * aa /\ 16 * b * b = 16 * bb
      <4> HIDE DEF a, b
      <4> QED BY <3>1
    <3> DEFINE ta == 10 * a * a
               tb == 16 * b * b
    <3> HIDE DEF aa, bb
    <3>4. ta \in Int /\ tb \in Int /\ ta >= 10 /\ tb >= 0
      BY <3>2, <3>3
    <3>5. 10 * (n - 1) * (n - 1) = ta /\ 16 * (2 * i - n - 1) * (2 * i - n - 1) = tb
      OBVIOUS
    <3> HIDE DEF ta, tb
    <3>6. ta + tb \in Nat \ {0} BY <3>4
    <3> QED BY <3>5, <3>6
  <2>2. UWeights(n) = [i \in 1 .. n |-> 10 * (n - 1) * (n - 1) + 16 * (2 * i - n - 1) * (2 * i - n - 1)]
    <3>1. n # 1 BY <1>3
    <3> QED BY <3>1, Zenon DEF UWeights
  <2>3. UWeights(n) \in [1 .. n -> Nat \ {0}]
    BY <2>1, <2>2
  <2> QED BY <2>3 DEF Weighed
<1> QED BY <1>1, <1>2, <1>3

\* A plan in as many slots as cap, of this quantity.
IsPlan(p, cap, amount) ==
  /\ DOMAIN p # {} /\ DOMAIN p \subseteq 1 .. cap
  /\ \A i \in DOMAIN p : p[i] \in Nat \ {0}
  /\ SumOf(p, DOMAIN p) = amount

\* The quantity of slot i, and that rounding biases none.
At(p, i) == IF i \in DOMAIN p THEN p[i] ELSE 0
IsFair(p, w, amount) ==
  LET sum == SumOf(w, DOMAIN w)
  IN /\ \A i \in DOMAIN w : At(p, i) * sum - amount * w[i] \in (1 - sum) .. (sum - 1)
     /\ \A i, j \in DOMAIN w : w[i] > w[j] => At(p, i) >= At(p, j)

LEMMA WeightedPlan ==
  ASSUME NEW n, NEW w, Weighed(n, w), NEW amount \in Nat \ {0},
         NEW p, p = Scheduled(Distributed(amount, w))
  PROVE  IsPlan(p, n, amount) /\ IsFair(p, w, amount)
<1> DEFINE d == Distributed(amount, w)
           sum == WeightOf(n, w)
<1>1. /\ d \in [1 .. n -> Nat]
      /\ SumOf(d, 1 .. n) = amount
      /\ \A i \in 1 .. n : d[i] * sum - amount * w[i] \in (1 - sum) .. (sum - 1)
      /\ \A i \in 1 .. n, j \in 1 .. n : w[i] > w[j] => d[i] >= d[j]
  <2>1. d = Distributed(amount, w) /\ sum = WeightOf(n, w) OBVIOUS
  <2> HIDE DEF d, sum
  <2> QED BY <2>1, Distribution
<1>2. n \in Nat /\ DOMAIN w = 1 .. n
  BY DEF Weighed
<1>3. p = Scheduled(d) OBVIOUS
<1> HIDE DEF d
<1>4. /\ d \in [1 .. n -> Int] /\ (\A i \in 1 .. n : d[i] >= 0) /\ SumOf(d, 1 .. n) > 0
  BY <1>1
<1>5. /\ DOMAIN p = {i \in 1 .. n : d[i] > 0}
      /\ \A i \in DOMAIN p : p[i] = d[i] /\ p[i] \in Nat \ {0}
      /\ DOMAIN p # {}
      /\ SumOf(p, DOMAIN p) = SumOf(d, 1 .. n)
  <2>1. IsSchedule(p, d, n)
    BY <1>2, <1>3, <1>4, ScheduledAs
  <2> QED BY <2>1 DEF IsSchedule
<1>6. \A i \in 1 .. n : At(p, i) = d[i]
  BY <1>4, <1>5 DEF At
<1>7. IsPlan(p, n, amount)
  BY <1>1, <1>5 DEF IsPlan
<1>8. sum = SumOf(w, DOMAIN w)
  BY <1>2 DEF WeightOf
<1> HIDE DEF sum
<1>9. IsFair(p, w, amount)
  BY <1>1, <1>2, <1>6, <1>8, Zenon DEF IsFair
<1> QED BY <1>7, <1>9

-----------------------------------------------------------------------------
\* How often b goes into a, rounded up.
LEMMA Ceiling ==
  ASSUME NEW a \in Nat \ {0}, NEW b \in Nat \ {0}
  PROVE  CeilDiv(a, b) \in Nat \ {0} /\ a <= CeilDiv(a, b) * b /\ (CeilDiv(a, b) - 1) * b < a
<1> DEFINE c == a + b - 1
           q == c \div b
<1>1. c \in Nat /\ c \in Int OBVIOUS
<1> HIDE DEF c
<1>2. q \in Nat /\ q * b <= c /\ c < (q + 1) * b
  BY <1>1, Division
<1>3. CeilDiv(a, b) = q
  BY DEF CeilDiv, c
<1> HIDE DEF q
<1>4. (q + 1) * b = q * b + b /\ (q - 1) * b = q * b - b /\ q * b \in Int
  BY <1>2
<1> DEFINE m == q * b
<1>5. m \in Int /\ m <= a + b - 1 /\ a + b - 1 < m + b
  BY <1>2, <1>4 DEF c
<1>6. m - b < a /\ a <= m
  <2> HIDE DEF m
  <2> QED BY <1>5
<1>7. q # 0
  <2>1. SUFFICES ASSUME q = 0 PROVE FALSE OBVIOUS
  <2>2. m = 0 BY <2>1
  <2> HIDE DEF m
  <2> QED BY <1>6, <2>2
<1> QED BY <1>2, <1>3, <1>4, <1>6, <1>7

LEMMA LeastIs ==
  ASSUME NEW a \in Int, NEW b \in Int PROVE Min({a, b}) = Least(a, b)
<1> DEFINE m == Least(a, b)
<1>1. m \in {a, b} /\ \A y \in {a, b} : m <= y
  BY DEF Least
<1>2. \A x \in {a, b} : (\A y \in {a, b} : x <= y) => x = m
  BY DEF Least
<1>3. Min({a, b}) = CHOOSE x \in {a, b} : \A y \in {a, b} : x <= y
  BY DEF Min
<1> HIDE DEF m
<1>4. Min({a, b}) \in {a, b} /\ \A y \in {a, b} : Min({a, b}) <= y
  BY <1>1, <1>3, Zenon
<1>5. Min({a, b}) = m
  BY <1>2, <1>4
<1> QED BY <1>5 DEF m

LEMMA MostIs ==
  ASSUME NEW a \in Int, NEW b \in Int PROVE Max({a, b}) = IF a >= b THEN a ELSE b
<1> DEFINE m == IF a >= b THEN a ELSE b
<1>1. m \in {a, b} /\ \A y \in {a, b} : m >= y
  OBVIOUS
<1>2. \A x \in {a, b} : (\A y \in {a, b} : x >= y) => x = m
  OBVIOUS
<1> HIDE DEF m
<1> QED BY <1>1, <1>2 DEF Max

\* An iceberg shows the same quantity again and again until nothing is left: what
\* the first k slots submit is k times that, and never more than the order.
Shown(amount, shown, n) ==
  [i \in 1 .. n |-> IF Least(shown, amount - (i - 1) * shown) > 0
                    THEN Least(shown, amount - (i - 1) * shown) ELSE 0]

LEMMA ShownSoFar ==
  ASSUME NEW amount \in Nat, NEW shown \in Nat \ {0}, NEW n \in Nat
  PROVE  \A k \in Nat : k <= n => SumOf(Shown(amount, shown, n), 1 .. k) = Least(k * shown, amount)
<1> DEFINE d == Shown(amount, shown, n)
<1> USE DEF Shown
<1> DEFINE P == {k \in Nat : k <= n => SumOf(d, 1 .. k) = Least(k * shown, amount)}
<1>1. 0 \in P
  <2>1. SumOf(d, 1 .. 0) = 0
    <3>1. 1 .. 0 = {} OBVIOUS
    <3> QED BY <3>1, SumEmpty DEF SumOf
  <2>2. 0 * shown = 0 OBVIOUS
  <2> QED BY <2>1, <2>2 DEF Least
<1>2. ASSUME NEW k \in Nat, k \in P PROVE k + 1 \in P
  <2>1. SUFFICES ASSUME k + 1 <= n PROVE SumOf(d, 1 .. (k + 1)) = Least((k + 1) * shown, amount)
    OBVIOUS
  <2>2. SumOf(d, 1 .. k) = Least(k * shown, amount)
    BY <1>2, <2>1
  <2> DEFINE m == k * shown
             v == amount - m
  <2>3. d[k + 1] = IF Least(shown, v) > 0 THEN Least(shown, v) ELSE 0
    <3>1. k + 1 \in 1 .. n /\ (k + 1) - 1 = k BY <2>1
    <3> QED BY <3>1
  <2>4. m \in Nat /\ (k + 1) * shown = m + shown
    OBVIOUS
  <2>5. SumOf(d, 1 .. (k + 1)) = SumOf(d, 1 .. k) + d[k + 1]
    <3> DEFINE S == 1 .. k
    <3>1. 1 .. (k + 1) = S \cup {k + 1} /\ k + 1 \notin S
      OBVIOUS
    <3>2. IsFiniteSet(S) BY FS_Interval
    <3>3. \A y \in S \cup {k + 1} : d[y] \in Int
      <4> SUFFICES ASSUME NEW y \in 1 .. n PROVE d[y] \in Int
        BY <2>1
      <4> DEFINE z == amount - (y - 1) * shown
      <4>1. z \in Int OBVIOUS
      <4>2. d[y] = IF Least(shown, z) > 0 THEN Least(shown, z) ELSE 0
        OBVIOUS
      <4> HIDE DEF z
      <4> QED BY <4>1, <4>2 DEF Least
    <3> HIDE DEF S
    <3>4. SumFunctionOnSet(d, S \cup {k + 1}) = SumFunctionOnSet(d, S) + d[k + 1]
      BY <3>1, <3>2, <3>3, SumAdd
    <3> QED BY <3>1, <3>4 DEF SumOf, S
  <2> HIDE DEF m
  <2> QED BY <2>2, <2>3, <2>4, <2>5 DEF Least, m
<1> HIDE DEF P
<1>3. \A k \in Nat : k \in P
  BY <1>1, <1>2, Induction
<1> QED BY <1>3 DEF P

\* In n slots of `shown`, the whole order if they are enough.
LEMMA ShownPlan ==
  ASSUME NEW amount \in Nat \ {0}, NEW shown \in Nat \ {0}, NEW n \in Nat \ {0},
         amount <= n * shown,
         NEW p, p = Scheduled([i \in 1 .. n |-> Min({shown, amount - (i - 1) * shown})])
  PROVE  IsPlan(p, n, amount) /\ \A i \in DOMAIN p : p[i] <= shown
<1> DEFINE g == [i \in 1 .. n |-> Min({shown, amount - (i - 1) * shown})]
           d == Shown(amount, shown, n)
<1>1. \A i \in 1 .. n : g[i] \in Int /\ g[i] <= shown /\ d[i] = IF g[i] > 0 THEN g[i] ELSE 0
  <2> SUFFICES ASSUME NEW i \in 1 .. n
               PROVE  g[i] \in Int /\ g[i] <= shown /\ d[i] = IF g[i] > 0 THEN g[i] ELSE 0
    OBVIOUS
  <2> DEFINE z == amount - (i - 1) * shown
  <2>1. z \in Int OBVIOUS
  <2>2. g[i] = Min({shown, z}) /\ d[i] = IF Least(shown, z) > 0 THEN Least(shown, z) ELSE 0
    BY DEF Shown
  <2> HIDE DEF z, g, d
  <2>3. g[i] = Least(shown, z)
    BY <2>1, <2>2, LeastIs
  <2> QED BY <2>1, <2>2, <2>3 DEF Least
<1>2. DOMAIN g = 1 .. n /\ DOMAIN d = 1 .. n /\ p = Scheduled(g) /\ d = [i \in 1 .. n |-> d[i]]
  BY DEF Shown
<1>3. SumOf(d, 1 .. n) = amount
  <2>2. n \in Nat /\ n <= n /\ amount \in Nat OBVIOUS
  <2> HIDE DEF g
  <2>4. \A k \in Nat : k <= n => SumOf(d, 1 .. k) = Least(k * shown, amount)
    BY <2>2, ShownSoFar
  <2>5. SumOf(d, 1 .. n) = Least(n * shown, amount)
    BY <2>2, <2>4
  <2> DEFINE m == n * shown
  <2>6. m \in Int OBVIOUS
  <2>7. Least(m, amount) = amount
    <3> HIDE DEF m
    <3>1. amount <= m BY DEF m
    <3> QED BY <2>6, <3>1 DEF Least
  <2> QED BY <2>5, <2>7
<1>4. d \in [1 .. n -> Int]
  <2> HIDE DEF d, g
  <2>1. \A i \in 1 .. n : d[i] \in Int BY <1>1
  <2> QED BY <1>2, <2>1
<1> HIDE DEF g, d
<1>5. Scheduled(g) = Scheduled(d)
  <2>1. {i \in DOMAIN g : g[i] > 0} = {i \in DOMAIN d : d[i] > 0}
    BY <1>1, <1>2
  <2>2. \A i \in {i \in DOMAIN d : d[i] > 0} : g[i] = d[i]
    BY <1>1, <1>2
  <2> QED BY <2>1, <2>2 DEF Scheduled
<1>6. IsSchedule(p, d, n)
  <2>1. (\A i \in 1 .. n : d[i] >= 0) /\ SumOf(d, 1 .. n) > 0
    BY <1>1, <1>3
  <2>2. p = Scheduled(d) BY <1>2, <1>5
  <2> QED BY <1>4, <2>1, <2>2, ScheduledAs
<1>7. \A i \in DOMAIN p : p[i] <= shown
  BY <1>1, <1>6 DEF IsSchedule
<1>8. IsPlan(p, n, amount)
  BY <1>3, <1>6 DEF IsPlan, IsSchedule
<1> QED BY <1>7, <1>8

\* What plan_iceberg promises.
LEMMA IcebergPlan ==
  ASSUME NEW amount \in Nat \ {0}, NEW display \in Nat \ {0}, NEW p, p = Iceberg(amount, display)
  PROVE  /\ IsPlan(p, MaxIceberg, amount)
         /\ \A i \in DOMAIN p : p[i] <= Max({display, CeilDiv(amount, MaxIceberg)})
<1> DEFINE most == CeilDiv(amount, MaxIceberg)
           cap == Max({display, most})
<1>1. MaxIceberg \in Nat \ {0}
  BY SliceAssumption
<1>2. most \in Nat \ {0} /\ amount <= most * MaxIceberg
  BY <1>1, Ceiling
<1>3. cap \in Int /\ cap >= display /\ cap >= most
  <2> HIDE DEF most
  <2> QED BY <1>2, MostIs
<1>4. CASE display >= amount
  <2>1. p = Scheduled(<<amount>>)
    BY <1>4 DEF Iceberg
  <2>2. DOMAIN p = {1} /\ p[1] = amount
    BY <2>1 DEF Scheduled
  <2>3. SumOf(p, {1}) = amount
    <3>1. \A x \in {1} : p[x] \in Int BY <2>2
    <3>2. IsFiniteSet({1}) /\ {1} \ {1} = {} BY FS_Singleton
    <3>3. SumFunctionOnSet(p, {1}) = p[1] + SumFunctionOnSet(p, {1} \ {1})
      BY <3>1, <3>2, SumWithout
    <3>4. SumFunctionOnSet(p, {}) = 0 BY SumEmpty
    <3> QED BY <2>2, <3>2, <3>3, <3>4 DEF SumOf
  <2> HIDE DEF cap
  <2> QED BY <1>1, <1>3, <1>4, <2>2, <2>3 DEF IsPlan, cap
<1>5. CASE display < amount
  <2> DEFINE wanted == CeilDiv(amount, display)
             n == Min({wanted, MaxIceberg})
             shown == IF wanted > MaxIceberg THEN CeilDiv(amount, n) ELSE display
  <2>1. wanted \in Nat \ {0} /\ amount <= wanted * display
    BY Ceiling
  <2>2. p = Scheduled([i \in 1 .. n |-> Min({shown, amount - (i - 1) * shown})])
    <3>1. ~(display >= amount) BY <1>5
    <3> QED BY <3>1 DEF Iceberg
  <2> HIDE DEF wanted
  <2>3. n = Least(wanted, MaxIceberg)
    BY <1>1, <2>1, LeastIs
  <2>4. n \in Nat \ {0} /\ n <= MaxIceberg
    BY <1>1, <2>1, <2>3 DEF Least
  <2>5. shown \in Nat \ {0} /\ amount <= n * shown /\ shown <= cap
    <3>1. CASE wanted > MaxIceberg
      <4>1. n = MaxIceberg BY <1>1, <2>1, <2>3, <3>1 DEF Least
      <4>2. shown = most BY <3>1, <4>1
      <4>3. most * MaxIceberg = MaxIceberg * most
        <5> HIDE DEF most
        <5> QED BY <1>1, <1>2
      <4> HIDE DEF n, shown, most, cap
      <4> QED BY <1>2, <1>3, <4>1, <4>2, <4>3
    <3>2. CASE ~(wanted > MaxIceberg)
      <4>1. n = wanted BY <1>1, <2>1, <2>3, <3>2 DEF Least
      <4>2. shown = display BY <3>2
      <4> HIDE DEF n, shown, most, cap
      <4> QED BY <1>3, <2>1, <4>1, <4>2
    <3> QED BY <3>1, <3>2
  <2> HIDE DEF n, shown, cap
  <2>6. IsPlan(p, n, amount) /\ \A i \in DOMAIN p : p[i] <= shown
    BY <2>2, <2>4, <2>5, ShownPlan
  <2>7. IsPlan(p, MaxIceberg, amount)
    <3>1. 1 .. n \subseteq 1 .. MaxIceberg BY <1>1, <2>4
    <3> QED BY <2>6, <3>1 DEF IsPlan
  <2>8. \A i \in DOMAIN p : p[i] <= cap
    BY <1>3, <2>5, <2>6 DEF IsPlan
  <2> QED BY <2>7, <2>8 DEF cap
<1> QED BY <1>4, <1>5

-----------------------------------------------------------------------------
\* A split parent order is split whole and fairly: the slices add up to what was
\* asked for whatever the rounding, none is empty or more than the limits allow,
\* TWAP and VWAP shares are less than one unit from their quotas, and an iceberg
\* shows no more than it may, for every quantity, count and limit.
THEOREM SlicesStayWhole == SliceSpec => []SlicesAreWhole
<1>1. ASSUME SliceInit PROVE SlicesAreWhole
  BY <1>1 DEF SliceInit, SlicesAreWhole, SliceTypeOK, PlanIsWhole, SharesAreFair, DisplayIsKept, Planned
<1>2. ASSUME SlicesAreWhole, [SliceNext]_sliceVars PROVE SlicesAreWhole'
  <2>1. CASE RefusePlan
    BY <1>2, <2>1 DEF RefusePlan, SlicesAreWhole, SliceTypeOK, PlanIsWhole, SharesAreFair, DisplayIsKept, Planned
  <2>2. CASE Build
    <3> DEFINE amount == request.total
    <3>1. amount \in Nat \ {0} /\ request \in Requests /\ ValidRequest
      <4>1. request \in Requests /\ ValidRequest
        BY <1>2, <2>2 DEF SlicesAreWhole, SliceTypeOK, Build
      <4> QED BY <4>1, SliceAssumption DEF Requests, ValidRequest
    <3>2. Clamped \in Nat \ {0}
      <4>1. request.count \in Int /\ MinSlices \in Nat \ {0} /\ MaxSlices \in Nat \ {0}
        BY <3>1, SliceAssumption DEF Requests
      <4> DEFINE c == Max({request.count, MinSlices})
      <4>2. c \in Int /\ c >= MinSlices
        BY <4>1, MostIs
      <4> HIDE DEF c
      <4>3. Min({c, MaxSlices}) = Least(c, MaxSlices)
        BY <4>1, <4>2, LeastIs
      <4> QED BY <4>1, <4>2, <4>3 DEF Least, Clamped, c
    <3>3. request' = request /\ outcome' = "planned" /\ Clamped' = Clamped
      BY <2>2 DEF Build, Clamped
    <3> DEFINE n == Clamped
               p == plan'
    <3>4. CASE request.algo \in {"twap", "vwap"}
      <4> DEFINE w == IF request.algo = "twap" THEN [i \in 1 .. n |-> 1] ELSE UWeights(n)
      <4>1. Weighed(n, w)
        BY <3>2, WeightsArePositive
      <4>2. p = Scheduled(Distributed(amount, w))
        BY <2>2, <3>4 DEF Build, Twap, Vwap
      <4>3. IsPlan(p, n, amount) /\ IsFair(p, w, amount)
        <5> HIDE DEF n, w, amount, p
        <5> QED BY <3>1, <4>1, <4>2, WeightedPlan
      <4>4. Cap' = n
        BY <3>3, <3>4 DEF Cap
      <4>5. SliceTypeOK'
        BY <3>1, <3>3, <4>3, <4>4 DEF SliceTypeOK, IsPlan, Requests
      <4>6. PlanIsWhole'
        BY <3>3, <4>3 DEF PlanIsWhole, IsPlan
      <4>7. SharesAreFair'
        <5>1. \A i : QtyAt(i)' = At(p, i)
          BY DEF QtyAt, At
        <5> QED BY <3>3, <4>3, <5>1 DEF SharesAreFair, IsFair
      <4>8. DisplayIsKept'
        BY <3>3, <3>4 DEF DisplayIsKept, Planned
      <4> QED BY <4>5, <4>6, <4>7, <4>8 DEF SlicesAreWhole
    <3>5. CASE request.algo = "iceberg"
      <4>1. request.display \in Nat \ {0}
        <5>1. request.display \in Displays /\ request.display > 0
          BY <3>1, <3>5 DEF Requests, ValidRequest
        <5>2. request.display \in Int
          BY <5>1, SliceAssumption
        <5> QED BY <5>1, <5>2
      <4>2. p = Iceberg(amount, request.display)
        BY <2>2, <3>5 DEF Build
      <4>3. /\ IsPlan(p, MaxIceberg, amount)
            /\ \A i \in DOMAIN p : p[i] <= Max({request.display, CeilDiv(amount, MaxIceberg)})
        <5> DEFINE display == request.display
        <5> HIDE DEF display, amount, p
        <5>1. display \in Nat \ {0} /\ p = Iceberg(amount, display)
          BY <4>1, <4>2 DEF display
        <5>2. /\ IsPlan(p, MaxIceberg, amount)
              /\ \A i \in DOMAIN p : p[i] <= Max({display, CeilDiv(amount, MaxIceberg)})
          BY <3>1, <5>1, IcebergPlan
        <5> QED BY <5>2 DEF display
      <4>4. Cap' = MaxIceberg
        BY <3>3, <3>5 DEF Cap
      <4>5. SliceTypeOK'
        BY <3>1, <3>3, <4>3, <4>4 DEF SliceTypeOK, IsPlan, Requests
      <4>6. PlanIsWhole'
        BY <3>3, <4>3 DEF PlanIsWhole, IsPlan
      <4>7. SharesAreFair'
        BY <3>3, <3>5 DEF SharesAreFair, Planned
      <4>8. DisplayIsKept'
        BY <3>3, <4>3 DEF DisplayIsKept
      <4> QED BY <4>5, <4>6, <4>7, <4>8 DEF SlicesAreWhole
    <3>6. request.algo \in {"twap", "vwap", "iceberg"}
      BY <3>1 DEF Requests
    <3> QED BY <3>4, <3>5, <3>6
  <2>3. CASE UNCHANGED sliceVars
    <3>1. request' = request /\ outcome' = outcome /\ plan' = plan
      BY <2>3 DEF sliceVars
    <3>2. SliceTypeOK'
      BY <1>2, <3>1 DEF SlicesAreWhole, SliceTypeOK, Cap, Clamped
    <3>3. PlanIsWhole' /\ DisplayIsKept'
      BY <1>2, <3>1 DEF SlicesAreWhole, PlanIsWhole, DisplayIsKept, Planned
    <3>4. SharesAreFair'
      <4>1. (\A i : QtyAt(i)' = QtyAt(i)) /\ Clamped' = Clamped
        BY <3>1 DEF QtyAt, Clamped
      <4> QED BY <1>2, <3>1, <4>1, Zenon DEF SlicesAreWhole, SharesAreFair, Planned
    <3> QED BY <3>2, <3>3, <3>4 DEF SlicesAreWhole
  <2> QED BY <1>2, <2>1, <2>2, <2>3 DEF SliceNext
<1> QED BY <1>1, <1>2, PTL DEF SliceSpec

-----------------------------------------------------------------------------
(* A strategy of the framework *)

\* What is counted by other names adds up to the same.
LEMMA SumRenamed ==
  ASSUME NEW S, IsFiniteSet(S), NEW k, \A x \in S, y \in S : k[x] = k[y] => x = y,
         NEW f, NEW g, \A x \in S : f[x] \in Int /\ g[k[x]] = f[x]
  PROVE  SumFunctionOnSet(g, {k[x] : x \in S}) = SumFunctionOnSet(f, S)
<1> DEFINE Im(U) == {k[x] : x \in U}
           Bad == {U \in SUBSET S : SumFunctionOnSet(g, Im(U)) # SumFunctionOnSet(f, U)}
<1> SUFFICES ASSUME Bad # {} PROVE FALSE
  OBVIOUS
<1>1. PICK U \in Bad : \A T \in Bad : T \subseteq U => T = U
  <2>1. Bad \in SUBSET SUBSET S
    OBVIOUS
  <2> HIDE DEF Bad
  <2> QED BY <2>1, SmallestSubset
<1>2. U # {}
  <2>1. Im({}) = {} OBVIOUS
  <2>2. SumFunctionOnSet(g, {}) = 0 /\ SumFunctionOnSet(f, {}) = 0
    BY SumEmpty
  <2> HIDE DEF Im
  <2> QED BY <2>1, <2>2
<1> DEFINE e == Chosen(U)
           R == U \ {e}
<1>3. e \in U /\ e \in S BY <1>2, ChosenIn
<1>4. IsFiniteSet(U) /\ IsFiniteSet(R)
  BY FS_Subset
<1>5. SumFunctionOnSet(g, Im(R)) = SumFunctionOnSet(f, R)
  <2>1. R \in SUBSET S /\ R \subseteq U /\ R # U
    BY <1>3
  <2>2. R \notin Bad
    BY <1>1, <2>1
  <2> HIDE DEF R, Im
  <2> QED BY <2>1, <2>2
<1>6. SumFunctionOnSet(f, U) = f[e] + SumFunctionOnSet(f, R)
  BY <1>2, <1>4, SumStep
<1>7. Im(U) = Im(R) \cup {k[e]} /\ k[e] \notin Im(R)
  BY <1>3
<1>8. IsFiniteSet(Im(R))
  <2>1. \A x \in R, y \in R : k[x] = k[y] => x = y OBVIOUS
  <2> HIDE DEF R
  <2> QED BY <1>4, <2>1, KeysAreAsMany
<1>9. \A y \in Im(R) \cup {k[e]} : g[y] \in Int
  BY <1>3
<1>10. SumFunctionOnSet(f, R) \in Int
  BY <1>4, SumType
<1>11. f[e] \in Int /\ g[k[e]] = f[e]
  BY <1>3
<1>12. SumFunctionOnSet(g, Im(U)) # SumFunctionOnSet(f, U)
  OBVIOUS
<1> HIDE DEF Im, R, e
<1>13. SumFunctionOnSet(g, Im(R) \cup {k[e]}) = SumFunctionOnSet(g, Im(R)) + g[k[e]]
  BY <1>7, <1>8, <1>9, SumAdd
<1> QED BY <1>5, <1>6, <1>7, <1>10, <1>11, <1>12, <1>13

-----------------------------------------------------------------------------
\* Live orders up to time t: one of each symbol and time.
Lives(live, t) ==
  /\ IsFiniteSet(live)
  /\ \A o \in live : /\ o \in [sym : FrameworkSymbols, at : Nat, left : Int]
                     /\ o.at \in 1 .. t /\ o.left # 0
  /\ \A o \in live, p \in live : o.sym = p.sym /\ o.at = p.at => o = p

\* What is on its way of a symbol.
Net(s, live) == SumFunctionOnSet([o \in live |-> o.left], OrdersOf(s, live))

LEMMA NetType ==
  ASSUME NEW live, NEW t, Lives(live, t), NEW s
  PROVE  Net(s, live) \in Int /\ IsFiniteSet(OrdersOf(s, live))
<1>1. IsFiniteSet(OrdersOf(s, live)) /\ OrdersOf(s, live) \subseteq live
  <2>1. OrdersOf(s, live) \subseteq live /\ IsFiniteSet(live) BY DEF OrdersOf, Lives
  <2> QED BY <2>1, FS_Subset
<1> DEFINE f == [o \in live |-> o.left]
<1>2. \A o \in OrdersOf(s, live) : f[o] \in Int
  BY <1>1 DEF Lives
<1> HIDE DEF f
<1>3. SumFunctionOnSet(f, OrdersOf(s, live)) \in Int
  BY <1>1, <1>2, SumType
<1> QED BY <1>1, <1>3 DEF Net, f

LEMMA NetNone ==
  ASSUME NEW live, NEW s, OrdersOf(s, live) = {}
  PROVE  Net(s, live) = 0
BY SumEmpty DEF Net

\* Orders that are added to the live ones, one of a symbol at most.
AddsToNet(s, live, more) ==
  /\ OrdersOf(s, more) = {} => Net(s, live \cup more) = Net(s, live)
  /\ \A p : OrdersOf(s, more) = {p} /\ p \notin live /\ p.left \in Int
            => Net(s, live \cup more) = Net(s, live) + p.left

LEMMA NetMore ==
  ASSUME NEW live, NEW t, Lives(live, t), NEW more, NEW s
  PROVE  AddsToNet(s, live, more)
<1> DEFINE f == [o \in live |-> o.left]
           g == [o \in live \cup more |-> o.left]
           S == OrdersOf(s, live)
<1>1. S \subseteq live /\ IsFiniteSet(S) /\ OrdersOf(s, live \cup more) = S \cup OrdersOf(s, more)
  BY NetType DEF OrdersOf
<1>2. \A o \in S : f[o] = g[o] /\ f[o] \in Int
  BY <1>1 DEF Lives
<1>3. \A p \in more : g[p] = p.left
  OBVIOUS
<1>4. Net(s, live) = SumFunctionOnSet(f, S) /\ Net(s, live \cup more) = SumFunctionOnSet(g, S \cup OrdersOf(s, more))
  BY <1>1 DEF Net
<1> HIDE DEF f, g, S
<1>5. SumFunctionOnSet(f, S) = SumFunctionOnSet(g, S)
  BY <1>1, <1>2, SumSame
<1>6. OrdersOf(s, more) = {} => Net(s, live \cup more) = Net(s, live)
  BY <1>4, <1>5
<1>7. ASSUME NEW p, OrdersOf(s, more) = {p}, p \notin live, p.left \in Int
      PROVE  Net(s, live \cup more) = Net(s, live) + p.left
  <2>1. p \notin S /\ g[p] = p.left
    <3>1. p \in more BY <1>7 DEF OrdersOf
    <3> QED BY <1>1, <1>3, <1>7, <3>1
  <2>2. \A y \in S \cup {p} : g[y] \in Int
    BY <1>2, <1>7, <2>1
  <2>3. SumFunctionOnSet(g, S \cup {p}) = SumFunctionOnSet(g, S) + g[p]
    BY <1>1, <2>1, <2>2, SumAdd
  <2> QED BY <1>4, <1>5, <1>7, <2>1, <2>3
<1> QED BY <1>6, <1>7 DEF AddsToNet

-----------------------------------------------------------------------------
\* What an order may come to at a point: a part of it is filled and a part rests,
\* both in its direction.
MayCome(o, fate) ==
  /\ fate.done \in Int /\ fate.rest \in Int
  /\ o.left > 0 => fate.done \in 0 .. o.left /\ fate.rest \in 0 .. o.left
  /\ o.left < 0 => fate.done \in o.left .. 0 /\ fate.rest \in o.left .. 0

LEMMA FatesMayCome ==
  ASSUME NEW o, o.left \in Int, o.left # 0, NEW quoted, NEW caps,
         o.sym \in quoted => caps[o.sym] \in Nat, NEW paid, paid[o] \in Nat
  PROVE  MayCome(o, Fate(o, quoted, caps, paid))
<1> DEFINE a == Allowed(o, quoted, caps)
           d == Least(a, paid[o])
           f == Fate(o, quoted, caps, paid)
<1>1. Abs(o.left) \in Nat /\ (o.left > 0 => Abs(o.left) = o.left) /\ (o.left < 0 => Abs(o.left) = -o.left)
  BY DEF Abs
<1>2. a \in Nat /\ a <= Abs(o.left)
  BY <1>1 DEF Allowed, Least
<1> HIDE DEF a
<1>3. d \in Nat /\ d <= a
  BY <1>2 DEF Least
<1>4. /\ f.done = IF o.left > 0 THEN d ELSE -d
      /\ f.rest = IF a > 0 /\ paid[o] = 0 THEN 0
                  ELSE o.left - (IF o.left > 0 THEN a ELSE -a)
  BY DEF Fate, a
<1> HIDE DEF d, f
<1> QED BY <1>1, <1>2, <1>3, <1>4 DEF MayCome, f

LEMMA LivesStay ==
  ASSUME NEW t \in Nat, Lives(orders, t), NEW fates, \A o \in orders : MayCome(o, fates[o])
  PROVE  /\ Lives(Alive(fates), t)
         /\ \A s : OrdersOf(s, Alive(fates)) =
                     {[o EXCEPT !.left = fates[o].rest] : o \in {o \in OrdersOf(s, orders) : fates[o].rest # 0}}
<1> DEFINE k == [o \in orders |-> [o EXCEPT !.left = fates[o].rest]]
           K == {o \in orders : fates[o].rest # 0}
<1>1. \A o \in orders : /\ k[o] \in [sym : FrameworkSymbols, at : Nat, left : Int]
                        /\ k[o].sym = o.sym /\ k[o].at = o.at /\ k[o].left = fates[o].rest
  BY DEF Lives, MayCome
<1>2. Alive(fates) = {k[o] : o \in K}
  BY DEF Alive
<1>3. IsFiniteSet(K) /\ K \subseteq orders
  <2>1. K \subseteq orders /\ IsFiniteSet(orders) BY DEF Lives
  <2> QED BY <2>1, FS_Subset
<1>4. \A x \in orders, y \in orders : k[x].sym = k[y].sym /\ k[x].at = k[y].at => x = y
  BY <1>1 DEF Lives
<1>5. \A o \in K : k[o].left # 0
  BY <1>1
<1>6. \A o \in orders : o.at \in 1 .. t
  BY DEF Lives
<1>7. IsFiniteSet({k[o] : o \in K})
  <2>1. \A x \in K, y \in K : k[x] = k[y] => x = y
    BY <1>3, <1>4
  <2> HIDE DEF k, K
  <2> QED BY <1>3, <2>1, KeysAreAsMany
<1>8. \A s : OrdersOf(s, Alive(fates)) = {k[o] : o \in {o \in OrdersOf(s, orders) : fates[o].rest # 0}}
  BY <1>1, <1>2 DEF OrdersOf
<1>9. \A s : {k[o] : o \in {o \in OrdersOf(s, orders) : fates[o].rest # 0}} =
             {[o EXCEPT !.left = fates[o].rest] : o \in {o \in OrdersOf(s, orders) : fates[o].rest # 0}}
  BY DEF OrdersOf
<1>10. Lives(Alive(fates), t)
  <2> HIDE DEF k, K
  <2>1. \A x \in Alive(fates) : \E o \in orders : o \in K /\ x = k[o]
    BY <1>2, <1>3
  <2>2. IsFiniteSet(Alive(fates))
    BY <1>2, <1>7
  <2>3. ASSUME NEW x \in Alive(fates)
        PROVE  /\ x \in [sym : FrameworkSymbols, at : Nat, left : Int]
               /\ x.at \in 1 .. t /\ x.left # 0
    <3>1. PICK o \in orders : o \in K /\ x = k[o] BY <2>1
    <3> QED BY <1>1, <1>5, <1>6, <3>1
  <2>4. ASSUME NEW x \in Alive(fates), NEW y \in Alive(fates), x.sym = y.sym, x.at = y.at
        PROVE  x = y
    <3>1. PICK o \in orders : o \in K /\ x = k[o] BY <2>1
    <3>2. PICK p \in orders : p \in K /\ y = k[p] BY <2>1
    <3> QED BY <1>4, <2>4, <3>1, <3>2
  <2> QED BY <2>2, <2>3, <2>4 DEF Lives
<1> QED BY <1>8, <1>9, <1>10

DoneOf(s, fates) == SumFunctionOnSet([o \in orders |-> fates[o].done], OrdersOf(s, orders))

\* What is filled is no longer on its way: unless something was lost, the two
\* together stay.
LEMMA Conserved ==
  ASSUME NEW t \in Nat, Lives(orders, t), NEW fates, \A o \in orders : MayCome(o, fates[o]),
         \A o \in orders : fates[o].done + fates[o].rest = o.left, NEW s
  PROVE  DoneOf(s, fates) + Net(s, Alive(fates)) = Net(s, orders)
<1> DEFINE S == OrdersOf(s, orders)
           K == {o \in S : fates[o].rest # 0}
           k == [o \in orders |-> [o EXCEPT !.left = fates[o].rest]]
           done == [o \in orders |-> fates[o].done]
           rest == [o \in orders |-> fates[o].rest]
           was == [o \in orders |-> o.left]
           is == [o \in Alive(fates) |-> o.left]
<1>1. IsFiniteSet(S) /\ S \subseteq orders
  BY NetType DEF OrdersOf
<1>2. K \in SUBSET S /\ IsFiniteSet(K)
  <2>1. K \subseteq S OBVIOUS
  <2> HIDE DEF S, K
  <2> QED BY <1>1, <2>1, FS_Subset
<1>3. \A o \in S : /\ done[o] \in Int /\ rest[o] \in Int /\ was[o] \in Int
                   /\ was[o] = done[o] + rest[o]
  BY <1>1 DEF MayCome, Lives
<1>4. OrdersOf(s, Alive(fates)) = {k[o] : o \in K} /\ OrdersOf(s, Alive(fates)) \subseteq Alive(fates)
  <2>1. OrdersOf(s, Alive(fates)) = {[o EXCEPT !.left = fates[o].rest] : o \in K}
    BY LivesStay
  <2>2. {k[o] : o \in K} = {[o EXCEPT !.left = fates[o].rest] : o \in K}
    <3>1. \A o \in K : k[o] = [o EXCEPT !.left = fates[o].rest]
      BY <1>1
    <3> HIDE DEF k, K
    <3> QED BY <3>1
  <2>3. OrdersOf(s, Alive(fates)) \subseteq Alive(fates)
    BY DEF OrdersOf
  <2> HIDE DEF k, K
  <2> QED BY <2>1, <2>2, <2>3
<1>5. \A o \in K : is[k[o]] = rest[o] /\ rest[o] \in Int
  <2> SUFFICES ASSUME NEW o \in K PROVE is[k[o]] = rest[o] /\ rest[o] \in Int
    OBVIOUS
  <2>1. k[o] \in Alive(fates) BY <1>4
  <2>2. o \in orders /\ o \in [sym : FrameworkSymbols, at : Nat, left : Int]
    BY <1>1 DEF Lives
  <2>3. k[o].left = fates[o].rest BY <2>2
  <2> QED BY <1>3, <2>1, <2>2, <2>3
<1>6. \A x \in K, y \in K : k[x] = k[y] => x = y
  <2> SUFFICES ASSUME NEW x \in K, NEW y \in K, k[x] = k[y] PROVE x = y
    OBVIOUS
  <2>1. x \in orders /\ y \in orders BY <1>1
  <2>2. /\ x \in [sym : FrameworkSymbols, at : Nat, left : Int]
        /\ y \in [sym : FrameworkSymbols, at : Nat, left : Int]
    BY <2>1 DEF Lives
  <2>3. k[x].sym = x.sym /\ k[x].at = x.at /\ k[y].sym = y.sym /\ k[y].at = y.at
    BY <2>1, <2>2
  <2> QED BY <2>1, <2>3 DEF Lives
<1>7. SumFunctionOnSet(was, S) = SumFunctionOnSet(done, S) + SumFunctionOnSet(rest, S)
  <2> HIDE DEF S, K, k, done, rest, was, is
  <2> QED BY <1>1, <1>3, SumOfBoth
<1>8. SumFunctionOnSet(rest, S) = SumFunctionOnSet(rest, K)
  <2>1. \A o \in S : rest[o] \in Int BY <1>3
  <2>2. \A o \in S \ K : rest[o] = 0 BY <1>1
  <2> HIDE DEF S, K, k, done, rest, was, is
  <2> QED BY <1>1, <1>2, <2>1, <2>2, SumPart
<1>9. SumFunctionOnSet(is, {k[o] : o \in K}) = SumFunctionOnSet(rest, K)
  <2> HIDE DEF S, K, k, done, rest, was, is
  <2>1. \A x \in K : rest[x] \in Int /\ is[k[x]] = rest[x] BY <1>5
  <2> QED BY <1>2, <1>6, <2>1, SumRenamed
<1>10. Net(s, Alive(fates)) = SumFunctionOnSet(is, {k[o] : o \in K}) /\ Net(s, orders) = SumFunctionOnSet(was, S)
       /\ DoneOf(s, fates) = SumFunctionOnSet(done, S)
  <2>1. Net(s, Alive(fates)) = SumFunctionOnSet(is, OrdersOf(s, Alive(fates)))
    BY DEF Net
  <2>2. Net(s, orders) = SumFunctionOnSet(was, S) /\ DoneOf(s, fates) = SumFunctionOnSet(done, S)
    BY DEF Net, DoneOf
  <2> HIDE DEF is, k, K
  <2> QED BY <1>4, <2>1, <2>2
<1>11. SumFunctionOnSet(done, S) \in Int /\ SumFunctionOnSet(rest, S) \in Int
  <2> HIDE DEF S, done, rest, was
  <2> QED BY <1>1, <1>3, SumType
<1> HIDE DEF S, K, k, done, rest, was, is
<1> QED BY <1>7, <1>8, <1>9, <1>10, <1>11

\* Orders in one direction move a position towards what is on its way.
LEMMA Towards ==
  ASSUME NEW t \in Nat, Lives(orders, t), NEW fates, \A o \in orders : MayCome(o, fates[o]), NEW s
  PROVE  /\ DoneOf(s, fates) \in Int
         /\ (\A o \in OrdersOf(s, orders) : o.left > 0) => DoneOf(s, fates) \in 0 .. Net(s, orders)
         /\ (\A o \in OrdersOf(s, orders) : o.left < 0) => DoneOf(s, fates) \in Net(s, orders) .. 0
<1> DEFINE S == OrdersOf(s, orders)
           done == [o \in orders |-> fates[o].done]
           was == [o \in orders |-> o.left]
           none == [o \in orders |-> 0]
<1>1. IsFiniteSet(S) /\ S \subseteq orders
  BY NetType DEF OrdersOf
<1>2. \A o \in S : done[o] \in Int /\ was[o] \in Int /\ none[o] = 0 /\ MayCome(o, fates[o])
                   /\ done[o] = fates[o].done /\ was[o] = o.left
  BY <1>1 DEF MayCome, Lives
<1>3. DoneOf(s, fates) = SumFunctionOnSet(done, S) /\ Net(s, orders) = SumFunctionOnSet(was, S)
  BY DEF DoneOf, Net
<1> HIDE DEF S, done, was, none
<1>4. SumFunctionOnSet(done, S) \in Int /\ SumFunctionOnSet(was, S) \in Int
  BY <1>1, <1>2, SumType
<1>5. SumFunctionOnSet(none, S) = 0
  <2> DEFINE f == none
  <2>1. \A x \in S : none[x] \in Int /\ none[x] = 0 * none[x] BY <1>2
  <2>2. SumFunctionOnSet(none, S) = 0 * SumFunctionOnSet(none, S)
    BY <1>1, <2>1, SumScaled
  <2>3. SumFunctionOnSet(none, S) \in Int
    BY <1>1, <2>1, SumType
  <2> QED BY <2>2, <2>3
<1>6. ASSUME \A o \in S : o.left > 0 PROVE SumFunctionOnSet(done, S) \in 0 .. SumFunctionOnSet(was, S)
  <2>1. \A o \in S : done[o] <= was[o] /\ none[o] <= done[o] /\ none[o] \in Int
    BY <1>2, <1>6 DEF MayCome
  <2>2. SumFunctionOnSet(done, S) <= SumFunctionOnSet(was, S)
    BY <1>1, <1>2, <2>1, SumAtMost
  <2>3. SumFunctionOnSet(none, S) <= SumFunctionOnSet(done, S)
    BY <1>1, <1>2, <2>1, SumAtMost
  <2> QED BY <1>4, <1>5, <2>2, <2>3
<1>7. ASSUME \A o \in S : o.left < 0 PROVE SumFunctionOnSet(done, S) \in SumFunctionOnSet(was, S) .. 0
  <2>1. \A o \in S : was[o] <= done[o] /\ done[o] <= none[o] /\ none[o] \in Int
    BY <1>2, <1>7 DEF MayCome
  <2>2. SumFunctionOnSet(was, S) <= SumFunctionOnSet(done, S)
    BY <1>1, <1>2, <2>1, SumAtMost
  <2>3. SumFunctionOnSet(done, S) <= SumFunctionOnSet(none, S)
    BY <1>1, <1>2, <2>1, SumAtMost
  <2> QED BY <1>4, <1>5, <2>2, <2>3
<1> QED BY <1>3, <1>4, <1>6, <1>7 DEF S

\* Targets are asked of priced symbols only, have the sign of a view that is in
\* force, and are of all legs or of none, but for the legs that are left out.
TargetsAsk(T, views, priced, has, out) ==
  /\ DOMAIN T \subseteq priced
  /\ \A s \in FrameworkSymbols : has[s] # 0 => s \in DOMAIN T
  /\ \A s \in DOMAIN T : /\ T[s].qty \in Int
                         /\ T[s].qty # 0 => s \in DOMAIN views /\ views[s].dir * T[s].qty > 0
  /\ \A s, x \in DOMAIN views :
       /\ views[s].group # "" /\ views[x].group = views[s].group
       /\ s \in DOMAIN T /\ T[s].qty # 0 /\ views[x].dir # 0 /\ x \notin out
       => x \in DOMAIN T /\ T[x].qty # 0

\* A share of the equity buys a whole number, above zero unless it buys not one.
LEMMA ShareIs ==
  ASSUME NEW m \in Nat, NEW n \in Nat \ {0}
  PROVE  m \div n \in Nat /\ (m >= n => m \div n # 0)
<1>1. m \div n \in Nat /\ m < (m \div n + 1) * n
  BY Division
<1>2. ASSUME m \div n = 0 PROVE m < n
  <2>1. m < (0 + 1) * n BY <1>1, <1>2
  <2> QED BY <2>1
<1> QED BY <1>1, <1>2

LEMMA TargetsAreAsked ==
  ASSUME NEW views, NEW priced \in SUBSET FrameworkSymbols, NEW has, NEW losers,
         NEW buys \in [FrameworkSymbols -> Nat],
         DOMAIN views \subseteq FrameworkSymbols,
         \A s \in DOMAIN views : views[s].dir \in {-1, 0, 1},
         \A s \in FrameworkSymbols : has[s] # 0 => s \in priced
  PROVE  TargetsAsk(Targets(views, priced, has, losers, buys), views, priced, has,
                    losers \cup TooDear(views, priced, buys))
<1> DEFINE U == Usable(views, priced)
           C == Sharing(views, priced)
           n == Cardinality(C)
           share == [s \in C |-> TargetQty(buys, s, n)]
           T == Targets(views, priced, has, losers, buys)
           D == TooDear(views, priced, buys)
<1>1. U \subseteq DOMAIN views /\ U \subseteq priced /\ IsFiniteSet(C)
  <2>1. U \subseteq DOMAIN views /\ U \subseteq priced /\ U \subseteq FrameworkSymbols
    BY DEF Usable
  <2>2. C \subseteq FrameworkSymbols BY <2>1 DEF Sharing
  <2> HIDE DEF C, U
  <2> QED BY <2>1, <2>2, FrameworkAssumption, FS_Subset
<1>2. DOMAIN T = U \cup {s \in FrameworkSymbols : has[s] # 0}
  BY DEF Targets, Targeted
<1>3. \A s \in DOMAIN T : T[s].qty = IF s \in C \ losers THEN views[s].dir * share[s] ELSE 0
  BY <1>2 DEF Targets, Targeted
<1>4. C = {s \in U : views[s].dir # 0} /\ D = {s \in C : buys[s] < n}
  BY DEF Sharing, TooDear
<1>5. \A s \in C : share[s] \in Nat /\ (s \notin D => share[s] # 0)
  <2> SUFFICES ASSUME NEW s \in C PROVE share[s] \in Nat /\ (s \notin D => share[s] # 0)
    OBVIOUS
  <2>1. buys[s] \in Nat BY <1>1, <1>4
  <2>2. D = {x \in C : buys[x] < n} BY <1>4
  <2> HIDE DEF C, D
  <2>3. n \in Nat /\ n # 0 BY <1>1, FS_CardinalityType, FS_EmptySet
  <2> HIDE DEF n
  <2>4. buys[s] \div n \in Nat /\ (buys[s] >= n => buys[s] \div n # 0)
    BY <2>1, <2>3, ShareIs
  <2> QED BY <2>1, <2>2, <2>3, <2>4 DEF TargetQty
<1> HIDE DEF T, U, C, D, share
<1>6. ASSUME NEW s \in DOMAIN T
      PROVE  /\ T[s].qty \in Int
             /\ T[s].qty # 0 => /\ s \in U /\ s \in DOMAIN views
                                /\ views[s].dir * T[s].qty > 0
  <2>1. CASE s \in C \ losers
    <3>1. share[s] \in Nat BY <1>5, <2>1
    <3>2. T[s].qty = views[s].dir * share[s] BY <1>3, <2>1
    <3>3. s \in U /\ (views[s].dir = 1 \/ views[s].dir = -1) BY <1>1, <1>4, <2>1
    <3> QED BY <1>1, <3>1, <3>2, <3>3
  <2>2. CASE s \notin C \ losers
    <3>1. T[s].qty = 0 BY <1>3, <1>6, <2>2
    <3> QED BY <3>1
  <2> QED BY <2>1, <2>2
<1>7. ASSUME NEW s \in DOMAIN views, NEW x \in DOMAIN views,
             views[s].group # "", views[x].group = views[s].group,
             s \in DOMAIN T, T[s].qty # 0, views[x].dir # 0, x \notin losers \cup D
      PROVE  x \in DOMAIN T /\ T[x].qty # 0
  <2>1. s \in U BY <1>6, <1>7
  <2>2. \A y \in DOMAIN views : views[y].group = views[s].group => y \in priced
    BY <1>7, <2>1 DEF Usable, U
  <2>3. x \in U
    BY <1>7, <2>2 DEF Usable, U
  <2>4. x \in C /\ x \in DOMAIN T BY <1>2, <1>4, <1>7, <2>3
  <2>5. share[x] \in Nat /\ share[x] # 0 BY <1>5, <1>7, <2>4
  <2>6. T[x].qty = views[x].dir * share[x] BY <1>3, <1>7, <2>4
  <2>7. views[x].dir = 1 \/ views[x].dir = -1 BY <1>7
  <2> QED BY <2>4, <2>5, <2>6, <2>7
<1>8. DOMAIN T \subseteq priced
  BY <1>1, <1>2
<1>9. \A s \in FrameworkSymbols : has[s] # 0 => s \in DOMAIN T
  BY <1>2
<1>10. TargetsAsk(T, views, priced, has, losers \cup D)
  BY <1>6, <1>7, <1>8, <1>9 DEF TargetsAsk
<1> QED BY <1>10 DEF T, D

\* What the vwap model works on: new targets before old ones, but none that is reached.
WorkOn(works, T, has, live) ==
  /\ DOMAIN works \subseteq DOMAIN T \cup DOMAIN working
  /\ \A s \in DOMAIN works : works[s] = IF s \in DOMAIN T THEN T[s] ELSE working[s]
  /\ \A s \in DOMAIN T \ DOMAIN works :
       T[s].qty = has[s] /\ Effective(has, live)[s] = has[s]

LEMMA WorksGoOn ==
  ASSUME NEW T, NEW has, NEW live
  PROVE  WorkOn(Works(T, has, live), T, has, live)
<1> DEFINE all == [s \in DOMAIN T \cup DOMAIN working |-> IF s \in DOMAIN T THEN T[s] ELSE working[s]]
           reached == {s \in DOMAIN all : all[s].qty = has[s] /\ Effective(has, live)[s] = has[s]}
           W == Works(T, has, live)
<1>1. W = [s \in DOMAIN all \ reached |-> all[s]]
  BY DEF Works
<1>2. DOMAIN all = DOMAIN T \cup DOMAIN working
      /\ \A s \in DOMAIN all : all[s] = IF s \in DOMAIN T THEN T[s] ELSE working[s]
  OBVIOUS
<1>3. \A s \in reached : s \in DOMAIN all /\ all[s].qty = has[s] /\ Effective(has, live)[s] = has[s]
  OBVIOUS
<1> HIDE DEF all, reached, W
<1>4. DOMAIN W = DOMAIN all \ reached /\ \A s \in DOMAIN W : W[s] = all[s]
  BY <1>1
<1> QED BY <1>2, <1>3, <1>4 DEF WorkOn, W

\* A slice is a part of what is missing, and never nothing of something.
LEMMA SliceIsPart ==
  ASSUME NEW d \in Int
  PROVE  /\ Slice(d) \in Int /\ (d # 0 => Slice(d) # 0)
         /\ d >= 0 => Slice(d) \in 0 .. d
         /\ d <= 0 => Slice(d) \in d .. 0
BY FrameworkAssumption DEF Slice, Abs

\* What a plan has, when no leg of a target is without a price.
IsMissing(pl, T, at) ==
  /\ DOMAIN pl = {s \in DOMAIN T : T[s].qty # at[s]}
  /\ \A s \in DOMAIN pl : pl[s] = T[s].qty - at[s]

LEMMA PlanIsMissing ==
  ASSUME NEW T, NEW at, NEW priced, DOMAIN T \subseteq priced
  PROVE  IsMissing(Plan(T, at, priced), T, at)
<1> DEFINE blocked == {T[s].group : s \in DOMAIN T \ priced} \ {""}
           D == {s \in DOMAIN T \cap priced : T[s].qty # at[s] /\ T[s].group \notin blocked}
<1>1. Plan(T, at, priced) = [s \in D |-> T[s].qty - at[s]]
  BY DEF Plan
<1>2. blocked = {}
  OBVIOUS
<1>3. D = {s \in DOMAIN T : T[s].qty # at[s]}
  BY <1>2
<1> HIDE DEF D
<1> QED BY <1>1, <1>3 DEF IsMissing

\* The orders of one point: one of a symbol, for a part of what it misses, or, with
\* the immediate model, for all of it.
OrdersMore(more, T, works, has, live, priced, t) ==
  /\ IsFiniteSet(more)
  /\ \A p \in more : /\ p \in [sym : FrameworkSymbols, at : Nat, left : Int]
                     /\ p.at = t /\ p.left # 0 /\ p.sym \in priced
  /\ \A p \in more, q \in more : p.sym = q.sym => p = q
  /\ setup.exec = "immediate" =>
       /\ \A p \in more : p.sym \in DOMAIN T /\ p.left = T[p.sym].qty - has[p.sym]
       /\ \A s \in DOMAIN T : T[s].qty # has[s] => \E p \in more : p.sym = s
  /\ setup.exec = "vwap" =>
       \A p \in more : /\ p.sym \in DOMAIN works
                       /\ p.left = Slice(works[p.sym].qty - Effective(has, live)[p.sym])

LEMMA OrdersComeMore ==
  ASSUME NEW T, NEW works, NEW has, NEW live, NEW priced \in SUBSET FrameworkSymbols,
         NEW quoted, NEW t \in Nat, setup.exec \in {"immediate", "vwap"},
         DOMAIN T \subseteq priced, DOMAIN works \subseteq priced,
         \A s \in DOMAIN T : T[s].qty \in Int, \A s \in DOMAIN works : works[s].qty \in Int,
         \A s \in FrameworkSymbols : has[s] \in Int /\ Effective(has, live)[s] \in Int
  PROVE  OrdersMore(Ordered(T, works, has, live, priced, quoted, t), T, works, has, live, priced, t)
<1> DEFINE more == Ordered(T, works, has, live, priced, quoted, t)
<1>1. CASE setup.exec = "immediate"
  <2> DEFINE pl == Plan(T, has, priced)
             D == DOMAIN pl
             k == [s \in D |-> [sym |-> s, at |-> t, left |-> pl[s]]]
  <2>1. D = {s \in DOMAIN T : T[s].qty # has[s]} /\ \A s \in D : pl[s] = T[s].qty - has[s]
    <3>1. IsMissing(pl, T, has) BY PlanIsMissing
    <3> HIDE DEF pl
    <3> QED BY <3>1 DEF IsMissing
  <2>2. more = {[sym |-> s, at |-> t, left |-> pl[s]] : s \in D}
    BY <1>1 DEF Ordered
  <2>3. \A s \in D : s \in priced /\ s \in FrameworkSymbols /\ pl[s] \in Int /\ pl[s] # 0
    BY <2>1
  <2>4. IsFiniteSet(more)
    <3>1. IsFiniteSet(D)
      <4>1. D \subseteq FrameworkSymbols BY <2>3
      <4> HIDE DEF D
      <4> QED BY <4>1, FrameworkAssumption, FS_Subset
    <3>2. more = {k[s] : s \in D} /\ \A x \in D, y \in D : k[x] = k[y] => x = y
      BY <2>2
    <3> HIDE DEF k, D, more
    <3> QED BY <3>1, <3>2, KeysAreAsMany
  <2> HIDE DEF pl, D, k
  <2>5. \A p \in more : \E s \in D : p = [sym |-> s, at |-> t, left |-> pl[s]]
    BY <2>2
  <2>6. ASSUME NEW p \in more
        PROVE  /\ p \in [sym : FrameworkSymbols, at : Nat, left : Int]
               /\ p.at = t /\ p.left # 0 /\ p.sym \in priced
               /\ p.sym \in DOMAIN T /\ p.left = T[p.sym].qty - has[p.sym]
    <3>1. PICK s \in D : p = [sym |-> s, at |-> t, left |-> pl[s]] BY <2>5
    <3> QED BY <2>1, <2>3, <3>1
  <2>7. \A p \in more, q \in more : p.sym = q.sym => p = q
    BY <2>5
  <2>8. \A s \in DOMAIN T : T[s].qty # has[s] => \E p \in more : p.sym = s
    <3> SUFFICES ASSUME NEW s \in DOMAIN T, T[s].qty # has[s] PROVE \E p \in more : p.sym = s
      OBVIOUS
    <3>1. s \in D BY <2>1
    <3>2. [sym |-> s, at |-> t, left |-> pl[s]] \in more BY <2>2, <3>1
    <3> QED BY <3>2
  <2> HIDE DEF more
  <2> QED BY <1>1, <2>4, <2>6, <2>7, <2>8 DEF OrdersMore, more
<1>2. CASE setup.exec = "vwap"
  <2> DEFINE at == Effective(has, live)
             pl == Plan(works, at, priced)
             D == DOMAIN pl \cap quoted
             k == [s \in D |-> [sym |-> s, at |-> t, left |-> Slice(pl[s])]]
  <2>1. DOMAIN pl = {s \in DOMAIN works : works[s].qty # at[s]}
        /\ \A s \in DOMAIN pl : pl[s] = works[s].qty - at[s]
    <3>1. IsMissing(pl, works, at)
      <4> HIDE DEF at
      <4> QED BY PlanIsMissing
    <3> HIDE DEF pl, at
    <3> QED BY <3>1 DEF IsMissing
  <2>2. more = {[sym |-> s, at |-> t, left |-> Slice(pl[s])] : s \in D}
    BY <1>2 DEF Ordered
  <2>3. \A s \in D : /\ s \in priced /\ s \in FrameworkSymbols /\ s \in DOMAIN works
                     /\ pl[s] \in Int /\ pl[s] # 0
    BY <2>1
  <2>4. \A s \in D : Slice(pl[s]) \in Int /\ Slice(pl[s]) # 0
    BY <2>3, SliceIsPart
  <2>5. IsFiniteSet(more)
    <3>1. IsFiniteSet(D)
      <4>1. D \subseteq FrameworkSymbols BY <2>3
      <4> HIDE DEF D
      <4> QED BY <4>1, FrameworkAssumption, FS_Subset
    <3>2. more = {k[s] : s \in D} /\ \A x \in D, y \in D : k[x] = k[y] => x = y
      BY <2>2
    <3> HIDE DEF k, D, more
    <3> QED BY <3>1, <3>2, KeysAreAsMany
  <2>6. \A s \in D : pl[s] = works[s].qty - at[s]
    BY <2>1
  <2> HIDE DEF pl, D, k, at
  <2>7. \A p \in more : \E s \in D : p = [sym |-> s, at |-> t, left |-> Slice(pl[s])]
    BY <2>2
  <2>8. ASSUME NEW p \in more
        PROVE  /\ p \in [sym : FrameworkSymbols, at : Nat, left : Int]
               /\ p.at = t /\ p.left # 0 /\ p.sym \in priced /\ p.sym \in DOMAIN works
               /\ p.left = Slice(works[p.sym].qty - Effective(has, live)[p.sym])
    <3>1. PICK s \in D : p = [sym |-> s, at |-> t, left |-> Slice(pl[s])] BY <2>7
    <3>2. pl[s] = works[s].qty - Effective(has, live)[s] BY <2>6 DEF at
    <3> QED BY <2>3, <2>4, <3>1, <3>2
  <2>9. \A p \in more, q \in more : p.sym = q.sym => p = q
    BY <2>7
  <2> HIDE DEF more
  <2> QED BY <1>2, <2>5, <2>8, <2>9 DEF OrdersMore, more
<1> QED BY <1>1, <1>2

-----------------------------------------------------------------------------
(* A time point, taken apart *)

\* Views that are in force at time t.
ViewsHold(views, t) ==
  /\ DOMAIN views \subseteq FrameworkSymbols
  /\ \A s \in DOMAIN views : /\ views[s].dir \in {-1, 0, 1}
                             /\ views[s].until \in Int /\ views[s].until >= t

\* Nothing is held, ordered or worked on that never had a price.
KnownFirst ==
  \A s \in FrameworkSymbols : s \notin known =>
    pos[s] = 0 /\ s \notin DOMAIN working /\ OrdersOf(s, orders) = {}

TargetsType ==
  /\ FrameworkTypeOK /\ Lives(orders, clock) /\ ViewsHold(active, clock) /\ KnownFirst
  /\ \A s \in DOMAIN working : working[s].qty \in Int
  /\ low \in [FrameworkSymbols -> Int] /\ high \in [FrameworkSymbols -> Int]
  /\ setup.exec = "immediate" => DOMAIN working = {}

\* What every point does.
Passes(fates) ==
  /\ clock \in Nat /\ clock' = clock + 1 /\ clock' \in 0 .. MaxFrameworkPoints
  /\ setup' = setup /\ setup \in FrameworkModes /\ setup.exec \in {"immediate", "vwap"}
  /\ known \subseteq known' /\ known' \subseteq FrameworkSymbols
  /\ pos' = Filled(fates) /\ \A o \in orders : MayCome(o, fates[o])
  /\ ViewsHold(active', clock') /\ crossed' = BothWays(orders')

\* A point at which targets are asked for.
Asks(fates, T, more) ==
  /\ TargetsAsk(T, active', known', pos', cleared' \cup dear')
  /\ OrdersMore(more, T, working', pos', Alive(fates), known', clock')
  /\ orders' = Alive(fates) \cup more
  /\ IF setup.exec = "vwap" THEN WorkOn(working', T, pos', Alive(fates)) ELSE working' = working
  /\ low' = [s \in FrameworkSymbols |-> IF s \in DOMAIN T THEN Least(low[s], T[s].qty) ELSE low[s]]
  /\ high' = [s \in FrameworkSymbols |-> IF s \in DOMAIN T THEN Most(high[s], T[s].qty) ELSE high[s]]
  /\ broken' = broken \cup Partings(fates, T, Alive(fates))

\* A point at which they are not.
Idles(fates) ==
  /\ orders' = Alive(fates) /\ working' = working /\ low' = low /\ high' = high
  /\ cleared' = cleared /\ dear' = dear
  /\ DOMAIN active' = DOMAIN active /\ \A s \in DOMAIN active : active'[s] = active[s]
  /\ \E T : broken' = broken \cup Partings(fates, T, Alive(fates))

LEMMA ViewsAreRefreshed ==
  ASSUME NEW said \in Emissions, NEW t \in Nat, ViewsHold(active, clock)
  PROVE  /\ ViewsHold(Refreshed(said, t), t)
         /\ DOMAIN said = {} /\ DOMAIN Merged(said, t) = DOMAIN Refreshed(said, t) =>
              /\ DOMAIN Refreshed(said, t) = DOMAIN active
              /\ \A s \in DOMAIN active : Refreshed(said, t)[s] = active[s]
<1> DEFINE all == Merged(said, t)
           views == Refreshed(said, t)
<1>1. /\ DOMAIN said \subseteq FrameworkSymbols
      /\ \A s \in DOMAIN said : said[s].dir \in {-1, 0, 1} /\ said[s].life \in Nat
  BY FrameworkAssumption
<1>2. /\ DOMAIN active \subseteq FrameworkSymbols
      /\ \A s \in DOMAIN active : active[s].dir \in {-1, 0, 1} /\ active[s].until \in Int
  BY DEF ViewsHold
<1>3. DOMAIN all = DOMAIN said \cup DOMAIN active
  BY DEF Merged
<1>4. \A s \in DOMAIN said : all[s] = [dir |-> said[s].dir, group |-> said[s].group, until |-> t + said[s].life]
  BY DEF Merged
<1>5. \A s \in DOMAIN active \ DOMAIN said : all[s] = active[s]
  BY DEF Merged
<1>6. /\ DOMAIN views = {s \in DOMAIN all : ~ Expired(all[s], t)}
      /\ \A s \in DOMAIN views : views[s] = all[s]
  BY DEF Refreshed
<1> HIDE DEF all, views
<1>7. \A s \in DOMAIN all : all[s].dir \in {-1, 0, 1} /\ all[s].until \in Int
  <2>1. \A s \in DOMAIN said : all[s].dir \in {-1, 0, 1} /\ all[s].until \in Int
    <3> SUFFICES ASSUME NEW s \in DOMAIN said PROVE all[s].dir \in {-1, 0, 1} /\ all[s].until \in Int
      OBVIOUS
    <3> DEFINE new == [dir |-> said[s].dir, group |-> said[s].group, until |-> t + said[s].life]
    <3>0. all[s] = new BY <1>4
    <3>1. new.dir = said[s].dir /\ new.until = t + said[s].life OBVIOUS
    <3> HIDE DEF new
    <3>2. said[s].dir \in {-1, 0, 1} /\ said[s].life \in Nat BY <1>1
    <3> QED BY <3>0, <3>1, <3>2
  <2>2. \A s \in DOMAIN active \ DOMAIN said : all[s].dir \in {-1, 0, 1} /\ all[s].until \in Int
    BY <1>2, <1>5
  <2> QED BY <1>3, <2>1, <2>2
<1>8. ViewsHold(views, t)
  <2>1. \A s \in DOMAIN views : s \in DOMAIN all /\ ~(all[s].until < t)
    BY <1>6 DEF Expired
  <2> QED BY <1>1, <1>2, <1>3, <1>6, <1>7, <2>1 DEF ViewsHold
<1>9. DOMAIN said = {} /\ DOMAIN all = DOMAIN views =>
        DOMAIN views = DOMAIN active /\ \A s \in DOMAIN active : views[s] = active[s]
  BY <1>3, <1>5, <1>6
<1> QED BY <1>8, <1>9 DEF all, views

LEMMA FilledIs ==
  ASSUME NEW fates, NEW s \in FrameworkSymbols
  PROVE  Filled(fates)[s] = pos[s] + DoneOf(s, fates)
BY DEF Filled, DoneOf

LEMMA EffectiveIs ==
  ASSUME NEW has, NEW live, NEW s \in FrameworkSymbols
  PROVE  Effective(has, live)[s] = has[s] + Net(s, live)
BY DEF Effective, Net

\* What is held and on its way after the fills of a point.
Settles(fates) ==
  /\ Lives(Alive(fates), clock) /\ pos' \in [FrameworkSymbols -> Int]
  /\ \A s \in FrameworkSymbols :
       /\ Net(s, orders) \in Int /\ Net(s, Alive(fates)) \in Int
       /\ OrdersOf(s, orders) = {} => OrdersOf(s, Alive(fates)) = {} /\ pos'[s] = pos[s]
       /\ (\A o \in orders : fates[o].done + fates[o].rest = o.left) =>
            pos'[s] + Net(s, Alive(fates)) = pos[s] + Net(s, orders)
       /\ (\A o \in OrdersOf(s, orders) : o.left > 0) => pos'[s] \in pos[s] .. pos[s] + Net(s, orders)
       /\ (\A o \in OrdersOf(s, orders) : o.left < 0) => pos'[s] \in pos[s] + Net(s, orders) .. pos[s]

LEMMA PointFlows ==
  ASSUME TargetsType, NEW fates, clock \in Nat, pos' = Filled(fates),
         \A o \in orders : MayCome(o, fates[o])
  PROVE  Settles(fates)
<1>1. Lives(orders, clock) /\ pos \in [FrameworkSymbols -> Int]
  BY DEF TargetsType, FrameworkTypeOK
<1>2. Lives(Alive(fates), clock)
  BY <1>1, LivesStay
<1>3. \A s \in FrameworkSymbols : DoneOf(s, fates) \in Int
  BY <1>1, Towards
<1>4. pos' \in [FrameworkSymbols -> Int]
  <2>1. \A s \in FrameworkSymbols : pos'[s] \in Int
    BY <1>1, <1>3, FilledIs
  <2>2. pos' = [s \in FrameworkSymbols |-> pos'[s]]
    BY DEF Filled
  <2> QED BY <2>1, <2>2
<1>5. ASSUME NEW s \in FrameworkSymbols
      PROVE  /\ Net(s, orders) \in Int /\ Net(s, Alive(fates)) \in Int
             /\ OrdersOf(s, orders) = {} => OrdersOf(s, Alive(fates)) = {} /\ pos'[s] = pos[s]
             /\ (\A o \in orders : fates[o].done + fates[o].rest = o.left) =>
                  pos'[s] + Net(s, Alive(fates)) = pos[s] + Net(s, orders)
             /\ (\A o \in OrdersOf(s, orders) : o.left > 0) => pos'[s] \in pos[s] .. pos[s] + Net(s, orders)
             /\ (\A o \in OrdersOf(s, orders) : o.left < 0) => pos'[s] \in pos[s] + Net(s, orders) .. pos[s]
  <2>1. Net(s, orders) \in Int /\ Net(s, Alive(fates)) \in Int
    BY <1>1, <1>2, NetType
  <2>2. pos'[s] = pos[s] + DoneOf(s, fates) /\ pos[s] \in Int /\ DoneOf(s, fates) \in Int
    BY <1>1, <1>3, FilledIs
  <2>3. ASSUME OrdersOf(s, orders) = {}
        PROVE  OrdersOf(s, Alive(fates)) = {} /\ pos'[s] = pos[s]
    <3>1. OrdersOf(s, Alive(fates)) = {}
      <4>1. OrdersOf(s, Alive(fates)) =
              {[o EXCEPT !.left = fates[o].rest] : o \in {o \in OrdersOf(s, orders) : fates[o].rest # 0}}
        BY <1>1, LivesStay
      <4> QED BY <2>3, <4>1
    <3>2. DoneOf(s, fates) = 0
      BY <2>3, SumEmpty DEF DoneOf
    <3> QED BY <2>2, <3>1, <3>2
  <2>4. (\A o \in orders : fates[o].done + fates[o].rest = o.left) =>
          DoneOf(s, fates) + Net(s, Alive(fates)) = Net(s, orders)
    BY <1>1, Conserved
  <2>5. /\ (\A o \in OrdersOf(s, orders) : o.left > 0) => DoneOf(s, fates) \in 0 .. Net(s, orders)
        /\ (\A o \in OrdersOf(s, orders) : o.left < 0) => DoneOf(s, fates) \in Net(s, orders) .. 0
    BY <1>1, Towards
  <2> QED BY <2>1, <2>2, <2>3, <2>4, <2>5
<1> QED BY <1>2, <1>4, <1>5 DEF Settles

LEMMA PointIs ==
  ASSUME TargetsType, NEW quoted \in BarSets, NEW said \in Emissions, clock < MaxFrameworkPoints,
         NEW fates, \A o \in orders : MayCome(o, fates[o]), NEW losers,
         NEW buys \in [FrameworkSymbols -> Nat],
         FrameworkPoint(quoted, said, fates, losers, buys)
  PROVE  /\ Passes(fates)
         /\ \/ \E T, more : Asks(fates, T, more)
            \/ Idles(fates)
<1> DEFINE t == clock + 1
           priced == known \cup quoted
           has == Filled(fates)
           live == Alive(fates)
           views == Refreshed(said, t)
           asked == DOMAIN said # {} \/ DOMAIN Merged(said, t) # DOMAIN views \/ DueAt(t)
           T == Targets(views, priced, has, losers, buys)
           works == Works(T, has, live)
           more == Ordered(T, works, has, live, priced, quoted, t)
<1>1. /\ clock \in Nat /\ t \in Nat /\ t \in 0 .. MaxFrameworkPoints
      /\ priced \in SUBSET FrameworkSymbols /\ known \subseteq priced
      /\ setup \in FrameworkModes /\ setup.exec \in {"immediate", "vwap"}
      /\ Lives(orders, clock) /\ ViewsHold(active, clock) /\ KnownFirst
      /\ \A s \in DOMAIN working : working[s].qty \in Int
      /\ DOMAIN working \subseteq FrameworkSymbols
      /\ setup.exec = "immediate" => DOMAIN working = {}
  BY FrameworkAssumption DEF TargetsType, FrameworkTypeOK
<1>2. /\ clock' = t /\ known' = priced /\ pos' = has /\ active' = views
      /\ crossed' = BothWays(orders') /\ setup' = setup
      /\ asked => /\ orders' = live \cup more
                  /\ working' = IF setup.exec = "vwap" THEN works ELSE working
                  /\ low' = [s \in FrameworkSymbols |->
                                IF s \in DOMAIN T THEN Least(low[s], T[s].qty) ELSE low[s]]
                  /\ high' = [s \in FrameworkSymbols |->
                                 IF s \in DOMAIN T THEN Most(high[s], T[s].qty) ELSE high[s]]
                  /\ cleared' = losers /\ dear' = TooDear(views, priced, buys)
                  /\ broken' = broken \cup Partings(fates, T, live)
      /\ ~ asked => /\ orders' = live /\ working' = working /\ low' = low /\ high' = high
                    /\ cleared' = cleared /\ dear' = dear
                    /\ broken' = broken \cup Partings(fates, [s \in FrameworkSymbols |-> 0], live)
  BY DEF FrameworkPoint
<1>3. /\ ViewsHold(views, t)
      /\ ~ asked => DOMAIN views = DOMAIN active /\ \A s \in DOMAIN active : views[s] = active[s]
  <2>1. ViewsHold(views, t) BY <1>1, ViewsAreRefreshed
  <2>2. DOMAIN said = {} /\ DOMAIN Merged(said, t) = DOMAIN views =>
          DOMAIN views = DOMAIN active /\ \A s \in DOMAIN active : views[s] = active[s]
    BY <1>1, ViewsAreRefreshed
  <2> QED BY <2>1, <2>2
<1>4. Passes(fates)
  <2> HIDE DEF priced, has, live, views, asked, T, works, more
  <2> QED BY <1>1, <1>2, <1>3 DEF Passes, has
<1>5. Settles(fates)
  BY <1>1, <1>2, PointFlows
<1>6. CASE ~ asked
  <2> HIDE DEF priced, has, views, asked, T, works, more, t
  <2> QED BY <1>2, <1>3, <1>4, <1>6 DEF Idles
<1>7. CASE asked
  <2>1. \A s \in FrameworkSymbols : has[s] # 0 => s \in priced
    <3> SUFFICES ASSUME NEW s \in FrameworkSymbols, s \notin priced PROVE has[s] = 0
      OBVIOUS
    <3>1. pos[s] = 0 /\ OrdersOf(s, orders) = {} BY <1>1 DEF KnownFirst
    <3>2. pos'[s] = pos[s] BY <1>5, <3>1 DEF Settles
    <3> HIDE DEF has
    <3> QED BY <1>2, <3>1, <3>2
  <2>2. TargetsAsk(T, views, priced, has, losers \cup TooDear(views, priced, buys))
    <3>1. DOMAIN views \subseteq FrameworkSymbols /\ \A s \in DOMAIN views : views[s].dir \in {-1, 0, 1}
      BY <1>3 DEF ViewsHold
    <3> HIDE DEF views, has, priced, t
    <3> QED BY <1>1, <2>1, <3>1, TargetsAreAsked
  <2>3. WorkOn(works, T, has, live)
    BY WorksGoOn
  <2>4. /\ DOMAIN T \subseteq priced /\ DOMAIN works \subseteq priced
        /\ \A s \in DOMAIN T : T[s].qty \in Int
        /\ \A s \in DOMAIN works : works[s].qty \in Int
    <3>1. DOMAIN T \subseteq priced /\ \A s \in DOMAIN T : T[s].qty \in Int
      BY <2>2 DEF TargetsAsk
    <3>2. DOMAIN working \subseteq priced
      <4> HIDE DEF priced
      <4> QED BY <1>1 DEF KnownFirst
    <3> HIDE DEF T, works, has, live, priced, views, t
    <3>3. DOMAIN works \subseteq priced
      BY <2>3, <3>1, <3>2 DEF WorkOn
    <3>4. \A s \in DOMAIN works : works[s].qty \in Int
      BY <1>1, <2>3, <3>1 DEF WorkOn
    <3> QED BY <3>1, <3>3, <3>4
  <2>5. \A s \in FrameworkSymbols : has[s] \in Int /\ Effective(has, live)[s] \in Int
    <3> SUFFICES ASSUME NEW s \in FrameworkSymbols PROVE has[s] \in Int /\ Effective(has, live)[s] \in Int
      OBVIOUS
    <3>1. has[s] \in Int /\ Net(s, live) \in Int BY <1>2, <1>5 DEF Settles
    <3>2. Effective(has, live)[s] = has[s] + Net(s, live) BY EffectiveIs
    <3> HIDE DEF has, live
    <3> QED BY <3>1, <3>2
  <2>6. OrdersMore(more, T, works, has, live, priced, t)
    <3> HIDE DEF T, works, has, live, priced, views, t
    <3>1. OrdersMore(Ordered(T, works, has, live, priced, quoted, t), T, works, has, live, priced, t)
      BY <1>1, <2>4, <2>5, OrdersComeMore
    <3> QED BY <3>1
  <2> HIDE DEF T, works, has, live, priced, views, t, asked, more
  <2>7. OrdersMore(more, T, working', has, live, priced, t)
    <3>1. CASE setup.exec = "vwap"
      <4>1. working' = works BY <1>2, <1>7, <3>1
      <4> QED BY <2>6, <4>1
    <3>2. CASE setup.exec = "immediate"
      BY <2>6, <3>2 DEF OrdersMore
    <3> QED BY <1>1, <3>1, <3>2
  <2>8. Asks(fates, T, more)
    <3>1. TargetsAsk(T, active', known', pos', cleared' \cup dear') BY <1>2, <1>7, <2>2
    <3>2. OrdersMore(more, T, working', pos', live, known', clock') BY <1>2, <2>7
    <3>3. IF setup.exec = "vwap" THEN WorkOn(working', T, pos', live) ELSE working' = working
      BY <1>2, <1>7, <2>3
    <3> QED BY <1>2, <1>7, <3>1, <3>2, <3>3 DEF Asks, live
  <2> QED BY <1>4, <2>8
<1> QED BY <1>4, <1>6, <1>7

LEMMA NextPasses ==
  ASSUME TargetsType, FrameworkNext
  PROVE  \E fates :
           /\ Passes(fates)
           /\ (\E T, more : Asks(fates, T, more)) \/ Idles(fates)
<1>1. PICK quoted \in BarSets, said \in Emissions :
        /\ clock < MaxFrameworkPoints
        /\ \E caps \in [quoted -> setup.caps], paid \in [orders -> setup.cash],
              losers \in IF setup.risk THEN SUBSET FrameworkSymbols ELSE {{}},
              buys \in setup.worth :
             /\ MayPay(paid)
             /\ FrameworkPoint(quoted, said, [o \in orders |-> Fate(o, quoted, caps, paid)],
                               losers, buys)
  BY DEF FrameworkNext
<1>2. PICK caps \in [quoted -> setup.caps], paid \in [orders -> setup.cash],
           losers \in IF setup.risk THEN SUBSET FrameworkSymbols ELSE {{}},
           buys \in setup.worth :
        FrameworkPoint(quoted, said, [o \in orders |-> Fate(o, quoted, caps, paid)], losers, buys)
  BY <1>1
<1> DEFINE fates == [o \in orders |-> Fate(o, quoted, caps, paid)]
<1>3. /\ setup.caps \subseteq Nat /\ setup.cash \subseteq Nat /\ Lives(orders, clock)
      /\ buys \in [FrameworkSymbols -> Nat]
  BY FrameworkAssumption DEF TargetsType, FrameworkTypeOK
<1>4. \A o \in orders : MayCome(o, fates[o])
  <2> SUFFICES ASSUME NEW o \in orders PROVE MayCome(o, fates[o])
    OBVIOUS
  <2>1. o.left \in Int /\ o.left # 0 BY <1>3 DEF Lives
  <2>2. (o.sym \in quoted => caps[o.sym] \in Nat) /\ paid[o] \in Nat BY <1>3
  <2>3. MayCome(o, Fate(o, quoted, caps, paid)) BY <2>1, <2>2, FatesMayCome
  <2> QED BY <2>3
<1> HIDE DEF fates
<1>5. FrameworkPoint(quoted, said, fates, losers, buys) BY <1>2 DEF fates
<1>6. Passes(fates) /\ ((\E T, more : Asks(fates, T, more)) \/ Idles(fates))
  BY <1>1, <1>3, <1>4, <1>5, PointIs
<1> QED BY <1>6

\* What is on its way after the orders of a point.
Grows(fates, more) ==
  /\ Lives(orders', clock')
  /\ \A s \in FrameworkSymbols :
       \/ /\ \A p \in more : p.sym # s
          /\ Net(s, orders') = Net(s, Alive(fates))
       \/ \E p \in more : p.sym = s /\ p.left \in Int /\ Net(s, orders') = Net(s, Alive(fates)) + p.left

LEMMA PointGrows ==
  ASSUME NEW fates, NEW T, NEW more,
         Passes(fates), Settles(fates), Asks(fates, T, more)
  PROVE  Grows(fates, more)
<1> DEFINE live == Alive(fates)
<1>1. /\ Lives(live, clock) /\ clock \in Nat /\ clock' = clock + 1
      /\ known' \subseteq FrameworkSymbols /\ orders' = live \cup more
  BY DEF Settles, Passes, Asks
<1>2. /\ IsFiniteSet(more)
      /\ \A p \in more : /\ p \in [sym : FrameworkSymbols, at : Nat, left : Int]
                         /\ p.at = clock' /\ p.left # 0
      /\ \A p \in more, q \in more : p.sym = q.sym => p = q
  BY DEF Asks, OrdersMore
<1> HIDE DEF live
<1>3. \A o \in live : /\ o \in [sym : FrameworkSymbols, at : Nat, left : Int]
                      /\ o.at \in 1 .. clock /\ o.left # 0
  BY <1>1 DEF Lives
<1>4. \A o \in live, p \in more : o.at # p.at
  BY <1>1, <1>2, <1>3
<1>5. Lives(orders', clock')
  <2>1. IsFiniteSet(orders') BY <1>1, <1>2, FS_Union DEF Lives
  <2>2. ASSUME NEW o \in orders'
        PROVE  o \in [sym : FrameworkSymbols, at : Nat, left : Int] /\ o.at \in 1 .. clock' /\ o.left # 0
    <3>1. CASE o \in live BY <1>1, <1>3, <3>1
    <3>2. CASE o \in more BY <1>1, <1>2, <3>2
    <3> QED BY <1>1, <3>1, <3>2
  <2>3. ASSUME NEW o \in orders', NEW p \in orders', o.sym = p.sym, o.at = p.at PROVE o = p
    <3>1. CASE o \in live /\ p \in live BY <1>1, <2>3, <3>1 DEF Lives
    <3>2. CASE o \in more /\ p \in more BY <1>2, <2>3, <3>2
    <3>3. CASE o \in live /\ p \in more BY <1>4, <2>3, <3>3
    <3>4. CASE o \in more /\ p \in live BY <1>4, <2>3, <3>4
    <3> QED BY <1>1, <3>1, <3>2, <3>3, <3>4
  <2> QED BY <2>1, <2>2, <2>3 DEF Lives
<1>6. ASSUME NEW s \in FrameworkSymbols
      PROVE  \/ /\ \A p \in more : p.sym # s
                /\ Net(s, orders') = Net(s, live)
             \/ \E p \in more : p.sym = s /\ p.left \in Int /\ Net(s, orders') = Net(s, live) + p.left
  <2>1. /\ OrdersOf(s, more) = {} => Net(s, live \cup more) = Net(s, live)
        /\ \A p : OrdersOf(s, more) = {p} /\ p \notin live /\ p.left \in Int
                  => Net(s, live \cup more) = Net(s, live) + p.left
    <3>1. AddsToNet(s, live, more) BY <1>1, NetMore
    <3> QED BY <3>1 DEF AddsToNet
  <2>2. CASE \A p \in more : p.sym # s
    <3>1. OrdersOf(s, more) = {} BY <2>2 DEF OrdersOf
    <3> QED BY <1>1, <2>1, <2>2, <3>1
  <2>3. ASSUME NEW p \in more, p.sym = s
        PROVE  p.left \in Int /\ Net(s, orders') = Net(s, live) + p.left
    <3>1. OrdersOf(s, more) = {p} BY <1>2, <2>3 DEF OrdersOf
    <3>2. p.left \in Int /\ p \notin live BY <1>2, <1>4
    <3> QED BY <1>1, <2>1, <3>1, <3>2
  <2> QED BY <2>2, <2>3
<1> QED BY <1>5, <1>6 DEF Grows, live

\* What is on its way when nothing is added.
LEMMA PointIdles ==
  ASSUME NEW fates, Passes(fates), Settles(fates), Idles(fates)
  PROVE  Lives(orders', clock') /\ \A s \in FrameworkSymbols : Net(s, orders') = Net(s, Alive(fates))
<1>1. Lives(Alive(fates), clock) /\ clock \in Nat /\ clock' = clock + 1 /\ orders' = Alive(fates)
  BY DEF Settles, Passes, Idles
<1>2. \A t \in 1 .. clock : t \in 1 .. clock'
  BY <1>1
<1>3. Lives(orders', clock')
  BY <1>1, <1>2 DEF Lives
<1> QED BY <1>1, <1>3

\* What a point leaves out of what may come in between.
LEMMA NothingParts ==
  ASSUME NEW fates, NEW T,
         broken' = broken \cup Partings(fates, T, Alive(fates))
  PROVE  /\ broken \subseteq broken'
         /\ "rejected" \notin broken' => \A o \in orders : fates[o].done + fates[o].rest = o.left
         /\ "late" \notin broken' => \A o \in orders : fates[o].done = o.left
         /\ "forgotten" \notin broken' =>
              \A s \in FrameworkSymbols \ DOMAIN T :
                s \notin DOMAIN working /\ OrdersOf(s, Alive(fates)) = {}
<1> DEFINE late == \E o \in orders : fates[o].done # o.left
           rejected == \E o \in orders : fates[o].done + fates[o].rest # o.left
           forgotten == \E s \in FrameworkSymbols \ DOMAIN T :
                          s \in DOMAIN working \/ OrdersOf(s, Alive(fates)) # {}
<1>1. broken' = broken \cup ((IF late THEN {"late"} ELSE {})
                             \cup (IF rejected THEN {"rejected"} ELSE {})
                             \cup (IF forgotten THEN {"forgotten"} ELSE {}))
  BY DEF Partings
<1>2. /\ ~ rejected => \A o \in orders : fates[o].done + fates[o].rest = o.left
      /\ ~ late => \A o \in orders : fates[o].done = o.left
      /\ ~ forgotten => \A s \in FrameworkSymbols \ DOMAIN T :
                          s \notin DOMAIN working /\ OrdersOf(s, Alive(fates)) = {}
  OBVIOUS
<1> HIDE DEF late, rejected, forgotten
<1>3. /\ broken \subseteq broken'
      /\ rejected => "rejected" \in broken'
      /\ late => "late" \in broken'
      /\ forgotten => "forgotten" \in broken'
  BY <1>1
<1> QED BY <1>2, <1>3

-----------------------------------------------------------------------------
(* What a symbol is headed for *)

\* The target that is worked on, or what is held and on its way.
Goal(s) == IF s \in DOMAIN working THEN working[s].qty ELSE pos[s] + Net(s, orders)

LEMMA GoalsAreTargets ==
  ASSUME TargetsType, NEW fates, NEW T, NEW more,
         Passes(fates), Settles(fates), Asks(fates, T, more), Undisturbed', NEW s \in FrameworkSymbols
  PROVE  Goal(s)' = IF s \in DOMAIN T THEN T[s].qty ELSE 0
<1> DEFINE live == Alive(fates)
<1>1. /\ "rejected" \notin broken' /\ "forgotten" \notin broken'
      /\ setup.exec = "immediate" => "late" \notin broken'
  BY DEF Undisturbed, Passes
<1>2. broken' = broken \cup Partings(fates, T, live)
  BY DEF Asks
<1>3. /\ \A o \in orders : fates[o].done + fates[o].rest = o.left
      /\ setup.exec = "immediate" => \A o \in orders : fates[o].done = o.left
      /\ \A x \in FrameworkSymbols \ DOMAIN T : x \notin DOMAIN working /\ OrdersOf(x, live) = {}
  BY <1>1, <1>2, NothingParts
<1>4. Grows(fates, more)
  BY PointGrows
<1>5. /\ pos'[s] \in Int /\ Net(s, live) \in Int
      /\ \/ (\A p \in more : p.sym # s) /\ Net(s, orders') = Net(s, live)
         \/ \E p \in more : p.sym = s /\ p.left \in Int /\ Net(s, orders') = Net(s, live) + p.left
  BY <1>4 DEF Settles, Grows
<1>6. /\ s \notin DOMAIN T => pos'[s] = 0
      /\ s \in DOMAIN T => T[s].qty \in Int
  BY DEF Asks, TargetsAsk
<1>7. Goal(s)' = IF s \in DOMAIN working' THEN working'[s].qty ELSE pos'[s] + Net(s, orders')
  BY DEF Goal
<1>8. s \notin DOMAIN T => Net(s, live) = 0
  BY <1>3, NetNone
<1> HIDE DEF live
<1>9. CASE setup.exec = "vwap"
  <2>1. WorkOn(working', T, pos', live) BY <1>9 DEF Asks, live
  <2>2. \A p \in more : p.sym \in DOMAIN working'
    BY <1>9 DEF Asks, OrdersMore
  <2>3. /\ s \in DOMAIN working' => s \in DOMAIN T \cup DOMAIN working
        /\ s \in DOMAIN working' /\ s \in DOMAIN T => working'[s] = T[s]
        /\ s \in DOMAIN T \ DOMAIN working' =>
             T[s].qty = pos'[s] /\ Effective(pos', live)[s] = pos'[s]
    BY <2>1 DEF WorkOn
  <2>4. Effective(pos', live)[s] = pos'[s] + Net(s, live)
    BY EffectiveIs
  <2>5. CASE s \in DOMAIN working'
    <3>1. s \in DOMAIN T BY <1>3, <2>3, <2>5
    <3> QED BY <1>7, <2>3, <2>5, <3>1
  <2>6. CASE s \notin DOMAIN working'
    <3>1. Net(s, orders') = Net(s, live) BY <1>5, <2>2, <2>6
    <3> QED BY <1>5, <1>6, <1>7, <1>8, <2>3, <2>4, <2>6, <3>1
  <2> QED BY <2>5, <2>6
<1>10. CASE setup.exec = "immediate"
  <2>1. s \notin DOMAIN working'
    BY <1>10 DEF Asks, TargetsType
  <2>2. Net(s, live) = 0
    <3>1. \A o \in orders : fates[o].rest = 0
      <4> SUFFICES ASSUME NEW o \in orders PROVE fates[o].rest = 0
        OBVIOUS
      <4>1. MayCome(o, fates[o]) /\ o.left \in Int BY DEF Passes, TargetsType, Lives
      <4>2. fates[o].done = o.left /\ fates[o].done + fates[o].rest = o.left BY <1>3, <1>10
      <4> QED BY <4>1, <4>2 DEF MayCome
    <3>2. live = {} BY <3>1 DEF Alive, live
    <3>3. OrdersOf(s, live) = {} BY <3>2 DEF OrdersOf
    <3> QED BY <3>3, NetNone
  <2>3. /\ \A p \in more : p.sym \in DOMAIN T /\ p.left = T[p.sym].qty - pos'[p.sym]
        /\ \A x \in DOMAIN T : T[x].qty # pos'[x] => \E p \in more : p.sym = x
    BY <1>10 DEF Asks, OrdersMore
  <2>4. Goal(s)' = pos'[s] + Net(s, orders') BY <1>7, <2>1
  <2>5. CASE \A p \in more : p.sym # s
    <3>1. Net(s, orders') = 0 BY <1>5, <2>2, <2>5
    <3>2. s \in DOMAIN T => T[s].qty = pos'[s] BY <2>3, <2>5
    <3> QED BY <1>5, <1>6, <2>4, <3>1, <3>2
  <2>6. CASE \E p \in more : p.sym = s
    <3>1. PICK p \in more : p.sym = s /\ p.left \in Int /\ Net(s, orders') = Net(s, live) + p.left
      BY <1>5, <2>6
    <3>2. s \in DOMAIN T /\ p.left = T[s].qty - pos'[s] BY <2>3, <3>1
    <3> QED BY <1>5, <1>6, <2>2, <2>4, <3>1, <3>2
  <2> QED BY <2>5, <2>6
<1> QED BY <1>9, <1>10 DEF Passes

LEMMA GoalsStay ==
  ASSUME NEW fates, Passes(fates), Settles(fates), Idles(fates), "rejected" \notin broken',
         NEW s \in FrameworkSymbols
  PROVE  Goal(s)' = Goal(s)
<1>1. PICK T : broken' = broken \cup Partings(fates, T, Alive(fates))
  BY DEF Idles
<1>2. \A o \in orders : fates[o].done + fates[o].rest = o.left
  BY <1>1, NothingParts
<1>3. pos'[s] + Net(s, Alive(fates)) = pos[s] + Net(s, orders)
  BY <1>2 DEF Settles
<1>4. Net(s, orders') = Net(s, Alive(fates))
  BY PointIdles
<1>5. working' = working
  BY DEF Idles
<1> QED BY <1>3, <1>4, <1>5 DEF Goal

-----------------------------------------------------------------------------
(* The invariant *)

\* With the vwap model the targets that are worked on, and what is held and on
\* its way, lie within the targets that were given.
Within ==
  /\ \A s \in FrameworkSymbols : low[s] <= 0 /\ 0 <= high[s]
  /\ setup.exec = "vwap" =>
       /\ \A s \in DOMAIN working : working[s].qty \in low[s] .. high[s]
       /\ "rejected" \notin broken =>
            \A s \in FrameworkSymbols :
              /\ pos[s] + Net(s, orders) \in low[s] .. high[s]
              /\ s \notin crossed => pos[s] \in low[s] .. high[s]

\* Live orders of a symbol that is not crossed go one way.
OneWay ==
  \A s \in FrameworkSymbols \ crossed :
    \/ \A o \in OrdersOf(s, orders) : o.left > 0
    \/ \A o \in OrdersOf(s, orders) : o.left < 0

\* What a symbol is headed for is what a view in force asks for, ...
GoalsAreViews ==
  Undisturbed => \A s \in FrameworkSymbols :
    Goal(s) # 0 => s \in DOMAIN active /\ active[s].dir * Goal(s) > 0

\* ... and the legs of a pair that the last targets did not leave out are headed for
\* something together.
LegsAgree ==
  Undisturbed =>
    \A s, x \in DOMAIN active :
      /\ active[s].group # "" /\ active[x].group = active[s].group
      /\ Goal(s) # 0 /\ active[x].dir # 0 /\ x \notin cleared \cup dear
      => Goal(x) # 0

FrameworkInv == TargetsType /\ Within /\ OneWay /\ GoalsAreViews /\ LegsAgree

LEMMA TargetsTypeStarts == ASSUME FrameworkInit PROVE FrameworkInv
<1>1. /\ Zero \in [FrameworkSymbols -> Int] /\ \A s \in FrameworkSymbols : Zero[s] = 0
  BY DEF Zero
<1>2. /\ orders = {} /\ clock = 0 /\ known = {} /\ pos = Zero /\ low = Zero /\ high = Zero
      /\ setup \in FrameworkModes /\ crossed = {}
  BY DEF FrameworkInit
<1>3. DOMAIN active = {} /\ DOMAIN working = {}
  BY DEF FrameworkInit
<1>4. \A s : OrdersOf(s, orders) = {} /\ Net(s, orders) = 0
  <2>1. \A s : OrdersOf(s, orders) = {} BY <1>2 DEF OrdersOf
  <2> QED BY <2>1, NetNone
<1> HIDE DEF Zero
<1>5. FrameworkTypeOK
  BY <1>1, <1>2, <1>3, FrameworkAssumption DEF FrameworkTypeOK
<1>6. Lives(orders, clock)
  BY <1>2, FS_EmptySet DEF Lives
<1>7. TargetsType
  BY <1>1, <1>2, <1>3, <1>4, <1>5, <1>6 DEF TargetsType, ViewsHold, KnownFirst
<1>8. Within
  BY <1>1, <1>2, <1>3, <1>4 DEF Within
<1>9. OneWay
  BY <1>4 DEF OneWay
<1>10. \A s \in FrameworkSymbols : Goal(s) = 0
  BY <1>1, <1>2, <1>3, <1>4 DEF Goal
<1>11. GoalsAreViews /\ LegsAgree
  BY <1>3, <1>10 DEF GoalsAreViews, LegsAgree
<1> QED BY <1>7, <1>8, <1>9, <1>11 DEF FrameworkInv

\* The extremes of the targets only move apart, and take in the new ones.
Widens(T) ==
  /\ low' \in [FrameworkSymbols -> Int] /\ high' \in [FrameworkSymbols -> Int]
  /\ \A s \in FrameworkSymbols :
       /\ low'[s] <= low[s] /\ high[s] <= high'[s]
       /\ s \in DOMAIN T => T[s].qty \in low'[s] .. high'[s]

LEMMA AskedWidens ==
  ASSUME TargetsType, NEW fates, NEW T, NEW more, Asks(fates, T, more)
  PROVE  Widens(T)
<1>1. /\ low' = [s \in FrameworkSymbols |-> IF s \in DOMAIN T THEN Least(low[s], T[s].qty) ELSE low[s]]
      /\ high' = [s \in FrameworkSymbols |-> IF s \in DOMAIN T THEN Most(high[s], T[s].qty) ELSE high[s]]
      /\ \A s \in DOMAIN T : T[s].qty \in Int
      /\ low \in [FrameworkSymbols -> Int] /\ high \in [FrameworkSymbols -> Int]
  BY DEF Asks, TargetsAsk, TargetsType
<1>2. ASSUME NEW s \in FrameworkSymbols
      PROVE  /\ low'[s] \in Int /\ high'[s] \in Int
             /\ low'[s] <= low[s] /\ high[s] <= high'[s]
             /\ s \in DOMAIN T => T[s].qty \in low'[s] .. high'[s]
  <2>1. low[s] \in Int /\ high[s] \in Int BY <1>1
  <2>2. CASE s \in DOMAIN T
    <3>1. T[s].qty \in Int /\ low'[s] = Least(low[s], T[s].qty) /\ high'[s] = Most(high[s], T[s].qty)
      BY <1>1, <2>2
    <3> QED BY <2>1, <2>2, <3>1 DEF Least, Most
  <2>3. CASE s \notin DOMAIN T
    <3>1. low'[s] = low[s] /\ high'[s] = high[s] BY <1>1, <2>3
    <3> QED BY <2>1, <2>3, <3>1
  <2> QED BY <2>2, <2>3
<1>3. low' \in [FrameworkSymbols -> Int] /\ high' \in [FrameworkSymbols -> Int]
  <2>1. /\ low' = [s \in FrameworkSymbols |-> low'[s]]
        /\ high' = [s \in FrameworkSymbols |-> high'[s]]
    BY <1>1
  <2> QED BY <1>2, <2>1
<1> QED BY <1>2, <1>3 DEF Widens

LEMMA TypeAsks ==
  ASSUME TargetsType, NEW fates, NEW T, NEW more,
         Passes(fates), Settles(fates), Asks(fates, T, more)
  PROVE  TargetsType'
<1> DEFINE live == Alive(fates)
<1>1. /\ Lives(orders', clock') /\ Lives(live, clock) /\ orders' = live \cup more
      /\ pos' \in [FrameworkSymbols -> Int] /\ Widens(T)
  BY PointGrows, AskedWidens DEF Grows, Settles, Asks
<1>2. /\ setup' \in FrameworkModes /\ clock' \in 0 .. MaxFrameworkPoints
      /\ known \subseteq known' /\ known' \subseteq FrameworkSymbols
      /\ ViewsHold(active', clock') /\ setup' = setup /\ setup.exec \in {"immediate", "vwap"}
  BY DEF Passes
<1>3. /\ DOMAIN T \subseteq known' /\ \A s \in DOMAIN T : T[s].qty \in Int
      /\ \A s \in FrameworkSymbols : pos'[s] # 0 => s \in DOMAIN T
      /\ \A p \in more : p.sym \in known'
  BY DEF Asks, TargetsAsk, OrdersMore
<1>4. /\ KnownFirst /\ \A s \in DOMAIN working : working[s].qty \in Int
      /\ DOMAIN working \subseteq FrameworkSymbols
      /\ setup.exec = "immediate" => DOMAIN working = {}
  BY DEF TargetsType, FrameworkTypeOK
<1>5. /\ DOMAIN working' \subseteq DOMAIN T \cup DOMAIN working
      /\ \A s \in DOMAIN working' : working'[s].qty \in Int
      /\ setup.exec = "immediate" => DOMAIN working' = {}
  <2>1. CASE setup.exec = "vwap"
    <3>1. WorkOn(working', T, pos', live) BY <2>1 DEF Asks
    <3> HIDE DEF live
    <3> QED BY <1>3, <1>4, <2>1, <3>1 DEF WorkOn
  <2>2. CASE setup.exec # "vwap"
    BY <1>4, <2>2 DEF Asks
  <2> QED BY <2>1, <2>2
<1>6. KnownFirst'
  <2> SUFFICES ASSUME NEW s \in FrameworkSymbols, s \notin known'
               PROVE  pos'[s] = 0 /\ s \notin DOMAIN working' /\ OrdersOf(s, orders') = {}
    BY DEF KnownFirst
  <2>1. s \notin known /\ pos[s] = 0 /\ s \notin DOMAIN working /\ OrdersOf(s, orders) = {}
    BY <1>2, <1>4 DEF KnownFirst
  <2>2. OrdersOf(s, live) = {} BY <2>1 DEF Settles
  <2>3. OrdersOf(s, orders') = {}
    BY <1>1, <1>3, <2>2 DEF OrdersOf
  <2> QED BY <1>3, <1>5, <2>1, <2>3
<1>7. FrameworkTypeOK'
  <2>1. \A o \in orders' : o.sym \in FrameworkSymbols /\ o.at \in 1 .. clock' /\ o.left # 0
    BY <1>1 DEF Lives
  <2>2. DOMAIN working' \subseteq FrameworkSymbols BY <1>2, <1>3, <1>4, <1>5
  <2>3. DOMAIN active' \subseteq FrameworkSymbols BY <1>2 DEF ViewsHold
  <2> QED BY <1>1, <1>2, <2>1, <2>2, <2>3 DEF FrameworkTypeOK
<1> HIDE DEF live
<1> QED BY <1>1, <1>2, <1>5, <1>6, <1>7 DEF TargetsType, Widens

LEMMA TypeRests ==
  ASSUME TargetsType, NEW fates, Passes(fates), Settles(fates), Idles(fates)
  PROVE  TargetsType'
<1>1. /\ Lives(orders', clock') /\ orders' = Alive(fates) /\ pos' \in [FrameworkSymbols -> Int]
  BY PointIdles DEF Settles, Idles
<1>2. /\ setup' \in FrameworkModes /\ clock' \in 0 .. MaxFrameworkPoints
      /\ known \subseteq known' /\ known' \subseteq FrameworkSymbols
      /\ ViewsHold(active', clock') /\ setup' = setup
  BY DEF Passes
<1>3. /\ KnownFirst /\ \A s \in DOMAIN working : working[s].qty \in Int
      /\ DOMAIN working \subseteq FrameworkSymbols
      /\ low \in [FrameworkSymbols -> Int] /\ high \in [FrameworkSymbols -> Int]
      /\ setup.exec = "immediate" => DOMAIN working = {}
  BY DEF TargetsType, FrameworkTypeOK
<1>4. working' = working /\ low' = low /\ high' = high
  BY DEF Idles
<1>5. KnownFirst'
  <2> SUFFICES ASSUME NEW s \in FrameworkSymbols, s \notin known'
               PROVE  pos'[s] = 0 /\ s \notin DOMAIN working' /\ OrdersOf(s, orders') = {}
    BY DEF KnownFirst
  <2>1. s \notin known /\ pos[s] = 0 /\ s \notin DOMAIN working /\ OrdersOf(s, orders) = {}
    BY <1>2, <1>3 DEF KnownFirst
  <2> QED BY <1>1, <1>4, <2>1 DEF Settles
<1>6. FrameworkTypeOK'
  <2>1. \A o \in orders' : o.sym \in FrameworkSymbols /\ o.at \in 1 .. clock' /\ o.left # 0
    BY <1>1 DEF Lives
  <2>2. DOMAIN active' \subseteq FrameworkSymbols BY <1>2 DEF ViewsHold
  <2> QED BY <1>1, <1>2, <1>3, <1>4, <2>1, <2>2 DEF FrameworkTypeOK
<1> QED BY <1>1, <1>2, <1>3, <1>4, <1>5, <1>6 DEF TargetsType

\* What is held moves towards what is on its way, and stays between.
LEMMA HeldStaysBetween ==
  ASSUME TargetsType, OneWay, NEW fates, Settles(fates), NEW s \in FrameworkSymbols, s \notin crossed,
         NEW l \in Int, NEW h \in Int, pos[s] \in l .. h, pos[s] + Net(s, orders) \in l .. h
  PROVE  pos'[s] \in l .. h
<1>1. /\ pos[s] \in Int /\ pos'[s] \in Int /\ Net(s, orders) \in Int
      /\ (\A o \in OrdersOf(s, orders) : o.left > 0) => pos'[s] \in pos[s] .. pos[s] + Net(s, orders)
      /\ (\A o \in OrdersOf(s, orders) : o.left < 0) => pos'[s] \in pos[s] + Net(s, orders) .. pos[s]
  BY DEF Settles, TargetsType, FrameworkTypeOK
<1>2. \/ \A o \in OrdersOf(s, orders) : o.left > 0
      \/ \A o \in OrdersOf(s, orders) : o.left < 0
  BY DEF OneWay
<1>3. CASE \A o \in OrdersOf(s, orders) : o.left > 0
  <2>1. pos'[s] \in pos[s] .. pos[s] + Net(s, orders) BY <1>1, <1>3
  <2> QED BY <1>1, <2>1
<1>4. CASE \A o \in OrdersOf(s, orders) : o.left < 0
  <2>1. pos'[s] \in pos[s] + Net(s, orders) .. pos[s] BY <1>1, <1>4
  <2> QED BY <1>1, <2>1
<1> QED BY <1>2, <1>3, <1>4

\* A symbol that is no longer crossed was not, or has no order left.
LEMMA Uncrossed ==
  ASSUME NEW fates, Passes(fates), NEW s \in FrameworkSymbols, s \notin crossed'
  PROVE  /\ s \notin crossed \/ OrdersOf(s, orders') = {}
         /\ ~ \E o, p \in OrdersOf(s, orders') : o.left > 0 /\ p.left < 0
BY DEF Passes, BothWays

LEMMA OneWayStays ==
  ASSUME NEW fates, Passes(fates), Lives(orders', clock')
  PROVE  OneWay'
<1> SUFFICES ASSUME NEW s \in FrameworkSymbols, s \notin crossed'
             PROVE  \/ \A o \in OrdersOf(s, orders') : o.left > 0
                    \/ \A o \in OrdersOf(s, orders') : o.left < 0
  BY DEF OneWay
<1>1. \A o \in OrdersOf(s, orders') : o.left \in Int /\ o.left # 0
  BY DEF OrdersOf, Lives
<1>2. ~ \E o, p \in OrdersOf(s, orders') : o.left > 0 /\ p.left < 0
  BY Uncrossed
<1>3. \A o \in OrdersOf(s, orders') : o.left > 0 \/ o.left < 0
  BY <1>1
<1> QED BY <1>2, <1>3

LEMMA WithinAsks ==
  ASSUME FrameworkInv, NEW fates, NEW T, NEW more,
         Passes(fates), Settles(fates), Asks(fates, T, more)
  PROVE  Within'
<1> DEFINE live == Alive(fates)
<1>1. TargetsType /\ Within /\ OneWay /\ Widens(T) /\ Grows(fates, more)
  BY AskedWidens, PointGrows DEF FrameworkInv
<1>2. /\ \A s \in FrameworkSymbols :
           /\ low[s] \in Int /\ high[s] \in Int /\ low'[s] \in Int /\ high'[s] \in Int
           /\ low'[s] <= low[s] /\ high[s] <= high'[s] /\ low[s] <= 0 /\ 0 <= high[s]
           /\ s \in DOMAIN T => T[s].qty \in low'[s] .. high'[s]
      /\ setup' = setup
  BY <1>1 DEF TargetsType, Within, Widens, Passes
<1>3. \A s \in FrameworkSymbols : low'[s] <= 0 /\ 0 <= high'[s]
  BY <1>2
<1>4. ASSUME setup.exec = "vwap", NEW s \in DOMAIN working'
      PROVE  s \in FrameworkSymbols /\ working'[s].qty \in low'[s] .. high'[s]
  <2>1. WorkOn(working', T, pos', live) BY <1>4 DEF Asks
  <2>2. s \in DOMAIN T \cup DOMAIN working /\ working'[s] = IF s \in DOMAIN T THEN T[s] ELSE working[s]
    BY <1>4, <2>1 DEF WorkOn
  <2>3. DOMAIN T \subseteq FrameworkSymbols /\ DOMAIN working \subseteq FrameworkSymbols
    BY <1>1 DEF Asks, TargetsAsk, Passes, TargetsType, FrameworkTypeOK
  <2>4. CASE s \in DOMAIN T
    BY <1>2, <2>2, <2>3, <2>4
  <2>5. CASE s \notin DOMAIN T
    <3>1. s \in DOMAIN working /\ working'[s] = working[s] BY <2>2, <2>5
    <3>2. working[s].qty \in low[s] .. high[s] BY <1>1, <1>4, <3>1 DEF Within
    <3>3. s \in FrameworkSymbols BY <2>3, <3>1
    <3>4. low[s] \in Int /\ high[s] \in Int /\ low'[s] \in Int /\ high'[s] \in Int
          /\ low'[s] <= low[s] /\ high[s] <= high'[s]
      BY <1>2, <3>3
    <3>5. working[s].qty \in low'[s] .. high'[s] BY <3>2, <3>4
    <3> QED BY <3>1, <3>3, <3>5
  <2> QED BY <2>4, <2>5
<1>5. ASSUME setup.exec = "vwap", "rejected" \notin broken', NEW s \in FrameworkSymbols
      PROVE  /\ pos'[s] + Net(s, orders') \in low'[s] .. high'[s]
             /\ s \notin crossed' => pos'[s] \in low'[s] .. high'[s]
  <2>1. /\ "rejected" \notin broken
        /\ \A o \in orders : fates[o].done + fates[o].rest = o.left
    BY <1>5, NothingParts DEF Asks
  <2>2. /\ pos'[s] + Net(s, live) = pos[s] + Net(s, orders)
        /\ pos[s] \in Int /\ pos'[s] \in Int /\ Net(s, live) \in Int /\ Net(s, orders) \in Int
    BY <1>1, <2>1 DEF Settles, TargetsType, FrameworkTypeOK
  <2>3. /\ pos[s] + Net(s, orders) \in low[s] .. high[s]
        /\ s \notin crossed => pos[s] \in low[s] .. high[s]
    BY <1>1, <1>5, <2>1 DEF Within
  <2>4. /\ low[s] \in Int /\ high[s] \in Int /\ low'[s] \in Int /\ high'[s] \in Int
        /\ low'[s] <= low[s] /\ high[s] <= high'[s]
    BY <1>2
  <2>5. pos'[s] + Net(s, orders') \in low'[s] .. high'[s]
    <3>1. CASE Net(s, orders') = Net(s, live)
      <4>1. pos'[s] + Net(s, orders') \in low[s] .. high[s] BY <2>2, <2>3, <3>1
      <4> HIDE DEF live
      <4> QED BY <2>2, <2>4, <3>1, <4>1
    <3>2. CASE \E p \in more : p.sym = s /\ p.left \in Int /\ Net(s, orders') = Net(s, live) + p.left
      <4>1. PICK p \in more : p.sym = s /\ p.left \in Int /\ Net(s, orders') = Net(s, live) + p.left
        BY <3>2
      <4> DEFINE eff == pos'[s] + Net(s, live)
                 w == working'[s].qty
      <4>2. s \in DOMAIN working' /\ p.left = Slice(w - Effective(pos', live)[s])
        BY <1>5, <4>1 DEF Asks, OrdersMore
      <4>3. p.left = Slice(w - eff)
        <5>1. Effective(pos', live)[s] = eff BY EffectiveIs
        <5> QED BY <4>2, <5>1
      <4>4. w \in low'[s] .. high'[s] /\ w \in Int
        BY <1>4, <1>5, <2>4, <4>2
      <4>5. eff \in low[s] .. high[s] /\ eff \in Int
        BY <2>2, <2>3
      <4>6. pos'[s] + Net(s, orders') = eff + p.left
        BY <2>2, <4>1
      <4> HIDE DEF eff, w
      <4>7. w - eff \in Int BY <4>4, <4>5
      <4>8. /\ p.left \in Int
            /\ w - eff >= 0 => p.left \in 0 .. w - eff
            /\ w - eff <= 0 => p.left \in w - eff .. 0
        BY <4>1, <4>3, <4>7, SliceIsPart
      <4>9. eff + p.left \in low'[s] .. high'[s]
        BY <2>4, <4>4, <4>5, <4>8
      <4> QED BY <4>6, <4>9
    <3> QED BY <1>1, <3>1, <3>2 DEF Grows
  <2>6. ASSUME s \notin crossed' PROVE pos'[s] \in low'[s] .. high'[s]
    <3>1. CASE s \notin crossed
      <4>1. pos'[s] \in low[s] .. high[s] BY <1>1, <2>3, <2>4, <3>1, HeldStaysBetween
      <4> QED BY <2>2, <2>4, <4>1
    <3>2. CASE OrdersOf(s, orders') = {}
      <4>1. Net(s, orders') = 0 BY <3>2, NetNone
      <4> QED BY <2>2, <2>5, <4>1
    <3> QED BY <2>6, <3>1, <3>2, Uncrossed
  <2> QED BY <2>5, <2>6
<1>6. Within' <=> /\ \A s \in FrameworkSymbols : low'[s] <= 0 /\ 0 <= high'[s]
                  /\ setup'.exec = "vwap" =>
                       /\ \A s \in DOMAIN working' : working'[s].qty \in low'[s] .. high'[s]
                       /\ "rejected" \notin broken' =>
                            \A s \in FrameworkSymbols :
                              /\ pos'[s] + Net(s, orders') \in low'[s] .. high'[s]
                              /\ s \notin crossed' => pos'[s] \in low'[s] .. high'[s]
  BY DEF Within
<1> QED BY <1>2, <1>3, <1>4, <1>5, <1>6

LEMMA WithinRests ==
  ASSUME FrameworkInv, NEW fates, Passes(fates), Settles(fates), Idles(fates)
  PROVE  Within'
<1>1. TargetsType /\ Within /\ OneWay
  BY DEF FrameworkInv
<1>2. working' = working /\ low' = low /\ high' = high /\ setup' = setup
  BY DEF Idles, Passes
<1>3. ASSUME setup.exec = "vwap", "rejected" \notin broken', NEW s \in FrameworkSymbols
      PROVE  /\ pos'[s] + Net(s, orders') \in low[s] .. high[s]
             /\ s \notin crossed' => pos'[s] \in low[s] .. high[s]
  <2>1. PICK T : broken' = broken \cup Partings(fates, T, Alive(fates))
    BY DEF Idles
  <2>2. /\ "rejected" \notin broken
        /\ \A o \in orders : fates[o].done + fates[o].rest = o.left
    BY <1>3, <2>1, NothingParts
  <2>3. pos'[s] + Net(s, orders') = pos[s] + Net(s, orders)
    <3>1. Net(s, orders') = Net(s, Alive(fates)) BY PointIdles
    <3> QED BY <2>2, <3>1 DEF Settles
  <2>4. /\ pos[s] + Net(s, orders) \in low[s] .. high[s]
        /\ s \notin crossed => pos[s] \in low[s] .. high[s]
    BY <1>1, <1>3, <2>2 DEF Within
  <2>5. low[s] \in Int /\ high[s] \in Int /\ pos'[s] \in Int
    BY <1>1 DEF TargetsType, Settles
  <2>6. ASSUME s \notin crossed' PROVE pos'[s] \in low[s] .. high[s]
    <3>1. CASE s \notin crossed
      BY <1>1, <2>4, <2>5, <3>1, HeldStaysBetween
    <3>2. CASE OrdersOf(s, orders') = {}
      <4>1. Net(s, orders') = 0 BY <3>2, NetNone
      <4> QED BY <2>3, <2>4, <2>5, <4>1
    <3> QED BY <2>6, <3>1, <3>2, Uncrossed
  <2> QED BY <2>3, <2>4, <2>6
<1>4. Within' <=> /\ \A s \in FrameworkSymbols : low[s] <= 0 /\ 0 <= high[s]
                  /\ setup.exec = "vwap" =>
                       /\ \A s \in DOMAIN working : working[s].qty \in low[s] .. high[s]
                       /\ "rejected" \notin broken' =>
                            \A s \in FrameworkSymbols :
                              /\ pos'[s] + Net(s, orders') \in low[s] .. high[s]
                              /\ s \notin crossed' => pos'[s] \in low[s] .. high[s]
  BY <1>2 DEF Within
<1> QED BY <1>1, <1>3, <1>4 DEF Within

\* What part of the disturbances there were stays.
LEMMA Undisturbing ==
  ASSUME Undisturbed', setup' = setup, broken \subseteq broken'
  PROVE  Undisturbed
BY DEF Undisturbed

LEMMA GoalsAsk ==
  ASSUME FrameworkInv, NEW fates, NEW T, NEW more,
         Passes(fates), Settles(fates), Asks(fates, T, more)
  PROVE  GoalsAreViews' /\ LegsAgree'
<1>1. TargetsType BY DEF FrameworkInv
<1>2. /\ \A s \in DOMAIN T : T[s].qty # 0 => s \in DOMAIN active' /\ active'[s].dir * T[s].qty > 0
      /\ \A s, x \in DOMAIN active' :
           /\ active'[s].group # "" /\ active'[x].group = active'[s].group
           /\ s \in DOMAIN T /\ T[s].qty # 0 /\ active'[x].dir # 0 /\ x \notin cleared' \cup dear'
           => x \in DOMAIN T /\ T[x].qty # 0
  BY DEF Asks, TargetsAsk
<1>3. Undisturbed' => \A s \in FrameworkSymbols : Goal(s)' = IF s \in DOMAIN T THEN T[s].qty ELSE 0
  BY <1>1, GoalsAreTargets
<1>4. GoalsAreViews'
  <2> SUFFICES ASSUME Undisturbed', NEW s \in FrameworkSymbols, Goal(s)' # 0
               PROVE  s \in DOMAIN active' /\ active'[s].dir * Goal(s)' > 0
    BY DEF GoalsAreViews
  <2>1. s \in DOMAIN T /\ Goal(s)' = T[s].qty BY <1>3
  <2> QED BY <1>2, <2>1
<1>5. LegsAgree'
  <2> SUFFICES ASSUME Undisturbed', NEW s \in DOMAIN active', NEW x \in DOMAIN active',
                      active'[s].group # "", active'[x].group = active'[s].group,
                      Goal(s)' # 0, active'[x].dir # 0, x \notin cleared' \cup dear'
               PROVE  Goal(x)' # 0
    BY DEF LegsAgree
  <2>1. DOMAIN active' \subseteq FrameworkSymbols BY DEF Passes, ViewsHold
  <2>3. s \in DOMAIN T /\ Goal(s)' = T[s].qty BY <1>3, <2>1
  <2>4. x \in DOMAIN T /\ T[x].qty # 0 BY <1>2, <2>3
  <2> QED BY <1>3, <2>1, <2>4
<1> QED BY <1>4, <1>5

LEMMA GoalsRest ==
  ASSUME FrameworkInv, NEW fates, Passes(fates), Settles(fates), Idles(fates)
  PROVE  GoalsAreViews' /\ LegsAgree'
<1>1. TargetsType /\ GoalsAreViews /\ LegsAgree BY DEF FrameworkInv
<1>2. PICK T : broken' = broken \cup Partings(fates, T, Alive(fates))
  BY DEF Idles
<1>3. broken \subseteq broken' /\ setup' = setup
  BY <1>2, NothingParts DEF Passes
<1>4. Undisturbed' => Undisturbed /\ \A s \in FrameworkSymbols : Goal(s)' = Goal(s)
  <2>1. Undisturbed' => "rejected" \notin broken' BY DEF Undisturbed
  <2> QED BY <1>3, <2>1, GoalsStay, Undisturbing
<1>5. /\ DOMAIN active' = DOMAIN active /\ \A s \in DOMAIN active : active'[s] = active[s]
      /\ DOMAIN active \subseteq FrameworkSymbols
  BY <1>1 DEF Idles, TargetsType, ViewsHold
<1>6. GoalsAreViews'
  <2> SUFFICES ASSUME Undisturbed', NEW s \in FrameworkSymbols, Goal(s)' # 0
               PROVE  s \in DOMAIN active' /\ active'[s].dir * Goal(s)' > 0
    BY DEF GoalsAreViews
  <2> QED BY <1>1, <1>4, <1>5 DEF GoalsAreViews
<1>7. LegsAgree'
  <2> SUFFICES ASSUME Undisturbed', NEW s \in DOMAIN active', NEW x \in DOMAIN active',
                      active'[s].group # "", active'[x].group = active'[s].group,
                      Goal(s)' # 0, active'[x].dir # 0, x \notin cleared' \cup dear'
               PROVE  Goal(x)' # 0
    BY DEF LegsAgree
  <2>1. Undisturbed /\ cleared' = cleared /\ dear' = dear BY <1>4 DEF Idles
  <2>2. /\ s \in DOMAIN active /\ x \in DOMAIN active
        /\ active'[s] = active[s] /\ active'[x] = active[x]
        /\ Goal(s)' = Goal(s) /\ Goal(x)' = Goal(x)
    BY <1>4, <1>5
  <2> QED BY <1>1, <2>1, <2>2 DEF LegsAgree
<1> QED BY <1>6, <1>7

LEMMA FrameworkInvStep ==
  ASSUME FrameworkInv, FrameworkNext
  PROVE  FrameworkInv'
<1>1. TargetsType BY DEF FrameworkInv
<1>2. PICK fates :
        /\ Passes(fates)
        /\ (\E T, more : Asks(fates, T, more)) \/ Idles(fates)
  BY <1>1, NextPasses
<1>3. Settles(fates)
  BY <1>1, <1>2, PointFlows DEF Passes
<1>4. CASE Idles(fates)
  <2>1. OneWay' BY <1>2, <1>3, <1>4, PointIdles, OneWayStays
  <2> QED BY <1>1, <1>2, <1>3, <1>4, <2>1, TypeRests, WithinRests, GoalsRest DEF FrameworkInv
<1>5. ASSUME NEW T, NEW more, Asks(fates, T, more) PROVE FrameworkInv'
  <2>1. Lives(orders', clock') BY <1>2, <1>3, <1>5, PointGrows DEF Grows
  <2>2. OneWay' BY <1>2, <2>1, OneWayStays
  <2>3. TargetsType' BY <1>1, <1>2, <1>3, <1>5, TypeAsks
  <2>4. Within' BY <1>2, <1>3, <1>5, WithinAsks
  <2>5. GoalsAreViews' /\ LegsAgree' BY <1>2, <1>3, <1>5, GoalsAsk
  <2> QED BY <2>2, <2>3, <2>4, <2>5 DEF FrameworkInv
<1> QED BY <1>2, <1>4, <1>5

LEMMA FrameworkInvStutter ==
  ASSUME FrameworkInv, UNCHANGED frameworkVars
  PROVE  FrameworkInv'
<1>1. /\ setup' = setup /\ clock' = clock /\ known' = known /\ active' = active
      /\ pos' = pos /\ orders' = orders /\ working' = working /\ low' = low /\ high' = high
      /\ crossed' = crossed /\ broken' = broken /\ cleared' = cleared /\ dear' = dear
  BY DEF frameworkVars
<1>2. TargetsType' <=> TargetsType
  BY <1>1 DEF TargetsType, FrameworkTypeOK, KnownFirst
<1>3. Within' <=> Within
  BY <1>1 DEF Within
<1>4. OneWay' <=> OneWay
  BY <1>1 DEF OneWay
<1>5. (Undisturbed' <=> Undisturbed) /\ \A s : Goal(s)' = Goal(s)
  BY <1>1 DEF Undisturbed, Goal
<1>6. (GoalsAreViews' <=> GoalsAreViews) /\ (LegsAgree' <=> LegsAgree)
  BY <1>1, <1>5 DEF GoalsAreViews, LegsAgree
<1> QED BY <1>2, <1>3, <1>4, <1>6 DEF FrameworkInv

LEMMA TargetsFollow == ASSUME FrameworkInv PROVE TargetsAreKept
<1>1. TargetsType /\ Within /\ GoalsAreViews /\ LegsAgree
  BY DEF FrameworkInv
<1>2. /\ FrameworkTypeOK /\ ViewsHold(active, clock) /\ pos \in [FrameworkSymbols -> Int]
  BY <1>1 DEF TargetsType, FrameworkTypeOK
<1>3. NeverBeyondTargets
  <2>1. \A s \in FrameworkSymbols : Effective(pos, orders)[s] = pos[s] + Net(s, orders)
    BY EffectiveIs
  <2> QED BY <1>1, <2>1 DEF Within, NeverBeyondTargets
<1>4. Quiet => \A s \in FrameworkSymbols : Goal(s) = pos[s]
  <2> SUFFICES ASSUME Quiet, NEW s \in FrameworkSymbols PROVE Goal(s) = pos[s]
    OBVIOUS
  <2>1. OrdersOf(s, orders) = {} BY DEF Quiet, OrdersOf
  <2>2. Net(s, orders) = 0 BY <2>1, NetNone
  <2> QED BY <1>2, <2>2 DEF Quiet, Goal
<1>5. DOMAIN active \subseteq FrameworkSymbols /\ \A s \in DOMAIN active : active[s].until >= clock
  BY <1>2 DEF ViewsHold
<1>6. PairsStayPaired
  <2> SUFFICES ASSUME Quiet, Undisturbed, NEW x \in Missing PROVE x \in cleared \cup dear
    BY DEF PairsStayPaired
  <2>1. PICK s \in DOMAIN active : active[s].group = active[x].group /\ pos[s] # 0
    BY DEF Missing
  <2>2. x \in DOMAIN active /\ active[x].group # "" /\ active[x].dir # 0 /\ pos[x] = 0
    BY DEF Missing
  <2>3. Goal(s) = pos[s] /\ Goal(x) = pos[x] BY <1>4, <1>5, <2>2
  <2> QED BY <1>1, <2>1, <2>2, <2>3 DEF LegsAgree
<1>7. NothingLeftBehind
  BY <1>1, <1>4, <1>5 DEF NothingLeftBehind, GoalsAreViews
<1> QED BY <1>2, <1>3, <1>6, <1>7 DEF TargetsAreKept

\* Views become positions, for any set of symbols and of emissions, any rhythm,
\* any share of the volume and any volumes and cash: with the vwap model nothing
\* goes beyond the targets given, a pair is held with both legs or none unless the
\* last targets left one out (cleared by the risk model, or too dear for its share of
\* the equity, portfolio_construction.py:98), and nothing is left behind when a view
\* ends.
THEOREM TargetsStayKept == FrameworkSpec => []TargetsAreKept
<1>1. FrameworkInit => FrameworkInv BY TargetsTypeStarts
<1>2. FrameworkInv /\ [FrameworkNext]_frameworkVars => FrameworkInv'
  BY FrameworkInvStep, FrameworkInvStutter
<1>3. FrameworkInv => TargetsAreKept BY TargetsFollow
<1> QED BY <1>1, <1>2, <1>3, PTL DEF FrameworkSpec

-----------------------------------------------------------------------------
(* The rotation of a portfolio *)

\* r ranks the elements of S, no two alike.
Ranks(r, S) ==
  /\ IsFiniteSet(S)
  /\ \A x \in S : r[x] \in Int
  /\ \A x \in S, y \in S : r[x] = r[y] => x = y

LEMMA RankingRanks ==
  ASSUME NEW r \in Rankings
  PROVE  /\ DOMAIN r \subseteq RotationSymbols
         /\ \A S \in SUBSET DOMAIN r : Ranks(r, S)
<1>1. PICK D \in (SUBSET RotationSymbols) \ {{}} : r \in Bijection(D, 1 .. Cardinality(D))
  BY DEF Rankings
<1>2. r \in [D -> 1 .. Cardinality(D)] /\ \A x, y \in DOMAIN r : r[x] = r[y] => x = y
  BY <1>1 DEF Bijection, Injection, IsInjective
<1>3. DOMAIN r \subseteq RotationSymbols /\ \A x \in DOMAIN r : r[x] \in Int
  BY <1>2
<1>4. \A S \in SUBSET DOMAIN r : IsFiniteSet(S)
  BY <1>3, RotationAssumption, FS_Subset
<1> QED BY <1>2, <1>3, <1>4 DEF Ranks

\* The best n of a pool are n of it, or all of it; the worst n are no more than n.
LEMMA BestAre ==
  ASSUME NEW S, NEW r, Ranks(r, S), NEW n \in Nat
  PROVE  /\ BestOf(S, r, n) \subseteq S
         /\ Cardinality(BestOf(S, r, n)) = IF n <= Cardinality(S) THEN n ELSE Cardinality(S)
<1> DEFINE Im == {r[x] : x \in S}
           B == BestOf(S, r, n)
           Under(s) == {x \in S : r[x] < r[s]}
<1>1. IsFiniteSet(S) /\ (\A x \in S : r[x] \in Int) /\ \A x \in S, y \in S : r[x] = r[y] => x = y
  BY DEF Ranks
<1>2. B = {s \in S : Cardinality(Under(s)) < n}
  BY DEF BestOf
<1>3. \A U \in SUBSET S : IsFiniteSet(U) /\ Cardinality({r[x] : x \in U}) = Cardinality(U)
  <2> SUFFICES ASSUME NEW U \in SUBSET S
               PROVE  IsFiniteSet(U) /\ Cardinality({r[x] : x \in U}) = Cardinality(U)
    OBVIOUS
  <2>1. IsFiniteSet(U) BY <1>1, FS_Subset
  <2>2. \A x \in U, y \in U : r[x] = r[y] => x = y BY <1>1
  <2> QED BY <2>1, <2>2, KeysAreAsMany
<1>4. IsFiniteSet(Im) /\ Im \subseteq Int /\ Cardinality(Im) = Cardinality(S)
  BY <1>1, KeysAreAsMany
<1>5. \A s \in S : Cardinality({m \in Im : m < r[s]}) = Cardinality(Under(s))
  <2> SUFFICES ASSUME NEW s \in S PROVE Cardinality({m \in Im : m < r[s]}) = Cardinality(Under(s))
    OBVIOUS
  <2>1. {m \in Im : m < r[s]} = {r[x] : x \in Under(s)} OBVIOUS
  <2>2. Under(s) \in SUBSET S OBVIOUS
  <2> HIDE DEF Under, Im
  <2> QED BY <1>3, <2>1, <2>2
<1>6. Lowest(Im, n) = {r[x] : x \in B}
  <2>1. \A m \in Im : m \in Lowest(Im, n) <=> Cardinality({k \in Im : k < m}) < n
    BY DEF Lowest
  <2>2. \A s \in S : r[s] \in Lowest(Im, n) <=> s \in B
    BY <1>2, <1>5, <2>1
  <2>3. Lowest(Im, n) \subseteq Im BY DEF Lowest
  <2>4. B \subseteq S BY <1>2
  <2> HIDE DEF B
  <2> QED BY <2>2, <2>3, <2>4
<1>7. B \in SUBSET S BY <1>2
<1> HIDE DEF B, Im
<1>8. Cardinality(Lowest(Im, n)) = IF n <= Cardinality(Im) THEN n ELSE Cardinality(Im)
  BY <1>4, LowestSize
<1>9. Cardinality(B) = Cardinality(Lowest(Im, n))
  BY <1>3, <1>6, <1>7
<1> QED BY <1>4, <1>7, <1>8, <1>9 DEF B

LEMMA WorstAre ==
  ASSUME NEW S, NEW r, Ranks(r, S), NEW n \in Nat
  PROVE  /\ WorstOf(S, r, n) \subseteq S /\ Cardinality(WorstOf(S, r, n)) <= n
         /\ \A s \in WorstOf(S, r, n), x \in S : r[s] < r[x] => x \in WorstOf(S, r, n)
<1> DEFINE q == [x \in S |-> -r[x]]
           W == WorstOf(S, r, n)
<1>1. IsFiniteSet(S) /\ (\A x \in S : r[x] \in Int) /\ \A x \in S, y \in S : r[x] = r[y] => x = y
  BY DEF Ranks
<1>2. \A s \in S : {x \in S : q[x] < q[s]} = {x \in S : r[s] < r[x]}
  BY <1>1
<1>3. Ranks(q, S)
  BY <1>1 DEF Ranks
<1>4. BestOf(S, q, n) = W
  BY <1>2 DEF BestOf, WorstOf
<1>5. W \subseteq S /\ Cardinality(W) <= n
  <2> HIDE DEF q, W
  <2>1. Cardinality(W) = IF n <= Cardinality(S) THEN n ELSE Cardinality(S)
    BY <1>3, <1>4, BestAre
  <2>2. Cardinality(S) \in Nat BY <1>1, FS_CardinalityType
  <2>3. W \subseteq S BY <1>3, <1>4, BestAre
  <2> QED BY <2>1, <2>2, <2>3
<1>6. ASSUME NEW s \in W, NEW x \in S, r[s] < r[x] PROVE x \in W
  <2> DEFINE A == {y \in S : r[x] < r[y]}
             C == {y \in S : r[s] < r[y]}
  <2>1. s \in S /\ Cardinality(C) < n BY DEF WorstOf
  <2>2. A \subseteq C BY <1>1, <1>6, <2>1
  <2>3. IsFiniteSet(C) BY <1>1, FS_Subset
  <2>4. Cardinality(A) < n
    <3> HIDE DEF A, C
    <3> QED BY <2>1, <2>2, <2>3, FewerInPart
  <2> QED BY <2>4 DEF WorstOf
<1> QED BY <1>5, <1>6

\* Those of the worst that are sold are ranked below the best that replace them.
LEMMA SwapIsUp ==
  ASSUME NEW last, NEW offers, last \cap offers = {}, NEW r, Ranks(r, last \cup offers),
         NEW n \in Nat, n <= Cardinality(offers),
         NEW sell, sell \subseteq last, sell \subseteq WorstOf(last \cup offers, r, n),
         NEW s \in sell, NEW b \in BestOf(offers, r, Cardinality(sell))
  PROVE  r[b] < r[s]
<1> DEFINE C == last \cup offers
           W == WorstOf(C, r, n)
           A == {x \in offers : r[x] < r[b]}
           B == {x \in offers : ~(r[x] < r[b])}
<1>1. IsFiniteSet(C) /\ (\A x \in C : r[x] \in Int) /\ \A x \in C, y \in C : r[x] = r[y] => x = y
  BY DEF Ranks
<1>2. b \in offers /\ s \in last /\ b # s /\ Cardinality(A) < Cardinality(sell)
  BY DEF BestOf
<1>3. W \subseteq C /\ Cardinality(W) <= n /\ \A y \in W, x \in C : r[y] < r[x] => x \in W
  BY WorstAre
<1>4. s \in W OBVIOUS
<1> SUFFICES ASSUME ~(r[b] < r[s]) PROVE FALSE
  OBVIOUS
<1>5. r[s] < r[b]
  BY <1>1, <1>2
<1>6. B \subseteq W
  <2> SUFFICES ASSUME NEW x \in B PROVE x \in W
    OBVIOUS
  <2>1. x \in C /\ r[x] \in Int /\ r[b] \in Int /\ r[s] \in Int /\ ~(r[x] < r[b])
    BY <1>1, <1>2
  <2>2. r[s] < r[x] BY <1>5, <2>1
  <2> HIDE DEF W
  <2> QED BY <1>3, <1>4, <2>1, <2>2
<1>7. offers = A \cup B /\ A \cap B = {} /\ B \cap sell = {} /\ B \cup sell \subseteq W
  BY <1>6
<1>8. IsFiniteSet(A) /\ IsFiniteSet(B) /\ IsFiniteSet(sell) /\ IsFiniteSet(W)
  <2>1. A \subseteq C /\ B \subseteq C /\ sell \subseteq C BY <1>2
  <2> HIDE DEF A, B, C, W
  <2> QED BY <1>1, <1>3, <2>1, FS_Subset
<1> HIDE DEF A, B, C, W
<1>9. Cardinality(offers) = Cardinality(A) + Cardinality(B)
  BY <1>7, <1>8, DisjointSizes
<1>10. Cardinality(B \cup sell) = Cardinality(B) + Cardinality(sell)
  BY <1>7, <1>8, DisjointSizes
<1>11. Cardinality(B \cup sell) <= Cardinality(W)
  BY <1>7, <1>8, FewerInPart
<1>12. /\ Cardinality(A) \in Nat /\ Cardinality(B) \in Nat /\ Cardinality(sell) \in Nat
       /\ Cardinality(W) \in Nat
  BY <1>8, FS_CardinalityType
<1> QED BY <1>2, <1>3, <1>9, <1>10, <1>11, <1>12

\* What is drawn of a pool.
LEMMA SamplesAre ==
  ASSUME NEW pool, IsFiniteSet(pool), NEW n \in Nat, NEW T \in Samples(pool, n)
  PROVE  T \subseteq pool /\ Cardinality(T) = IF n <= Cardinality(pool) THEN n ELSE Cardinality(pool)
<1>1. Cardinality(pool) \in Nat BY FS_CardinalityType
<1>2. CASE n >= Cardinality(pool)
  <2>1. T = pool BY <1>2 DEF Samples
  <2> QED BY <1>1, <1>2, <2>1
<1>3. CASE ~(n >= Cardinality(pool))
  <2>1. T \in kSubset(n, pool) BY <1>3 DEF Samples
  <2>2. T \subseteq pool /\ Cardinality(T) = n BY <2>1 DEF kSubset
  <2> QED BY <1>1, <1>3, <2>2
<1> QED BY <1>2, <1>3

\* What a rebalancing decides.
Decided(r, last, offers, sell, buy) ==
  /\ last = Holdings \cap DOMAIN r /\ IsFiniteSet(last) /\ IsFiniteSet(offers)
  /\ offers \subseteq DOMAIN r \ last
  /\ sell \subseteq Seasoned(last) /\ Cardinality(sell) <= MaxDrop(last, offers)
  /\ buy \subseteq offers /\ IsFiniteSet(buy) /\ IsFiniteSet(sell)
  /\ LET k == Cardinality(sell) + cfg.topk - Cardinality(last)
         n == IF k >= 0 THEN k ELSE 0
     IN /\ Cardinality(buy) = IF n <= Cardinality(offers) THEN n ELSE Cardinality(offers)
        /\ cfg.method_buy = "top" => buy = BestOf(offers, r, n)
  /\ cfg.method_sell = "bottom" => sell = Seasoned(last) \cap WorstOf(last \cup offers, r, MaxDrop(last, offers))
  /\ held' = Advanced((last \ sell) \cup buy, buy)

LEMMA RebalanceDecides ==
  ASSUME RotationTypeOK, NEW r \in Rankings, Rebalance(r)
  PROVE  \E last, offers, sell, buy : Decided(r, last, offers, sell, buy)
<1> DEFINE last == Holdings \cap DOMAIN r
<1>0. PICK offers \in Todays(last, r) : \E sell \in Sells(last, offers, r) :
        \E buy \in Buys(last, offers, sell, r) : held' = Advanced((last \ sell) \cup buy, buy)
  BY DEF Rebalance
<1>1. PICK sell \in Sells(last, offers, r) :
        \E buy \in Buys(last, offers, sell, r) : held' = Advanced((last \ sell) \cup buy, buy)
  BY <1>0
<1>2. PICK buy \in Buys(last, offers, sell, r) : held' = Advanced((last \ sell) \cup buy, buy)
  BY <1>1
<1>3. /\ DOMAIN r \subseteq RotationSymbols /\ \A S \in SUBSET DOMAIN r : Ranks(r, S)
      /\ \A S \in SUBSET DOMAIN r : IsFiniteSet(S)
  <2>1. DOMAIN r \subseteq RotationSymbols /\ \A S \in SUBSET DOMAIN r : Ranks(r, S)
    BY RankingRanks
  <2> QED BY <2>1 DEF Ranks
<1>4. cfg.topk \in Nat \ {0} /\ cfg.n_drop \in Nat
      /\ cfg.method_buy \in {"top", "random"} /\ cfg.method_sell \in {"bottom", "random"}
  BY RotationAssumption DEF RotationTypeOK
<1>5. last \in SUBSET DOMAIN r /\ IsFiniteSet(last)
  BY <1>3
<1> HIDE DEF last
<1> DEFINE free == cfg.n_drop + cfg.topk - Cardinality(last)
           wanted == Max({free, 0})
<1>6. wanted \in Nat
  <2>1. Cardinality(last) \in Nat BY <1>5, FS_CardinalityType
  <2>2. free \in Int BY <1>4, <2>1
  <2> HIDE DEF free
  <2>3. wanted = IF free >= 0 THEN free ELSE 0 BY <2>2, MostIs
  <2> QED BY <2>2, <2>3
<1> HIDE DEF wanted
<1>7. offers \subseteq DOMAIN r \ last /\ IsFiniteSet(offers)
  <2>1. CASE cfg.method_buy = "random"
    <3>1. offers \in Samples(Pool(last, r), wanted) BY <2>1 DEF Todays, wanted
    <3>2. Pool(last, r) \subseteq DOMAIN r \ last BY DEF Pool, BestOf
    <3>3. IsFiniteSet(Pool(last, r)) BY <1>3, <3>2
    <3>4. offers \subseteq Pool(last, r) BY <1>6, <3>1, <3>3, SamplesAre
    <3> QED BY <1>3, <3>2, <3>4
  <2>2. CASE cfg.method_buy # "random"
    <3>1. offers = BestOf(DOMAIN r \ last, r, wanted) BY <2>2 DEF Todays, wanted
    <3>2. offers \subseteq DOMAIN r \ last BY <3>1 DEF BestOf
    <3> QED BY <1>3, <3>2
  <2> QED BY <2>1, <2>2
<1> DEFINE drop == MaxDrop(last, offers)
<1>8. drop \in Nat
  <2>1. Cardinality(offers) \in Nat BY <1>7, FS_CardinalityType
  <2>2. Min({cfg.n_drop, Cardinality(offers)}) \in Nat BY <1>4, <2>1, LeastIs DEF Least
  <2> QED BY <1>4, <2>2 DEF MaxDrop
<1>9. /\ sell \subseteq Seasoned(last) /\ Cardinality(sell) <= drop /\ IsFiniteSet(sell)
      /\ cfg.method_sell = "bottom" => sell = Seasoned(last) \cap WorstOf(last \cup offers, r, drop)
  <2>1. Seasoned(last) \subseteq last /\ IsFiniteSet(Seasoned(last)) /\ Cardinality(Seasoned(last)) \in Nat
    <3>1. Seasoned(last) \subseteq last BY DEF Seasoned
    <3>2. IsFiniteSet(Seasoned(last)) BY <1>5, <3>1, FS_Subset
    <3> QED BY <3>1, <3>2, FS_CardinalityType
  <2> HIDE DEF drop
  <2>2. CASE cfg.method_sell = "random"
    <3>1. sell \in Samples(Seasoned(last), drop) BY <2>2 DEF Sells, drop
    <3>2. /\ sell \subseteq Seasoned(last)
          /\ Cardinality(sell) = IF drop <= Cardinality(Seasoned(last)) THEN drop ELSE Cardinality(Seasoned(last))
      BY <1>8, <2>1, <3>1, SamplesAre
    <3>3. IsFiniteSet(sell) BY <2>1, <3>2, FS_Subset
    <3> QED BY <1>8, <2>1, <2>2, <3>2, <3>3
  <2>3. CASE cfg.method_sell # "random"
    <3> DEFINE W == WorstOf(last \cup offers, r, drop)
    <3>1. sell = Seasoned(last) \cap W BY <2>3 DEF Sells, Compared, drop
    <3>2. last \cup offers \in SUBSET DOMAIN r BY <1>5, <1>7
    <3>3. Ranks(r, last \cup offers) BY <1>3, <3>2
    <3>4. W \subseteq last \cup offers /\ Cardinality(W) <= drop BY <1>8, <3>3, WorstAre
    <3> HIDE DEF W
    <3>5. IsFiniteSet(W)
      <4>1. W \in SUBSET DOMAIN r BY <3>2, <3>4
      <4> QED BY <1>3, <4>1
    <3>6. sell \subseteq W BY <3>1
    <3>7. Cardinality(sell) \in Nat /\ Cardinality(W) \in Nat /\ Cardinality(sell) <= Cardinality(W)
      BY <3>5, <3>6, FewerInPart
    <3>8. IsFiniteSet(sell) BY <3>5, <3>6, FS_Subset
    <3> QED BY <1>8, <3>1, <3>4, <3>7, <3>8 DEF W
  <2> QED BY <2>2, <2>3
<1> DEFINE k == Cardinality(sell) + cfg.topk - Cardinality(last)
           n == IF k >= 0 THEN k ELSE 0
<1>10. k \in Int /\ n \in Nat /\ Max({k, 0}) = n
  <2>1. Cardinality(sell) \in Nat /\ Cardinality(last) \in Nat BY <1>5, <1>9, FS_CardinalityType
  <2>2. k \in Int BY <1>4, <2>1
  <2> HIDE DEF k
  <2> QED BY <2>2, MostIs
<1>11. /\ buy \subseteq offers /\ IsFiniteSet(buy)
       /\ Cardinality(buy) = IF n <= Cardinality(offers) THEN n ELSE Cardinality(offers)
       /\ cfg.method_buy = "top" => buy = BestOf(offers, r, n)
  <2>1. Buys(last, offers, sell, r) =
          IF cfg.method_buy = "random" /\ offers # Pool(last, r)
          THEN Samples(offers, n) ELSE {BestOf(offers, r, n)}
    BY <1>10 DEF Buys
  <2>2. Ranks(r, offers) BY <1>3, <1>7
  <2> HIDE DEF n, k
  <2>3. CASE cfg.method_buy = "random" /\ offers # Pool(last, r)
    <3>1. buy \in Samples(offers, n) BY <1>2, <2>1, <2>3
    <3>2. buy \subseteq offers /\ Cardinality(buy) = IF n <= Cardinality(offers) THEN n ELSE Cardinality(offers)
      BY <1>7, <1>10, <3>1, SamplesAre
    <3>3. IsFiniteSet(buy) BY <1>7, <3>2, FS_Subset
    <3> QED BY <2>3, <3>2, <3>3
  <2>4. CASE ~(cfg.method_buy = "random" /\ offers # Pool(last, r))
    <3>1. buy = BestOf(offers, r, n) BY <1>2, <2>1, <2>4
    <3>2. buy \subseteq offers /\ Cardinality(buy) = IF n <= Cardinality(offers) THEN n ELSE Cardinality(offers)
      BY <1>10, <2>2, <3>1, BestAre
    <3>3. IsFiniteSet(buy) BY <1>7, <3>2, FS_Subset
    <3> QED BY <3>1, <3>2, <3>3
  <2> QED BY <2>3, <2>4
<1>12. Decided(r, last, offers, sell, buy)
  BY <1>2, <1>5, <1>7, <1>9, <1>11 DEF Decided, last, drop, n, k
<1> QED BY <1>12

\* How many are held after a rebalancing.
LEMMA DecidedSize ==
  ASSUME RotationTypeOK, NEW r, NEW last, NEW offers, NEW sell, NEW buy, Decided(r, last, offers, sell, buy)
  PROVE  /\ Cardinality(DOMAIN held') <= cfg.topk
         /\ Cardinality(last) = cfg.topk =>
              Cardinality(DOMAIN held') = cfg.topk /\ Cardinality(buy) = Cardinality(sell)
                /\ MaxDrop(last, offers) \in Nat /\ MaxDrop(last, offers) <= Cardinality(offers)
<1>1. /\ cfg.topk \in Nat \ {0} /\ cfg.n_drop \in Nat
      /\ Cardinality(Holdings) <= cfg.topk /\ IsFiniteSet(Holdings)
  <2>1. cfg.topk \in Nat \ {0} /\ cfg.n_drop \in Nat /\ Cardinality(Holdings) <= cfg.topk
    BY RotationAssumption DEF RotationTypeOK
  <2>2. Holdings \subseteq RotationSymbols BY DEF RotationTypeOK
  <2> QED BY <2>1, <2>2, RotationAssumption, FS_Subset
<1>2. /\ IsFiniteSet(last) /\ IsFiniteSet(offers) /\ IsFiniteSet(buy) /\ IsFiniteSet(sell)
      /\ last \subseteq Holdings /\ sell \subseteq last /\ buy \subseteq offers /\ offers \cap last = {}
      /\ Cardinality(sell) <= MaxDrop(last, offers)
      /\ DOMAIN held' = (last \ sell) \cup buy
  BY DEF Decided, Seasoned, Advanced
<1> DEFINE L == Cardinality(last)
           S == Cardinality(sell)
           T == Cardinality(offers)
           B == Cardinality(buy)
           k == S + cfg.topk - L
           n == IF k >= 0 THEN k ELSE 0
           stays == last \ sell
<1>3. L \in Nat /\ S \in Nat /\ T \in Nat /\ B \in Nat /\ L <= cfg.topk
  <2>1. L \in Nat /\ S \in Nat /\ T \in Nat /\ B \in Nat BY <1>2, FS_CardinalityType
  <2>2. L <= Cardinality(Holdings) /\ Cardinality(Holdings) \in Nat BY <1>1, <1>2, FewerInPart
  <2> QED BY <1>1, <2>1, <2>2
<1>4. B = IF n <= T THEN n ELSE T
  BY DEF Decided
<1>5. Cardinality(DOMAIN held') = L - S + B
  <2>1. IsFiniteSet(stays) BY <1>2, FS_Subset
  <2>2. stays \cap sell = {} /\ stays \cup sell = last /\ stays \cap buy = {} BY <1>2
  <2> HIDE DEF stays
  <2>3. L = Cardinality(stays) + S BY <1>2, <2>1, <2>2, DisjointSizes
  <2>4. Cardinality(stays \cup buy) = Cardinality(stays) + B BY <1>2, <2>1, <2>2, DisjointSizes
  <2>5. Cardinality(stays) \in Nat BY <2>1, FS_CardinalityType
  <2>6. DOMAIN held' = stays \cup buy BY <1>2 DEF stays
  <2> QED BY <1>3, <2>3, <2>4, <2>5, <2>6
<1>6. S <= L
  BY <1>2, FewerInPart
<1>7. CASE L = cfg.topk
  <2>1. MaxDrop(last, offers) = Min({cfg.n_drop, T})
    <3>1. L >= cfg.topk BY <1>1, <1>3, <1>7
    <3> QED BY <3>1 DEF MaxDrop
  <2>2. Min({cfg.n_drop, T}) \in Nat /\ Min({cfg.n_drop, T}) <= T
    <3>1. Min({cfg.n_drop, T}) = Least(cfg.n_drop, T) BY <1>1, <1>3, LeastIs
    <3> HIDE DEF T
    <3> QED BY <1>1, <1>3, <3>1 DEF Least
  <2>3. S <= T
    <3> HIDE DEF S, T, L
    <3> QED BY <1>2, <1>3, <2>1, <2>2 DEF S, T
  <2>4. k = S BY <1>1, <1>3, <1>7
  <2> HIDE DEF S, T, L, B, k
  <2> QED BY <1>1, <1>3, <1>4, <1>5, <1>7, <2>1, <2>2, <2>3, <2>4 DEF S, L, B, T
<1>8. CASE L # cfg.topk
  <2> HIDE DEF S, T, L, B
  <2>1. k >= 0 BY <1>1, <1>3
  <2>2. B <= k BY <1>1, <1>3, <1>4, <2>1
  <2> QED BY <1>1, <1>3, <1>5, <1>8, <2>2 DEF L
<1> QED BY <1>7, <1>8

LEMMA RotationStep ==
  ASSUME RotationTypeOK, RotationNext
  PROVE  /\ RotationTypeOK'
         /\ \A s \in Dropped : held[s] >= cfg.hold_thresh
         /\ WasFull /\ cfg.method_sell = "bottom" /\ cfg.method_buy = "top" =>
              \A s \in Dropped, b \in Gained : ranking'[b] < ranking'[s]
         /\ WasFull => Cardinality(DOMAIN held') = cfg.topk
<1>1. PICK r \in Rankings : Rebalance(r) /\ ranking' = r /\ cfg' = cfg
  BY DEF RotationNext
<1>2. PICK last, offers, sell, buy : Decided(r, last, offers, sell, buy)
  BY <1>1, RebalanceDecides
<1>3. /\ last = Holdings \cap DOMAIN r /\ offers \subseteq DOMAIN r \ last
      /\ sell \subseteq Seasoned(last) /\ buy \subseteq offers
      /\ held' = Advanced((last \ sell) \cup buy, buy)
  BY <1>2 DEF Decided
<1>4. DOMAIN held' = (last \ sell) \cup buy
  BY <1>3 DEF Advanced
<1>5. DOMAIN r \subseteq RotationSymbols /\ \A S \in SUBSET DOMAIN r : Ranks(r, S)
  BY RankingRanks
<1>6. RotationTypeOK'
  <2>1. Holdings' \subseteq RotationSymbols BY <1>3, <1>4, <1>5 DEF Holdings
  <2>2. Cardinality(Holdings') <= cfg'.topk
    BY <1>1, <1>2, DecidedSize DEF Holdings
  <2>3. ASSUME NEW s \in Holdings' PROVE held'[s] \in 1 .. MaxDays
    <3>1. held'[s] = IF s \in buy THEN 1 ELSE Min({held[s] + 1, MaxDays})
      BY <1>3, <1>4, <2>3 DEF Holdings, Advanced
    <3>2. CASE s \in buy BY <3>1, <3>2, RotationAssumption
    <3>3. CASE s \notin buy
      <4>1. s \in Holdings BY <1>3, <1>4, <2>3, <3>3 DEF Holdings
      <4>2. held[s] \in 1 .. MaxDays /\ MaxDays \in Nat \ {0} BY <4>1, RotationAssumption DEF RotationTypeOK
      <4> DEFINE h == held[s] + 1
      <4>3. h \in Int /\ h >= 1 BY <4>2
      <4> HIDE DEF h
      <4>4. Min({h, MaxDays}) = Least(h, MaxDays) BY <4>2, <4>3, LeastIs
      <4>5. Least(h, MaxDays) \in 1 .. MaxDays BY <4>2, <4>3 DEF Least
      <4> QED BY <3>1, <3>3, <4>4, <4>5 DEF h
    <3> QED BY <3>2, <3>3
  <2> QED BY <1>1, <2>1, <2>2, <2>3 DEF RotationTypeOK
<1>7. Dropped \subseteq sell
  BY <1>1, <1>3, <1>4 DEF Dropped, Holdings
<1>8. \A s \in Dropped : held[s] >= cfg.hold_thresh
  BY <1>3, <1>7 DEF Seasoned
<1>9. WasFull => last = Holdings /\ Cardinality(last) = cfg.topk
  BY <1>1, <1>3 DEF WasFull, Lost, Holdings
<1>10. WasFull => Cardinality(DOMAIN held') = cfg.topk
  BY <1>2, <1>9, DecidedSize
<1>11. ASSUME WasFull, cfg.method_sell = "bottom", cfg.method_buy = "top", NEW s \in Dropped, NEW b \in Gained
       PROVE  ranking'[b] < ranking'[s]
  <2> DEFINE m == MaxDrop(last, offers)
  <2>1. /\ Cardinality(buy) = Cardinality(sell) /\ m \in Nat /\ m <= Cardinality(offers)
    BY <1>2, <1>9, <1>11, DecidedSize
  <2>2. sell \subseteq WorstOf(last \cup offers, r, m) /\ sell \subseteq last
    BY <1>2, <1>3, <1>11 DEF Decided, Seasoned
  <2>3. buy = BestOf(offers, r, Cardinality(sell))
    <3> DEFINE k == Cardinality(sell) + cfg.topk - Cardinality(last)
               n == IF k >= 0 THEN k ELSE 0
    <3>1. buy = BestOf(offers, r, n) BY <1>2, <1>11 DEF Decided
    <3>2. cfg.topk \in Nat BY RotationAssumption DEF RotationTypeOK
    <3>3. Cardinality(sell) \in Nat BY <1>2, FS_CardinalityType DEF Decided
    <3>4. n = Cardinality(sell) BY <1>9, <1>11, <3>2, <3>3
    <3> QED BY <3>1, <3>4
  <2>4. s \in sell /\ b \in buy
    BY <1>3, <1>4, <1>7, <1>9, <1>11 DEF Gained, Holdings
  <2>5. last \cap offers = {} /\ last \cup offers \in SUBSET DOMAIN r
    BY <1>3
  <2>6. Ranks(r, last \cup offers) BY <1>5, <2>5
  <2> HIDE DEF m
  <2>7. r[b] < r[s]
    BY <2>1, <2>2, <2>3, <2>4, <2>5, <2>6, SwapIsUp
  <2> QED BY <1>1, <2>7
<1> QED BY <1>6, <1>8, <1>10, <1>11

\* A rotation is orderly, for any symbols, scores and rules: a holding is kept for its
\* time, what is bought is ranked above what it replaces, a full portfolio stays full,
\* and never more than topk symbols are held.
THEOREM RotationStaysOrderly == RotationSpec => RotationIsOrderly
<1> DEFINE Kept == \A s \in Dropped : held[s] >= cfg.hold_thresh
           Up == WasFull /\ cfg.method_sell = "bottom" /\ cfg.method_buy = "top" =>
                   \A s \in Dropped, b \in Gained : ranking'[b] < ranking'[s]
           Full == WasFull => Cardinality(DOMAIN held') = cfg.topk
<1>1. RotationInit => RotationTypeOK
  <2> SUFFICES ASSUME RotationInit PROVE RotationTypeOK
    OBVIOUS
  <2>1. Holdings = {} BY DEF RotationInit, Holdings
  <2>2. cfg.topk \in Nat /\ Cardinality({}) = 0 BY RotationAssumption, FS_EmptySet DEF RotationInit
  <2> QED BY <2>1, <2>2 DEF RotationInit, RotationTypeOK
<1>2. RotationTypeOK /\ [RotationNext]_rotationVars => RotationTypeOK'
  <2>1. RotationTypeOK /\ RotationNext => RotationTypeOK' BY RotationStep
  <2>2. RotationTypeOK /\ UNCHANGED rotationVars => RotationTypeOK'
    BY DEF rotationVars, RotationTypeOK, Holdings
  <2> QED BY <2>1, <2>2
<1>3. RotationTypeOK /\ [RotationNext]_rotationVars => [Kept]_rotationVars /\ [Up]_rotationVars /\ [Full]_rotationVars
  <2> SUFFICES ASSUME RotationTypeOK, RotationNext PROVE Kept /\ Up /\ Full
    OBVIOUS
  <2> QED BY RotationStep
<1>4. RotationSpec => []RotationTypeOK
  BY <1>1, <1>2, PTL DEF RotationSpec
<1>5. RotationSpec => [][Kept]_rotationVars /\ [][Up]_rotationVars /\ [][Full]_rotationVars
  <2> HIDE DEF Kept, Up, Full
  <2> QED BY <1>3, <1>4, PTL DEF RotationSpec
<1> QED BY <1>4, <1>5 DEF RotationIsOrderly, HoldingPeriodIsKept, SwapsImprove, FullStaysFull
===============================================================================
