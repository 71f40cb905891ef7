---------------------------- MODULE Services_proofs ----------------------------
(***************************************************************************)
(* Proofs about the services of Services, each for its own specification   *)
(* and for every value of the constants.                                   *)
(***************************************************************************)
EXTENDS Services, DataTheorems

-----------------------------------------------------------------------------
(* The quota of LLM calls.  A call is counted where it stands: the counter *)
(* of a day lies between the calls that hold a unit of it and those that   *)
(* may.                                                                    *)

Count(d, S) == Cardinality(At(d, S))

Holding == {"allowed", "expire", "decr"}
Spent == {"allowed", "expire", "crashed"} \cup Degraded
Counted == Spent \cup {"decr"}

\* The inductive invariant: a call that sets the expiry was the first of its day;
\* the counter is bounded from both sides by calls; a call beyond the limit has
\* Limit calls before it that went on or are gone.
FirstSeen == \A c \in Calls : pc[c] = "expire" => seen[c] = 1
Bounded(d) ==
    /\ Count(d, Holding) <= used[d]
    /\ used[d] <= Count(d, Counted)
    /\ Count(d, {"allowed", "expire"}) <= Limit
    /\ At(d, {"decr", "refused"}) # {} => Count(d, Spent) >= Limit
Expiring(d) ==
    used[d] > 0 /\ d \notin expires => At(d, {"expire", "crashed", "unseen", "unbounded"}) # {}
QuotaInv == TypeOK /\ FirstSeen /\ \A d \in Days : Bounded(d) /\ Expiring(d)

-----------------------------------------------------------------------------
(* Counting.                                                                *)

\* The calls of a day are finitely many.
LEMMA CountType ==
    ASSUME NEW d, NEW S
    PROVE  IsFiniteSet(At(d, S)) /\ Count(d, S) \in Nat
<1>1. At(d, S) \subseteq Calls
  BY DEF At
<1>2. IsFiniteSet(At(d, S))
  BY <1>1, FS_Subset, QuotaAssumption
<1> QED
  BY <1>2, FS_CardinalityType DEF Count

\* A call that goes somewhere else is counted there, and no more where it was.
LEMMA CountMoves ==
    ASSUME TypeOK, NEW c \in Calls, NEW w, Goes(c, w), day' = day,
           NEW d \in Days, NEW S
    PROVE  /\ (d = day[c] /\ w \in S /\ pc[c] \notin S) => Count(d, S)' = Count(d, S) + 1
           /\ (d = day[c] /\ w \notin S /\ pc[c] \in S) => Count(d, S)' = Count(d, S) - 1
           /\ (d # day[c] \/ (w \in S <=> pc[c] \in S)) => At(d, S)' = At(d, S)
<1> DEFINE A == At(d, S)
           B == {k \in Calls : day[k] = d /\ pc'[k] \in S}
<1>1. A' = B
  BY DEF At
<1>2. \A k \in Calls : pc'[k] = IF k = c THEN w ELSE pc[k]
  BY DEF Goes, TypeOK
<1>3. IsFiniteSet(A)
  BY CountType
<1>4. CASE d = day[c] /\ w \in S /\ pc[c] \notin S
  <2>1. c \notin A /\ B = A \cup {c}
    BY <1>2, <1>4 DEF At
  <2>2. Cardinality(B) = Cardinality(A) + 1
    BY <2>1, <1>3, FS_AddElement
  <2> QED
    BY <1>1, <1>4, <2>2 DEF Count
<1>5. CASE d = day[c] /\ w \notin S /\ pc[c] \in S
  <2>1. c \in A /\ B = A \ {c}
    BY <1>2, <1>5 DEF At
  <2>2. Cardinality(B) = Cardinality(A) - 1
    BY <2>1, <1>3, FS_RemoveElement
  <2> QED
    BY <1>1, <1>5, <2>2 DEF Count
<1>6. CASE d # day[c] \/ (w \in S <=> pc[c] \in S)
  <2>1. B = A
    BY <1>2, <1>6 DEF At
  <2> QED
    BY <1>1, <1>6, <2>1
<1> QED
  BY <1>4, <1>5, <1>6

\* Places where calls of a set are not: the counts of the larger set are the same.
LEMMA CountSubset ==
    ASSUME NEW d, NEW S, NEW T, S \subseteq T
    PROVE  Count(d, S) <= Count(d, T) /\ (At(d, T \ S) = {} => Count(d, S) = Count(d, T))
<1>1. At(d, S) \subseteq At(d, T)
  BY DEF At
<1>2. Count(d, S) <= Count(d, T)
  BY <1>1, CountType, FS_Subset DEF Count
<1>3. ASSUME At(d, T \ S) = {} PROVE At(d, S) = At(d, T)
  BY <1>3 DEF At
<1> QED
  BY <1>2, <1>3 DEF Count
-----------------------------------------------------------------------------
(* The invariant is inductive.                                              *)

LEMMA QuotaInit == Init => QuotaInv
<1> SUFFICES ASSUME Init PROVE QuotaInv
  OBVIOUS
<1>1. TypeOK /\ FirstSeen
  BY QuotaAssumption DEF Init, TypeOK, FirstSeen, Days
<1>2. \A d, S : "idle" \notin S => At(d, S) = {}
  BY DEF Init, At
<1>3. \A d : Count(d, Holding) = 0 /\ Count(d, Counted) = 0 /\ Count(d, {"allowed", "expire"}) = 0
  BY <1>2, FS_EmptySet DEF Count, Holding, Counted, Spent, Degraded
<1>4. ASSUME NEW d \in Days PROVE Bounded(d) /\ Expiring(d)
  <2>1. At(d, {"decr", "refused"}) = {} /\ used[d] = 0
    BY <1>2 DEF Init
  <2> QED
    BY <1>3, <2>1, QuotaAssumption DEF Bounded, Expiring
<1> QED
  BY <1>1, <1>4 DEF QuotaInv

\* Days other than that of the call that moves are not touched.
LEMMA OtherDays ==
    ASSUME QuotaInv, NEW c \in Calls, NEW w, Goes(c, w), day' = day,
           NEW d \in Days, d # day[c], used'[d] = used[d], d \in expires' <=> d \in expires
    PROVE  Bounded(d)' /\ Expiring(d)'
<1>1. \A S : At(d, S)' = At(d, S)
  BY CountMoves DEF QuotaInv
<1>2. \A S : Count(d, S)' = Count(d, S)
  BY <1>1 DEF Count
<1> QED
  BY <1>1, <1>2 DEF QuotaInv, Bounded, Expiring

\* A call begins: it is counted nowhere yet.
LEMMA BeginHolds == ASSUME QuotaInv, NEW c \in Calls, Begin(c) PROVE QuotaInv'
<1>1. TypeOK' /\ FirstSeen'
  BY DEF QuotaInv, TypeOK, FirstSeen, Begin, Goes, Days
<1>2. \A d, S : "idle" \notin S /\ "incr" \notin S => At(d, S)' = At(d, S)
  BY DEF QuotaInv, TypeOK, Begin, Goes, At
<1>3. \A d, S : "idle" \notin S /\ "incr" \notin S => Count(d, S)' = Count(d, S)
  BY <1>2 DEF Count
<1>4. ASSUME NEW d \in Days PROVE Bounded(d)' /\ Expiring(d)'
  <2>1. Bounded(d)'
    BY <1>2, <1>3 DEF QuotaInv, Bounded, Begin, Holding, Counted, Spent, Degraded
  <2>2. Expiring(d)'
    BY <1>2 DEF QuotaInv, Expiring, Begin
  <2> QED
    BY <2>1, <2>2
<1> QED
  BY <1>1, <1>4 DEF QuotaInv

\* The counter is raised: within the limit the call goes on, and there are as many
\* units held as calls; beyond it, Limit calls are before this one.
LEMMA IncrementsHolds == ASSUME QuotaInv, NEW c \in Calls, Increments(c) PROVE QuotaInv'
<1>0. PICK D \in Days : D = day[c]
  BY DEF QuotaInv, TypeOK
<1> DEFINE n == used[D] + 1
           w == IF First(n) THEN "expire" ELSE Verdict(n)
<1>1. /\ D = day[c] /\ used[D] \in Nat /\ pc[c] = "incr" /\ day' = day /\ expires' = expires
      /\ Goes(c, w) /\ used'[D] = n /\ \A d \in Days : d # D => used'[d] = used[d]
  BY <1>0 DEF QuotaInv, TypeOK, Increments
<1>2. /\ w \in {"expire", "allowed", "decr"}
      /\ w = "expire" <=> n = 1
      /\ w = "decr" => n > Limit
      /\ w = "allowed" => n <= Limit
  BY <1>1, QuotaAssumption DEF First, Verdict, IsOver
<1>3. TypeOK' /\ FirstSeen'
  <2>1. TypeOK'
    BY <1>1, <1>2 DEF QuotaInv, TypeOK, Increments, Goes
  <2>2. seen'[c] = n /\ \A k \in Calls : k # c => seen'[k] = seen[k] /\ pc'[k] = pc[k]
    BY <1>1 DEF QuotaInv, TypeOK, Increments, Goes
  <2>3. pc'[c] = w
    BY <1>1 DEF QuotaInv, TypeOK, Goes
  <2> QED
    BY <1>2, <2>1, <2>2, <2>3 DEF QuotaInv, FirstSeen
<1>4. ASSUME NEW d \in Days, d # D PROVE Bounded(d)' /\ Expiring(d)'
  BY <1>1, <1>4, OtherDays
<1>5. /\ Count(D, Holding)' = Count(D, Holding) + 1
      /\ Count(D, Counted)' = Count(D, Counted) + 1
  BY <1>1, <1>2, CountMoves DEF QuotaInv, Holding, Counted, Spent, Degraded
<1>6. /\ Count(D, Holding) \in Nat /\ Count(D, Counted) \in Nat /\ Count(D, Spent) \in Nat
      /\ Count(D, {"allowed", "expire"}) \in Nat
      /\ Count(D, {"allowed", "expire"}) <= Count(D, Holding)
  BY CountType, CountSubset DEF Holding
<1>7. Count(D, {"allowed", "expire"})' <= Limit
  <2>1. CASE w = "decr"
    <3>1. At(D, {"allowed", "expire"})' = At(D, {"allowed", "expire"})
      BY <1>1, <2>1, CountMoves DEF QuotaInv
    <3> QED
      BY <1>1, <3>1 DEF QuotaInv, Bounded, Count
  <2>2. CASE w # "decr"
    <3>1. Count(D, {"allowed", "expire"})' = Count(D, {"allowed", "expire"}) + 1
      BY <1>1, <1>2, <2>2, CountMoves DEF QuotaInv
    <3>2. Count(D, {"allowed", "expire"}) <= used[D]
      BY <1>1, <1>6 DEF QuotaInv, Bounded
    <3>3. n <= Limit
      BY <1>2, <2>2, QuotaAssumption
    <3> QED
      BY <1>1, <1>6, <3>1, <3>2, <3>3, QuotaAssumption
  <2> QED
    BY <2>1, <2>2
<1>8. At(D, {"decr", "refused"})' # {} => Count(D, Spent)' >= Limit
  <2>1. CASE w = "decr"
    <3>1. At(D, Spent)' = At(D, Spent)
      BY <1>1, <2>1, CountMoves DEF QuotaInv, Spent, Degraded
    <3>2. Count(D, Spent)' = Count(D, Spent)
      BY <3>1 DEF Count
    <3>3. Count(D, Spent) >= Limit
      <4>1. CASE At(D, {"decr", "refused"}) # {}
        BY <1>1, <4>1 DEF QuotaInv, Bounded
      <4>2. CASE At(D, {"decr", "refused"}) = {}
        <5>1. At(D, Counted \ Spent) = {}
          BY <4>2 DEF At, Counted
        <5>2. Count(D, Spent) = Count(D, Counted)
          BY <5>1, CountSubset DEF Counted
        <5> QED
          BY <1>1, <1>2, <1>6, <2>1, <5>2, QuotaAssumption DEF QuotaInv, Bounded
      <4> QED
        BY <4>1, <4>2
    <3> QED
      BY <3>2, <3>3
  <2>2. CASE w # "decr"
    <3>1. At(D, {"decr", "refused"})' = At(D, {"decr", "refused"})
      BY <1>1, <1>2, <2>2, CountMoves DEF QuotaInv
    <3>2. Count(D, Spent)' = Count(D, Spent) + 1
      BY <1>1, <1>2, <2>2, CountMoves DEF QuotaInv, Spent, Degraded
    <3> QED
      BY <1>1, <1>6, <3>1, <3>2, QuotaAssumption DEF QuotaInv, Bounded
  <2> QED
    BY <2>1, <2>2
<1>9. Bounded(D)'
  BY <1>1, <1>5, <1>6, <1>7, <1>8 DEF QuotaInv, Bounded
<1>10. Expiring(D)'
  <2> DEFINE W == {"expire", "crashed", "unseen", "unbounded"}
  <2>1. CASE n = 1
    <3>1. c \in At(D, W)'
      BY <1>1, <1>2, <2>1 DEF At, Goes, QuotaInv, TypeOK
    <3> QED
      BY <3>1 DEF Expiring
  <2>2. CASE n # 1
    <3>1. At(D, W)' = At(D, W)
      BY <1>1, <1>2, <2>2, CountMoves DEF QuotaInv
    <3> QED
      BY <1>1, <2>2, <3>1 DEF QuotaInv, Expiring
  <2> QED
    BY <2>1, <2>2
<1> QED
  BY <1>3, <1>4, <1>9, <1>10 DEF QuotaInv

\* The expiry is set: the first call of a day is within the limit.
LEMMA ExpiresHolds == ASSUME QuotaInv, NEW c \in Calls, Expires(c) PROVE QuotaInv'
<1>0. PICK D \in Days : D = day[c]
  BY DEF QuotaInv, TypeOK
<1>1. Goes(c, "allowed") /\ pc[c] = "expire" /\ day' = day /\ used' = used
  BY QuotaAssumption DEF QuotaInv, FirstSeen, Expires, Verdict, IsOver
<1>2. expires' = expires \cup {D}
  BY <1>0 DEF Expires
<1>3. TypeOK' /\ FirstSeen'
  BY <1>0, <1>1 DEF QuotaInv, TypeOK, FirstSeen, Expires, Goes
<1>4. ASSUME NEW d \in Days, d # D PROVE Bounded(d)' /\ Expiring(d)'
  BY <1>0, <1>1, <1>2, <1>4, OtherDays
<1>5. \A S : ("allowed" \in S <=> "expire" \in S) => At(D, S)' = At(D, S)
  BY <1>1, CountMoves DEF QuotaInv
<1>6. Bounded(D)'
  BY <1>1, <1>5 DEF QuotaInv, Bounded, Count, Holding, Counted, Spent, Degraded
<1>7. Expiring(D)'
  BY <1>2 DEF Expiring
<1> QED
  BY <1>3, <1>4, <1>6, <1>7 DEF QuotaInv

\* A unit is given back: who gives it back held one.
LEMMA DecrementsHolds == ASSUME QuotaInv, NEW c \in Calls, Decrements(c) PROVE QuotaInv'
<1>0. PICK D \in Days : D = day[c]
  BY DEF QuotaInv, TypeOK
<1>1. /\ Goes(c, "refused") /\ pc[c] = "decr" /\ day' = day /\ expires' = expires
      /\ used[D] \in Nat /\ used' = [used EXCEPT ![D] = @ - 1]
  BY <1>0 DEF QuotaInv, TypeOK, Decrements, GivenBack
<1>2. /\ Count(D, Holding)' = Count(D, Holding) - 1
      /\ Count(D, Counted)' = Count(D, Counted) - 1
  BY <1>0, <1>1, CountMoves DEF QuotaInv, Holding, Counted, Spent, Degraded
<1>3. \A S : ("decr" \in S <=> "refused" \in S) => At(D, S)' = At(D, S)
  BY <1>1, CountMoves DEF QuotaInv
<1>4a. /\ Count(D, {"allowed", "expire"})' = Count(D, {"allowed", "expire"})
       /\ Count(D, Spent)' = Count(D, Spent)
       /\ At(D, {"decr", "refused"})' = At(D, {"decr", "refused"})
  <2>1. At(D, {"allowed", "expire"})' = At(D, {"allowed", "expire"})
    BY <1>3
  <2>2. At(D, Spent)' = At(D, Spent)
    BY <1>3 DEF Spent, Degraded
  <2>3. At(D, {"decr", "refused"})' = At(D, {"decr", "refused"})
    BY <1>3
  <2> QED
    BY <2>1, <2>2, <2>3 DEF Count
<1>4. /\ Count(D, Holding) \in Nat /\ Count(D, Counted) \in Nat /\ Count(D, Holding)' \in Nat
      /\ Count(D, Holding) # 0
  <2>1. c \in At(D, Holding)
    BY <1>0, <1>1 DEF At, Holding
  <2>2. Count(D, Holding) # 0
    BY <2>1, CountType, FS_EmptySet DEF Count
  <2>3. Count(D, Holding) \in Nat /\ Count(D, Counted) \in Nat
    BY CountType
  <2> QED
    BY <1>2, <2>2, <2>3
<1>5. used'[D] \in Nat /\ used'[D] = used[D] - 1 /\ \A d \in Days : d # D => used'[d] = used[d]
  BY <1>1, <1>4 DEF QuotaInv, Bounded, TypeOK
<1>6. TypeOK' /\ FirstSeen'
  BY <1>1, <1>5 DEF QuotaInv, TypeOK, FirstSeen, Decrements, Goes
<1>7. ASSUME NEW d \in Days, d # D PROVE Bounded(d)' /\ Expiring(d)'
  BY <1>0, <1>1, <1>5, <1>7, OtherDays
<1>8. Bounded(D)'
  <2>1. Bounded(D)
    BY DEF QuotaInv
  <2> QED
    BY <2>1, <1>1, <1>2, <1>4a, <1>4, <1>5 DEF Bounded
<1>9. Expiring(D)'
  BY <1>1, <1>3, <1>5 DEF QuotaInv, Expiring
<1> QED
  BY <1>6, <1>7, <1>8, <1>9 DEF QuotaInv

\* Where a call is that a failed command let through, or that ended.
Left == {"unseen", "overrun", "unbounded", "crashed"}

\* A command fails or the process ends: from then on the call counts as one that may
\* hold a unit, whether or not its command took effect.
LEMMA LeavesHolds ==
    ASSUME QuotaInv, NEW c \in Calls, NEW w \in Left, Goes(c, w),
           pc[c] \in {"incr", "expire", "decr"},
           UNCHANGED <<today, day, seen>>,
           expires \subseteq expires', expires' \subseteq expires \cup {day[c]},
           \/ used' = used
           \/ pc[c] = "incr" /\ used' = [used EXCEPT ![day[c]] = @ + 1]
           \/ pc[c] = "decr" /\ used' = GivenBack(c),
           pc[c] = "incr" => w \in {"unseen", "crashed"},
           pc[c] = "expire" => w \in {"unbounded", "crashed"}
    PROVE  QuotaInv'
<1>0. PICK D \in Days : D = day[c]
  BY DEF QuotaInv, TypeOK
<1>1. /\ Count(D, Holding) \in Nat /\ Count(D, Counted) \in Nat /\ Count(D, Spent) \in Nat
      /\ Count(D, {"allowed", "expire"}) \in Nat /\ used[D] \in Nat
  BY CountType DEF QuotaInv, TypeOK
<1>2. /\ pc[c] = "incr" => /\ At(D, Holding)' = At(D, Holding)
                           /\ Count(D, Counted)' = Count(D, Counted) + 1
      /\ pc[c] # "incr" => /\ Count(D, Holding)' = Count(D, Holding) - 1
                           /\ At(D, Counted)' = At(D, Counted)
  BY <1>0, CountMoves DEF QuotaInv, Holding, Counted, Spent, Degraded, Left
<1>3. /\ At(D, {"allowed", "expire"})' = At(D, {"allowed", "expire"})
         \/ Count(D, {"allowed", "expire"})' = Count(D, {"allowed", "expire"}) - 1
      /\ At(D, Spent)' = At(D, Spent) \/ Count(D, Spent)' = Count(D, Spent) + 1
      /\ At(D, {"decr", "refused"})' # {} => At(D, {"decr", "refused"}) # {}
  <2>1. At(D, {"decr", "refused"})' \subseteq At(D, {"decr", "refused"})
    BY <1>0 DEF At, Goes, QuotaInv, TypeOK, Left
  <2>2. At(D, {"allowed", "expire"})' = At(D, {"allowed", "expire"})
         \/ Count(D, {"allowed", "expire"})' = Count(D, {"allowed", "expire"}) - 1
    BY <1>0, CountMoves DEF QuotaInv, Left
  <2>3. At(D, Spent)' = At(D, Spent) \/ Count(D, Spent)' = Count(D, Spent) + 1
    BY <1>0, CountMoves DEF QuotaInv, Spent, Degraded, Left
  <2> QED
    BY <2>1, <2>2, <2>3
<1>4. Count(D, Holding)' \in Nat /\ (pc[c] = "decr" => Count(D, Holding) # 0)
  <2>1. pc[c] = "decr" => c \in At(D, Holding) /\ IsFiniteSet(At(D, Holding))
    BY <1>0, CountType DEF At, Holding
  <2>2. pc[c] # "incr" => c \in At(D, Holding) /\ IsFiniteSet(At(D, Holding))
    BY <1>0, CountType DEF At, Holding
  <2>3. pc[c] # "incr" => Count(D, Holding) # 0
    BY <2>2, FS_EmptySet DEF Count
  <2> QED
    BY <1>1, <1>2, <2>3 DEF Count
<1>5. /\ \A d \in Days : d # D => used'[d] = used[d]
      /\ used'[D] \in Nat
      /\ Count(D, Holding)' <= used'[D] /\ used'[D] <= Count(D, Counted)'
  BY <1>0, <1>1, <1>2, <1>4 DEF QuotaInv, Bounded, TypeOK, GivenBack, Count
<1>6. TypeOK' /\ FirstSeen'
  BY <1>0, <1>5 DEF QuotaInv, TypeOK, FirstSeen, Goes, Left, GivenBack, Degraded
<1>7. ASSUME NEW d \in Days, d # D PROVE Bounded(d)' /\ Expiring(d)'
  BY <1>0, <1>5, <1>7, OtherDays
<1>8. Bounded(D)'
  BY <1>1, <1>3, <1>5, QuotaAssumption DEF QuotaInv, Bounded, Count
<1>9. Expiring(D)'
  <2> DEFINE W == {"expire", "crashed", "unseen", "unbounded"}
  <2>1. CASE w \in W
    <3>1. c \in At(D, W)'
      BY <1>0, <2>1 DEF At, Goes, QuotaInv, TypeOK
    <3> QED
      BY <3>1 DEF Expiring
  <2>2. CASE w \notin W
    <3>1. pc[c] = "decr" /\ At(D, W)' = At(D, W)
      BY <2>2, CountMoves DEF QuotaInv, Left
    <3>2. used'[D] <= used[D]
      BY <1>0, <1>1, <3>1 DEF QuotaInv, TypeOK, GivenBack
    <3> QED
      BY <1>1, <1>5, <3>1, <3>2 DEF QuotaInv, Expiring
  <2> QED
    BY <2>1, <2>2
<1> QED
  BY <1>6, <1>7, <1>8, <1>9 DEF QuotaInv

\* Every step keeps the invariant.
LEMMA QuotaStep == QuotaInv /\ [Next]_vars => QuotaInv'
<1> SUFFICES ASSUME QuotaInv, [Next]_vars PROVE QuotaInv'
  OBVIOUS
<1>1. ASSUME NEW c \in Calls, Fails(c) PROVE QuotaInv'
  <2> DEFINE w == CASE pc[c] = "incr" -> "unseen" [] pc[c] = "decr" -> "overrun" [] OTHER -> "unbounded"
  <2>1. /\ Goes(c, w) /\ w \in Left /\ pc[c] \in {"incr", "expire", "decr"}
        /\ pc[c] = "incr" => w = "unseen"
        /\ pc[c] = "expire" => w = "unbounded"
    BY <1>1 DEF Fails, Left
  <2>2. /\ UNCHANGED <<today, day, seen>>
        /\ expires \subseteq expires' /\ expires' \subseteq expires \cup {day[c]}
        /\ \/ used' = used
           \/ pc[c] = "incr" /\ used' = [used EXCEPT ![day[c]] = @ + 1]
           \/ pc[c] = "decr" /\ used' = GivenBack(c)
    BY <1>1 DEF Fails
  <2> HIDE DEF w
  <2> QED
    BY <2>1, <2>2, LeavesHolds
<1>2. ASSUME NEW c \in Calls, Crashes(c) PROVE QuotaInv'
  BY <1>2, LeavesHolds DEF Crashes, Left
<1>3. ASSUME Midnight \/ UNCHANGED vars PROVE QuotaInv'
  <2>1. UNCHANGED <<used, expires, pc, day, seen>> /\ today' \in Days
    BY <1>3, QuotaAssumption DEF QuotaInv, TypeOK, Midnight, vars, Days
  <2>2. \A d, S : At(d, S)' = At(d, S) /\ Count(d, S)' = Count(d, S)
    BY <2>1 DEF At, Count
  <2>3. FirstSeen' /\ \A d \in Days : Bounded(d)' /\ Expiring(d)'
    BY <2>1, <2>2 DEF QuotaInv, FirstSeen, Bounded, Expiring
  <2>4. TypeOK'
    BY <2>1 DEF QuotaInv, TypeOK
  <2> QED
    BY <2>3, <2>4 DEF QuotaInv
<1> QED
  BY <1>1, <1>2, <1>3, BeginHolds, IncrementsHolds, ExpiresHolds, DecrementsHolds DEF Next

\* The invariant says what the quota promises.
LEMMA QuotaFollows == QuotaInv => QuotaHolds
<1> SUFFICES ASSUME QuotaInv PROVE QuotaHolds
  OBVIOUS
<1>1. LimitHolds
  <2>1. \A d \in Days : Count(d, {"allowed"}) <= Count(d, {"allowed", "expire"})
    BY CountSubset
  <2> QED
    BY <2>1, CountType, QuotaAssumption DEF QuotaInv, Bounded, LimitHolds, Count
<1>2. RefusedForCause
  <2>1. \A d : At(d, {"refused"}) \subseteq At(d, {"decr", "refused"})
    BY DEF At
  <2> QED
    BY <2>1 DEF QuotaInv, Bounded, RefusedForCause, Count, Spent
<1>3. CounterIsReadable
  <2> SUFFICES ASSUME NEW d \in Days, At(d, {"incr", "expire", "decr"}) = {},
                      At(d, Degraded \cup {"crashed"}) = {}
               PROVE  used[d] <= Limit
    BY DEF CounterIsReadable
  <2>1. At(d, Counted) \subseteq At(d, {"allowed", "expire"})
    BY DEF At, Counted, Spent, Degraded
  <2>2. Count(d, Counted) <= Count(d, {"allowed", "expire"})
    BY <2>1, CountType, FS_Subset DEF Count
  <2> QED
    BY <2>2, CountType, QuotaAssumption DEF QuotaInv, Bounded, TypeOK
<1>4. CountersExpire
  BY DEF QuotaInv, Expiring, CountersExpire
<1> QED
  BY <1>1, <1>2, <1>3, <1>4 DEF QuotaInv, QuotaHolds

\* The quota of a day holds, for every number of concurrent calls and every limit
\* (llm_quota.py:99).
THEOREM QuotaIsKept == Spec => []QuotaHolds
<1>1. Spec => []QuotaInv
  BY QuotaInit, QuotaStep, PTL DEF Spec
<1> QED
  BY <1>1, QuotaFollows, PTL

-----------------------------------------------------------------------------
(* The configuration of the data sources.                                   *)

\* A configuration has for a market a setting of that market.
Config == {f \in [Markets -> Puts \cup {Default}] : \A m \in Markets : f[m] \in Puts => Market[f[m]] = m}
Saving(p) == p \in Puts /\ sourcePc[p] = "saving"

SourceTypes ==
    /\ Source!TypeOK
    /\ config \in Config /\ sources \in Config \cup {Missing}
    /\ reply \in [Source!Requests -> Config \cup {Missing}] /\ payload \in [Puts -> Config]
    /\ latest \in Config
    /\ \A r \in Source!Requests : sourcePc[r] = "saving" => r \in Puts

\* What a market may have: what was saved for it last, or a setting whose save is
\* late or has failed.
Sound(v, m) == v = latest[m] \/ v \in failed \cup Source!Unsaved

\* Where what is stored, was read, is in memory and is saved must be sound: in the
\* markets that were not lost, and not missed or stale.
StoredIsSound ==
    IF sources = Missing THEN latest = [m \in Markets |-> Default]
    ELSE \A m \in Markets \ lost : Sound(sources[m], m)
ReplyIsSound ==
    \A r \in Source!Requests : sourcePc[r] = "loaded" /\ reply[r] # Missing =>
        \A m \in Markets \ (lost \cup missed[r]) : Sound(reply[r][m], m)
ConfigIsSound ==
    \A m \in Markets \ (lost \cup stale) : Sound(config[m], m)
PayloadIsSound ==
    \A p \in Puts : Saving(p) =>
        /\ payload[p][Market[p]] = p
        /\ \A m \in Markets \ (lost \cup missed[p]) : m # Market[p] => Sound(payload[p][m], m)

\* While a setting is being saved, memory has it, or another that is not yet saved;
\* if memory has not, that is known.
SavingIsKnown ==
    \A p \in Puts : Saving(p) =>
        \/ config[Market[p]] \in failed \cup Source!Unsaved
        \/ Market[p] \in stale \cup missed[p]

SourceInv ==
    /\ SourceTypes
    /\ StoredIsSound /\ ReplyIsSound /\ ConfigIsSound /\ PayloadIsSound /\ SavingIsKnown

LEMMA SourceInit == Source!Init => SourceInv
<1> SUFFICES ASSUME Source!Init PROVE SourceInv
  OBVIOUS
<1>1. Source!Defaults \in Config
  BY SourceAssumption DEF Source!Defaults, Config
<1>2. SourceTypes
  <2>1. Source!TypeOK
    BY <1>1, SourceAssumption DEF Source!Init, Source!TypeOK, Config
  <2>2. /\ reply \in [Source!Requests -> Config \cup {Missing}] /\ payload \in [Puts -> Config]
        /\ \A r \in Source!Requests : sourcePc[r] # "saving"
    BY <1>1 DEF Source!Init
  <2> QED BY <1>1, <2>1, <2>2 DEF SourceTypes, Source!Init
<1>3. \A r \in Source!Requests : sourcePc[r] = "idle"
  BY DEF Source!Init
<1>4. \A p \in Puts : ~Saving(p)
  BY <1>3 DEF Saving, Source!Requests
<1>5. StoredIsSound /\ ConfigIsSound
  BY DEF Source!Init, Source!Defaults, StoredIsSound, ConfigIsSound, Sound
<1> QED BY <1>2, <1>3, <1>4, <1>5 DEF SourceInv, ReplyIsSound, PayloadIsSound, SavingIsKnown

\* A request that goes to another place: the others are where they were.
LEMMA SourceMoves ==
    ASSUME SourceInv, NEW r \in Source!Requests,
           NEW place \in {"loading", "loaded", "saving", "done"},
           place = "saving" => r \in Puts,
           sourcePc' = [sourcePc EXCEPT ![r] = place]
    PROVE  /\ sourcePc' \in [Source!Requests -> {"idle", "loading", "loaded", "saving", "done"}]
           /\ sourcePc'[r] = place
           /\ \A t \in Source!Requests : t # r => sourcePc'[t] = sourcePc[t]
           /\ \A p \in Puts : p # r => (Saving(p)' <=> Saving(p))
           /\ \A p \in Puts : p # r => (p \in Source!Unsaved' <=> p \in Source!Unsaved)
           /\ \A t \in Source!Requests : sourcePc'[t] = "saving" => t \in Puts
BY DEF SourceInv, SourceTypes, Source!TypeOK, Source!Unsaved, Source!Requests, Saving

\* What is sound stays sound as long as no save of that market lands.
LEMMA SoundStays ==
    ASSUME NEW m \in Markets, NEW v, Sound(v, m),
           latest'[m] = latest[m], failed \subseteq failed', Source!Unsaved \subseteq Source!Unsaved' \cup failed'
    PROVE  Sound(v, m)'
BY DEF Sound

\* What a request has loaded.
LEMMA LoadedIsSound ==
    ASSUME SourceInv, NEW r \in Source!Requests, sourcePc[r] = "loaded"
    PROVE  /\ Source!Loaded(r) \in Config
           /\ \A m \in Markets \ (lost \cup Source!Outdated(r)) : Sound(Source!Loaded(r)[m], m)
           /\ \A m \in Markets : reply[r] # Missing /\ m \notin lost \cup missed[r] => Sound(Source!Loaded(r)[m], m)
           /\ Source!Outdated(r) \subseteq Markets
<1>1. Source!Loaded(r) \in Config
  BY DEF SourceInv, SourceTypes, Source!Loaded
<1>2. Source!Outdated(r) \subseteq Markets
  BY SourceAssumption DEF SourceInv, SourceTypes, Source!TypeOK, Source!Outdated, Source!Unsaved
<1>3. CASE reply[r] = Missing
  BY <1>1, <1>2, <1>3 DEF SourceInv, ConfigIsSound, Source!Loaded, Source!Outdated
<1>4. CASE reply[r] # Missing
  BY <1>1, <1>2, <1>4 DEF SourceInv, ReplyIsSound, Source!Loaded, Source!Outdated
<1> QED BY <1>1, <1>2, <1>3, <1>4

LEMMA SetsHolds == ASSUME SourceInv, NEW p, Source!Sets(p) PROVE SourceInv'
<1> DEFINE new == [Source!Loaded(p) EXCEPT ![Market[p]] = p]
           own == {Market[p]}
<1>1. /\ p \in Puts /\ p \in Source!Requests /\ sourcePc[p] = "loaded"
      /\ config' = new /\ payload' = [payload EXCEPT ![p] = new]
      /\ missed' = [missed EXCEPT ![p] = (IF reply[p] = Missing THEN stale ELSE @) \ own]
      /\ stale' = Source!Outdated(p) \ own
      /\ sourcePc' = [sourcePc EXCEPT ![p] = "saving"]
      /\ UNCHANGED <<sources, reply, latest, lost, failed, restarts>>
  BY DEF Source!Sets, Source!Saves, Source!Requests
<1>2. /\ Market[p] \in Markets /\ new \in Config /\ new[Market[p]] = p
      /\ \A m \in Markets : m # Market[p] => new[m] = Source!Loaded(p)[m]
  BY <1>1, LoadedIsSound, SourceAssumption DEF Config
<1>3. /\ missed' \in [Source!Requests -> SUBSET Markets] /\ stale' \subseteq Markets
      /\ missed'[p] = (IF reply[p] = Missing THEN stale ELSE missed[p]) \ own
      /\ \A r \in Source!Requests : r # p => missed'[r] = missed[r]
  BY <1>1, LoadedIsSound DEF SourceInv, SourceTypes, Source!TypeOK
<1> HIDE DEF new
<1>4. SourceTypes'
  <2>1. config' \in Config /\ payload' \in [Puts -> Config]
    BY <1>1, <1>2 DEF SourceInv, SourceTypes
  <2>2. config' \in [Markets -> Puts \cup {Default}]
    BY <2>1 DEF Config
  <2> QED BY <1>1, <1>3, <2>1, <2>2, SourceMoves DEF SourceInv, SourceTypes, Source!TypeOK
<1>5. Saving(p)' /\ p \in Source!Unsaved' /\ Source!Unsaved \subseteq Source!Unsaved'
  BY <1>1, SourceMoves DEF Saving, Source!Unsaved
<1>6. \A m \in Markets : \A v : Sound(v, m) => Sound(v, m)'
  BY <1>1, <1>5, SoundStays
<1>7. StoredIsSound' /\ ReplyIsSound'
  <2>1. StoredIsSound'
    BY <1>1, <1>6 DEF SourceInv, StoredIsSound
  <2>2. ReplyIsSound'
    BY <1>1, <1>3, <1>6, SourceMoves DEF SourceInv, ReplyIsSound
  <2> QED BY <2>1, <2>2
<1>8. ConfigIsSound'
  <2> SUFFICES ASSUME NEW m \in Markets, m \notin lost', m \notin stale' PROVE Sound(config[m], m)'
    BY DEF ConfigIsSound
  <2>1. CASE m = Market[p]
    BY <1>1, <1>2, <1>5, <2>1 DEF Sound
  <2>2. CASE m # Market[p]
    <3>1. m \notin lost \cup Source!Outdated(p) BY <1>1, <2>2
    <3>2. Sound(Source!Loaded(p)[m], m) BY <1>1, <3>1, LoadedIsSound
    <3>3. config'[m] = Source!Loaded(p)[m] BY <1>1, <1>2, <2>2
    <3> QED BY <1>6, <3>2, <3>3 DEF Sound
  <2> QED BY <2>1, <2>2
<1>9. PayloadIsSound'
  <2> SUFFICES ASSUME NEW q \in Puts, Saving(q)'
               PROVE  /\ payload'[q][Market[q]] = q
                      /\ \A m \in Markets \ (lost' \cup missed'[q]) : m # Market[q] => Sound(payload[q][m], m)'
    BY SourceAssumption DEF PayloadIsSound, Sound
  <2>1. CASE q = p
    <3>1. payload'[p] = new BY <1>1, <1>2 DEF SourceInv, SourceTypes
    <3>2. ASSUME NEW m \in Markets, m \notin lost', m \notin missed'[p], m # Market[p]
          PROVE  Sound(payload[p][m], m)'
      <4>1. Sound(Source!Loaded(p)[m], m)
        <5>1. CASE reply[p] = Missing
          <6>1. m \notin lost \cup Source!Outdated(p) BY <1>1, <1>3, <3>2, <5>1 DEF Source!Outdated
          <6> QED BY <1>1, <6>1, LoadedIsSound
        <5>2. CASE reply[p] # Missing
          <6>1. m \notin lost \cup missed[p] BY <1>1, <1>3, <3>2, <5>2
          <6> QED BY <1>1, <5>2, <6>1, LoadedIsSound
        <5> QED BY <5>1, <5>2
      <4>2. payload'[p][m] = Source!Loaded(p)[m] BY <1>2, <3>1, <3>2
      <4> QED BY <1>6, <4>1, <4>2 DEF Sound
    <3> QED BY <1>2, <2>1, <3>1, <3>2
  <2>2. CASE q # p
    <3>1. Saving(q) /\ payload'[q] = payload[q] /\ missed'[q] = missed[q] /\ lost' = lost
      BY <1>1, <1>3, <2>2, SourceMoves DEF SourceInv, SourceTypes, Source!Requests
    <3>2. /\ payload[q][Market[q]] = q
          /\ \A m \in Markets \ (lost \cup missed[q]) : m # Market[q] => Sound(payload[q][m], m)
      BY <3>1 DEF SourceInv, PayloadIsSound
    <3> QED BY <1>6, <3>1, <3>2 DEF Sound
  <2> QED BY <2>1, <2>2
<1>10. SavingIsKnown'
  <2> SUFFICES ASSUME NEW q \in Puts, Saving(q)'
               PROVE  \/ config'[Market[q]] \in failed' \cup Source!Unsaved'
                      \/ Market[q] \in stale' \cup missed'[q]
    BY SourceAssumption DEF SavingIsKnown
  <2>1. CASE Market[q] = Market[p]
    BY <1>1, <1>2, <1>5, <2>1
  <2>2. CASE Market[q] # Market[p]
    <3>1. q # p BY <2>2
    <3>2. Saving(q) /\ missed'[q] = missed[q] /\ Market[q] \in Markets
      BY <1>1, <1>3, <3>1, SourceMoves, SourceAssumption DEF Source!Requests
    <3>3. CASE reply[p] = Missing
      <4>1. stale' = stale \ own BY <1>1, <3>3 DEF Source!Outdated
      <4>2. config'[Market[q]] = config[Market[q]] BY <1>1, <1>2, <2>2, <3>2, <3>3 DEF Source!Loaded
      <4> QED BY <1>1, <1>5, <2>2, <3>2, <4>1, <4>2 DEF SourceInv, SavingIsKnown
    <3>4. CASE reply[p] # Missing
      <4>1. Market[q] \in Source!Outdated(p)
        BY <3>2, <3>4 DEF Source!Outdated, Source!Unsaved, Saving
      <4> QED BY <1>1, <2>2, <4>1
    <3> QED BY <3>3, <3>4
  <2> QED BY <2>1, <2>2
<1> QED BY <1>4, <1>7, <1>8, <1>9, <1>10 DEF SourceInv

LEMMA ShowsHolds == ASSUME SourceInv, NEW g, Source!Shows(g) PROVE SourceInv'
<1>1. /\ g \in Source!Requests /\ sourcePc[g] = "loaded" /\ config' = Source!Loaded(g)
      /\ stale' = Source!Outdated(g)
      /\ sourcePc' = [sourcePc EXCEPT ![g] = "done"]
      /\ UNCHANGED <<sources, reply, payload, missed, latest, lost, failed, restarts>>
  BY DEF Source!Shows, Source!Requests
<1>2. SourceTypes'
  <2>1. config' \in Config /\ config' \in [Markets -> Puts \cup {Default}] /\ stale' \subseteq Markets
    BY <1>1, LoadedIsSound DEF Config
  <2> QED BY <1>1, <2>1, SourceMoves DEF SourceInv, SourceTypes, Source!TypeOK
<1>3. /\ \A q \in Puts : Saving(q)' <=> Saving(q)
      /\ Source!Unsaved' = Source!Unsaved
  BY <1>1, SourceMoves DEF Saving, Source!Unsaved
<1>4. \A m \in Markets : \A v : Sound(v, m) => Sound(v, m)'
  BY <1>1, <1>3, SoundStays
<1>5. StoredIsSound' /\ ReplyIsSound'
  <2>1. StoredIsSound' BY <1>1, <1>4 DEF SourceInv, StoredIsSound
  <2>2. ReplyIsSound' BY <1>1, <1>4, SourceMoves DEF SourceInv, ReplyIsSound
  <2> QED BY <2>1, <2>2
<1>6. ConfigIsSound'
  BY <1>1, <1>3, LoadedIsSound DEF ConfigIsSound, Sound
<1>7. PayloadIsSound'
  BY <1>1, <1>3 DEF SourceInv, PayloadIsSound, Sound
<1>8. SavingIsKnown'
  <2> SUFFICES ASSUME NEW q \in Puts, Saving(q)
               PROVE  \/ config'[Market[q]] \in failed \cup Source!Unsaved
                      \/ Market[q] \in stale' \cup missed[q]
    BY <1>1, <1>3 DEF SavingIsKnown
  <2>1. CASE reply[g] = Missing
    BY <1>1, <2>1 DEF SourceInv, SavingIsKnown, Source!Loaded, Source!Outdated
  <2>2. CASE reply[g] # Missing
    BY <1>1, <2>2 DEF Source!Outdated, Source!Unsaved, Saving
  <2> QED BY <2>1, <2>2
<1> QED BY <1>2, <1>5, <1>6, <1>7, <1>8 DEF SourceInv

LEMMA SaveLandsHolds == ASSUME SourceInv, NEW p, Source!SaveLands(p) PROVE SourceInv'
<1> DEFINE a == Market[p]
<1>1. /\ p \in Puts /\ p \in Source!Requests /\ sourcePc[p] = "saving" /\ Saving(p)
      /\ sources' = payload[p] /\ latest' = [latest EXCEPT ![a] = p]
      /\ missed' = [r \in Source!Requests |-> IF r # p /\ sourcePc[r] \in {"loaded", "saving"}
                                              THEN missed[r] \cup {a} ELSE missed[r]]
      /\ lost' = (lost \cup missed[p]) \ {a}
      /\ stale' = stale \cup (missed[p] \cap {a})
      /\ sourcePc' = [sourcePc EXCEPT ![p] = "done"]
      /\ UNCHANGED <<config, reply, payload, failed, restarts>>
  BY DEF Source!SaveLands, Source!Requests, Saving
<1>2. /\ a \in Markets /\ payload[p] \in Config /\ payload[p][a] = p
      /\ latest' \in Config /\ latest'[a] = p
      /\ \A m \in Markets : m # a => latest'[m] = latest[m]
  BY <1>1, SourceAssumption DEF SourceInv, SourceTypes, PayloadIsSound, Config
<1> HIDE DEF a
<1>3. SourceTypes'
  <2>1. missed' \in [Source!Requests -> SUBSET Markets] /\ stale' \subseteq Markets /\ lost' \subseteq Markets
    BY <1>1, <1>2 DEF SourceInv, SourceTypes, Source!TypeOK
  <2>2. sources' \in Config /\ sources' \in [Markets -> Puts \cup {Default}]
    BY <1>1, <1>2 DEF Config
  <2> QED BY <1>1, <1>2, <2>1, <2>2, SourceMoves DEF SourceInv, SourceTypes, Source!TypeOK
<1>4. /\ \A q \in Puts : Saving(q)' => Saving(q) /\ q # p
      /\ Source!Unsaved' = Source!Unsaved \ {p}
  BY <1>1, SourceMoves DEF Saving, Source!Unsaved
<1>5. ASSUME NEW m \in Markets, m # a, NEW f \in Config, Sound(f[m], m)
      PROVE  f[m] = latest'[m] \/ f[m] \in failed' \cup Source!Unsaved'
  <2>1. f[m] # p BY <1>1, <1>5 DEF Config, a
  <2> QED BY <1>1, <1>2, <1>4, <1>5, <2>1 DEF Sound
<1>6. StoredIsSound'
  <2>1. sources' # Missing BY <1>3, <1>1, <1>2, SourceAssumption DEF Config
  <2>2. ASSUME NEW m \in Markets, m \notin lost'
        PROVE  sources'[m] = latest'[m] \/ sources'[m] \in failed' \cup Source!Unsaved'
    <3>1. CASE m = a BY <1>1, <1>2, <3>1
    <3>2. CASE m # a
      <4>1. m \notin lost \cup missed[p] BY <1>1, <2>2, <3>2
      <4>2. Sound(payload[p][m], m) BY <1>1, <3>2, <4>1 DEF SourceInv, PayloadIsSound, a
      <4> QED BY <1>1, <1>2, <1>5, <3>2, <4>2
    <3> QED BY <3>1, <3>2
  <2> QED BY <2>1, <2>2 DEF StoredIsSound, Sound
<1>7. ReplyIsSound'
  <2> SUFFICES ASSUME NEW r \in Source!Requests, sourcePc'[r] = "loaded", reply'[r] # Missing,
                      NEW m \in Markets, m \notin lost', m \notin missed'[r]
               PROVE  reply'[r][m] = latest'[m] \/ reply'[r][m] \in failed' \cup Source!Unsaved'
    BY DEF ReplyIsSound, Sound
  <2>1. r # p /\ sourcePc[r] = "loaded" BY <1>1, SourceMoves
  <2>2. m # a /\ m \notin missed[r] /\ m \notin lost BY <1>1, <2>1
  <2>3. reply[r] \in Config /\ Sound(reply[r][m], m)
    BY <1>1, <2>1, <2>2 DEF SourceInv, SourceTypes, ReplyIsSound
  <2> QED BY <1>1, <1>5, <2>2, <2>3
<1>8. PayloadIsSound'
  <2> SUFFICES ASSUME NEW q \in Puts, Saving(q)'
               PROVE  /\ payload'[q][Market[q]] = q
                      /\ \A m \in Markets \ (lost' \cup missed'[q]) : m # Market[q] =>
                           payload'[q][m] = latest'[m] \/ payload'[q][m] \in failed' \cup Source!Unsaved'
    BY SourceAssumption DEF PayloadIsSound, Sound
  <2>1. Saving(q) /\ q # p /\ q \in Source!Requests BY <1>4 DEF Source!Requests
  <2>2. payload[q][Market[q]] = q /\ payload[q] \in Config
    BY <2>1 DEF SourceInv, PayloadIsSound, SourceTypes
  <2>3. ASSUME NEW m \in Markets, m \notin lost', m \notin missed'[q], m # Market[q]
        PROVE  payload'[q][m] = latest'[m] \/ payload'[q][m] \in failed' \cup Source!Unsaved'
    <3>1. m # a /\ m \notin missed[q] /\ m \notin lost BY <1>1, <2>1, <2>3 DEF Saving
    <3>2. Sound(payload[q][m], m) BY <2>1, <2>3, <3>1 DEF SourceInv, PayloadIsSound
    <3> QED BY <1>1, <1>5, <2>2, <3>1, <3>2
  <2> QED BY <1>1, <2>2, <2>3
<1>9. config \in Config BY DEF SourceInv, SourceTypes
<1>10. ConfigIsSound'
  <2> SUFFICES ASSUME NEW m \in Markets, m \notin lost', m \notin stale'
               PROVE  config'[m] = latest'[m] \/ config'[m] \in failed' \cup Source!Unsaved'
    BY DEF ConfigIsSound, Sound
  <2>1. CASE m = a
    <3>1. a \notin stale \cup missed[p] BY <1>1, <2>1
    <3>2. config[a] \in failed \cup Source!Unsaved BY <1>1, <3>1 DEF SourceInv, SavingIsKnown, a
    <3> QED BY <1>1, <1>2, <1>4, <2>1, <3>2
  <2>2. CASE m # a
    <3>1. Sound(config[m], m) BY <1>1, <2>2 DEF SourceInv, ConfigIsSound
    <3> QED BY <1>1, <1>5, <1>9, <2>2, <3>1
  <2> QED BY <2>1, <2>2
<1>11. SavingIsKnown'
  <2> SUFFICES ASSUME NEW q \in Puts, Saving(q)'
               PROVE  \/ config'[Market[q]] \in failed' \cup Source!Unsaved'
                      \/ Market[q] \in stale' \cup missed'[q]
    BY SourceAssumption DEF SavingIsKnown
  <2>1. Saving(q) /\ q # p /\ q \in Source!Requests /\ Market[q] \in Markets
    BY <1>4, SourceAssumption DEF Source!Requests
  <2>2. missed[q] \subseteq missed'[q] /\ a \in missed'[q] BY <1>1, <2>1 DEF Saving
  <2>3. CASE config[Market[q]] = p
    <3>1. Market[q] = a BY <1>1, <1>9, <2>1, <2>3 DEF Config, a
    <3> QED BY <2>2, <3>1
  <2>4. CASE config[Market[q]] # p
    BY <1>1, <1>4, <2>1, <2>2, <2>4 DEF SourceInv, SavingIsKnown
  <2> QED BY <2>3, <2>4
<1> QED BY <1>3, <1>6, <1>7, <1>8, <1>10, <1>11 DEF SourceInv

LEMMA SaveFailsHolds == ASSUME SourceInv, NEW p, Source!SaveFails(p) PROVE SourceInv'
<1>1. /\ p \in Puts /\ p \in Source!Requests /\ sourcePc[p] = "saving"
      /\ failed' = failed \cup {p} /\ sourcePc' = [sourcePc EXCEPT ![p] = "done"]
      /\ UNCHANGED <<config, sources, reply, payload, missed, latest, stale, lost, restarts>>
  BY DEF Source!SaveFails, Source!Requests
<1>2. SourceTypes'
  BY <1>1, SourceMoves DEF SourceInv, SourceTypes, Source!TypeOK
<1>3. /\ \A q \in Puts : Saving(q)' => Saving(q)
      /\ Source!Unsaved \subseteq Source!Unsaved' \cup failed' /\ failed \subseteq failed'
  BY <1>1, SourceMoves DEF Saving, Source!Unsaved
<1>4. \A m \in Markets : \A v : Sound(v, m) => Sound(v, m)'
  BY <1>1, <1>3, SoundStays
<1>5. StoredIsSound' BY <1>1, <1>4 DEF SourceInv, StoredIsSound
<1>6. ReplyIsSound' BY <1>1, <1>4, SourceMoves DEF SourceInv, ReplyIsSound
<1>7. ConfigIsSound' BY <1>1, <1>4 DEF SourceInv, ConfigIsSound
<1>8. PayloadIsSound'
  <2> SUFFICES ASSUME NEW q \in Puts, Saving(q)'
               PROVE  /\ payload[q][Market[q]] = q
                      /\ \A m \in Markets \ (lost \cup missed[q]) : m # Market[q] => Sound(payload[q][m], m)'
    BY <1>1, SourceAssumption DEF PayloadIsSound, Sound
  <2> QED BY <1>1, <1>3, <1>4 DEF SourceInv, PayloadIsSound
<1>9. SavingIsKnown'
  <2> SUFFICES ASSUME NEW q \in Puts, Saving(q)'
               PROVE  \/ config[Market[q]] \in failed' \cup Source!Unsaved'
                      \/ Market[q] \in stale \cup missed[q]
    BY <1>1, SourceAssumption DEF SavingIsKnown
  <2> QED BY <1>3 DEF SourceInv, SavingIsKnown
<1> QED BY <1>2, <1>5, <1>6, <1>7, <1>8, <1>9 DEF SourceInv

LEMMA BeginReadsHolds ==
    ASSUME SourceInv, NEW r \in Source!Requests, Source!Begin(r) \/ Source!Reads(r)
    PROVE  SourceInv'
<1> DEFINE place == IF sourcePc[r] = "idle" THEN "loading" ELSE "loaded"
<1>1. /\ sourcePc' = [sourcePc EXCEPT ![r] = place] /\ sourcePc[r] \in {"idle", "loading"}
      /\ UNCHANGED <<config, sources, payload, missed, latest, stale, lost, failed, restarts>>
      /\ \/ place = "loading" /\ reply' = reply
         \/ place = "loaded" /\ \E v \in {sources, Missing} : reply' = [reply EXCEPT ![r] = v]
  BY DEF Source!Begin, Source!Reads
<1>2. place \in {"loading", "loaded"}
  OBVIOUS
<1> HIDE DEF place
<1>3. /\ \A q \in Puts : Saving(q)' <=> Saving(q)
      /\ Source!Unsaved' = Source!Unsaved
  BY <1>1, <1>2, SourceMoves DEF Saving, Source!Unsaved
<1>4. /\ reply' \in [Source!Requests -> Config \cup {Missing}]
      /\ \A t \in Source!Requests : t # r => reply'[t] = reply[t]
      /\ place = "loaded" => reply'[r] \in {sources, Missing}
  BY <1>1 DEF SourceInv, SourceTypes
<1>5. SourceTypes'
  BY <1>1, <1>2, <1>4, SourceMoves DEF SourceInv, SourceTypes, Source!TypeOK
<1>6. \A m \in Markets : \A v : Sound(v, m) => Sound(v, m)'
  BY <1>1, <1>3, SoundStays
<1>7. StoredIsSound' BY <1>1, <1>6 DEF SourceInv, StoredIsSound
<1>8. ReplyIsSound'
  <2> SUFFICES ASSUME NEW t \in Source!Requests, sourcePc'[t] = "loaded", reply'[t] # Missing,
                      NEW m \in Markets, m \notin lost, m \notin missed[t]
               PROVE  Sound(reply[t][m], m)'
    BY <1>1 DEF ReplyIsSound
  <2>1. CASE t = r
    <3>1. place = "loaded" BY <1>1, <1>2, <2>1, SourceMoves
    <3>2. reply'[r] = sources /\ sources # Missing BY <1>4, <2>1, <3>1
    <3>3. Sound(sources[m], m) BY <3>2 DEF SourceInv, StoredIsSound
    <3> QED BY <1>1, <1>3, <2>1, <3>2, <3>3 DEF Sound
  <2>2. CASE t # r
    <3>1. sourcePc[t] = "loaded" /\ reply'[t] = reply[t] BY <1>1, <1>2, <1>4, <2>2, SourceMoves
    <3>2. Sound(reply[t][m], m) BY <3>1 DEF SourceInv, ReplyIsSound
    <3> QED BY <1>1, <1>3, <3>1, <3>2 DEF Sound
  <2> QED BY <2>1, <2>2
<1>9. ConfigIsSound' BY <1>1, <1>6 DEF SourceInv, ConfigIsSound
<1>10. PayloadIsSound' BY <1>1, <1>3 DEF SourceInv, PayloadIsSound, Sound
<1>11. SavingIsKnown' BY <1>1, <1>3 DEF SourceInv, SavingIsKnown
<1> QED BY <1>5, <1>7, <1>8, <1>9, <1>10, <1>11 DEF SourceInv

LEMMA RestartHolds == ASSUME SourceInv, Source!Restart PROVE SourceInv'
<1>1. PICK v \in {sources, Missing} :
        /\ config' = IF v = Missing THEN [m \in Markets |-> Default] ELSE v
        /\ stale' = IF v = sources THEN {} ELSE Markets
  BY DEF Source!Restart, Source!Defaults
<1>2. /\ restarts < MaxRestarts /\ restarts' = restarts + 1
      /\ sourcePc' = [r \in Source!Requests |-> IF r \in Source!UnderWay THEN "done" ELSE sourcePc[r]]
      /\ failed' = failed \cup (Source!UnderWay \cap Puts)
      /\ UNCHANGED <<sources, reply, payload, missed, latest, lost>>
  BY DEF Source!Restart
<1>3. \A r \in Source!Requests : sourcePc'[r] \in {"idle", "done"}
  BY <1>2 DEF SourceInv, SourceTypes, Source!TypeOK, Source!UnderWay
<1>4. SourceTypes'
  <2>1. config' \in Config /\ config' \in [Markets -> Puts \cup {Default}] /\ stale' \subseteq Markets
    BY <1>1, SourceAssumption DEF SourceInv, SourceTypes, Config
  <2>2. restarts' \in 0..MaxRestarts /\ failed' \subseteq Puts
    BY <1>2, SourceAssumption DEF SourceInv, SourceTypes, Source!TypeOK
  <2>3. sourcePc' \in [Source!Requests -> {"idle", "loading", "loaded", "saving", "done"}]
    BY <1>2, <1>3
  <2> QED BY <1>2, <1>3, <2>1, <2>2, <2>3 DEF SourceInv, SourceTypes, Source!TypeOK, Source!Requests
<1>5. ReplyIsSound' /\ PayloadIsSound' /\ SavingIsKnown'
  <2>1. \A p \in Puts : ~Saving(p)' BY <1>3 DEF Saving, Source!Requests
  <2>2. ReplyIsSound' BY <1>3 DEF ReplyIsSound
  <2>3. PayloadIsSound' /\ SavingIsKnown' BY <2>1 DEF PayloadIsSound, SavingIsKnown
  <2> QED BY <2>2, <2>3
<1>6. Source!Unsaved \subseteq failed' /\ failed \subseteq failed'
  BY <1>2 DEF Source!Unsaved, Source!UnderWay, Source!Requests
<1>7. \A m \in Markets : \A u : Sound(u, m) => Sound(u, m)'
  BY <1>2, <1>6, SoundStays
<1>8. StoredIsSound' BY <1>2, <1>7 DEF SourceInv, StoredIsSound
<1>9. ConfigIsSound'
  <2>1. CASE v # sources BY <1>1, <2>1 DEF ConfigIsSound
  <2>2. CASE v = sources /\ sources = Missing
    <3>1. config' = latest' BY <1>1, <1>2, <2>2 DEF SourceInv, StoredIsSound
    <3> QED BY <3>1 DEF ConfigIsSound, Sound
  <2>3. CASE v = sources /\ sources # Missing
    <3>1. config' = sources BY <1>1, <2>3
    <3>2. \A m \in Markets \ lost : Sound(sources[m], m) BY <2>3 DEF SourceInv, StoredIsSound
    <3> QED BY <1>2, <1>6, <3>1, <3>2 DEF ConfigIsSound, Sound
  <2> QED BY <2>1, <2>2, <2>3
<1> QED BY <1>4, <1>5, <1>8, <1>9 DEF SourceInv

LEMMA SourceStep == SourceInv /\ [Source!Next]_(Source!vars) => SourceInv'
<1> SUFFICES ASSUME SourceInv, [Source!Next]_(Source!vars) PROVE SourceInv'
  OBVIOUS
<1>1. CASE UNCHANGED Source!vars
  BY <1>1 DEF Source!vars, Source!requests, SourceInv, SourceTypes, Source!TypeOK,
       Source!Unsaved, Source!Requests, Saving, Sound, StoredIsSound, ReplyIsSound, ConfigIsSound,
       PayloadIsSound, SavingIsKnown
<1> QED BY <1>1, BeginReadsHolds, ShowsHolds, SetsHolds, SaveLandsHolds, SaveFailsHolds, RestartHolds
        DEF Source!Next

\* A stored setting survives every request but a PUT for another market that read
\* before it was saved, or could not read and took what memory had; and what the
\* process serves is stored, but for what is named in MemoryIsStored
\* (source_registry.py:155).
THEOREM SettingsStayStored == Source!Spec => []SettingsAreStored
<1>1. SourceInv => SettingsAreStored
  <2> SUFFICES ASSUME SourceInv PROVE SettingsAreStored
    OBVIOUS
  <2>1. Source!StoredSettingsKept
    BY DEF SourceInv, StoredIsSound, Sound, Source!StoredSettingsKept
  <2>2. Source!MemoryIsStored
    <3> SUFFICES ASSUME Source!UnderWay = {}, sources # Missing, NEW m \in Markets, m \notin lost, m \notin stale
                 PROVE  config[m] = sources[m] \/ config[m] \in failed \/ sources[m] \in failed
      BY DEF Source!MemoryIsStored
    <3>1. Source!Unsaved = {} BY DEF Source!Unsaved, Source!UnderWay, Source!Requests
    <3>2. Sound(config[m], m) /\ Sound(sources[m], m) BY DEF SourceInv, ConfigIsSound, StoredIsSound
    <3> QED BY <3>1, <3>2 DEF Sound
  <2> QED BY <2>1, <2>2 DEF SourceInv, SourceTypes, SettingsAreStored, Source!SettingsAreStored
<1> QED BY <1>1, SourceInit, SourceStep, PTL DEF Source!Spec

-----------------------------------------------------------------------------
(* The audit trail.  An entry is counted as soon as it has Redis behind it, *)
(* and the end of an open breaker is tied to the last failure.              *)

AuditTypes ==
  /\ auditPc \in [Entries -> {"idle", "redis", "postgres", "done", "cut"}]
  /\ misses \in [redis : Nat, postgres : Nat, skipped : Nat]
  /\ retryAfter \in Nat \cup {None}
  /\ clock \in Nat /\ lastFailure \in Nat \cup {None}

\* Entries that Redis has answered and nobody has cancelled.
Past == {c \in Entries : auditPc[c] \in {"postgres", "done"}}

StreamCounted == Cardinality(Past \ trail) <= misses.redis
TableCounted == Cardinality(Trail!Ended \ rows) <= misses.postgres + misses.skipped

\* An open breaker ends within a cooldown of the last failure.
BreakerIsRecent ==
  /\ lastFailure # None => lastFailure <= clock
  /\ retryAfter # None => lastFailure # None /\ retryAfter <= lastFailure + Cooldown

TrailInv == AuditTypes /\ StreamCounted /\ TableCounted /\ BreakerIsRecent /\ ~unjust

-----------------------------------------------------------------------------
\* A part of a finite set has no more elements than the set.
LEMMA PartIsSmaller ==
  ASSUME NEW S, NEW T, IsFiniteSet(S), T \subseteq S
  PROVE  /\ Cardinality(T) \in Nat /\ Cardinality(S) \in Nat
         /\ Cardinality(T) <= Cardinality(S)
BY FS_Subset, FS_CardinalityType

\* One element more counts at most one.
LEMMA OneMore ==
  ASSUME NEW S, NEW T, NEW c, IsFiniteSet(S), T \subseteq S \cup {c}
  PROVE  /\ Cardinality(T) \in Nat /\ Cardinality(S) \in Nat
         /\ Cardinality(T) <= Cardinality(S) + 1
<1>1. /\ IsFiniteSet(S \cup {c}) /\ Cardinality(S) \in Nat
      /\ Cardinality(S \cup {c}) = Cardinality(S)
         \/ Cardinality(S \cup {c}) = Cardinality(S) + 1
  BY FS_AddElement, FS_CardinalityType
<1>2. Cardinality(T) \in Nat /\ Cardinality(T) <= Cardinality(S \cup {c})
  BY <1>1, PartIsSmaller
<1> QED BY <1>1, <1>2

LEMMA TrailInit == Trail!Init => TrailInv
<1> SUFFICES ASSUME Trail!Init PROVE TrailInv
  OBVIOUS
<1>1. Past \ trail = {} /\ Trail!Ended \ rows = {}
  BY DEF Trail!Init, Past, Trail!Ended
<1>2. Cardinality(Past \ trail) = 0 /\ Cardinality(Trail!Ended \ rows) = 0
  BY <1>1, FS_EmptySet
<1> QED BY <1>2, AuditAssumption
       DEF Trail!Init, TrailInv, AuditTypes, StreamCounted, TableCounted, BreakerIsRecent

\* The way to the table, after Redis has answered: what matters is whether the stream
\* or the counter has the entry.
LEMMA ToPostgresKeeps ==
  ASSUME TrailInv, NEW c \in Entries, auditPc[c] = "redis",
         NEW counted \in [redis : Nat, postgres : Nat, skipped : Nat],
         Trail!ToPostgres(c, counted), UNCHANGED rows,
         trail \subseteq trail',
         counted.postgres = misses.postgres, counted.skipped = misses.skipped,
         \/ c \in trail' /\ counted.redis = misses.redis
         \/ counted.redis = misses.redis + 1
  PROVE  TrailInv'
<1> USE AuditAssumption DEF TrailInv, AuditTypes
<1>1. IsFiniteSet(Past \ trail) /\ IsFiniteSet(Trail!Ended \ rows)
  BY FS_Subset DEF Past, Trail!Ended
<1>2. CASE Trail!BreakerOpen
  <2>1. /\ auditPc' = [auditPc EXCEPT ![c] = "done"]
        /\ misses' = [counted EXCEPT !.skipped = @ + 1]
        /\ unjust' = (unjust \/ lastFailure = None \/ clock >= lastFailure + Cooldown)
        /\ UNCHANGED <<failures, retryAfter, clock, lastFailure>>
    BY <1>2 DEF Trail!ToPostgres, Trail!breakerVars
  <2>2. AuditTypes' /\ misses'.redis = counted.redis
        /\ misses'.postgres + misses'.skipped = misses.postgres + misses.skipped + 1
    BY <2>1
  <2>3. StreamCounted'
    <3>1. CASE c \in trail' /\ counted.redis = misses.redis
      <4>1. (Past \ trail)' \subseteq Past \ trail
        BY <2>1, <3>1 DEF Past
      <4> QED BY <1>1, <2>2, <3>1, <4>1, PartIsSmaller DEF StreamCounted
    <3>2. CASE counted.redis = misses.redis + 1
      <4>1. (Past \ trail)' \subseteq (Past \ trail) \cup {c}
        BY <2>1 DEF Past
      <4>2. /\ Cardinality((Past \ trail)') <= Cardinality(Past \ trail) + 1
            /\ Cardinality((Past \ trail)') \in Nat /\ Cardinality(Past \ trail) \in Nat
        BY <1>1, <4>1, OneMore
      <4> QED BY <2>2, <3>2, <4>2 DEF StreamCounted
    <3> QED BY <3>1, <3>2
  <2>4. TableCounted'
    <3>1. (Trail!Ended \ rows)' \subseteq (Trail!Ended \ rows) \cup {c}
      BY <2>1 DEF Trail!Ended
    <3>2. /\ Cardinality((Trail!Ended \ rows)') <= Cardinality(Trail!Ended \ rows) + 1
          /\ Cardinality((Trail!Ended \ rows)') \in Nat /\ Cardinality(Trail!Ended \ rows) \in Nat
      BY <1>1, <3>1, OneMore
    <3> QED BY <2>2, <3>2 DEF TableCounted
  <2>5. lastFailure # None /\ ~(clock >= lastFailure + Cooldown)
    BY <1>2 DEF BreakerIsRecent, Trail!BreakerOpen
  <2>6. BreakerIsRecent'
    BY <2>1 DEF BreakerIsRecent
  <2>7. ~unjust'
    BY <2>1, <2>5 DEF TrailInv
  <2> QED BY <2>2, <2>3, <2>4, <2>6, <2>7
<1>3. CASE ~Trail!BreakerOpen
  <2>1. /\ auditPc' = [auditPc EXCEPT ![c] = "postgres"]
        /\ misses' = counted
        /\ retryAfter' \in {retryAfter, None}
        /\ UNCHANGED <<clock, lastFailure, unjust>>
    BY <1>3 DEF Trail!ToPostgres, Trail!breakerVars, Trail!historyVars
  <2>2. AuditTypes'
    BY <2>1
  <2>3. StreamCounted'
    <3>1. CASE c \in trail' /\ counted.redis = misses.redis
      <4>1. (Past \ trail)' \subseteq Past \ trail
        BY <2>1, <3>1 DEF Past
      <4> QED BY <1>1, <2>1, <3>1, <4>1, PartIsSmaller DEF StreamCounted
    <3>2. CASE counted.redis = misses.redis + 1
      <4>1. (Past \ trail)' \subseteq (Past \ trail) \cup {c}
        BY <2>1 DEF Past
      <4>2. /\ Cardinality((Past \ trail)') <= Cardinality(Past \ trail) + 1
            /\ Cardinality((Past \ trail)') \in Nat /\ Cardinality(Past \ trail) \in Nat
        BY <1>1, <4>1, OneMore
      <4> QED BY <2>1, <3>2, <4>2 DEF StreamCounted
    <3> QED BY <3>1, <3>2
  <2>4. TableCounted'
    <3>1. (Trail!Ended \ rows)' \subseteq Trail!Ended \ rows
      BY <2>1 DEF Trail!Ended
    <3> QED BY <1>1, <2>1, <3>1, PartIsSmaller DEF TableCounted
  <2>5. BreakerIsRecent' /\ ~unjust'
    BY <2>1 DEF BreakerIsRecent
  <2> QED BY <2>2, <2>3, <2>4, <2>5
<1> QED BY <1>2, <1>3

LEMMA TrailStep == ASSUME TrailInv, [Trail!Next]_(Trail!vars) PROVE TrailInv'
<1> USE AuditAssumption DEF TrailInv, AuditTypes
<1>0. IsFiniteSet(Past \ trail) /\ IsFiniteSet(Trail!Ended \ rows)
  BY FS_Subset DEF Past, Trail!Ended
<1>1. CASE Trail!Tick
  <2>1. UNCHANGED <<Past, Trail!Ended>>
    BY <1>1 DEF Trail!Tick, Past, Trail!Ended
  <2> QED BY <1>1, <2>1 DEF Trail!Tick, Trail!breakerVars, StreamCounted, TableCounted, BreakerIsRecent
<1>2. ASSUME NEW c \in Entries, Trail!Begins(c) PROVE TrailInv'
  <2>1. UNCHANGED <<Past, Trail!Ended>>
    BY <1>2 DEF Trail!Begins, Past, Trail!Ended
  <2> QED BY <1>2, <2>1
      DEF Trail!Begins, Trail!breakerVars, Trail!historyVars, StreamCounted, TableCounted, BreakerIsRecent
<1>3. ASSUME NEW c \in Entries, Trail!RedisWrites(c) PROVE TrailInv'
  BY <1>3, ToPostgresKeeps DEF Trail!RedisWrites
<1>4. ASSUME NEW c \in Entries, Trail!RedisFails(c) PROVE TrailInv'
  <2> DEFINE counted == [misses EXCEPT !.redis = @ + 1]
  <2>1. /\ counted \in [redis : Nat, postgres : Nat, skipped : Nat]
        /\ counted.redis = misses.redis + 1
        /\ counted.postgres = misses.postgres /\ counted.skipped = misses.skipped
    OBVIOUS
  <2>2. /\ auditPc[c] = "redis" /\ trail \subseteq trail' /\ UNCHANGED rows
        /\ Trail!ToPostgres(c, counted)
    BY <1>4 DEF Trail!RedisFails
  <2> HIDE DEF counted
  <2> QED BY <2>1, <2>2, ToPostgresKeeps
<1>5. ASSUME NEW c \in Entries, Trail!PostgresWrites(c) PROVE TrailInv'
  <2>1. Past' = Past /\ (Trail!Ended \ rows)' \subseteq Trail!Ended \ rows
    BY <1>5 DEF Trail!PostgresWrites, Past, Trail!Ended
  <2>2. Cardinality((Trail!Ended \ rows)') <= Cardinality(Trail!Ended \ rows)
        /\ Cardinality((Trail!Ended \ rows)') \in Nat /\ Cardinality(Trail!Ended \ rows) \in Nat
    BY <1>0, <2>1, PartIsSmaller
  <2> QED BY <1>5, <2>1, <2>2
      DEF Trail!PostgresWrites, Trail!historyVars, StreamCounted, TableCounted, BreakerIsRecent
<1>6. ASSUME NEW c \in Entries, Trail!PostgresFails(c) PROVE TrailInv'
  <2>1. Past' = Past /\ (Trail!Ended \ rows)' \subseteq (Trail!Ended \ rows) \cup {c}
    BY <1>6 DEF Trail!PostgresFails, Past, Trail!Ended
  <2>2. Cardinality((Trail!Ended \ rows)') <= Cardinality(Trail!Ended \ rows) + 1
        /\ Cardinality((Trail!Ended \ rows)') \in Nat /\ Cardinality(Trail!Ended \ rows) \in Nat
    BY <1>0, <2>1, OneMore
  <2>3. AuditTypes' /\ StreamCounted' /\ TableCounted'
    BY <1>6, <2>1, <2>2 DEF Trail!PostgresFails, StreamCounted, TableCounted
  <2>4. BreakerIsRecent' /\ ~unjust'
    BY <1>6 DEF Trail!PostgresFails, BreakerIsRecent
  <2> QED BY <2>3, <2>4
<1>7. ASSUME NEW c \in Entries, Trail!Cancelled(c) PROVE TrailInv'
  <2>1. /\ (Past \ trail)' \subseteq Past \ trail
        /\ (Trail!Ended \ rows)' \subseteq Trail!Ended \ rows
    BY <1>7 DEF Trail!Cancelled, Past, Trail!Ended
  <2>2. StreamCounted' /\ TableCounted'
    BY <1>0, <1>7, <2>1, PartIsSmaller DEF Trail!Cancelled, StreamCounted, TableCounted
  <2> QED BY <1>7, <2>2 DEF Trail!Cancelled, Trail!breakerVars, Trail!historyVars, BreakerIsRecent
<1>8. CASE UNCHANGED Trail!vars
  <2>1. UNCHANGED <<Past, Trail!Ended>>
    BY <1>8 DEF Trail!vars, Past, Trail!Ended
  <2> QED BY <1>8, <2>1 DEF Trail!vars, StreamCounted, TableCounted, BreakerIsRecent
<1> QED BY <1>1, <1>2, <1>3, <1>4, <1>5, <1>6, <1>7, <1>8 DEF Trail!Next

LEMMA SameCardinality == \A S : Trail!Cardinality(S) = Cardinality(S)
BY DEF Trail!Cardinality, Cardinality

LEMMA Accounted == TrailInv => AuditIsAccounted
<1> SUFFICES ASSUME TrailInv PROVE AuditIsAccounted
  OBVIOUS
<1>1. IsFiniteSet(Past \ trail) /\ Trail!Ended \ trail \subseteq Past \ trail
  BY FS_Subset, AuditAssumption DEF Past, Trail!Ended
<1> QED BY <1>1, PartIsSmaller, SameCardinality
       DEF TrailInv, AuditTypes, StreamCounted, TableCounted,
           AuditIsAccounted, Trail!AuditIsAccounted

\* What an ended call left out of the stream or the table was counted, and the table is
\* left alone only within a cooldown of a failure (core/audit.py:146-224).
THEOREM AuditStaysAccounted == Trail!Spec => []AuditIsAccounted
BY TrailInit, TrailStep, Accounted, PTL DEF Trail!Spec

-----------------------------------------------------------------------------
(* The notification settings.                                               *)

NoticeTypes ==
    /\ Notify!TypeOK
    /\ asked \in [Notify!Processes -> Nat \cup {Missing}]
    /\ overlapped \in BOOLEAN /\ unannounced \in BOOLEAN

\* No process knows a version that has not been, and each version is of a PUT.
VersionsArePast ==
    /\ \A q \in Notify!Processes :
         /\ known[q] # Missing => known[q] <= version
         /\ asked[q] # Missing => asked[q] <= version
    /\ version <= Cardinality({p \in Changes : notifyPc[p] \in {"set", "done"}})

\* A PUT that is alone stores what was stored, merged with what it brings.
PutsAreAlone == ~overlapped => \A p, r \in Notify!UnderWay : p = r
PayloadsAreMerged ==
    \A p \in Changes :
        /\ notifyPc[p] \in {"hset", "incr", "set"} => value[p].by = p
        /\ notifyPc[p] = "hset" =>
             overlapped \/ p \in unseen \/ value[p] = Notify!Merged(p, stored)
        /\ notifyPc[p] \in {"incr", "set"} => overlapped \/ value[p] = stored

\* A copy of the current version is what is stored, unless the next version is still
\* to be announced, or one of the causes of CopiesAreCurrent.
Announcing == \E p \in Changes : notifyPc[p] = "incr"
CopiesAreKnown ==
    \A q \in Notify!Processes :
        cached[q] # Missing /\ known[q] = version =>
            \/ cached[q] = stored \/ Announcing
            \/ unannounced \/ q \in defaulted
            \/ q = Api /\ overlapped

NoticeInv ==
    NoticeTypes /\ VersionsArePast /\ PutsAreAlone /\ PayloadsAreMerged /\ CopiesAreKnown

Stations == {"idle", "load", "hset", "incr", "set", "done"}

LEMMA SameCardinalityOfPuts == \A S : Notify!Cardinality(S) = Cardinality(S)
BY DEF Notify!Cardinality, Cardinality

LEMMA NoticeInit == Notify!Init => NoticeInv
<1> SUFFICES ASSUME Notify!Init PROVE NoticeInv
  OBVIOUS
<1>1. /\ Notify!DefaultConfig \in Notify!Configs
      /\ 0 \in 0..Notify!Cardinality(Changes)
  BY NoticeAssumption, SameCardinalityOfPuts, FS_CardinalityType
     DEF Notify!DefaultConfig, Notify!Configs
<1>2. NoticeTypes
  BY <1>1 DEF Notify!Init, NoticeTypes, Notify!TypeOK
<1>3. VersionsArePast
  <2> DEFINE S == {p \in Changes : notifyPc[p] \in {"set", "done"}}
  <2>1. Cardinality(S) \in Nat
    BY NoticeAssumption, FS_Subset, FS_CardinalityType
  <2> HIDE DEF S
  <2>2. version <= Cardinality(S)
    BY <2>1 DEF Notify!Init
  <2>3. \A q \in Notify!Processes : known[q] = Missing /\ asked[q] = Missing
    BY DEF Notify!Init
  <2> QED BY <2>2, <2>3 DEF VersionsArePast, S
<1>4. PutsAreAlone /\ PayloadsAreMerged /\ CopiesAreKnown
  BY DEF Notify!Init, PutsAreAlone, PayloadsAreMerged, CopiesAreKnown, Notify!UnderWay
<1> QED BY <1>2, <1>3, <1>4 DEF NoticeInv

\* A PUT that goes to another place.
LEMMA NoticeMoves ==
    ASSUME NoticeInv, NEW p \in Changes, NEW place \in Stations,
           notifyPc' = [notifyPc EXCEPT ![p] = place]
    PROVE  /\ notifyPc' \in [Changes -> Stations] /\ notifyPc'[p] = place
           /\ \A r \in Changes : r # p => notifyPc'[r] = notifyPc[r]
           /\ p \in Notify!UnderWay /\ overlapped' = overlapped => PutsAreAlone'
BY DEF NoticeInv, NoticeTypes, Notify!TypeOK, Notify!UnderWay, PutsAreAlone, Stations

\* Versions stay as they are, and the PUTs that are done only grow.
LEMMA VersionsStay ==
    ASSUME NoticeInv, UNCHANGED version,
           notifyPc' \in [Changes -> Stations],
           \A r \in Changes : notifyPc[r] \in {"set", "done"} => notifyPc'[r] \in {"set", "done"},
           \A q \in Notify!Processes : known'[q] \in {known[q], asked[q], Missing},
           \A q \in Notify!Processes : asked'[q] \in {asked[q], version, Missing}
    PROVE  VersionsArePast'
<1> DEFINE S == {p \in Changes : notifyPc[p] \in {"set", "done"}}
           T == {p \in Changes : notifyPc'[p] \in {"set", "done"}}
<1>1. S \subseteq T /\ IsFiniteSet(T) /\ IsFiniteSet(S)
  BY NoticeAssumption, FS_Subset
<1>2. Cardinality(S) <= Cardinality(T) /\ Cardinality(S) \in Nat /\ Cardinality(T) \in Nat
  BY <1>1, FS_Subset, FS_CardinalityType
<1>3. version \in Nat /\ version <= Cardinality(S)
  BY DEF NoticeInv, NoticeTypes, Notify!TypeOK, VersionsArePast
<1>4. version' <= Cardinality(T)
  <2> HIDE DEF S, T
  <2> QED BY <1>2, <1>3
<1>5. \A q \in Notify!Processes :
        /\ known'[q] # Missing => known'[q] <= version'
        /\ asked'[q] # Missing => asked'[q] <= version'
  BY <1>3 DEF NoticeInv, VersionsArePast
<1> QED BY <1>4, <1>5 DEF VersionsArePast

LEMMA PutBeginsHolds == ASSUME NoticeInv, NEW p \in Changes, Notify!Begin(p) PROVE NoticeInv'
<1>1. /\ notifyPc[p] = "idle" /\ notifyPc' = [notifyPc EXCEPT ![p] = "load"]
      /\ overlapped' = (overlapped \/ Notify!UnderWay # {})
      /\ UNCHANGED <<stored, version, value, unannounced, unseen, cached, known, asked, defaulted>>
  BY DEF Notify!Begin, Notify!redis, Notify!caches
<1>2. /\ notifyPc' \in [Changes -> Stations] /\ notifyPc'[p] = "load"
      /\ \A r \in Changes : r # p => notifyPc'[r] = notifyPc[r]
  BY <1>1, NoticeMoves DEF Stations
<1>3. overlapped' \in BOOLEAN /\ (overlapped => overlapped')
  BY <1>1 DEF NoticeInv, NoticeTypes
<1>4. NoticeTypes'
  BY <1>1, <1>2, <1>3 DEF NoticeInv, NoticeTypes, Notify!TypeOK, Stations
<1>5. VersionsArePast'
  BY <1>1, <1>2, VersionsStay
<1>6. PutsAreAlone'
  BY <1>1, <1>2 DEF PutsAreAlone, Notify!UnderWay
<1>7. PayloadsAreMerged'
  BY <1>1, <1>2, <1>3 DEF NoticeInv, PayloadsAreMerged, Notify!Merged
<1>8. CopiesAreKnown'
  BY <1>1, <1>2, <1>3 DEF NoticeInv, CopiesAreKnown, Announcing
<1> QED BY <1>4, <1>5, <1>6, <1>7, <1>8 DEF NoticeInv

LEMMA PutLoadsHolds == ASSUME NoticeInv, NEW p \in Changes, Notify!Loads(p) PROVE NoticeInv'
<1>1. /\ notifyPc[p] = "load" /\ notifyPc' = [notifyPc EXCEPT ![p] = "hset"]
      /\ UNCHANGED <<stored, version, overlapped, unannounced, cached, known, asked, defaulted>>
      /\ unseen \subseteq unseen'
  BY DEF Notify!Loads, Notify!redis, Notify!caches
<1>2. /\ notifyPc' \in [Changes -> Stations] /\ notifyPc'[p] = "hset" /\ PutsAreAlone'
      /\ \A r \in Changes : r # p => notifyPc'[r] = notifyPc[r]
  BY <1>1, NoticeMoves DEF Stations, Notify!UnderWay
<1>3. PICK old \in Notify!Configs :
        /\ value' = [value EXCEPT ![p] = Notify!Merged(p, old)]
        /\ old = stored \/ p \in unseen'
  <2>1. stored \in Notify!Configs /\ Notify!DefaultConfig \in Notify!Configs
    BY DEF NoticeInv, NoticeTypes, Notify!TypeOK, Notify!DefaultConfig, Notify!Configs
  <2> QED BY <2>1 DEF Notify!Loads
<1>4. Notify!Merged(p, old) \in Notify!Configs /\ Notify!Merged(p, old).by = p
  BY DEF Notify!Merged, Notify!Configs
<1>5. /\ value' \in [Changes -> Notify!Configs] /\ value'[p] = Notify!Merged(p, old)
      /\ \A r \in Changes : r # p => value'[r] = value[r]
  BY <1>3, <1>4 DEF NoticeInv, NoticeTypes, Notify!TypeOK
<1>6. NoticeTypes'
  BY <1>1, <1>2, <1>5 DEF NoticeInv, NoticeTypes, Notify!TypeOK, Stations
<1>7. VersionsArePast'
  BY <1>1, <1>2, VersionsStay
<1>8. PayloadsAreMerged'
  BY <1>1, <1>2, <1>3, <1>4, <1>5 DEF NoticeInv, PayloadsAreMerged, Notify!Merged
<1>9. CopiesAreKnown'
  BY <1>1, <1>2 DEF NoticeInv, CopiesAreKnown, Announcing
<1> QED BY <1>2, <1>6, <1>7, <1>8, <1>9 DEF NoticeInv

LEMMA PutStoresHolds == ASSUME NoticeInv, NEW p \in Changes, Notify!Stores(p) PROVE NoticeInv'
<1>1. /\ notifyPc[p] = "hset" /\ notifyPc' = [notifyPc EXCEPT ![p] = "incr"]
      /\ stored' = value[p]
      /\ UNCHANGED <<version, value, overlapped, unannounced, unseen, cached, known, asked, defaulted>>
  BY DEF Notify!Stores, Notify!caches
<1>2. /\ notifyPc' \in [Changes -> Stations] /\ notifyPc'[p] = "incr" /\ PutsAreAlone'
      /\ \A r \in Changes : r # p => notifyPc'[r] = notifyPc[r]
  BY <1>1, NoticeMoves DEF Stations, Notify!UnderWay
<1>3. NoticeTypes'
  BY <1>1, <1>2 DEF NoticeInv, NoticeTypes, Notify!TypeOK, Stations
<1>4. VersionsArePast'
  BY <1>1, <1>2, VersionsStay
<1>5. \A r \in Changes : r # p /\ notifyPc[r] \in {"hset", "incr", "set"} => overlapped
  BY <1>1 DEF NoticeInv, PutsAreAlone, Notify!UnderWay
<1>6. PayloadsAreMerged'
  BY <1>1, <1>2, <1>5 DEF NoticeInv, PayloadsAreMerged
<1>7. CopiesAreKnown'
  BY <1>1, <1>2 DEF CopiesAreKnown, Announcing
<1> QED BY <1>2, <1>3, <1>4, <1>6, <1>7 DEF NoticeInv

\* The new version is one that nobody knows.
LEMMA PutAnnouncesHolds == ASSUME NoticeInv, NEW p \in Changes, Notify!Announces(p) PROVE NoticeInv'
<1>1. /\ notifyPc[p] = "incr" /\ notifyPc' = [notifyPc EXCEPT ![p] = "set"]
      /\ version' = version + 1
      /\ UNCHANGED <<stored, value, overlapped, unannounced, unseen, cached, known, asked, defaulted>>
  BY DEF Notify!Announces, Notify!Raised, Notify!caches
<1>2. /\ notifyPc' \in [Changes -> Stations] /\ notifyPc'[p] = "set" /\ PutsAreAlone'
      /\ \A r \in Changes : r # p => notifyPc'[r] = notifyPc[r]
  BY <1>1, NoticeMoves DEF Stations, Notify!UnderWay
<1>3. /\ version \in Nat /\ version' \in Nat
      /\ \A q \in Notify!Processes : known[q] \in Nat \cup {Missing} /\ asked[q] \in Nat \cup {Missing}
  BY <1>1 DEF NoticeInv, NoticeTypes, Notify!TypeOK
<1>4. /\ version' <= Cardinality({r \in Changes : notifyPc'[r] \in {"set", "done"}})
      /\ Cardinality({r \in Changes : notifyPc'[r] \in {"set", "done"}}) <= Cardinality(Changes)
      /\ Cardinality(Changes) \in Nat
      /\ Cardinality({r \in Changes : notifyPc'[r] \in {"set", "done"}}) \in Nat
  <2> DEFINE S == {r \in Changes : notifyPc[r] \in {"set", "done"}}
             T == {r \in Changes : notifyPc'[r] \in {"set", "done"}}
  <2>1. IsFiniteSet(S) /\ IsFiniteSet(T) /\ p \notin S /\ T = S \cup {p} /\ T \subseteq Changes
    BY <1>1, <1>2, NoticeAssumption, FS_Subset
  <2>2. version <= Cardinality(S)
    BY DEF NoticeInv, VersionsArePast
  <2> HIDE DEF S, T
  <2>3. Cardinality(T) = Cardinality(S) + 1 /\ Cardinality(S) \in Nat
    BY <2>1, FS_AddElement, FS_CardinalityType
  <2>4. Cardinality(T) <= Cardinality(Changes) /\ Cardinality(Changes) \in Nat
    BY <2>1, NoticeAssumption, FS_Subset, FS_CardinalityType
  <2>5. version' <= Cardinality(T)
    BY <1>1, <1>3, <2>2, <2>3
  <2> QED BY <2>3, <2>4, <2>5 DEF S, T
<1>5. NoticeTypes'
  <2>1. version' \in 0..Notify!Cardinality(Changes)
    BY <1>3, <1>4, SameCardinalityOfPuts
  <2> QED BY <1>1, <1>2, <2>1
         DEF NoticeInv, NoticeTypes, Notify!TypeOK, Stations, Notify!Configs, Notify!Processes
<1>6. \A q \in Notify!Processes :
        /\ known[q] # Missing => known[q] < version'
        /\ asked[q] # Missing => asked[q] <= version'
  BY <1>1, <1>3 DEF NoticeInv, VersionsArePast
<1>7. VersionsArePast'
  BY <1>1, <1>3, <1>4, <1>6 DEF VersionsArePast, Notify!Processes
<1>8. PayloadsAreMerged'
  BY <1>1, <1>2 DEF NoticeInv, PayloadsAreMerged, Notify!Merged
<1>9. CopiesAreKnown'
  BY <1>1, <1>3, <1>6, NoticeAssumption DEF CopiesAreKnown, Notify!Processes
<1> QED BY <1>2, <1>5, <1>7, <1>8, <1>9 DEF NoticeInv

LEMMA PutActivatesHolds == ASSUME NoticeInv, NEW p \in Changes, Notify!Activates(p) PROVE NoticeInv'
<1>1. /\ notifyPc[p] = "set" /\ notifyPc' = [notifyPc EXCEPT ![p] = "done"]
      /\ cached' = [cached EXCEPT ![Api] = value[p]]
      /\ UNCHANGED <<stored, version, value, overlapped, unannounced, unseen, known, asked, defaulted>>
  BY DEF Notify!Activates, Notify!redis
<1>2. /\ notifyPc' \in [Changes -> Stations] /\ notifyPc'[p] = "done" /\ PutsAreAlone'
      /\ \A r \in Changes : r # p => notifyPc'[r] = notifyPc[r]
  BY <1>1, NoticeMoves DEF Stations, Notify!UnderWay
<1>3. /\ cached' \in [Notify!Processes -> Notify!Configs \cup {Missing}] /\ cached'[Api] = value[p]
      /\ \A q \in Notify!Processes : q # Api => cached'[q] = cached[q]
  BY <1>1 DEF NoticeInv, NoticeTypes, Notify!TypeOK, Notify!Processes
<1>4. NoticeTypes'
  BY <1>1, <1>2, <1>3 DEF NoticeInv, NoticeTypes, Notify!TypeOK, Stations
<1>5. VersionsArePast'
  BY <1>1, <1>2, VersionsStay
<1>6. PayloadsAreMerged'
  BY <1>1, <1>2 DEF NoticeInv, PayloadsAreMerged, Notify!Merged
<1>7. overlapped \/ value[p] = stored
  BY <1>1 DEF NoticeInv, PayloadsAreMerged
<1>8. Announcing' <=> Announcing
  BY <1>1, <1>2 DEF Announcing
<1>9. CopiesAreKnown'
  BY <1>1, <1>3, <1>7, <1>8 DEF NoticeInv, CopiesAreKnown
<1> QED BY <1>2, <1>4, <1>5, <1>6, <1>9 DEF NoticeInv

LEMMA PutFailsHolds == ASSUME NoticeInv, NEW p \in Changes, Notify!PutFails(p) PROVE NoticeInv'
<1>1. /\ notifyPc[p] \in {"hset", "incr"} /\ notifyPc' = [notifyPc EXCEPT ![p] = "done"]
      /\ unannounced' = (unannounced \/ notifyPc[p] = "incr")
      /\ UNCHANGED <<stored, version, value, overlapped, unseen, cached, known, asked, defaulted>>
  BY DEF Notify!PutFails, Notify!redis, Notify!caches
<1>2. /\ notifyPc' \in [Changes -> Stations] /\ notifyPc'[p] = "done" /\ PutsAreAlone'
      /\ \A r \in Changes : r # p => notifyPc'[r] = notifyPc[r]
  BY <1>1, NoticeMoves DEF Stations, Notify!UnderWay
<1>3. /\ unannounced' \in BOOLEAN
      /\ unannounced \/ Announcing => unannounced' \/ Announcing'
  BY <1>1, <1>2 DEF NoticeInv, NoticeTypes, Announcing
<1>4. NoticeTypes'
  BY <1>1, <1>2, <1>3 DEF NoticeInv, NoticeTypes, Notify!TypeOK, Stations
<1>5. VersionsArePast'
  BY <1>1, <1>2, VersionsStay
<1>6. PayloadsAreMerged'
  BY <1>1, <1>2 DEF NoticeInv, PayloadsAreMerged, Notify!Merged
<1>7. CopiesAreKnown'
  BY <1>1, <1>3 DEF NoticeInv, CopiesAreKnown
<1> QED BY <1>2, <1>4, <1>5, <1>6, <1>7 DEF NoticeInv

LEMMA SendsHold ==
    ASSUME NoticeInv, NEW q \in Notify!Processes,
           Notify!Asks(q) \/ Notify!Uses(q) \/ Notify!Reloads(q)
    PROVE  NoticeInv'
<1>1. UNCHANGED <<stored, version, notifyPc, value, overlapped, unannounced, unseen>>
  BY DEF Notify!Asks, Notify!Uses, Notify!Reloads, Notify!redis, Notify!puts
<1>2. PutsAreAlone' /\ PayloadsAreMerged' /\ (Announcing' <=> Announcing)
  BY <1>1 DEF NoticeInv, PutsAreAlone, PayloadsAreMerged, Announcing, Notify!UnderWay, Notify!Merged
<1>3. /\ asked' \in [Notify!Processes -> Nat \cup {Missing}]
      /\ \A r \in Notify!Processes : asked'[r] \in {asked[r], version, Missing}
  BY DEF Notify!Asks, Notify!Uses, Notify!Reloads, NoticeInv, NoticeTypes, Notify!TypeOK
<1>4. CASE Notify!Asks(q) \/ Notify!Uses(q)
  <2>1. UNCHANGED <<cached, known, defaulted>>
    BY <1>4 DEF Notify!Asks, Notify!Uses
  <2>2. NoticeTypes'
    BY <1>1, <1>3, <2>1 DEF NoticeInv, NoticeTypes, Notify!TypeOK
  <2>3. VersionsArePast'
    BY <1>1, <1>3, <2>1, VersionsStay DEF NoticeInv, NoticeTypes, Notify!TypeOK, Stations
  <2>4. CopiesAreKnown'
    BY <1>1, <1>2, <2>1 DEF NoticeInv, CopiesAreKnown
  <2> QED BY <1>2, <2>2, <2>3, <2>4 DEF NoticeInv
<1>5. CASE Notify!Reloads(q)
  <2>1. PICK c \in Notify!Configs :
          /\ cached' = [cached EXCEPT ![q] = c]
          /\ \/ c = stored /\ defaulted' = defaulted \ {q}
             \/ defaulted' = defaulted \cup {q}
    BY <1>5 DEF Notify!Reloads, NoticeInv, NoticeTypes, Notify!TypeOK, Notify!DefaultConfig, Notify!Configs
  <2>2. known' = [known EXCEPT ![q] = asked[q]]
    BY <1>5 DEF Notify!Reloads
  <2>3. /\ cached' \in [Notify!Processes -> Notify!Configs \cup {Missing}] /\ cached'[q] = c
        /\ \A r \in Notify!Processes : r # q => cached'[r] = cached[r] /\ known'[r] = known[r]
        /\ known' \in [Notify!Processes -> Nat \cup {Missing}] /\ known'[q] = asked[q]
    BY <2>1, <2>2 DEF NoticeInv, NoticeTypes, Notify!TypeOK
  <2>4. NoticeTypes'
    BY <1>1, <1>3, <2>3 DEF NoticeInv, NoticeTypes, Notify!TypeOK
  <2>5. \A r \in Notify!Processes : known'[r] \in {known[r], asked[r], Missing}
    BY <2>3
  <2>6. VersionsArePast'
    BY <1>1, <1>3, <2>5, VersionsStay DEF NoticeInv, NoticeTypes, Notify!TypeOK, Stations
  <2>7. CopiesAreKnown'
    BY <1>1, <1>2, <2>1, <2>3 DEF NoticeInv, CopiesAreKnown
  <2> QED BY <1>2, <2>4, <2>6, <2>7 DEF NoticeInv
<1> QED BY <1>4, <1>5

LEMMA ProcessRestartsHolds ==
    ASSUME NoticeInv, NEW q \in Notify!Processes, Notify!Restarts(q) PROVE NoticeInv'
<1>1. /\ cached' = [cached EXCEPT ![q] = Missing] /\ known' = [known EXCEPT ![q] = Missing]
      /\ asked' = [asked EXCEPT ![q] = Missing] /\ defaulted' = defaulted \ {q}
      /\ UNCHANGED <<stored, version, value, overlapped, unseen>>
  BY DEF Notify!Restarts, Notify!redis
<1>2. /\ cached' \in [Notify!Processes -> Notify!Configs \cup {Missing}] /\ cached'[q] = Missing
      /\ known' \in [Notify!Processes -> Nat \cup {Missing}]
      /\ asked' \in [Notify!Processes -> Nat \cup {Missing}]
      /\ \A r \in Notify!Processes : r # q => cached'[r] = cached[r] /\ known'[r] = known[r]
      /\ \A r \in Notify!Processes : known'[r] \in {known[r], Missing} /\ asked'[r] \in {asked[r], Missing}
  BY <1>1 DEF NoticeInv, NoticeTypes, Notify!TypeOK
<1>3. /\ notifyPc' \in [Changes -> Stations]
      /\ \A p \in Changes : notifyPc'[p] = notifyPc[p] \/ notifyPc'[p] = "done"
      /\ unannounced' \in BOOLEAN
      /\ unannounced \/ Announcing => unannounced' \/ Announcing'
  <2>1. notifyPc \in [Changes -> Stations] /\ unannounced \in BOOLEAN
    BY DEF NoticeInv, NoticeTypes, Notify!TypeOK, Stations
  <2>2. CASE q = Api
    <3>1. /\ unannounced' = (unannounced \/ \E p \in Changes : notifyPc[p] = "incr")
          /\ notifyPc' = [p \in Changes |-> IF p \in Notify!UnderWay THEN "done" ELSE notifyPc[p]]
      BY <2>2 DEF Notify!Restarts
    <3> QED BY <2>1, <3>1 DEF Stations, Announcing
  <2>3. CASE q # Api
    <3>1. UNCHANGED <<unannounced, notifyPc>>
      BY <2>3 DEF Notify!Restarts
    <3> QED BY <2>1, <3>1 DEF Announcing
  <2> QED BY <2>2, <2>3
<1>4. NoticeTypes'
  BY <1>1, <1>2, <1>3 DEF NoticeInv, NoticeTypes, Notify!TypeOK, Stations
<1>5. VersionsArePast'
  BY <1>1, <1>2, <1>3, VersionsStay
<1>6. PutsAreAlone' /\ PayloadsAreMerged'
  BY <1>1, <1>3 DEF NoticeInv, PutsAreAlone, PayloadsAreMerged, Notify!UnderWay, Notify!Merged
<1>7. CopiesAreKnown'
  BY <1>1, <1>2, <1>3 DEF NoticeInv, CopiesAreKnown
<1> QED BY <1>4, <1>5, <1>6, <1>7 DEF NoticeInv

LEMMA NoticeStep == NoticeInv /\ [Notify!Next]_(Notify!vars) => NoticeInv'
<1> SUFFICES ASSUME NoticeInv, [Notify!Next]_(Notify!vars) PROVE NoticeInv'
  OBVIOUS
<1>1. CASE UNCHANGED Notify!vars
  BY <1>1 DEF Notify!vars, Notify!redis, Notify!puts, Notify!caches, NoticeInv, NoticeTypes,
       Notify!TypeOK, VersionsArePast, PutsAreAlone, PayloadsAreMerged, CopiesAreKnown, Announcing,
       Notify!UnderWay, Notify!Merged
<1> QED BY <1>1, PutBeginsHolds, PutLoadsHolds, PutStoresHolds, PutAnnouncesHolds, PutActivatesHolds,
           PutFailsHolds, SendsHold, ProcessRestartsHolds DEF Notify!Next

LEMMA SecretStays ==
    NoticeInv /\ [Notify!Next]_(Notify!vars) =>
        (stored.secret # Empty /\ stored'.secret = Empty => overlapped \/ stored'.by \in unseen)
<1> SUFFICES ASSUME NoticeInv, [Notify!Next]_(Notify!vars),
                    stored.secret # Empty, stored'.secret = Empty
             PROVE  overlapped \/ stored'.by \in unseen
  OBVIOUS
<1>1. stored' # stored
  OBVIOUS
<1>2. PICK p \in Changes : Notify!Stores(p)
  BY <1>1 DEF Notify!Next, Notify!vars, Notify!redis, Notify!Begin, Notify!Activates, Notify!Loads,
       Notify!Announces, Notify!PutFails, Notify!Asks, Notify!Uses, Notify!Reloads, Notify!Restarts
<1>3. notifyPc[p] = "hset" /\ stored' = value[p]
  BY <1>2 DEF Notify!Stores
<1>4. \/ overlapped
      \/ p \in unseen /\ value[p].by = p
      \/ value[p] = Notify!Merged(p, stored)
  BY <1>3 DEF NoticeInv, PayloadsAreMerged
<1>5. ASSUME value[p] = Notify!Merged(p, stored) PROVE FALSE
  <2>1. value[p].secret = IF Secret[p] = Empty THEN stored.secret ELSE Secret[p]
    BY <1>5 DEF Notify!Merged
  <2> QED BY <1>3, <2>1
<1> QED BY <1>3, <1>4, <1>5

\* A stored secret is lost only by PUTs that overlap or cannot read it, and what a process
\* knows to be current is what is stored, but for a PUT that ended between its two
\* commands, a read that failed and, in the API, PUTs that overlapped
\* (notify/store.py, dispatcher.py:58).
THEOREM NoticesStayConfigured == Notify!Spec => NoticesAreConfigured
<1>1. NoticeInv => Notify!TypeOK /\ Notify!CopiesAreCurrent
  BY DEF NoticeInv, NoticeTypes, CopiesAreKnown, Announcing, Notify!CopiesAreCurrent, Notify!UnderWay
<1>2. NoticeInv /\ [Notify!Next]_(Notify!vars) =>
        [stored.secret # Empty /\ stored'.secret = Empty =>
           overlapped \/ stored'.by \in unseen]_(Notify!vars)
  BY SecretStays
<1> QED BY <1>1, <1>2, NoticeInit, NoticeStep, PTL
        DEF Notify!Spec, NoticesAreConfigured, Notify!NoticesAreConfigured, Notify!SecretsAreKept

-----------------------------------------------------------------------------
(* The reconciliation.  The position of a symbol is a sum over its orders;  *)
(* what a check has read of the book is the sum of what the book showed,    *)
(* which is never more than what was executed.                              *)

\* The instance has its own copy of the sum.
LEMMA SameSums == \A f, S : Recon!SumFunctionOnSet(f, S) = SumFunctionOnSet(f, S)
<1>1. ASSUME NEW f, NEW S
      PROVE  Recon!SumFunctionOnSet(f, S) = (CHOOSE g : IsSum(g, f, S))[S]
  BY DEF Recon!SumFunctionOnSet, Recon!FoldFunctionOnSet, Recon!MapThenFoldSet, MapThenFoldSet, IsSum, Chosen
<1> QED BY <1>1, SumDefinition

OrdersOn(s) == {o \in Ids : Sym[o] = s}
Position(q, s) == SumFunctionOnSet([o \in Ids |-> Side[o] * q[o]], OrdersOn(s))

\* What the book B shows of every order.
Shown(B, q) == [o \in Ids |-> IF o \in B THEN q[o] ELSE 0]

AllBuy(s) == \A o \in OrdersOn(s) : Side[o] = 1
AllSell(s) == \A o \in OrdersOn(s) : Side[o] = -1

ReconTypes ==
    /\ executed \in [Ids -> Nat] /\ reported \in [Ids -> Nat]
    /\ \A o \in Ids : reported[o] <= executed[o]
    /\ booked \subseteq Ids /\ outside \in [Recon!Symbols -> Int] /\ trades \in Nat
    /\ checkPc \in [Checks -> {"idle", "positions", "account", "done"}]
    /\ by \in [Checks -> {"api", "cash", "task"}]
    /\ local \in [Checks -> [Recon!Symbols -> Int]] /\ count \in [Checks -> Nat]
    /\ diffs \in [Checks -> SUBSET Recon!Symbols]
    /\ result \in [Checks -> {"none", "clean", "different", "suppressed", "unreachable",
                              "unregistered", "gone"}]
    /\ told \in [Checks -> BOOLEAN]
    /\ behind \in [Checks -> SUBSET Recon!Symbols] /\ moved \in [Checks -> SUBSET Recon!Symbols]
    /\ broken \subseteq Checks

\* Nobody has traded outside unless it was counted.
OutsideIsCounted == trades = 0 => \A s \in Recon!Symbols : outside[s] = 0

\* What a check has read of a symbol is its position but for what is behind or has moved,
\* and short of it where the book was behind.
ReadsAreShort(c) ==
    \A s \in Recon!Symbols :
        /\ s \notin behind[c] \cup moved[c] => local[c][s] = Position(executed, s)
        /\ s \in behind[c] =>
             /\ AllBuy(s) => local[c][s] < Position(executed, s)
             /\ AllSell(s) => local[c][s] > Position(executed, s)

\* The same of the symbols it has found to differ.
DiffsAreShort(c) ==
    trades = 0 =>
        /\ diffs[c] \subseteq behind[c] \cup moved[c]
        /\ \A s \in behind[c] : AllBuy(s) \/ AllSell(s) => s \in diffs[c]

\* The task has read an empty book, and asks for no cash.
TaskReadsNothing(c) ==
    by[c] = "task" => count[c] = 0 /\ \A s \in Recon!Symbols : local[c][s] = 0

CheckIsSound(c) ==
    /\ checkPc[c] = "positions" => ReadsAreShort(c) /\ TaskReadsNothing(c)
    /\ checkPc[c] = "account" => DiffsAreShort(c) /\ by[c] = "cash"
    /\ checkPc[c] # "done" => result[c] = "none" /\ ~told[c] /\ c \notin broken
    /\ result[c] \in {"clean", "different", "suppressed"} => DiffsAreShort(c)
    /\ result[c] = "clean" => diffs[c] = {}
    /\ c \in broken => result[c] = "unreachable" /\ diffs[c] = {} /\ told[c]
    /\ by[c] = "task" /\ told[c] => result[c] = "unreachable"

ReconInv == ReconTypes /\ OutsideIsCounted /\ \A c \in Checks : CheckIsSound(c)

\* A position, and how it grows with what is executed.
LEMMA PositionGrows ==
    ASSUME NEW q \in [Ids -> Nat], NEW r \in [Ids -> Nat], \A o \in Ids : q[o] <= r[o], NEW s
    PROVE  /\ Position(q, s) \in Int
           /\ (\A o \in OrdersOn(s) : q[o] = r[o]) => Position(q, s) = Position(r, s)
           /\ AllBuy(s) => Position(q, s) <= Position(r, s)
           /\ AllSell(s) => Position(q, s) >= Position(r, s)
           /\ (\E o \in OrdersOn(s) : q[o] # r[o]) =>
                /\ AllBuy(s) => Position(q, s) < Position(r, s)
                /\ AllSell(s) => Position(q, s) > Position(r, s)
<1> DEFINE f == [o \in Ids |-> Side[o] * q[o]]
           g == [o \in Ids |-> Side[o] * r[o]]
           S == OrdersOn(s)
<1>1. IsFiniteSet(S) /\ S \subseteq Ids
  BY ReconAssumption, FS_Subset DEF OrdersOn
<1>2. \A o \in S : /\ q[o] \in Int /\ r[o] \in Int /\ q[o] <= r[o]
                   /\ Side[o] \in {-1, 1} /\ f[o] = Side[o] * q[o] /\ g[o] = Side[o] * r[o]
  BY <1>1, ReconAssumption
<1>4. Position(q, s) = SumFunctionOnSet(f, S) /\ Position(r, s) = SumFunctionOnSet(g, S)
  BY DEF Position
<1>5. ASSUME NEW o \in S, Side[o] = 1 PROVE f[o] = q[o] /\ g[o] = r[o]
  <2>1. f[o] = 1 * q[o] /\ g[o] = 1 * r[o]
    BY <1>2, <1>5
  <2> QED BY <1>2, <2>1
<1>6. ASSUME NEW o \in S, Side[o] = -1 PROVE f[o] = -q[o] /\ g[o] = -r[o]
  <2>1. f[o] = (-1) * q[o] /\ g[o] = (-1) * r[o]
    BY <1>2, <1>6
  <2> QED BY <1>2, <2>1
<1>3. \A o \in S : f[o] \in Int /\ g[o] \in Int
  <2>1. \A o \in S : /\ q[o] \in Int /\ r[o] \in Int
                     /\ Side[o] = 1 \/ Side[o] = -1
    BY <1>2
  <2> HIDE DEF f, g, S
  <2> QED BY <2>1, <1>5, <1>6
<1> HIDE DEF f, g, S
<1>7. SumFunctionOnSet(f, S) \in Int
  BY <1>1, <1>3, SumType
<1>8. (\A o \in S : q[o] = r[o]) => SumFunctionOnSet(f, S) = SumFunctionOnSet(g, S)
  <2> HAVE \A o \in S : q[o] = r[o]
  <2>1. \A o \in S : f[o] = g[o]
    BY <1>2
  <2> QED BY <1>1, <2>1, SumSame
<1>9. ASSUME \A o \in S : Side[o] = 1
      PROVE  /\ SumFunctionOnSet(f, S) <= SumFunctionOnSet(g, S)
             /\ (\E o \in S : q[o] # r[o]) => SumFunctionOnSet(f, S) < SumFunctionOnSet(g, S)
  <2>1. \A o \in S : /\ f[o] \in Int /\ g[o] \in Int /\ f[o] <= g[o]
                     /\ q[o] # r[o] => f[o] < g[o]
    BY <1>2, <1>3, <1>5, <1>9
  <2> QED BY <1>1, <2>1, SumAtMost, SumLess
<1>10. ASSUME \A o \in S : Side[o] = -1
       PROVE  /\ SumFunctionOnSet(g, S) <= SumFunctionOnSet(f, S)
              /\ (\E o \in S : q[o] # r[o]) => SumFunctionOnSet(g, S) < SumFunctionOnSet(f, S)
  <2>1. \A o \in S : /\ f[o] \in Int /\ g[o] \in Int /\ g[o] <= f[o]
                     /\ q[o] # r[o] => g[o] < f[o]
    BY <1>2, <1>3, <1>6, <1>10
  <2> QED BY <1>1, <2>1, SumAtMost, SumLess
<1>11. SumFunctionOnSet(g, S) \in Int
  BY <1>1, <1>3, SumType
<1>12. (\E o \in S : q[o] # r[o]) =>
         /\ AllBuy(s) => SumFunctionOnSet(f, S) < SumFunctionOnSet(g, S)
         /\ AllSell(s) => SumFunctionOnSet(f, S) > SumFunctionOnSet(g, S)
  BY <1>7, <1>9, <1>10, <1>11 DEF AllBuy, AllSell, S
<1>13. /\ AllBuy(s) => SumFunctionOnSet(f, S) <= SumFunctionOnSet(g, S)
       /\ AllSell(s) => SumFunctionOnSet(f, S) >= SumFunctionOnSet(g, S)
  BY <1>7, <1>9, <1>10, <1>11 DEF AllBuy, AllSell, S
<1> QED BY <1>4, <1>7, <1>8, <1>12, <1>13 DEF S

\* The net quantity of a part of the orders, as a position.
LEMMA NetIsPosition ==
    ASSUME NEW B \in SUBSET Ids, NEW q \in [Ids -> Nat], NEW s
    PROVE  Recon!Net(B, q, s) = Position(Shown(B, q), s)
<1> DEFINE f == [o \in B |-> Side[o] * q[o]]
           g == [o \in Ids |-> Side[o] * Shown(B, q)[o]]
           T == {o \in B : Sym[o] = s}
<1>1. /\ IsFiniteSet(OrdersOn(s)) /\ IsFiniteSet(T)
      /\ T \in SUBSET OrdersOn(s) /\ OrdersOn(s) \subseteq Ids
  BY ReconAssumption, FS_Subset DEF OrdersOn
<1>2. \A o \in Ids : Side[o] \in Int /\ Shown(B, q)[o] \in Int /\ (o \notin B => Shown(B, q)[o] = 0)
  BY ReconAssumption DEF Shown
<1>3. \A o \in OrdersOn(s) : g[o] \in Int
  BY <1>1, <1>2
<1>4. \A o \in OrdersOn(s) \ T : g[o] = 0
  BY <1>2 DEF OrdersOn
<1>5. \A o \in T : f[o] = g[o]
  BY DEF Shown
<1>6. Recon!Net(B, q, s) = SumFunctionOnSet(f, T)
  BY SameSums DEF Recon!Net
<1>7. Position(Shown(B, q), s) = SumFunctionOnSet(g, OrdersOn(s))
  BY DEF Position
<1> HIDE DEF f, g, T
<1>8. SumFunctionOnSet(f, T) = SumFunctionOnSet(g, T)
  BY <1>1, <1>5, SumSame
<1>9. SumFunctionOnSet(g, OrdersOn(s)) = SumFunctionOnSet(g, T)
  BY <1>1, <1>3, <1>4, SumPart
<1> QED BY <1>6, <1>7, <1>8, <1>9

\* Where nobody trades outside, the broker has the positions of the orders.
LEMMA BrokerHasPositions ==
    ASSUME ReconInv, trades = 0, NEW s \in Recon!Symbols
    PROVE  Recon!Broker[s] = Position(executed, s)
<1>1. executed \in [Ids -> Nat] /\ outside[s] = 0
  BY DEF ReconInv, ReconTypes, OutsideIsCounted
<1>2. Recon!Net(Ids, executed, s) = Position(Shown(Ids, executed), s)
  BY <1>1, NetIsPosition
<1>3. Shown(Ids, executed) = executed
  BY <1>1 DEF Shown
<1>4. Position(executed, s) \in Int
  BY <1>1, PositionGrows
<1> QED BY <1>1, <1>2, <1>3, <1>4 DEF Recon!Broker

LEMMA ReconInit == Recon!Init => ReconInv
<1> SUFFICES ASSUME Recon!Init PROVE ReconInv
  OBVIOUS
<1> USE DEF Recon!Init, Recon!Ledger!Init
<1>1. ReconTypes
  BY DEF ReconTypes
<1>2. \A c \in Checks : CheckIsSound(c)
  BY DEF CheckIsSound
<1> QED BY <1>1, <1>2 DEF ReconInv, OutsideIsCounted

\* An execution grows the positions, and a check under way knows its symbol.
LEMMA ExecutesHolds == ASSUME ReconInv, NEW o \in Ids, Recon!Executes(o) PROVE ReconInv'
<1>1. /\ UNCHANGED <<reported, booked, outside, trades, ends, checkPc, by, local, count, diffs,
                     result, told, behind, broken>>
      /\ moved' = [c \in Checks |-> IF c \in Recon!Waiting THEN moved[c] \cup {Sym[o]} ELSE moved[c]]
  BY DEF Recon!Executes, Recon!Ledger!Execute, Recon!Traded, Recon!world, Recon!checks
<1>2. PICK n \in (executed[o] + 1)..Qty[o] : executed' = [executed EXCEPT ![o] = n]
  BY DEF Recon!Executes, Recon!Ledger!Execute
<1>3. /\ executed \in [Ids -> Nat] /\ executed' \in [Ids -> Nat]
      /\ \A p \in Ids : executed[p] <= executed'[p]
      /\ \A p \in Ids : p # o => executed[p] = executed'[p]
  BY <1>2, ReconAssumption DEF ReconInv, ReconTypes
<1>4. Sym[o] \in Recon!Symbols
  BY DEF Recon!Symbols
<1>5. /\ moved' \in [Checks -> SUBSET Recon!Symbols]
      /\ \A c \in Checks : moved[c] \subseteq moved'[c]
      /\ \A c \in Checks : checkPc[c] \in {"positions", "account"} => Sym[o] \in moved'[c]
  BY <1>1, <1>4 DEF ReconInv, ReconTypes, Recon!Waiting
<1>6. \A p \in Ids : /\ reported[p] \in Nat /\ reported[p] <= executed[p]
                     /\ executed[p] \in Nat /\ executed'[p] \in Nat
  BY <1>3 DEF ReconInv, ReconTypes
<1>7. ReconTypes'
  BY <1>1, <1>3, <1>5, <1>6 DEF ReconInv, ReconTypes
<1>8. ASSUME NEW c \in Checks, checkPc[c] = "positions", ReadsAreShort(c) PROVE ReadsAreShort(c)'
  <2> SUFFICES ASSUME NEW s \in Recon!Symbols
               PROVE  /\ s \notin behind[c] \cup moved'[c] => local[c][s] = Position(executed', s)
                      /\ s \in behind[c] =>
                           /\ AllBuy(s) => local[c][s] < Position(executed', s)
                           /\ AllSell(s) => local[c][s] > Position(executed', s)
    BY <1>1 DEF ReadsAreShort, AllBuy, AllSell, OrdersOn
  <2>1. /\ Position(executed, s) \in Int /\ Position(executed', s) \in Int
        /\ AllBuy(s) => Position(executed, s) <= Position(executed', s)
        /\ AllSell(s) => Position(executed, s) >= Position(executed', s)
    BY <1>3, PositionGrows
  <2>2. s # Sym[o] => Position(executed, s) = Position(executed', s)
    BY <1>3, PositionGrows DEF OrdersOn
  <2>3. local[c][s] \in Int
    BY DEF ReconInv, ReconTypes
  <2> QED BY <1>5, <1>8, <2>1, <2>2, <2>3 DEF ReadsAreShort
<1>9. \A c \in Checks : DiffsAreShort(c) => DiffsAreShort(c)'
  BY <1>1, <1>5 DEF DiffsAreShort, AllBuy, AllSell, OrdersOn
<1>10. \A c \in Checks : TaskReadsNothing(c) => TaskReadsNothing(c)'
  BY <1>1 DEF TaskReadsNothing
<1>11. ASSUME NEW c \in Checks PROVE CheckIsSound(c)'
  BY <1>1, <1>8, <1>9, <1>10 DEF ReconInv, CheckIsSound
<1> QED BY <1>1, <1>7, <1>11 DEF ReconInv, OutsideIsCounted

\* Trades by others are counted; a check under way knows the symbol.
LEMMA OutsideHolds == ASSUME ReconInv, NEW z \in Recon!Symbols, Recon!TradesOutside(z) PROVE ReconInv'
<1>1. /\ UNCHANGED <<executed, reported, booked, ends, checkPc, by, local, count, diffs, result, told,
                     behind, broken>>
      /\ moved' = [c \in Checks |-> IF c \in Recon!Waiting THEN moved[c] \cup {z} ELSE moved[c]]
      /\ trades' = trades + 1
  BY DEF Recon!TradesOutside, Recon!Traded, Recon!ledger, Recon!checks
<1>2. PICK n \in {-1, 1} : outside' = [outside EXCEPT ![z] = @ + n]
  BY DEF Recon!TradesOutside
<1>3. /\ moved' \in [Checks -> SUBSET Recon!Symbols] /\ \A c \in Checks : moved[c] \subseteq moved'[c]
  BY <1>1 DEF ReconInv, ReconTypes
<1>4. trades' \in Nat /\ trades' # 0 /\ outside' \in [Recon!Symbols -> Int]
  BY <1>1, <1>2 DEF ReconInv, ReconTypes
<1>5. ReconTypes'
  BY <1>1, <1>3, <1>4 DEF ReconInv, ReconTypes
<1>6. ASSUME NEW c \in Checks PROVE CheckIsSound(c)'
  <2>1. ReadsAreShort(c) => ReadsAreShort(c)'
    BY <1>1, <1>3 DEF ReadsAreShort, AllBuy, AllSell, OrdersOn
  <2>2. DiffsAreShort(c)' /\ (TaskReadsNothing(c) => TaskReadsNothing(c)')
    BY <1>1, <1>4 DEF DiffsAreShort, TaskReadsNothing
  <2> QED BY <1>1, <2>1, <2>2 DEF ReconInv, CheckIsSound
<1> QED BY <1>4, <1>5, <1>6 DEF ReconInv, OutsideIsCounted

\* The book changes: what checks have read of it does not.
LEMMA BookHolds ==
    ASSUME ReconInv, NEW o \in Ids, Recon!Submits(o) \/ Recon!Reports(o) PROVE ReconInv'
<1>1. UNCHANGED <<executed, outside, trades, checkPc, by, local, count, diffs, result, told,
                  behind, moved, broken>>
  BY DEF Recon!Submits, Recon!Reports, Recon!Ledger!Report, Recon!ledger, Recon!world,
         Recon!checks, Recon!past
<1>2. /\ booked' \subseteq Ids /\ reported' \in [Ids -> Nat]
      /\ \A p \in Ids : reported'[p] <= executed[p]
  <2>1. CASE Recon!Submits(o)
    BY <2>1 DEF Recon!Submits, Recon!ledger, ReconInv, ReconTypes
  <2>2. CASE Recon!Reports(o)
    <3>1. PICK n \in reported[o]..executed[o] : reported' = [reported EXCEPT ![o] = n]
      BY <2>2 DEF Recon!Reports, Recon!Ledger!Report
    <3>2. booked' = booked
      BY <2>2 DEF Recon!Reports, Recon!world
    <3>3. n \in Nat /\ n <= executed[o]
      BY DEF ReconInv, ReconTypes
    <3> QED BY <3>1, <3>2, <3>3 DEF ReconInv, ReconTypes
  <2> QED BY <2>1, <2>2
<1>3. ReconTypes'
  BY <1>1, <1>2 DEF ReconInv, ReconTypes
<1>4. ASSUME NEW c \in Checks PROVE CheckIsSound(c)'
  BY <1>1 DEF ReconInv, CheckIsSound, ReadsAreShort, DiffsAreShort, TaskReadsNothing, AllBuy,
              AllSell, OrdersOn, Position
<1> QED BY <1>1, <1>3, <1>4 DEF ReconInv, OutsideIsCounted

\* A restart ends the checks of its process without a verdict.
LEMMA ReconRestartsHold == ASSUME ReconInv, Recon!Restarts PROVE ReconInv'
<1> DEFINE ended == {c \in Recon!Waiting : by[c] # "task"}
<1>1. /\ UNCHANGED <<executed, reported, outside, trades, by, local, count, diffs, told, behind,
                     moved, broken>>
      /\ booked' = {}
      /\ checkPc' = [c \in Checks |-> IF c \in ended THEN "done" ELSE checkPc[c]]
      /\ result' = [c \in Checks |-> IF c \in ended THEN "gone" ELSE result[c]]
  BY DEF Recon!Restarts, Recon!ledger, Recon!past
<1>2. /\ checkPc' \in [Checks -> {"idle", "positions", "account", "done"}]
      /\ result' \in [Checks -> {"none", "clean", "different", "suppressed", "unreachable",
                                 "unregistered", "gone"}]
      /\ \A c \in Checks : \/ checkPc'[c] = checkPc[c] /\ result'[c] = result[c]
                           \/ checkPc[c] # "done" /\ checkPc'[c] = "done" /\ result'[c] = "gone"
  BY <1>1 DEF ReconInv, ReconTypes, Recon!Waiting
<1>3. ReconTypes'
  BY <1>1, <1>2 DEF ReconInv, ReconTypes
<1>4. \A c \in Checks : /\ ReadsAreShort(c) => ReadsAreShort(c)'
                        /\ DiffsAreShort(c) => DiffsAreShort(c)'
                        /\ TaskReadsNothing(c) => TaskReadsNothing(c)'
  BY <1>1 DEF ReadsAreShort, DiffsAreShort, TaskReadsNothing, AllBuy, AllSell, OrdersOn, Position
<1>5. ASSUME NEW c \in Checks PROVE CheckIsSound(c)'
  BY <1>1, <1>2, <1>4 DEF ReconInv, CheckIsSound
<1> QED BY <1>1, <1>3, <1>5 DEF ReconInv, OutsideIsCounted

\* A check reads the book: what it misses of an execution is behind.
LEMMA ReadsHold == ASSUME ReconInv, NEW c \in Checks, Recon!Reads(c) PROVE ReconInv'
<1>1. /\ checkPc[c] = "idle" /\ checkPc' = [checkPc EXCEPT ![c] = "positions"]
      /\ UNCHANGED <<executed, reported, booked, outside, trades, diffs, result, told, moved, broken>>
  BY DEF Recon!Reads, Recon!ledger, Recon!world
<1>2. PICK who \in {"api", "cash", "task"} :
        /\ by' = [by EXCEPT ![c] = who]
        /\ local' = [local EXCEPT ![c] =
                       [s \in Recon!Symbols |-> Recon!Net(Recon!BookOf(who), Recon!Filled, s)]]
        /\ count' = [count EXCEPT ![c] = Recon!Cardinality(Recon!BookOf(who))]
        /\ behind' = [behind EXCEPT ![c] = {Sym[o] : o \in
             {x \in Ids : executed[x] # (IF x \in Recon!BookOf(who) THEN reported[x] ELSE 0)}}]
  BY DEF Recon!Reads
<1> DEFINE B == Recon!BookOf(who)
           visible == Shown(B, reported)
<1>3. B \in SUBSET Ids /\ (who = "task" => B = {})
  BY DEF Recon!BookOf, ReconInv, ReconTypes
<1>4. /\ visible \in [Ids -> Nat] /\ executed \in [Ids -> Nat]
      /\ \A o \in Ids : visible[o] <= executed[o]
      /\ \A o \in Ids : visible[o] = IF o \in B THEN reported[o] ELSE 0
  BY DEF Shown, ReconInv, ReconTypes
<1>5. \A s : Recon!Net(B, reported, s) = Position(visible, s) /\ Position(visible, s) \in Int
  <2>1. reported \in [Ids -> Nat]
    BY DEF ReconInv, ReconTypes
  <2> HIDE DEF B
  <2> QED BY <1>3, <1>4, <2>1, NetIsPosition, PositionGrows
<1>6. Recon!Cardinality(B) \in Nat /\ (B = {} => Recon!Cardinality(B) = 0)
  <2>1. Recon!Cardinality(B) = Cardinality(B)
    BY DEF Recon!Cardinality, Cardinality
  <2>2. IsFiniteSet(B)
    BY <1>3, ReconAssumption, FS_Subset
  <2> HIDE DEF B
  <2> QED BY <2>1, <2>2, FS_CardinalityType, FS_EmptySet
<1>7. /\ by' \in [Checks -> {"api", "cash", "task"}] /\ by'[c] = who
      /\ \A d \in Checks : d # c => by'[d] = by[d]
  BY <1>2 DEF ReconInv, ReconTypes
<1>8. /\ local' \in [Checks -> [Recon!Symbols -> Int]]
      /\ \A s \in Recon!Symbols : local'[c][s] = Position(visible, s)
      /\ \A d \in Checks : d # c => local'[d] = local[d]
  <2>1. local' = [local EXCEPT ![c] = [s \in Recon!Symbols |-> Position(visible, s)]]
    BY <1>2, <1>5 DEF Recon!Filled
  <2>2. [s \in Recon!Symbols |-> Position(visible, s)] \in [Recon!Symbols -> Int]
    BY <1>5
  <2> HIDE DEF visible
  <2> QED BY <2>1, <2>2 DEF ReconInv, ReconTypes
<1>9. /\ count' \in [Checks -> Nat] /\ count'[c] = Recon!Cardinality(B)
      /\ \A d \in Checks : d # c => count'[d] = count[d]
  BY <1>2, <1>6 DEF ReconInv, ReconTypes
<1>10. /\ behind' \in [Checks -> SUBSET Recon!Symbols]
       /\ \A s : s \in behind'[c] <=> \E o \in OrdersOn(s) : visible[o] # executed[o]
       /\ \A d \in Checks : d # c => behind'[d] = behind[d]
  <2>1. {Sym[o] : o \in {x \in Ids : executed[x] # (IF x \in B THEN reported[x] ELSE 0)}}
          \in SUBSET Recon!Symbols
    BY DEF Recon!Symbols
  <2>2. behind'[c] = {Sym[o] : o \in {x \in Ids : executed[x] # (IF x \in B THEN reported[x] ELSE 0)}}
    BY <1>2 DEF ReconInv, ReconTypes
  <2>3. \A s : s \in behind'[c] <=> \E o \in OrdersOn(s) : visible[o] # executed[o]
    BY <2>2, <1>4 DEF OrdersOn
  <2>4. behind' \in [Checks -> SUBSET Recon!Symbols] /\ \A d \in Checks : d # c => behind'[d] = behind[d]
    BY <2>1, <1>2 DEF ReconInv, ReconTypes
  <2> QED BY <2>3, <2>4
<1>11. /\ checkPc' \in [Checks -> {"idle", "positions", "account", "done"}] /\ checkPc'[c] = "positions"
       /\ \A d \in Checks : d # c => checkPc'[d] = checkPc[d]
  BY <1>1 DEF ReconInv, ReconTypes
<1> HIDE DEF B, visible
<1>12. ReconTypes'
  BY <1>1, <1>7, <1>8, <1>9, <1>10, <1>11 DEF ReconInv, ReconTypes
<1>13. ReadsAreShort(c)'
  <2> SUFFICES ASSUME NEW s \in Recon!Symbols
               PROVE  /\ s \notin behind'[c] \cup moved[c] => local'[c][s] = Position(executed, s)
                      /\ s \in behind'[c] =>
                           /\ AllBuy(s) => local'[c][s] < Position(executed, s)
                           /\ AllSell(s) => local'[c][s] > Position(executed, s)
    BY <1>1 DEF ReadsAreShort, AllBuy, AllSell, OrdersOn
  <2>1. /\ (\A o \in OrdersOn(s) : visible[o] = executed[o]) => Position(visible, s) = Position(executed, s)
        /\ (\E o \in OrdersOn(s) : visible[o] # executed[o]) =>
             /\ AllBuy(s) => Position(visible, s) < Position(executed, s)
             /\ AllSell(s) => Position(visible, s) > Position(executed, s)
    BY <1>4, PositionGrows
  <2> QED BY <1>8, <1>10, <2>1
<1>14. TaskReadsNothing(c)'
  <2> SUFFICES ASSUME who = "task"
               PROVE  count'[c] = 0 /\ \A s \in Recon!Symbols : local'[c][s] = 0
    BY <1>7 DEF TaskReadsNothing
  <2>1. B = {}
    BY <1>3
  <2>2. ASSUME NEW s PROVE Position(visible, s) = 0
    <3>1. Recon!Net({}, reported, s) = Position(visible, s)
      BY <1>5, <2>1
    <3>2. Recon!Net({}, reported, s) = SumFunctionOnSet([o \in {} |-> Side[o] * reported[o]], {})
      BY SameSums DEF Recon!Net
    <3> QED BY <3>1, <3>2, SumEmpty
  <2> QED BY <1>6, <1>8, <1>9, <2>1, <2>2
<1>15. ASSUME NEW d \in Checks, d # c PROVE CheckIsSound(d)'
  <2>1. UNCHANGED <<checkPc[d], by[d], local[d], count[d], behind[d]>>
    BY <1>7, <1>8, <1>9, <1>10, <1>11, <1>15
  <2> QED BY <1>1, <2>1 DEF ReconInv, CheckIsSound, ReadsAreShort, DiffsAreShort, TaskReadsNothing,
                           AllBuy, AllSell, OrdersOn, Position
<1>16. CheckIsSound(c)'
  BY <1>1, <1>11, <1>13, <1>14 DEF ReconInv, CheckIsSound
<1> QED BY <1>1, <1>12, <1>15, <1>16 DEF ReconInv, OutsideIsCounted

LEMMA NoGatewayHolds == ASSUME ReconInv, NEW c \in Checks, Recon!NoGateway(c) PROVE ReconInv'
<1>1. /\ checkPc[c] = "idle" /\ checkPc' = [checkPc EXCEPT ![c] = "done"]
      /\ by' = [by EXCEPT ![c] = "task"] /\ result' = [result EXCEPT ![c] = "unregistered"]
      /\ UNCHANGED <<executed, reported, booked, outside, trades, local, count, diffs, told, behind,
                     moved, broken>>
  BY DEF Recon!NoGateway, Recon!ledger, Recon!world, Recon!past
<1>2. ReconTypes'
  BY <1>1 DEF ReconInv, ReconTypes
<1>3. /\ checkPc'[c] = "done" /\ result'[c] = "unregistered"
      /\ \A d \in Checks : d # c => UNCHANGED <<checkPc[d], by[d], result[d]>>
  BY <1>1 DEF ReconInv, ReconTypes
<1>4. ASSUME NEW d \in Checks PROVE CheckIsSound(d)'
  BY <1>1, <1>3 DEF ReconInv, CheckIsSound, ReadsAreShort, DiffsAreShort, TaskReadsNothing,
                    AllBuy, AllSell, OrdersOn, Position
<1> QED BY <1>1, <1>2, <1>4 DEF ReconInv, OutsideIsCounted

\* The end of a check whose differences are accounted for.
LEMMA EndsHold ==
    ASSUME ReconInv, NEW c \in Checks, checkPc[c] \in {"positions", "account"},
           NEW reachable \in BOOLEAN, NEW D \in SUBSET Recon!Symbols, Recon!Ends(c, reachable, D),
           UNCHANGED <<executed, reported, booked, outside, trades, by, behind, moved>>,
           broken' = IF reachable THEN broken ELSE broken \cup {c},
           reachable /\ trades = 0 =>
               /\ D \subseteq behind[c] \cup moved[c]
               /\ \A s \in behind[c] : AllBuy(s) \/ AllSell(s) => s \in D,
           reachable => TaskReadsNothing(c)
    PROVE  ReconInv'
<1> DEFINE shown == IF reachable THEN D ELSE {}
           verdict == Recon!Verdict(c, reachable, shown)
<1>1. /\ checkPc' = [checkPc EXCEPT ![c] = "done"]
      /\ diffs' = [diffs EXCEPT ![c] = shown] /\ result' = [result EXCEPT ![c] = verdict]
      /\ local' = [local EXCEPT ![c] = [s \in Recon!Symbols |-> 0]] /\ count' = [count EXCEPT ![c] = 0]
      /\ told' = [told EXCEPT ![c] = verdict \in {"unreachable", "different"}]
  BY DEF Recon!Ends
<1>2. /\ verdict = "clean" <=> reachable /\ D = {}
      /\ verdict = "unreachable" <=> ~reachable
      /\ verdict \in {"clean", "different", "suppressed", "unreachable"}
      /\ reachable /\ by[c] = "task" => verdict # "different"
  BY DEF Recon!Verdict, Recon!Clean, Recon!Suppressed, TaskReadsNothing
<1>3. shown \in SUBSET Recon!Symbols
  OBVIOUS
<1> HIDE DEF verdict, shown
<1>4. ReconTypes'
  BY <1>1, <1>2, <1>3 DEF ReconInv, ReconTypes
<1>5. /\ checkPc'[c] = "done" /\ diffs'[c] = shown /\ result'[c] = verdict
      /\ told'[c] = (verdict \in {"unreachable", "different"})
      /\ \A d \in Checks : d # c =>
           UNCHANGED <<checkPc[d], diffs[d], result[d], local[d], count[d], told[d]>>
  BY <1>1 DEF ReconInv, ReconTypes
<1>6. ASSUME NEW d \in Checks, d # c PROVE CheckIsSound(d)'
  BY <1>5, <1>6 DEF ReconInv, CheckIsSound, ReadsAreShort, DiffsAreShort, TaskReadsNothing,
                    AllBuy, AllSell, OrdersOn, Position
<1>7. reachable => DiffsAreShort(c)'
  BY <1>5 DEF DiffsAreShort, AllBuy, AllSell, OrdersOn, shown
<1>8. c \notin broken
  BY DEF ReconInv, CheckIsSound
<1>9. CheckIsSound(c)'
  BY <1>2, <1>5, <1>7, <1>8 DEF CheckIsSound, shown
<1> QED BY <1>4, <1>6, <1>9 DEF ReconInv, OutsideIsCounted

\* The positions have arrived: the symbols that differ are those behind or moved.
LEMMA DifferIsShort ==
    ASSUME ReconInv, NEW c \in Checks, checkPc[c] = "positions"
    PROVE  /\ Recon!Differ(c) \in SUBSET Recon!Symbols
           /\ trades = 0 =>
                /\ Recon!Differ(c) \subseteq behind[c] \cup moved[c]
                /\ \A s \in behind[c] : AllBuy(s) \/ AllSell(s) => s \in Recon!Differ(c)
<1>1. ReadsAreShort(c) /\ behind[c] \subseteq Recon!Symbols
  BY DEF ReconInv, ReconTypes, CheckIsSound
<1>2. ASSUME trades = 0, NEW s \in Recon!Symbols
      PROVE  /\ s \in Recon!Differ(c) => s \in behind[c] \cup moved[c]
             /\ s \in behind[c] /\ (AllBuy(s) \/ AllSell(s)) => s \in Recon!Differ(c)
  <2>1. Recon!Broker[s] = Position(executed, s)
    BY <1>2, BrokerHasPositions
  <2>2. executed \in [Ids -> Nat] /\ local[c][s] \in Int
    BY DEF ReconInv, ReconTypes
  <2>3. Position(executed, s) \in Int
    BY <2>2, PositionGrows
  <2> QED BY <1>1, <2>1, <2>2, <2>3 DEF ReadsAreShort, Recon!Differ
<1> QED BY <1>1, <1>2 DEF Recon!Differ

LEMMA AnswersHold == ASSUME ReconInv, NEW c \in Checks, Recon!Answers(c) PROVE ReconInv'
<1>1. /\ checkPc[c] = "positions"
      /\ UNCHANGED <<executed, reported, booked, outside, trades, by, behind, moved, broken>>
  BY DEF Recon!Answers, Recon!ledger, Recon!world, Recon!past
<1> DEFINE D == Recon!Differ(c)
<1>2. D \in SUBSET Recon!Symbols
  BY <1>1, DifferIsShort
<1>3. CASE by[c] = "cash"
  <2>1. /\ checkPc' = [checkPc EXCEPT ![c] = "account"] /\ diffs' = [diffs EXCEPT ![c] = D]
        /\ UNCHANGED <<local, count, result, told>>
    BY <1>3 DEF Recon!Answers
  <2>2. /\ trades = 0 => D \subseteq behind[c] \cup moved[c]
        /\ trades = 0 => \A s \in behind[c] : AllBuy(s) \/ AllSell(s) => s \in D
    BY <1>1, DifferIsShort
  <2> HIDE DEF D
  <2>3. ReconTypes'
    BY <1>1, <1>2, <2>1 DEF ReconInv, ReconTypes
  <2>4. /\ checkPc'[c] = "account" /\ diffs'[c] = D
        /\ \A d \in Checks : d # c => UNCHANGED <<checkPc[d], diffs[d]>>
    BY <2>1 DEF ReconInv, ReconTypes
  <2>5. DiffsAreShort(c)'
    BY <1>1, <2>2, <2>4 DEF DiffsAreShort, AllBuy, AllSell, OrdersOn
  <2>6. CheckIsSound(c)'
    BY <1>1, <1>3, <2>1, <2>4, <2>5 DEF ReconInv, CheckIsSound
  <2>7. ASSUME NEW d \in Checks, d # c PROVE CheckIsSound(d)'
    BY <1>1, <2>1, <2>4, <2>7 DEF ReconInv, CheckIsSound, ReadsAreShort, DiffsAreShort,
                                  TaskReadsNothing, AllBuy, AllSell, OrdersOn, Position
  <2> QED BY <1>1, <2>3, <2>6, <2>7 DEF ReconInv, OutsideIsCounted
<1>4. CASE by[c] # "cash"
  <2>1. Recon!Ends(c, TRUE, D)
    BY <1>4 DEF Recon!Answers
  <2>2. trades = 0 => /\ D \subseteq behind[c] \cup moved[c]
                      /\ \A s \in behind[c] : AllBuy(s) \/ AllSell(s) => s \in D
    BY <1>1, DifferIsShort
  <2>3. TaskReadsNothing(c)
    BY <1>1 DEF ReconInv, CheckIsSound
  <2> HIDE DEF D
  <2> QED BY <1>1, <1>2, <2>1, <2>2, <2>3, EndsHold
<1> QED BY <1>3, <1>4

LEMMA CashAnswersHold == ASSUME ReconInv, NEW c \in Checks, Recon!CashAnswers(c) PROVE ReconInv'
<1>1. /\ checkPc[c] = "account" /\ Recon!Ends(c, TRUE, diffs[c])
      /\ UNCHANGED <<executed, reported, booked, outside, trades, by, behind, moved, broken>>
  BY DEF Recon!CashAnswers, Recon!ledger, Recon!world, Recon!past
<1>2. diffs[c] \in SUBSET Recon!Symbols /\ DiffsAreShort(c) /\ by[c] = "cash"
  BY <1>1 DEF ReconInv, ReconTypes, CheckIsSound
<1> QED BY <1>1, <1>2, EndsHold DEF DiffsAreShort, TaskReadsNothing

LEMMA BrokerFailsHolds == ASSUME ReconInv, NEW c \in Checks, Recon!BrokerFails(c) PROVE ReconInv'
<1>1. /\ checkPc[c] \in {"positions", "account"} /\ Recon!Ends(c, FALSE, diffs[c])
      /\ UNCHANGED <<executed, reported, booked, outside, trades, by, behind, moved>>
      /\ broken' = broken \cup {c}
  BY DEF Recon!BrokerFails, Recon!ledger, Recon!world
<1>2. diffs[c] \in SUBSET Recon!Symbols
  BY DEF ReconInv, ReconTypes
<1> QED BY <1>1, <1>2, EndsHold

LEMMA ReconStep == ReconInv /\ [Recon!Next]_(Recon!vars) => ReconInv'
<1> SUFFICES ASSUME ReconInv, [Recon!Next]_(Recon!vars) PROVE ReconInv'
  OBVIOUS
<1>1. CASE UNCHANGED Recon!vars
  <2>1. \A c \in Checks : CheckIsSound(c)'
    BY <1>1 DEF Recon!vars, Recon!ledger, Recon!world, Recon!checks, Recon!past, ReconInv, CheckIsSound,
         ReadsAreShort, DiffsAreShort, TaskReadsNothing, AllBuy, AllSell, OrdersOn, Position
  <2> QED BY <1>1, <2>1 DEF Recon!vars, Recon!ledger, Recon!world, Recon!checks, Recon!past, ReconInv,
                            ReconTypes, OutsideIsCounted
<1> QED BY <1>1, ExecutesHolds, OutsideHolds, BookHolds, ReconRestartsHold, ReadsHold, NoGatewayHolds,
           AnswersHold, CashAnswersHold, BrokerFailsHolds DEF Recon!Next

\* On a symbol with orders of both sides there are two sides.
LEMMA BothSides ==
    ASSUME NEW s \in Recon!Symbols, ~AllBuy(s), ~AllSell(s)
    PROVE  Recon!Cardinality({Side[o] : o \in {x \in Ids : Sym[x] = s}}) = 2
<1>1. {Side[o] : o \in {x \in Ids : Sym[x] = s}} = {-1, 1}
  BY ReconAssumption DEF AllBuy, AllSell, OrdersOn
<1>2. Cardinality({-1, 1}) = 2
  <2>1. IsFiniteSet({1}) /\ Cardinality({1}) = 1
    BY FS_Singleton
  <2>2. {-1, 1} = {1} \cup {-1} /\ -1 \notin {1}
    OBVIOUS
  <2> QED BY <2>1, <2>2, FS_AddElement
<1>3. Recon!Cardinality({-1, 1}) = Cardinality({-1, 1})
  BY DEF Recon!Cardinality, Cardinality
<1> QED BY <1>1, <1>2, <1>3

LEMMA Reported == ReconInv => ReportsAreTrue
<1> SUFFICES ASSUME ReconInv PROVE ReportsAreTrue
  OBVIOUS
<1>1. Recon!TypeOK
  BY DEF ReconInv, ReconTypes, Recon!TypeOK
<1>2. Recon!DifferencesHaveACause
  BY DEF ReconInv, ReconTypes, CheckIsSound, DiffsAreShort, Recon!Compared, Recon!DifferencesHaveACause
<1>3. Recon!CleanIsComplete
  <2> SUFFICES ASSUME NEW c \in Checks, result[c] = "clean", trades = 0, NEW s \in behind[c]
               PROVE  Recon!Cardinality({Side[o] : o \in {x \in Ids : Sym[x] = s}}) = 2
    BY DEF Recon!CleanIsComplete
  <2>1. s \in Recon!Symbols /\ s \notin diffs[c] /\ DiffsAreShort(c)
    BY DEF ReconInv, ReconTypes, CheckIsSound
  <2> QED BY <2>1, BothSides DEF DiffsAreShort
<1>4. Recon!UnreachableIsNeverClean /\ Recon!TaskTellsOnlyUnreachable
  BY DEF ReconInv, ReconTypes, CheckIsSound, Recon!UnreachableIsNeverClean, Recon!TaskTellsOnlyUnreachable
<1> QED BY <1>1, <1>2, <1>3, <1>4 DEF ReportsAreTrue, Recon!ReportsAreTrue

\* What a reconciliation reports is true, for any orders and any number of checks and of
\* executions between their requests (oms/reconcile.py).
THEOREM ReportsStayTrue == Recon!Spec => []ReportsAreTrue
BY ReconInit, ReconStep, Reported, PTL DEF Recon!Spec

-----------------------------------------------------------------------------
(* The inbox.  Every writer that is not done answers for one notification   *)
(* above the capacity; a writer that has counted the overflow will take so  *)
(* many away that those after it answer for the rest.                       *)

Busy == {n \in Box!Events : writer[n] \in {"count", "range", "trim", "failed"}}
Counters == {n \in Box!Events : writer[n] \in {"range", "trim"}}

BoxTypes ==
    /\ Box!TypeOK
    /\ listed \in [Box!Readers -> SUBSET Box!Events] /\ raced \subseteq Box!Events
    /\ crowded \in BOOLEAN

\* What a request of a reader is about to write or to clear.
RequestsAreKnown ==
    \A r \in Box!Readers :
        /\ inboxPc[r] = "set" => r \in Marks \cup MarkAlls /\ target[r] \subseteq timeline \cup raced
        /\ inboxPc[r] = "remove" => target[r] = listed[r]

\* What is listed has been recorded, and what is to be removed has been listed.
ListedIsRecorded ==
    /\ \A n \in timeline : writer[n] # "idle"
    /\ \A w \in Box!Events : writer[w] = "trim" => \A n \in excess[w] : writer[n] # "idle"

\* What a writer leaves in the timeline.
LeftBy(w) ==
    IF writer[w] = "range" THEN Cardinality(timeline) - Cardinality(excess[w])
                           ELSE Cardinality(timeline \ excess[w])

\* Of any writers that have counted, one leaves no more above the capacity than the
\* others answer for.
RoomFor(W) ==
    IF W = {} THEN Cardinality(timeline) <= Capacity + Cardinality(Busy)
    ELSE \E w \in W : LeftBy(w) <= Capacity + Cardinality(Busy \ W)

\* A removal nobody has disturbed takes the oldest, down to the capacity.
QuietRemoval ==
    ~crowded =>
        /\ \A m, n \in Box!Trimming : m = n
        /\ \A n \in Counters : Cardinality(excess[n]) = Cardinality(timeline) - Capacity
        /\ \A n \in Box!Events : writer[n] = "trim" =>
             /\ excess[n] \subseteq timeline
             /\ \A k \in excess[n], l \in timeline \ excess[n] : k < l

BoxInv ==
    /\ BoxTypes /\ Box!StrayRecordsNeedRace /\ RequestsAreKnown /\ ListedIsRecorded
    /\ \A W \in SUBSET Counters : RoomFor(W)
    /\ QuietRemoval

\* The instance has its own copy of the cardinality.
LEMMA BoxCardinality == \A S : Box!Cardinality(S) = Cardinality(S)
BY DEF Box!Cardinality, Cardinality

\* The notifications are finitely many.
LEMMA EventsAreFinite ==
    /\ IsFiniteSet(Box!Events) /\ Cardinality(Box!Events) = EventCount
    /\ Box!Events \subseteq Int
    /\ \A S \in SUBSET Box!Events :
         IsFiniteSet(S) /\ Cardinality(S) \in Nat /\ Cardinality(S) <= EventCount
<1>1. IsFiniteSet(Box!Events) /\ Cardinality(Box!Events) = EventCount
  BY InboxAssumption, FS_Interval DEF Box!Events
<1>2. ASSUME NEW S \in SUBSET Box!Events
      PROVE  IsFiniteSet(S) /\ Cardinality(S) \in Nat /\ Cardinality(S) <= EventCount
  BY <1>1, FS_Subset, FS_CardinalityType
<1> QED BY <1>1, <1>2 DEF Box!Events

\* A part of the events is no larger.
LEMMA EventParts ==
    ASSUME NEW S \in SUBSET Box!Events, NEW T \in SUBSET S
    PROVE  Cardinality(T) \in Nat /\ Cardinality(S) \in Nat /\ Cardinality(T) <= Cardinality(S)
BY EventsAreFinite, FS_Subset

\* A writer leaves no more when others remove.
LEMMA LeftShrinks ==
    ASSUME BoxTypes, timeline' \subseteq timeline, NEW w \in Box!Events,
           excess'[w] = excess[w], writer'[w] = writer[w]
    PROVE  LeftBy(w) \in Int /\ LeftBy(w)' \in Int /\ LeftBy(w)' <= LeftBy(w)
<1>1. timeline \in SUBSET Box!Events /\ excess[w] \in SUBSET Box!Events
  BY DEF BoxTypes, Box!TypeOK
<1>2. /\ Cardinality(timeline) \in Nat /\ Cardinality(timeline') \in Nat
      /\ Cardinality(timeline') <= Cardinality(timeline) /\ Cardinality(excess[w]) \in Nat
  BY <1>1, EventParts, EventsAreFinite
<1>3. /\ Cardinality(timeline \ excess[w]) \in Nat /\ Cardinality(timeline' \ excess[w]) \in Nat
      /\ Cardinality(timeline' \ excess[w]) <= Cardinality(timeline \ excess[w])
  <2>1. timeline' \ excess[w] \in SUBSET (timeline \ excess[w]) /\ timeline \ excess[w] \in SUBSET Box!Events
    BY <1>1
  <2> QED BY <2>1, EventParts
<1> QED BY <1>2, <1>3 DEF LeftBy

LEMMA BoxInit == Box!Init => BoxInv
<1> SUFFICES ASSUME Box!Init PROVE BoxInv
  OBVIOUS
<1> USE DEF Box!Init
<1>1. BoxTypes /\ Box!StrayRecordsNeedRace /\ RequestsAreKnown /\ ListedIsRecorded
  BY InboxAssumption DEF BoxTypes, Box!TypeOK, Box!StrayRecordsNeedRace, RequestsAreKnown, ListedIsRecorded
<1>2. Counters = {} /\ Box!Trimming = {} /\ timeline = {}
  BY DEF Counters, Box!Trimming
<1>3. RoomFor({})
  <2>1. Busy \in SUBSET Box!Events /\ Cardinality(timeline) = 0
    BY <1>2, FS_EmptySet DEF Busy
  <2>2. Cardinality(Busy) \in Nat
    BY <2>1, EventsAreFinite
  <2> QED BY <2>1, <2>2, InboxAssumption DEF RoomFor
<1>4. QuietRemoval
  BY <1>2 DEF QuietRemoval
<1> QED BY <1>1, <1>2, <1>3, <1>4 DEF BoxInv

\* A new notification is above all others; its writer answers for it.
LEMMA BoxRecords == ASSUME BoxInv, NEW n \in Box!Events, Box!Records(n) PROVE BoxInv'
<1>1. /\ writer[n] = "idle" /\ writer' = [writer EXCEPT ![n] = "count"]
      /\ notification' = [notification EXCEPT ![n] = "unread"] /\ timeline' = timeline \cup {n}
      /\ crowded' = (crowded \/ Box!Trimming # {})
      /\ UNCHANGED <<excess, inboxPc, target, listed, raced>>
  BY DEF Box!Records
<1>2. /\ writer' \in [Box!Events -> {"idle", "count", "range", "trim", "done", "failed"}]
      /\ writer'[n] = "count" /\ \A m \in Box!Events : m # n => writer'[m] = writer[m]
      /\ notification' \in [Box!Events -> {"unread", "read", None}] /\ notification'[n] = "unread"
      /\ \A m \in Box!Events : m # n => notification'[m] = notification[m]
      /\ crowded' \in BOOLEAN /\ timeline' \in SUBSET Box!Events
      /\ timeline \in SUBSET Box!Events /\ excess \in [Box!Events -> SUBSET Box!Events]
  BY <1>1 DEF BoxInv, BoxTypes, Box!TypeOK
<1>3. BoxTypes'
  BY <1>1, <1>2 DEF BoxInv, BoxTypes, Box!TypeOK
<1>4. Box!StrayRecordsNeedRace' /\ RequestsAreKnown' /\ ListedIsRecorded'
  BY <1>1, <1>2, InboxAssumption DEF BoxInv, Box!StrayRecordsNeedRace, RequestsAreKnown, ListedIsRecorded
<1>5. n \notin timeline /\ n \notin Busy /\ Busy' = Busy \cup {n} /\ Counters' = Counters /\ n \notin Counters
  BY <1>1, <1>2 DEF BoxInv, ListedIsRecorded, Busy, Counters
<1>6. /\ Busy \in SUBSET Box!Events /\ IsFiniteSet(Busy) /\ IsFiniteSet(timeline)
      /\ Cardinality(timeline) \in Nat /\ Cardinality(timeline') = Cardinality(timeline) + 1
  BY <1>1, <1>2, <1>5, EventsAreFinite, FS_AddElement DEF Busy
<1>7. ASSUME NEW W \in SUBSET Counters PROVE RoomFor(W)'
  <2>1. /\ Cardinality(Busy' \ W) = Cardinality(Busy \ W) + 1 /\ Cardinality(Busy \ W) \in Nat
        /\ Busy \ {} = Busy /\ Busy' \ {} = Busy'
    <3>1. Busy' \ W = (Busy \ W) \cup {n} /\ n \notin Busy \ W /\ Busy \ W \in SUBSET Box!Events
      BY <1>5, <1>6
    <3> QED BY <3>1, EventsAreFinite, FS_AddElement
  <2>2. CASE W = {}
    BY <1>6, <2>1, <2>2, InboxAssumption DEF BoxInv, RoomFor
  <2>3. CASE W # {}
    <3>1. PICK w \in W : LeftBy(w) <= Capacity + Cardinality(Busy \ W)
      BY <2>3 DEF BoxInv, RoomFor
    <3>2. w \in Box!Events /\ w # n /\ writer'[w] = writer[w] /\ excess'[w] = excess[w]
          /\ writer[w] \in {"range", "trim"}
      BY <1>1, <1>2, <1>5 DEF Counters
    <3>3. LeftBy(w) \in Int /\ LeftBy(w)' = LeftBy(w) + 1
      <4>1. CASE writer[w] = "range"
        <5>1. Cardinality(excess[w]) \in Nat
          BY <1>2, <3>2, EventsAreFinite
        <5> QED BY <1>6, <3>2, <4>1, <5>1 DEF LeftBy
      <4>2. CASE writer[w] = "trim"
        <5>1. /\ timeline' \ excess[w] = (timeline \ excess[w]) \cup {n} /\ n \notin timeline \ excess[w]
              /\ timeline \ excess[w] \in SUBSET Box!Events
          BY <1>1, <1>2, <1>5, <3>2, <4>2 DEF BoxInv, ListedIsRecorded
        <5>2. /\ Cardinality(timeline \ excess[w]) \in Nat
              /\ Cardinality(timeline' \ excess[w]) = Cardinality(timeline \ excess[w]) + 1
          BY <5>1, EventsAreFinite, FS_AddElement
        <5> QED BY <3>2, <4>2, <5>2 DEF LeftBy
      <4> QED BY <3>2, <4>1, <4>2
    <3>4. LeftBy(w)' <= Capacity + Cardinality(Busy' \ W)
      BY <2>1, <3>1, <3>3, InboxAssumption
    <3> QED BY <2>3, <3>4 DEF RoomFor
  <2> QED BY <2>2, <2>3
<1>8. QuietRemoval'
  <2> SUFFICES ASSUME ~crowded' PROVE QuietRemoval'
    BY DEF QuietRemoval
  <2>1. Box!Trimming = {}
    BY <1>1
  <2>2. Box!Trimming' = {n} /\ Counters' = {} /\ \A m \in Box!Events : writer'[m] # "trim"
    BY <1>2, <2>1 DEF Box!Trimming, Counters
  <2> QED BY <2>2 DEF QuietRemoval
<1> QED BY <1>3, <1>4, <1>5, <1>7, <1>8 DEF BoxInv

\* A writer leaves no more than there is.
LEMMA LeftIsBounded ==
    ASSUME BoxTypes, NEW w \in Box!Events
    PROVE  /\ LeftBy(w) \in Int /\ Cardinality(timeline) \in Nat
           /\ LeftBy(w) <= Cardinality(timeline)
<1>1. timeline \in SUBSET Box!Events /\ excess[w] \in SUBSET Box!Events
      /\ timeline \ excess[w] \in SUBSET timeline
  BY DEF BoxTypes, Box!TypeOK
<1> QED BY <1>1, EventParts, EventsAreFinite DEF LeftBy

\* A writer that counts takes away what is above the capacity, or there is nothing.
LEMMA BoxCounts == ASSUME BoxInv, NEW n \in Box!Events, Box!Counts(n) PROVE BoxInv'
<1> DEFINE more == Box!Overflow > 0
<1>1. /\ writer[n] = "count"
      /\ writer' = [writer EXCEPT ![n] = IF more THEN "range" ELSE "done"]
      /\ excess' = [excess EXCEPT ![n] = IF more THEN 1..Box!Overflow ELSE {}]
      /\ UNCHANGED <<notification, timeline, inboxPc, target, listed, raced, crowded>>
  BY DEF Box!Counts
<1>2. /\ timeline \in SUBSET Box!Events
      /\ Cardinality(timeline) \in Nat /\ Cardinality(timeline) <= EventCount
      /\ Box!Overflow = Cardinality(timeline) - Capacity
  BY EventsAreFinite, BoxCardinality DEF BoxInv, BoxTypes, Box!TypeOK, Box!Overflow
<1>3. more => /\ 1..Box!Overflow \in SUBSET Box!Events
              /\ Cardinality(1..Box!Overflow) = Cardinality(timeline) - Capacity
  <2> SUFFICES ASSUME more
               PROVE  /\ 1..Box!Overflow \in SUBSET Box!Events
                      /\ Cardinality(1..Box!Overflow) = Cardinality(timeline) - Capacity
    OBVIOUS
  <2>1. Box!Overflow \in Int /\ Box!Overflow > 0 /\ Box!Overflow <= EventCount
    BY <1>2, InboxAssumption
  <2>2. Cardinality(1..Box!Overflow) = Box!Overflow
    BY <2>1, FS_Interval
  <2>3. 1..Box!Overflow \subseteq 1..EventCount
    BY <2>1, InboxAssumption
  <2> QED BY <1>2, <2>2, <2>3 DEF Box!Events
<1>4. more <=> Cardinality(timeline) > Capacity
  BY <1>2, InboxAssumption
<1> HIDE DEF more
<1>5. /\ writer' \in [Box!Events -> {"idle", "count", "range", "trim", "done", "failed"}]
      /\ writer'[n] = (IF more THEN "range" ELSE "done")
      /\ excess' \in [Box!Events -> SUBSET Box!Events]
      /\ excess'[n] = (IF more THEN 1..Box!Overflow ELSE {})
      /\ \A m \in Box!Events : m # n => writer'[m] = writer[m] /\ excess'[m] = excess[m]
  BY <1>1, <1>3 DEF BoxInv, BoxTypes, Box!TypeOK
<1>6. BoxTypes'
  BY <1>1, <1>5 DEF BoxInv, BoxTypes, Box!TypeOK
<1>7. Box!StrayRecordsNeedRace' /\ RequestsAreKnown' /\ ListedIsRecorded'
  BY <1>1, <1>5 DEF BoxInv, BoxTypes, Box!TypeOK, Box!StrayRecordsNeedRace, RequestsAreKnown, ListedIsRecorded
<1>8. /\ Counters' \ {n} = Counters /\ n \notin Counters /\ Busy \in SUBSET Box!Events
      /\ Busy' \in SUBSET Box!Events /\ (more => Busy' = Busy)
      /\ n \in Counters' => more
  BY <1>1, <1>5 DEF Counters, Busy
<1>9. ASSUME NEW W \in SUBSET Counters' PROVE RoomFor(W)'
  <2>1. Cardinality(Busy \ W) \in Nat /\ Cardinality(Busy' \ W) \in Nat /\ Cardinality(Busy') \in Nat
    BY <1>8, EventsAreFinite
  <2>2. CASE n \in W
    <3>1. LeftBy(n)' = Capacity
      BY <1>1, <1>2, <1>3, <1>5, <1>8, <2>2, InboxAssumption DEF LeftBy
    <3> QED BY <2>1, <2>2, <3>1, InboxAssumption DEF RoomFor
  <2>3. CASE n \notin W
    <3>1. W \in SUBSET Counters /\ RoomFor(W)
      BY <1>8, <2>3 DEF BoxInv
    <3>2. \A w \in W : w \in Box!Events /\ LeftBy(w)' = LeftBy(w)
      BY <1>1, <1>5, <2>3, <3>1 DEF LeftBy, Counters
    <3>3. CASE more
      BY <1>1, <1>8, <3>1, <3>2, <3>3 DEF RoomFor
    <3>4. CASE ~more
      <4>1. Cardinality(timeline) <= Capacity
        BY <1>2, <1>4, <3>4, InboxAssumption
      <4>2. \A w \in W : LeftBy(w) \in Int /\ LeftBy(w) <= Cardinality(timeline)
        BY <3>2, LeftIsBounded DEF BoxInv
      <4> QED BY <1>1, <1>2, <2>1, <3>2, <4>1, <4>2, InboxAssumption DEF RoomFor
    <3> QED BY <3>3, <3>4
  <2> QED BY <2>2, <2>3
<1>10. QuietRemoval'
  <2> SUFFICES ASSUME ~crowded PROVE QuietRemoval'
    BY <1>1 DEF QuietRemoval
  <2>1. Box!Trimming = {n}
    BY <1>1 DEF BoxInv, QuietRemoval, Box!Trimming
  <2>2. \A w \in Box!Events : writer'[w] \in {"count", "range", "trim"} => w = n /\ writer'[w] = "range"
    BY <1>5, <2>1 DEF Box!Trimming
  <2>3. \A w \in Counters' : w = n
    BY <2>2 DEF Counters
  <2>4. \A m, k \in Box!Trimming' : m = k
    BY <2>2 DEF Box!Trimming
  <2> QED BY <1>1, <1>3, <1>5, <1>8, <2>2, <2>3, <2>4 DEF QuietRemoval
<1> QED BY <1>6, <1>7, <1>9, <1>10 DEF BoxInv

\* It reads the oldest of the timeline: as many as it counted, or all there are.
LEMMA BoxRanges == ASSUME BoxInv, NEW n \in Box!Events, Box!Ranges(n) PROVE BoxInv'
<1> DEFINE k == Cardinality(excess[n])
           low == Lowest(timeline, k)
<1>1. /\ writer[n] = "range" /\ writer' = [writer EXCEPT ![n] = "trim"]
      /\ excess' = [excess EXCEPT ![n] = low]
      /\ UNCHANGED <<notification, timeline, inboxPc, target, listed, raced, crowded>>
  BY BoxCardinality DEF Box!Ranges, Box!Oldest, Lowest
<1>2. timeline \in SUBSET Box!Events /\ excess[n] \in SUBSET Box!Events /\ low \in SUBSET timeline
  BY DEF BoxInv, BoxTypes, Box!TypeOK, Lowest
<1>3. /\ IsFiniteSet(timeline) /\ timeline \subseteq Int /\ Cardinality(timeline) \in Nat /\ k \in Nat
      /\ IsFiniteSet(low)
  BY <1>2, EventsAreFinite
<1>4. Cardinality(low) = IF k <= Cardinality(timeline) THEN k ELSE Cardinality(timeline)
  BY <1>3, LowestSize
<1>5. Cardinality(timeline \ low) = Cardinality(timeline) - Cardinality(low)
  <2> HIDE DEF low
  <2>1. timeline = low \cup (timeline \ low) /\ low \cap (timeline \ low) = {}
    BY <1>2
  <2>2. IsFiniteSet(timeline \ low)
    BY <1>3, FS_Subset
  <2>3. /\ Cardinality(timeline) = Cardinality(low) + Cardinality(timeline \ low) - Cardinality({})
        /\ Cardinality({}) = 0
    BY <1>3, <2>1, <2>2, FS_Union, FS_EmptySet
  <2>4. Cardinality(low) \in Nat /\ Cardinality(timeline \ low) \in Nat
    BY <1>3, <2>2, FS_CardinalityType
  <2> QED BY <1>3, <2>3, <2>4
<1>6. \A x \in low, y \in timeline \ low : x < y
  BY <1>3, LowestAreBelow
<1> HIDE DEF low
<1>7. /\ writer' \in [Box!Events -> {"idle", "count", "range", "trim", "done", "failed"}]
      /\ writer'[n] = "trim" /\ excess' \in [Box!Events -> SUBSET Box!Events] /\ excess'[n] = low
      /\ \A m \in Box!Events : m # n => writer'[m] = writer[m] /\ excess'[m] = excess[m]
  BY <1>1, <1>2 DEF BoxInv, BoxTypes, Box!TypeOK
<1>8. BoxTypes'
  BY <1>1, <1>7 DEF BoxInv, BoxTypes, Box!TypeOK
<1>9. Box!StrayRecordsNeedRace' /\ RequestsAreKnown'
  BY <1>1 DEF BoxInv, Box!StrayRecordsNeedRace, RequestsAreKnown
<1>10. ListedIsRecorded'
  <2>1. \A m \in timeline : writer[m] # "idle" /\ writer'[m] # "idle"
    BY <1>2, <1>7 DEF BoxInv, ListedIsRecorded
  <2>2. \A w \in Box!Events : writer'[w] = "trim" => \A m \in excess'[w] : writer'[m] # "idle"
    <3> SUFFICES ASSUME NEW w \in Box!Events, writer'[w] = "trim", NEW m \in excess'[w]
                 PROVE  writer'[m] # "idle"
      OBVIOUS
    <3>1. CASE w = n
      BY <1>2, <1>7, <2>1, <3>1
    <3>2. CASE w # n
      <4>1. m \in Box!Events /\ writer[m] # "idle"
        BY <1>7, <3>2 DEF BoxInv, BoxTypes, Box!TypeOK, ListedIsRecorded
      <4> QED BY <1>7, <4>1
    <3> QED BY <3>1, <3>2
  <2> QED BY <1>1, <2>1, <2>2 DEF ListedIsRecorded
<1>11. Counters' = Counters /\ Busy' = Busy /\ n \in Counters
  BY <1>1, <1>7 DEF Counters, Busy
<1>12. ASSUME NEW W \in SUBSET Counters PROVE RoomFor(W)'
  <2>1. CASE W = {}
    BY <1>1, <1>11, <2>1 DEF BoxInv, RoomFor
  <2>2. CASE W # {}
    <3>1. PICK w \in W : LeftBy(w) <= Capacity + Cardinality(Busy \ W)
      BY <2>2 DEF BoxInv, RoomFor
    <3>2. Busy \ W \in SUBSET Box!Events /\ w \in Box!Events
      BY DEF Busy, Counters
    <3>3. Cardinality(Busy \ W) \in Nat
      BY <3>2, EventsAreFinite
    <3>4. CASE w # n
      <4>1. LeftBy(w)' = LeftBy(w)
        BY <1>1, <1>7, <3>2, <3>4 DEF LeftBy
      <4> QED BY <1>11, <2>2, <3>1, <4>1 DEF RoomFor
    <3>5. CASE w = n
      <4>1. LeftBy(w) = Cardinality(timeline) - k /\ LeftBy(w)' = Cardinality(timeline \ low)
        BY <1>1, <1>7, <3>5 DEF LeftBy
      <4>2. LeftBy(w)' <= Capacity + Cardinality(Busy \ W)
        BY <1>3, <1>4, <1>5, <3>1, <3>3, <4>1, InboxAssumption
      <4> QED BY <1>11, <2>2, <4>2 DEF RoomFor
    <3> QED BY <3>4, <3>5
  <2> QED BY <2>1, <2>2
<1>13. QuietRemoval'
  <2> SUFFICES ASSUME ~crowded PROVE QuietRemoval'
    BY <1>1 DEF QuietRemoval
  <2>1. Box!Trimming = {n} /\ k = Cardinality(timeline) - Capacity
    BY <1>1, <1>11 DEF BoxInv, QuietRemoval, Box!Trimming
  <2>2. Cardinality(low) = Cardinality(timeline) - Capacity
    BY <1>3, <1>4, <2>1, InboxAssumption
  <2>3. \A w \in Box!Events : writer'[w] \in {"count", "range", "trim"} => w = n
    BY <1>7, <2>1 DEF Box!Trimming
  <2>4. \A m, j \in Box!Trimming' : m = j
    BY <2>3 DEF Box!Trimming
  <2>5. \A w \in Counters' : Cardinality(excess'[w]) = Cardinality(timeline') - Capacity
    BY <1>1, <1>7, <2>2, <2>3 DEF Counters
  <2>6. \A w \in Box!Events : writer'[w] = "trim" =>
          /\ excess'[w] \subseteq timeline'
          /\ \A x \in excess'[w], y \in timeline' \ excess'[w] : x < y
    BY <1>1, <1>2, <1>6, <1>7, <2>3
  <2> QED BY <2>4, <2>5, <2>6 DEF QuietRemoval
<1> QED BY <1>8, <1>9, <1>10, <1>11, <1>12, <1>13 DEF BoxInv

\* When others remove, there is as much room as before.
LEMMA RoomStays ==
    ASSUME BoxInv, timeline' \subseteq timeline, UNCHANGED <<writer, excess>>
    PROVE  /\ Counters' = Counters /\ \A W \in SUBSET Counters : RoomFor(W)'
           /\ Box!Trimming' = Box!Trimming
<1>1. Counters' = Counters /\ Busy' = Busy /\ Box!Trimming' = Box!Trimming
  BY DEF Counters, Busy, Box!Trimming
<1>2. ASSUME NEW W \in SUBSET Counters PROVE RoomFor(W)'
  <2>1. Busy \ W \in SUBSET Box!Events /\ timeline \in SUBSET Box!Events /\ Busy \in SUBSET Box!Events
    BY DEF Busy, BoxInv, BoxTypes, Box!TypeOK
  <2>2. /\ Cardinality(Busy \ W) \in Nat /\ Cardinality(Busy) \in Nat
        /\ Cardinality(timeline) \in Nat /\ Cardinality(timeline') \in Nat
        /\ Cardinality(timeline') <= Cardinality(timeline)
    BY <2>1, EventsAreFinite, EventParts
  <2>3. \A w \in W : LeftBy(w) \in Int /\ LeftBy(w)' \in Int /\ LeftBy(w)' <= LeftBy(w)
    BY LeftShrinks DEF BoxInv, Counters
  <2>4. CASE W = {}
    BY <1>1, <2>2, <2>4, InboxAssumption DEF BoxInv, RoomFor
  <2>5. CASE W # {}
    <3>1. PICK w \in W : LeftBy(w) <= Capacity + Cardinality(Busy \ W)
      BY <2>5 DEF BoxInv, RoomFor
    <3>2. LeftBy(w)' <= Capacity + Cardinality(Busy \ W)
      BY <2>2, <2>3, <3>1, InboxAssumption
    <3> QED BY <1>1, <2>5, <3>2 DEF RoomFor
  <2> QED BY <2>4, <2>5
<1> QED BY <1>1, <1>2

\* A removal that races with a mark is known, and so no stray record comes of it
\* unnoticed.
LEMMA RemovalIsKnown ==
    ASSUME BoxInv, NEW X \in SUBSET Box!Events, timeline' = timeline \ X,
           notification' \in [Box!Events -> {"unread", "read", None}],
           \A m \in Box!Events : notification'[m] = IF m \in X THEN None ELSE notification[m],
           Box!Gone(X), UNCHANGED target,
           \A r \in Box!Readers :
               /\ inboxPc'[r] = "set" => inboxPc[r] = "set"
               /\ inboxPc'[r] = "remove" => inboxPc[r] = "remove",
           UNCHANGED listed
    PROVE  Box!StrayRecordsNeedRace' /\ RequestsAreKnown' /\ raced' \subseteq Box!Events
<1>1. raced' = raced \cup {m \in X : Box!Marking(m)}
  BY DEF Box!Gone
<1>2. Box!StrayRecordsNeedRace'
  BY <1>1, InboxAssumption DEF BoxInv, BoxTypes, Box!TypeOK, Box!StrayRecordsNeedRace
<1>3. ASSUME NEW r \in Box!Readers, inboxPc'[r] = "set"
      PROVE  r \in Marks \cup MarkAlls /\ target[r] \subseteq timeline' \cup raced'
  <2>1. inboxPc[r] = "set" /\ r \in Marks \cup MarkAlls /\ target[r] \subseteq timeline \cup raced
    BY <1>3 DEF BoxInv, RequestsAreKnown
  <2>2. \A m \in target[r] : Box!Marking(m)
    BY <2>1 DEF Box!Marking
  <2> QED BY <1>1, <2>1, <2>2
<1>4. RequestsAreKnown'
  BY <1>3 DEF BoxInv, RequestsAreKnown
<1> QED BY <1>1, <1>2, <1>4 DEF BoxInv, BoxTypes

\* A removal by the writer: the others answer for what is left.
LEMMA BoxTrims == ASSUME BoxInv, NEW n \in Box!Events, Box!Trims(n) PROVE BoxInv'
<1> DEFINE E == excess[n]
<1>1. /\ writer[n] = "trim" /\ writer' = [writer EXCEPT ![n] = "done"]
      /\ notification' = [m \in Box!Events |-> IF m \in E THEN None ELSE notification[m]]
      /\ timeline' = timeline \ E /\ Box!Gone(E) /\ excess' = [excess EXCEPT ![n] = {}]
      /\ UNCHANGED <<inboxPc, target, listed, crowded>>
  BY DEF Box!Trims
<1>2. /\ E \in SUBSET Box!Events /\ timeline \in SUBSET Box!Events
      /\ notification' \in [Box!Events -> {"unread", "read", None}]
      /\ \A m \in Box!Events : notification'[m] = IF m \in E THEN None ELSE notification[m]
  BY <1>1 DEF BoxInv, BoxTypes, Box!TypeOK
<1> HIDE DEF E
<1>3. Box!StrayRecordsNeedRace' /\ RequestsAreKnown' /\ raced' \subseteq Box!Events
  BY <1>1, <1>2, RemovalIsKnown
<1>4. /\ writer' \in [Box!Events -> {"idle", "count", "range", "trim", "done", "failed"}]
      /\ writer'[n] = "done" /\ excess' \in [Box!Events -> SUBSET Box!Events]
      /\ \A m \in Box!Events : m # n => writer'[m] = writer[m] /\ excess'[m] = excess[m]
  BY <1>1 DEF BoxInv, BoxTypes, Box!TypeOK
<1>5. BoxTypes'
  BY <1>1, <1>2, <1>3, <1>4 DEF BoxInv, BoxTypes, Box!TypeOK
<1>6. ListedIsRecorded'
  <2>1. \A m \in Box!Events : writer[m] # "idle" => writer'[m] # "idle"
    BY <1>4
  <2>2. \A w \in Box!Events : writer'[w] = "trim" => w # n /\ writer[w] = "trim" /\ excess'[w] = excess[w]
    BY <1>4
  <2>3. \A w \in Box!Events : excess[w] \subseteq Box!Events
    BY DEF BoxInv, BoxTypes, Box!TypeOK
  <2> QED BY <1>1, <1>2, <2>1, <2>2, <2>3 DEF BoxInv, ListedIsRecorded
<1>7. /\ n \in Counters /\ n \in Busy /\ Counters' = Counters \ {n} /\ Busy' = Busy \ {n}
      /\ Busy \in SUBSET Box!Events
  BY <1>1, <1>4 DEF Counters, Busy
<1>8. ASSUME NEW W \in SUBSET Counters' PROVE RoomFor(W)'
  <2> DEFINE V == W \cup {n}
  <2>1. V \in SUBSET Counters /\ V # {} /\ Busy' \ W = Busy \ V /\ Busy' \ {} = Busy'
    BY <1>7
  <2>2. PICK v \in V : LeftBy(v) <= Capacity + Cardinality(Busy \ V)
    BY <2>1 DEF BoxInv, RoomFor
  <2>3. Cardinality(Busy \ V) \in Nat /\ Cardinality(timeline') \in Nat
    <3>1. Busy \ V \in SUBSET Box!Events /\ timeline' \in SUBSET Box!Events
      BY <1>1, <1>2, <1>7
    <3> QED BY <3>1, EventsAreFinite
  <2>4. \A w \in W : /\ w \in Box!Events /\ w # n
                     /\ LeftBy(w) \in Int /\ LeftBy(w)' \in Int /\ LeftBy(w)' <= LeftBy(w)
    <3> SUFFICES ASSUME NEW w \in W
                 PROVE  /\ w \in Box!Events /\ w # n
                        /\ LeftBy(w) \in Int /\ LeftBy(w)' \in Int /\ LeftBy(w)' <= LeftBy(w)
      OBVIOUS
    <3>1. w \in Box!Events /\ w # n
      BY <1>7 DEF Counters
    <3>2. excess'[w] = excess[w] /\ writer'[w] = writer[w] /\ timeline' \subseteq timeline
      BY <1>1, <1>4, <3>1
    <3> QED BY <3>1, <3>2, LeftShrinks DEF BoxInv
  <2>5. LeftBy(n) = Cardinality(timeline')
    BY <1>1 DEF LeftBy, E
  <2>6. \A w \in W : LeftBy(w)' <= Cardinality(timeline')
    <3>1. ASSUME NEW w \in Box!Events PROVE (LeftBy(w) <= Cardinality(timeline))'
      <4>1. timeline' \in SUBSET Box!Events /\ excess'[w] \in SUBSET Box!Events
            /\ timeline' \ excess'[w] \in SUBSET timeline'
        BY <1>1, <1>2, <1>4
      <4> QED BY <4>1, EventParts, EventsAreFinite DEF LeftBy
    <3> QED BY <2>4, <3>1
  <2>7. CASE v = n
    <3>1. Cardinality(timeline') <= Capacity + Cardinality(Busy \ V)
      BY <2>2, <2>5, <2>7
    <3>2. \A w \in W : LeftBy(w)' <= Capacity + Cardinality(Busy \ V)
      BY <2>3, <2>4, <2>6, <3>1, InboxAssumption
    <3> QED BY <2>1, <3>1, <3>2 DEF RoomFor
  <2>8. CASE v # n
    <3>1. v \in W
      BY <2>8
    <3>2. LeftBy(v)' <= Capacity + Cardinality(Busy \ V)
      BY <2>2, <2>3, <2>4, <3>1, InboxAssumption
    <3> QED BY <2>1, <3>1, <3>2 DEF RoomFor
  <2> QED BY <2>7, <2>8
<1>9. QuietRemoval'
  <2> SUFFICES ASSUME ~crowded PROVE QuietRemoval'
    BY <1>1 DEF QuietRemoval
  <2>1. Box!Trimming = {n}
    BY <1>1 DEF BoxInv, QuietRemoval, Box!Trimming
  <2>2. \A w \in Box!Events : writer'[w] \notin {"count", "range", "trim"}
    BY <1>4, <2>1 DEF Box!Trimming
  <2>3. Box!Trimming' = {} /\ Counters' = {}
    BY <2>2 DEF Box!Trimming, Counters
  <2> QED BY <2>2, <2>3 DEF QuietRemoval
<1> QED BY <1>3, <1>5, <1>6, <1>8, <1>9 DEF BoxInv

\* A writer that fails answers for its notification for good.
LEMMA BoxFails == ASSUME BoxInv, NEW n \in Box!Events, Box!WriterFails(n) PROVE BoxInv'
<1>1. /\ writer[n] \in {"count", "range", "trim"} /\ writer' = [writer EXCEPT ![n] = "failed"]
      /\ UNCHANGED <<notification, timeline, excess, inboxPc, target, listed, raced, crowded>>
  BY DEF Box!WriterFails
<1>2. /\ writer' \in [Box!Events -> {"idle", "count", "range", "trim", "done", "failed"}]
      /\ writer'[n] = "failed" /\ \A m \in Box!Events : m # n => writer'[m] = writer[m]
  BY <1>1 DEF BoxInv, BoxTypes, Box!TypeOK
<1>3. BoxTypes' /\ Box!StrayRecordsNeedRace' /\ RequestsAreKnown'
  BY <1>1, <1>2 DEF BoxInv, BoxTypes, Box!TypeOK, Box!StrayRecordsNeedRace, RequestsAreKnown
<1>4. ListedIsRecorded'
  <2>1. \A m \in Box!Events : writer[m] # "idle" => writer'[m] # "idle"
    BY <1>2
  <2>2. \A w \in Box!Events : writer'[w] = "trim" => writer[w] = "trim"
    BY <1>2
  <2>3. timeline \subseteq Box!Events /\ \A w \in Box!Events : excess[w] \subseteq Box!Events
    BY DEF BoxInv, BoxTypes, Box!TypeOK
  <2> QED BY <1>1, <2>1, <2>2, <2>3 DEF BoxInv, ListedIsRecorded
<1>5. Busy' = Busy /\ Counters' = Counters \ {n} /\ Box!Trimming' = Box!Trimming \ {n}
  BY <1>1, <1>2 DEF Busy, Counters, Box!Trimming
<1>6. ASSUME NEW W \in SUBSET Counters' PROVE RoomFor(W)'
  <2>1. \A w \in W : LeftBy(w)' = LeftBy(w)
    BY <1>1, <1>2, <1>5 DEF LeftBy, Counters
  <2> QED BY <1>1, <1>5, <2>1 DEF BoxInv, RoomFor
<1>7. QuietRemoval'
  BY <1>1, <1>2, <1>5 DEF BoxInv, QuietRemoval
<1> QED BY <1>3, <1>4, <1>6, <1>7 DEF BoxInv

\* What readers do to the timeline.
LEMMA ReaderRemoves ==
    ASSUME BoxInv, NEW r \in Box!Readers, NEW X \in SUBSET Box!Events, timeline' = timeline \ X,
           notification' \in [Box!Events -> {"unread", "read", None}],
           \A m \in Box!Events : notification'[m] = IF m \in X THEN None ELSE notification[m],
           Box!Gone(X), inboxPc' = [inboxPc EXCEPT ![r] = "done"],
           crowded' = (crowded \/ Box!Trimming # {}), UNCHANGED <<writer, excess, target, listed>>
    PROVE  BoxInv'
<1>1. /\ inboxPc' \in [Box!Readers -> {"idle", "get", "set", "remove", "done"}]
      /\ \A s \in Box!Readers : inboxPc'[s] \in {"set", "remove"} => inboxPc'[s] = inboxPc[s]
  BY DEF BoxInv, BoxTypes, Box!TypeOK
<1>2. Box!StrayRecordsNeedRace' /\ RequestsAreKnown' /\ raced' \subseteq Box!Events
  BY <1>1, RemovalIsKnown
<1>3. crowded' \in BOOLEAN
  BY DEF BoxInv, BoxTypes
<1>4. BoxTypes' /\ ListedIsRecorded'
  BY <1>1, <1>2, <1>3 DEF BoxInv, BoxTypes, Box!TypeOK, ListedIsRecorded
<1>5. \A W \in SUBSET Counters' : RoomFor(W)'
  BY RoomStays
<1>6. QuietRemoval'
  <2> SUFFICES ASSUME ~crowded' PROVE QuietRemoval'
    BY DEF QuietRemoval
  <2>1. Box!Trimming = {} /\ Counters = {} /\ \A n \in Box!Events : writer[n] # "trim"
    BY DEF Box!Trimming, Counters
  <2>2. Box!Trimming' = {} /\ Counters' = {}
    BY <2>1, RoomStays
  <2> QED BY <2>1, <2>2 DEF QuietRemoval
<1> QED BY <1>2, <1>4, <1>5, <1>6 DEF BoxInv

LEMMA BoxRemoves == ASSUME BoxInv, NEW r \in Box!Readers, Box!Removes(r) PROVE BoxInv'
<1>1. PICK n \in Box!Events :
        /\ notification' = [notification EXCEPT ![n] = None] /\ timeline' = timeline \ {n}
        /\ Box!Gone({n})
  BY DEF Box!Removes
<1>2. /\ inboxPc' = [inboxPc EXCEPT ![r] = "done"] /\ crowded' = (crowded \/ Box!Trimming # {})
      /\ UNCHANGED <<writer, excess, target, listed>>
  BY DEF Box!Removes
<1>3. /\ notification' \in [Box!Events -> {"unread", "read", None}]
      /\ \A m \in Box!Events : notification'[m] = IF m \in {n} THEN None ELSE notification[m]
  BY <1>1 DEF BoxInv, BoxTypes, Box!TypeOK
<1> QED BY <1>1, <1>2, <1>3, ReaderRemoves

LEMMA BoxClears == ASSUME BoxInv, NEW r \in Box!Readers, Box!ClearsAll(r) PROVE BoxInv'
<1>1. /\ notification' = [m \in Box!Events |-> IF m \in target[r] THEN None ELSE notification[m]]
      /\ timeline' = timeline \ target[r] /\ Box!Gone(target[r])
      /\ inboxPc' = [inboxPc EXCEPT ![r] = "done"] /\ crowded' = (crowded \/ Box!Trimming # {})
      /\ UNCHANGED <<writer, excess, target, listed>>
  BY DEF Box!ClearsAll, Box!Cleared
<1>2. /\ target[r] \in SUBSET Box!Events
      /\ notification' \in [Box!Events -> {"unread", "read", None}]
      /\ \A m \in Box!Events : notification'[m] = IF m \in target[r] THEN None ELSE notification[m]
  BY <1>1 DEF BoxInv, BoxTypes, Box!TypeOK
<1> QED BY <1>1, <1>2, ReaderRemoves

\* What readers do to the records only.
LEMMA ReaderMarks ==
    ASSUME BoxInv, NEW r \in Box!Readers,
           Box!MarkReads(r) \/ Box!Lists(r) \/ Box!MarkAllReads(r) \/ Box!Marked(r)
    PROVE  BoxInv'
<1>1. UNCHANGED <<timeline, writer, excess, raced, crowded>>
  BY DEF Box!MarkReads, Box!Lists, Box!MarkAllReads, Box!Marked
<1>2. ListedIsRecorded' /\ \A W \in SUBSET Counters' : RoomFor(W)'
  BY <1>1, RoomStays DEF BoxInv, ListedIsRecorded
<1>3. QuietRemoval'
  BY <1>1 DEF BoxInv, QuietRemoval, Box!Trimming, Counters
<1>4. /\ \A n \in Box!Events : notification[n] # None => n \in timeline \cup raced
      /\ timeline \in SUBSET Box!Events
  BY DEF BoxInv, BoxTypes, Box!TypeOK, Box!StrayRecordsNeedRace
<1>5. /\ inboxPc \in [Box!Readers -> {"idle", "get", "set", "remove", "done"}]
      /\ target \in [Box!Readers -> SUBSET Box!Events] /\ listed \in [Box!Readers -> SUBSET Box!Events]
      /\ notification \in [Box!Events -> {"unread", "read", None}]
  BY DEF BoxInv, BoxTypes, Box!TypeOK
<1>6. CASE Box!MarkReads(r)
  <2>1. PICK n \in Box!Events :
          /\ target' = [target EXCEPT ![r] = {n}]
          /\ inboxPc' = [inboxPc EXCEPT ![r] = IF notification[n] = None THEN "done" ELSE "set"]
    BY <1>6 DEF Box!MarkReads
  <2>2. r \in Marks /\ UNCHANGED <<notification, listed>>
    BY <1>6 DEF Box!MarkReads
  <2>3. /\ inboxPc' \in [Box!Readers -> {"idle", "get", "set", "remove", "done"}]
        /\ inboxPc'[r] = (IF notification[n] = None THEN "done" ELSE "set")
        /\ target' \in [Box!Readers -> SUBSET Box!Events] /\ target'[r] = {n}
        /\ \A s \in Box!Readers : s # r => target'[s] = target[s] /\ inboxPc'[s] = inboxPc[s]
    BY <1>5, <2>1
  <2>4. RequestsAreKnown'
    BY <1>1, <1>4, <2>2, <2>3 DEF BoxInv, RequestsAreKnown
  <2> QED BY <1>1, <1>2, <1>3, <2>2, <2>3, <2>4 DEF BoxInv, BoxTypes, Box!TypeOK, Box!StrayRecordsNeedRace
<1>7. CASE Box!Lists(r)
  <2>1. /\ listed' = [listed EXCEPT ![r] = timeline] /\ target' = [target EXCEPT ![r] = timeline]
        /\ inboxPc' = [inboxPc EXCEPT ![r] = IF r \in Clears THEN "remove" ELSE "get"]
        /\ UNCHANGED notification
    BY <1>7 DEF Box!Lists
  <2>2. /\ inboxPc' \in [Box!Readers -> {"idle", "get", "set", "remove", "done"}]
        /\ inboxPc'[r] \in {"remove", "get"}
        /\ target' \in [Box!Readers -> SUBSET Box!Events] /\ target'[r] = timeline
        /\ listed' \in [Box!Readers -> SUBSET Box!Events] /\ listed'[r] = timeline
        /\ \A s \in Box!Readers : s # r =>
             target'[s] = target[s] /\ inboxPc'[s] = inboxPc[s] /\ listed'[s] = listed[s]
    BY <1>4, <1>5, <2>1
  <2>3. RequestsAreKnown'
    BY <1>1, <2>2 DEF BoxInv, RequestsAreKnown
  <2> QED BY <1>1, <1>2, <1>3, <2>1, <2>2, <2>3 DEF BoxInv, BoxTypes, Box!TypeOK, Box!StrayRecordsNeedRace
<1>8. CASE Box!MarkAllReads(r)
  <2>1. /\ r \in MarkAlls /\ target' = [target EXCEPT ![r] = Box!Unread(r)]
        /\ inboxPc' = [inboxPc EXCEPT ![r] = "set"] /\ UNCHANGED <<notification, listed>>
    BY <1>8 DEF Box!MarkAllReads
  <2>2. Box!Unread(r) \in SUBSET Box!Events /\ Box!Unread(r) \subseteq timeline \cup raced
    BY <1>4, <1>5, InboxAssumption DEF Box!Unread
  <2>3. /\ inboxPc' \in [Box!Readers -> {"idle", "get", "set", "remove", "done"}] /\ inboxPc'[r] = "set"
        /\ target' \in [Box!Readers -> SUBSET Box!Events] /\ target'[r] = Box!Unread(r)
        /\ \A s \in Box!Readers : s # r => target'[s] = target[s] /\ inboxPc'[s] = inboxPc[s]
    BY <1>5, <2>1, <2>2
  <2>4. RequestsAreKnown'
    BY <1>1, <2>1, <2>2, <2>3 DEF BoxInv, RequestsAreKnown
  <2> QED BY <1>1, <1>2, <1>3, <2>1, <2>3, <2>4 DEF BoxInv, BoxTypes, Box!TypeOK, Box!StrayRecordsNeedRace
<1>9. CASE Box!Marked(r)
  <2>1. /\ inboxPc[r] = "set" /\ inboxPc' = [inboxPc EXCEPT ![r] = "done"]
        /\ notification' = [n \in Box!Events |-> IF n \in target[r] THEN "read" ELSE notification[n]]
        /\ target' = [target EXCEPT ![r] = {}] /\ UNCHANGED listed
    BY <1>9 DEF Box!Marked
  <2>2. target[r] \subseteq timeline \cup raced
    BY <2>1 DEF BoxInv, RequestsAreKnown
  <2>3. /\ inboxPc' \in [Box!Readers -> {"idle", "get", "set", "remove", "done"}] /\ inboxPc'[r] = "done"
        /\ target' \in [Box!Readers -> SUBSET Box!Events]
        /\ \A s \in Box!Readers : s # r => target'[s] = target[s] /\ inboxPc'[s] = inboxPc[s]
        /\ notification' \in [Box!Events -> {"unread", "read", None}]
        /\ \A n \in Box!Events : notification'[n] = IF n \in target[r] THEN "read" ELSE notification[n]
    BY <1>5, <2>1
  <2>4. RequestsAreKnown'
    BY <1>1, <2>1, <2>3 DEF BoxInv, RequestsAreKnown
  <2>5. Box!StrayRecordsNeedRace'
    BY <1>1, <1>4, <2>2, <2>3, InboxAssumption DEF BoxInv, Box!StrayRecordsNeedRace
  <2> QED BY <1>1, <1>2, <1>3, <2>1, <2>3, <2>4, <2>5 DEF BoxInv, BoxTypes, Box!TypeOK
<1> QED BY <1>6, <1>7, <1>8, <1>9

LEMMA BoxStep == BoxInv /\ [Box!Next]_(Box!vars) => BoxInv'
<1> SUFFICES ASSUME BoxInv, [Box!Next]_(Box!vars) PROVE BoxInv'
  OBVIOUS
<1>1. CASE UNCHANGED Box!vars
  <2>1. UNCHANGED <<notification, timeline, writer, excess, inboxPc, target, listed, raced, crowded>>
    BY <1>1 DEF Box!vars
  <2>2. \A W \in SUBSET Counters' : RoomFor(W)'
    BY <2>1, RoomStays
  <2>3. QuietRemoval' /\ ListedIsRecorded' /\ RequestsAreKnown' /\ Box!StrayRecordsNeedRace'
    BY <2>1 DEF BoxInv, QuietRemoval, ListedIsRecorded, RequestsAreKnown, Box!StrayRecordsNeedRace,
                Box!Trimming, Counters
  <2> QED BY <2>1, <2>2, <2>3 DEF BoxInv, BoxTypes, Box!TypeOK
<1> QED BY <1>1, BoxRecords, BoxCounts, BoxRanges, BoxTrims, BoxFails, BoxRemoves, BoxClears,
           ReaderMarks DEF Box!Next

LEMMA InboxBounded == BoxInv => Box!InboxIsBounded
<1> SUFFICES ASSUME BoxInv PROVE Box!InboxIsBounded
  OBVIOUS
<1> DEFINE Failed == {n \in Box!Events : writer[n] = "failed"}
<1>1. Busy = Box!Trimming \cup Failed /\ Box!Trimming \cap Failed = {}
  BY DEF Busy, Box!Trimming
<1>2. Box!Trimming \in SUBSET Box!Events /\ Failed \in SUBSET Box!Events
  BY DEF Box!Trimming
<1>3. Cardinality(Busy) = Cardinality(Box!Trimming) + Cardinality(Failed)
  <2>1. IsFiniteSet(Box!Trimming) /\ IsFiniteSet(Failed)
    BY <1>2, EventsAreFinite
  <2>2. Cardinality(Box!Trimming) \in Nat /\ Cardinality(Failed) \in Nat
    BY <2>1, FS_CardinalityType
  <2> HIDE DEF Failed
  <2> QED BY <1>1, <2>1, <2>2, FS_Union, FS_EmptySet
<1>4. Cardinality(timeline) <= Capacity + Cardinality(Busy)
  BY DEF BoxInv, RoomFor
<1>5. Cardinality(Box!Trimming) \in Nat /\ Cardinality(Failed) \in Nat
  BY <1>2, EventsAreFinite
<1>6. Cardinality(timeline) <= Capacity + Cardinality(Box!Trimming) + Cardinality(Failed)
  <2> HIDE DEF Failed
  <2> QED BY <1>3, <1>4, <1>5, InboxAssumption
<1> QED BY <1>6, BoxCardinality DEF Box!InboxIsBounded

LEMMA OldestFirst ==
    ASSUME BoxInv, NEW n \in Box!Events, Box!Trims(n), ~crowded
    PROVE  /\ Box!Cardinality(timeline') >= Capacity
           /\ \A k \in timeline \ timeline', l \in timeline' : k < l
<1>1. writer[n] = "trim" /\ timeline' = timeline \ excess[n] /\ n \in Counters
  BY DEF Box!Trims, Counters
<1>2. /\ Cardinality(excess[n]) = Cardinality(timeline) - Capacity
      /\ excess[n] \subseteq timeline
      /\ \A k \in excess[n], l \in timeline \ excess[n] : k < l
  BY <1>1 DEF BoxInv, QuietRemoval
<1>3. timeline \in SUBSET Box!Events
  BY DEF BoxInv, BoxTypes, Box!TypeOK
<1>4. /\ IsFiniteSet(excess[n]) /\ IsFiniteSet(timeline') /\ Cardinality(excess[n]) \in Nat
      /\ Cardinality(timeline) \in Nat /\ Cardinality(timeline') \in Nat
  <2>1. excess[n] \in SUBSET Box!Events /\ timeline' \in SUBSET Box!Events
    BY <1>1, <1>2, <1>3
  <2> QED BY <1>3, <2>1, EventsAreFinite
<1>5. Cardinality(timeline) = Cardinality(excess[n]) + Cardinality(timeline')
  <2>1. timeline = excess[n] \cup timeline' /\ excess[n] \cap timeline' = {}
    BY <1>1, <1>2
  <2> QED BY <1>4, <2>1, DisjointSizes
<1>6. Cardinality(timeline') = Capacity
  <2>1. Cardinality(excess[n]) = Cardinality(timeline) - Capacity
    BY <1>2
  <2> QED BY <1>4, <1>5, <2>1, InboxAssumption
<1> QED BY <1>1, <1>2, <1>6, BoxCardinality, InboxAssumption

\* The inbox is bounded, its oldest go first, clearing spares what came later, and a
\* stray record has one race as its cause, for any number of notifications and readers
\* (notify/inbox.py).
THEOREM InboxStaysOrdered == Box!Spec => InboxIsOrdered
<1>1. BoxInv => Box!TypeOK /\ Box!StrayRecordsNeedRace /\ Box!InboxIsBounded
  BY InboxBounded DEF BoxInv, BoxTypes
<1>2. BoxInv /\ [Box!Next]_(Box!vars) =>
        [\A n \in Box!Events : Box!Trims(n) =>
           crowded \/ /\ Box!Cardinality(timeline') >= Capacity
                      /\ \A k \in timeline \ timeline', l \in timeline' : k < l]_(Box!vars)
  BY OldestFirst
<1>3. BoxInv /\ [Box!Next]_(Box!vars) =>
        [\A r \in Clears : Box!ClearsAll(r) => timeline \ timeline' \subseteq listed[r]]_(Box!vars)
  <2> SUFFICES ASSUME BoxInv, NEW r \in Clears, Box!ClearsAll(r)
               PROVE  timeline \ timeline' \subseteq listed[r]
    OBVIOUS
  <2>1. r \in Box!Readers
    BY DEF Box!Readers
  <2>2. target[r] = listed[r] /\ timeline' = timeline \ target[r]
    BY <2>1 DEF Box!ClearsAll, Box!Cleared, BoxInv, RequestsAreKnown
  <2> QED BY <2>2
<1> QED BY <1>1, <1>2, <1>3, BoxInit, BoxStep, PTL
        DEF Box!Spec, InboxIsOrdered, Box!InboxIsOrdered, Box!OldestGoFirst, Box!ClearSparesTheNew

-----------------------------------------------------------------------------
(* The bar archive.  What a call that holds the lock has read of the file   *)
(* is at least what the file has, and it brings back nothing that was       *)
(* deleted; what is on its way to the file is real or was served.           *)

\* The parts of what a call wants.
Parts(c) ==
    {g \in Data!Days \X Data!Days : Wants[c][1] <= g[1] /\ g[1] <= g[2] /\ g[2] <= Wants[c][2]}
InWanted(b, c) == {d \in DOMAIN b : Wants[c][1] <= d /\ d <= Wants[c][2]}
OnlyServed(b) == \A d \in DOMAIN b : b[d] = "demo" => d \in served
Contains(b, a) == \A d \in DOMAIN a : d \in DOMAIN b /\ a[d] = b[d]

DataTypes ==
    /\ archive \in Data!Bars /\ cache \in Data!Bars /\ lock \in Fetches \cup {None}
    /\ dataPc \in [Fetches -> {"idle", "coverage", "read", "fetch", "locking", "merging", "done",
                               "crashed"}]
    /\ coverage \in [Fetches -> {<<>>} \cup (Data!Days \X Data!Days)]
    /\ archived \in [Fetches -> Data!Bars] /\ got \in [Fetches -> Data!Bars]
    /\ fetched \in [Fetches -> Data!Bars] /\ unsaved \in [Fetches -> Data!Bars]
    /\ existing \in [Fetches -> Data!Bars] /\ answer \in [Fetches -> Data!Bars]
    /\ gaps \in [Fetches -> Seq(Data!Days \X Data!Days)]
    /\ direct \in [Fetches -> BOOLEAN] /\ deletes \in 0..MaxDeletes

MergeIsSafe(c) ==
    /\ lock = c
    /\ Contains(existing[c], archive) /\ DOMAIN existing[c] \cap gone = {} /\ OnlyServed(existing[c])

AnswerIsWhole(c) ==
    /\ ~direct[c] => DOMAIN archived[c] \subseteq DOMAIN answer[c]
    /\ answer[c] = Data!NoBars =>
         \/ c \in starved
         \/ coverage[c] # <<>> /\ coverage[c][1] <= Wants[c][1] /\ Wants[c][2] <= coverage[c][2]

CallIsSafe(c) ==
    /\ gaps[c] \in Seq(Parts(c))
    /\ dataPc[c] \in {"fetch", "locking", "merging"} => gaps[c] # <<>>
    /\ DOMAIN archived[c] = InWanted(archived[c], c)
    /\ dataPc[c] = "merging" => MergeIsSafe(c)
    /\ dataPc[c] \in {"locking", "merging"} =>
         OnlyServed(got[c]) /\ (c \in starved \/ InWanted(fetched[c], c) # {})
    /\ dataPc[c] = "done" /\ c \notin Downloads => AnswerIsWhole(c)

DataInv ==
    /\ DataTypes /\ Data!DeletedStaysGone /\ OnlyServed(archive)
    /\ \A c \in Fetches : CallIsSafe(c)

\* Bars are functions on days.
LEMMA BarsAre ==
    \A b : b \in Data!Bars <=>
        /\ b = [d \in DOMAIN b |-> b[d]] /\ DOMAIN b \subseteq Data!Days
        /\ \A d \in DOMAIN b : b[d] \in {"real", "demo"}
<1>1. ASSUME NEW b \in Data!Bars
      PROVE  /\ b = [d \in DOMAIN b |-> b[d]] /\ DOMAIN b \subseteq Data!Days
             /\ \A d \in DOMAIN b : b[d] \in {"real", "demo"}
  BY DEF Data!Bars
<1>2. ASSUME NEW b, b = [d \in DOMAIN b |-> b[d]], DOMAIN b \subseteq Data!Days,
             \A d \in DOMAIN b : b[d] \in {"real", "demo"}
      PROVE  b \in Data!Bars
  <2>1. b \in [DOMAIN b -> {"real", "demo"}]
    BY <1>2
  <2> QED BY <1>2, <2>1 DEF Data!Bars
<1> QED BY <1>1, <1>2

LEMMA NoBarsAreNone ==
    /\ Data!NoBars \in Data!Bars /\ DOMAIN Data!NoBars = {}
    /\ \A b \in Data!Bars : DOMAIN b = {} => b = Data!NoBars
<1>1. DOMAIN <<>> = {} /\ <<>> = [x \in {} |-> 0]
  OBVIOUS
<1>2. ASSUME NEW b \in Data!Bars, DOMAIN b = {} PROVE b = <<>>
  <2>1. b = [d \in DOMAIN b |-> b[d]]
    BY BarsAre
  <2>2. b = [d \in {} |-> b[d]]
    BY <1>2, <2>1
  <2> QED BY <1>1, <2>2
<1>3. <<>> \in Data!Bars
  <2>1. <<>> \in [{} -> {"real", "demo"}]
    BY <1>1
  <2> QED BY <2>1 DEF Data!Bars
<1> QED BY <1>1, <1>2, <1>3 DEF Data!NoBars

LEMMA OverIs ==
    ASSUME NEW a \in Data!Bars, NEW b \in Data!Bars
    PROVE  /\ Data!Over(b, a) \in Data!Bars /\ DOMAIN Data!Over(b, a) = DOMAIN a \cup DOMAIN b
           /\ \A d \in DOMAIN a \cup DOMAIN b :
                Data!Over(b, a)[d] = IF d \in DOMAIN b THEN b[d] ELSE a[d]
BY BarsAre DEF Data!Over

LEMMA InIs ==
    ASSUME NEW b \in Data!Bars, NEW r
    PROVE  /\ Data!In(b, r) \in Data!Bars
           /\ DOMAIN Data!In(b, r) = {d \in DOMAIN b : r[1] <= d /\ d <= r[2]}
           /\ \A d \in DOMAIN Data!In(b, r) : Data!In(b, r)[d] = b[d]
<1>1. Data!In(b, r) = [d \in {x \in DOMAIN b : r[1] <= x /\ x <= r[2]} |-> b[d]]
  BY DEF Data!In, Data!Restrict
<1>2. DOMAIN b \subseteq Data!Days /\ \A d \in DOMAIN b : b[d] \in {"real", "demo"}
  BY BarsAre
<1> DEFINE S == {x \in DOMAIN b : r[1] <= x /\ x <= r[2]}
<1>3. S \subseteq DOMAIN b
  OBVIOUS
<1> HIDE DEF S
<1>4. [d \in S |-> b[d]] \in Data!Bars
  BY <1>2, <1>3, BarsAre
<1> QED BY <1>1, <1>3, <1>4 DEF S

LEMMA AllIs ==
    ASSUME NEW k \in {"real", "demo"}, NEW D \in SUBSET Data!Days
    PROVE  Data!All(k, D) \in Data!Bars /\ DOMAIN Data!All(k, D) = D /\ \A d \in D : Data!All(k, D)[d] = k
BY BarsAre DEF Data!All

\* A list of gaps loses its first.
LEMMA GapsShrink ==
    ASSUME NEW S, NEW s \in Seq(S), s # <<>>
    PROVE  Head(s) \in S /\ Tail(s) \in Seq(S)
OBVIOUS

LEMMA DataInit == Data!Init => DataInv
<1> SUFFICES ASSUME Data!Init PROVE DataInv
  OBVIOUS
<1>1. DataTypes
  BY NoBarsAreNone, DataAssumption DEF Data!Init, DataTypes
<1>2. /\ archive = Data!NoBars /\ gone = {}
      /\ \A c \in Fetches : dataPc[c] = "idle" /\ gaps[c] = <<>> /\ archived[c] = Data!NoBars
  BY DEF Data!Init
<1>3. Data!DeletedStaysGone /\ OnlyServed(archive)
  BY <1>2, NoBarsAreNone DEF Data!DeletedStaysGone, OnlyServed
<1>4. \A S : <<>> \in Seq(S)
  OBVIOUS
<1>5. \A c \in Fetches : CallIsSafe(c)
  BY <1>2, <1>4, NoBarsAreNone DEF CallIsSafe, InWanted
<1> QED BY <1>1, <1>3, <1>5 DEF DataInv

\* First and last day of some bars.
LEMMA CoverageIs ==
    ASSUME NEW b \in Data!Bars
    PROVE  Data!Coverage(b) \in {<<>>} \cup (Data!Days \X Data!Days)
<1> SUFFICES ASSUME b # Data!NoBars
             PROVE  <<Data!Min(DOMAIN b), Data!Max(DOMAIN b)>> \in Data!Days \X Data!Days
  BY DEF Data!Coverage
<1> DEFINE D == DOMAIN b
<1>1. D # {} /\ D \subseteq Data!Days /\ D \subseteq Nat /\ D \subseteq Int
  BY NoBarsAreNone, BarsAre DEF Data!Days
<1>2. IsFiniteSet(D)
  <2>1. IsFiniteSet(Data!Days)
    BY DataAssumption, FS_Interval DEF Data!Days
  <2> HIDE DEF D
  <2> QED BY <1>1, <2>1, FS_Subset
<1> HIDE DEF D
<1>3. \E x \in D : \A y \in D : x <= y
  BY <1>1, SmallestElement
<1>4. \E x \in D : \A y \in D : x >= y
  <2>1. PICK x \in D : \A y \in D : y <= x
    BY <1>1, <1>2, LargestElement
  <2>2. \A y \in D : x >= y
    BY <1>1, <2>1
  <2> QED BY <2>2
<1>5. Data!Min(D) \in D /\ Data!Max(D) \in D
  BY <1>3, <1>4 DEF Data!Min, Data!Max
<1> QED BY <1>1, <1>5 DEF D

\* The smaller and the larger of two.
LEMMA OfTwo ==
    ASSUME NEW a \in Int, NEW b \in Int
    PROVE  /\ Data!Min({a, b}) = IF a <= b THEN a ELSE b
           /\ Data!Max({a, b}) = IF a >= b THEN a ELSE b
<1> DEFINE low == IF a <= b THEN a ELSE b
           high == IF a >= b THEN a ELSE b
<1>1. /\ low \in {a, b} /\ \A y \in {a, b} : low <= y
      /\ \A x \in {a, b} : (\A y \in {a, b} : x <= y) => x = low
  OBVIOUS
<1>2. /\ high \in {a, b} /\ \A y \in {a, b} : high >= y
      /\ \A x \in {a, b} : (\A y \in {a, b} : x >= y) => x = high
  OBVIOUS
<1> HIDE DEF low, high
<1>3. Data!Min({a, b}) = low
  BY <1>1 DEF Data!Min
<1>4. Data!Max({a, b}) = high
  BY <1>2 DEF Data!Max
<1> QED BY <1>3, <1>4 DEF low, high

\* Lists of at most one part each, joined.
LEMMA JoinedParts ==
    ASSUME NEW S, NEW s \in Seq(S), NEW t \in Seq(S)
    PROVE  s \o t \in Seq(S) /\ (s \o t = <<>> => s = <<>> /\ t = <<>>)
OBVIOUS

LEMMA OnePart ==
    ASSUME NEW S, NEW x \in S PROVE <<x>> \in Seq(S) /\ <<x>> # <<>> /\ <<>> \in Seq(S)
OBVIOUS

LEMMA PartIs ==
    ASSUME NEW c, NEW x \in Data!Days, NEW y \in Data!Days,
           Wants[c][1] <= x, x <= y, y <= Wants[c][2]
    PROVE  <<x, y>> \in Parts(c)
BY DEF Parts

LEMMA GapBefore ==
    ASSUME NEW c, NEW x \in Data!Days, NEW y \in Data!Days, NEW a \in Data!Days,
           Wants[c][1] = x, Wants[c][2] = y, x <= y, x < a
    PROVE  <<x, Data!Min({a - 1, y})>> \in Parts(c)
<1>1. x \in 1..N /\ y \in 1..N /\ a \in 1..N /\ N \in Nat
  BY DataAssumption DEF Data!Days
<1>2. a - 1 \in Int /\ y \in Int
  BY <1>1
<1>3. Data!Min({a - 1, y}) = IF a - 1 <= y THEN a - 1 ELSE y
  BY <1>2, OfTwo
<1>4. /\ Data!Min({a - 1, y}) \in 1..N
      /\ x <= Data!Min({a - 1, y}) /\ Data!Min({a - 1, y}) <= y
  BY <1>1, <1>3
<1> QED BY <1>4, PartIs DEF Data!Days

LEMMA GapAfter ==
    ASSUME NEW c, NEW x \in Data!Days, NEW y \in Data!Days, NEW a \in Data!Days,
           Wants[c][1] = x, Wants[c][2] = y, x <= y, y > a
    PROVE  <<Data!Max({a + 1, x}), y>> \in Parts(c)
<1>1. x \in 1..N /\ y \in 1..N /\ a \in 1..N /\ N \in Nat
  BY DataAssumption DEF Data!Days
<1>2. a + 1 \in Int /\ x \in Int
  BY <1>1
<1>3. Data!Max({a + 1, x}) = IF a + 1 >= x THEN a + 1 ELSE x
  BY <1>2, OfTwo
<1>4. /\ Data!Max({a + 1, x}) \in 1..N
      /\ x <= Data!Max({a + 1, x}) /\ Data!Max({a + 1, x}) <= y
  BY <1>1, <1>3
<1> QED BY <1>4, PartIs DEF Data!Days

\* What is left to fetch are parts of what is wanted, and nothing is left only if the
\* archive reaches beyond both ends.
LEMMA GapsAre ==
    ASSUME NEW c \in Fetches, NEW cov \in {<<>>} \cup (Data!Days \X Data!Days)
    PROVE  /\ Data!boundary_gaps(cov, Wants[c]) \in Seq(Parts(c))
           /\ Data!boundary_gaps(cov, Wants[c]) = <<>> =>
                cov # <<>> /\ cov[1] <= Wants[c][1] /\ Wants[c][2] <= cov[2]
<1> DEFINE r == Wants[c]
<1>1. /\ r \in Data!Days \X Data!Days /\ r[1] \in Data!Days /\ r[2] \in Data!Days /\ r[1] <= r[2]
      /\ Data!Days \subseteq Int
  BY DataAssumption DEF Data!Days
<1>2. r \in Parts(c)
  BY <1>1 DEF Parts, Data!Days
<1>3. CASE cov = <<>>
  BY <1>2, <1>3, OnePart DEF Data!boundary_gaps
<1>4. CASE cov # <<>>
  <2> DEFINE before == IF r[1] < cov[1] THEN <<<<r[1], Data!Min({cov[1] - 1, r[2]})>>>> ELSE <<>>
             after == IF r[2] > cov[2] THEN <<<<Data!Max({cov[2] + 1, r[1]}), r[2]>>>> ELSE <<>>
  <2>1. cov[1] \in Data!Days /\ cov[2] \in Data!Days
    BY <1>4
  <2>2. r[1] < cov[1] => <<r[1], Data!Min({cov[1] - 1, r[2]})>> \in Parts(c)
    BY <1>1, <2>1, GapBefore
  <2>3. r[2] > cov[2] => <<Data!Max({cov[2] + 1, r[1]}), r[2]>> \in Parts(c)
    BY <1>1, <2>1, GapAfter
  <2>4. before \in Seq(Parts(c)) /\ (before = <<>> => ~(r[1] < cov[1]))
    BY <1>2, <2>2, OnePart
  <2>5. after \in Seq(Parts(c)) /\ (after = <<>> => ~(r[2] > cov[2]))
    BY <1>2, <2>3, OnePart
  <2>6. Data!boundary_gaps(cov, r) = before \o after
    BY <1>4 DEF Data!boundary_gaps
  <2> HIDE DEF before, after
  <2>7. /\ before \o after \in Seq(Parts(c))
        /\ before \o after = <<>> => before = <<>> /\ after = <<>>
    BY <2>4, <2>5, JoinedParts
  <2> QED BY <1>1, <1>4, <2>1, <2>4, <2>5, <2>6, <2>7 DEF Data!Days
<1> QED BY <1>3, <1>4

\* The other calls stay safe.
LEMMA OthersStay ==
    ASSUME DataInv, NEW c \in Fetches, NEW d \in Fetches, d # c,
           UNCHANGED <<gaps[d], dataPc[d], archived[d], existing[d], got[d], fetched[d], direct[d],
                       answer[d], coverage[d]>>,
           served \subseteq served', starved \subseteq starved',
           dataPc[d] = "merging" => UNCHANGED <<archive, gone, lock>>
    PROVE  CallIsSafe(d)'
<1>1. CallIsSafe(d)
  BY DEF DataInv
<1>2. dataPc[d] = "merging" => MergeIsSafe(d)'
  BY <1>1 DEF CallIsSafe, MergeIsSafe, Contains, OnlyServed
<1>3. (OnlyServed(got[d]) => OnlyServed(got[d])') /\ InWanted(fetched[d], d)' = InWanted(fetched[d], d)
      /\ InWanted(archived[d], d)' = InWanted(archived[d], d)
  BY DEF OnlyServed, InWanted
<1>4. AnswerIsWhole(d) => AnswerIsWhole(d)'
  BY DEF AnswerIsWhole, Data!NoBars
<1> QED BY <1>1, <1>2, <1>3, <1>4 DEF CallIsSafe, Parts

\* The end of a call.
LEMMA AnswersAre ==
    ASSUME DataTypes, NEW c \in Fetches, NEW bars \in Data!Bars, Data!Answers(c, bars),
           unsaved' \in [Fetches -> Data!Bars]
    PROVE  /\ cache' \in Data!Bars
           /\ answer' \in [Fetches -> Data!Bars] /\ answer'[c] = bars
           /\ dataPc' \in [Fetches -> {"idle", "coverage", "read", "fetch", "locking", "merging",
                                       "done", "crashed"}]
           /\ dataPc'[c] = "done"
           /\ \A d \in Fetches : d # c => answer'[d] = answer[d] /\ dataPc'[d] = dataPc[d]
<1>1. Data!Over(unsaved'[c], cache) \in Data!Bars
  BY OverIs DEF DataTypes
<1> QED BY <1>1 DEF Data!Answers, DataTypes

\* What a call returns has what was archived, and what was fetched of what it wants.
LEMMA MergedIs ==
    ASSUME DataTypes, NEW c \in Fetches, NEW more \in Data!Bars
    PROVE  /\ Data!Merged(c, more) \in Data!Bars
           /\ InWanted(archived[c], c) \subseteq DOMAIN Data!Merged(c, more)
           /\ InWanted(more, c) \subseteq DOMAIN Data!Merged(c, more)
           /\ InWanted(more, c) # {} => Data!Merged(c, more) # Data!NoBars
<1>1. archived[c] \in Data!Bars
  BY DEF DataTypes
<1>2. /\ Data!Over(more, archived[c]) \in Data!Bars
      /\ DOMAIN Data!Over(more, archived[c]) = DOMAIN archived[c] \cup DOMAIN more
  BY <1>1, OverIs
<1>3. /\ Data!Merged(c, more) \in Data!Bars
      /\ DOMAIN Data!Merged(c, more) =
           {d \in DOMAIN archived[c] \cup DOMAIN more : Wants[c][1] <= d /\ d <= Wants[c][2]}
  BY <1>2, InIs DEF Data!Merged
<1>4. /\ InWanted(archived[c], c) \subseteq DOMAIN Data!Merged(c, more)
      /\ InWanted(more, c) \subseteq DOMAIN Data!Merged(c, more)
  BY <1>3 DEF InWanted
<1> QED BY <1>3, <1>4, NoBarsAreNone

LEMMA BeginsHold == ASSUME DataInv, NEW c \in Fetches, Data!Begin(c) PROVE DataInv'
<1> DEFINE first == IF c \in Downloads THEN <<Wants[c]>> ELSE <<>>
           next == IF c \in Downloads THEN "fetch" ELSE "coverage"
<1>1. /\ dataPc[c] = "idle" /\ gaps' = [gaps EXCEPT ![c] = first] /\ dataPc' = [dataPc EXCEPT ![c] = next]
      /\ UNCHANGED <<archive, cache, lock, coverage, archived, direct, got, fetched, unsaved,
                     existing, answer, deletes, gone, served, starved>>
  BY DEF Data!Begin, Data!files
<1>2. Wants[c] \in Parts(c) /\ Wants[c] \in Data!Days \X Data!Days
  BY DataAssumption DEF Parts, Data!Days
<1>3. /\ first \in Seq(Parts(c)) /\ first \in Seq(Data!Days \X Data!Days)
      /\ next = "fetch" => first # <<>>
      /\ next \in {"fetch", "coverage"}
  BY <1>2, OnePart
<1> HIDE DEF first, next
<1>4. /\ DataTypes' /\ gaps'[c] = first /\ dataPc'[c] = next
      /\ \A d \in Fetches : d # c => gaps'[d] = gaps[d] /\ dataPc'[d] = dataPc[d]
  BY <1>1, <1>3 DEF DataInv, DataTypes
<1>5. CallIsSafe(c)'
  BY <1>1, <1>3, <1>4 DEF DataInv, CallIsSafe, InWanted, Parts
<1>6. ASSUME NEW d \in Fetches, d # c PROVE CallIsSafe(d)'
  BY <1>1, <1>4, <1>6, OthersStay
<1> QED BY <1>1, <1>4, <1>5, <1>6 DEF DataInv, Data!DeletedStaysGone, OnlyServed

LEMMA ReadsCoverageHold == ASSUME DataInv, NEW c \in Fetches, Data!ReadCoverage(c) PROVE DataInv'
<1>1. /\ dataPc[c] = "coverage" /\ dataPc' = [dataPc EXCEPT ![c] = "read"]
      /\ coverage' = [coverage EXCEPT ![c] = Data!Coverage(archive)]
      /\ UNCHANGED <<archive, cache, lock, archived, gaps, direct, got, fetched, unsaved,
                     existing, answer, deletes, gone, served, starved>>
  BY DEF Data!ReadCoverage, Data!files
<1>2. Data!Coverage(archive) \in {<<>>} \cup (Data!Days \X Data!Days)
  BY CoverageIs DEF DataInv, DataTypes
<1>3. /\ DataTypes' /\ dataPc'[c] = "read"
      /\ \A d \in Fetches : d # c => coverage'[d] = coverage[d] /\ dataPc'[d] = dataPc[d]
  BY <1>1, <1>2 DEF DataInv, DataTypes
<1>4. CallIsSafe(c)'
  BY <1>1, <1>3 DEF DataInv, CallIsSafe, InWanted, Parts
<1>5. ASSUME NEW d \in Fetches, d # c PROVE CallIsSafe(d)'
  BY <1>1, <1>3, <1>5, OthersStay
<1> QED BY <1>1, <1>3, <1>4, <1>5 DEF DataInv, Data!DeletedStaysGone, OnlyServed

LEMMA ReadsBarsHold == ASSUME DataInv, NEW c \in Fetches, Data!ReadBars(c) PROVE DataInv'
<1> DEFINE bars == IF coverage[c] = <<>> THEN Data!NoBars ELSE Data!In(archive, Wants[c])
           missing == Data!boundary_gaps(coverage[c], Wants[c])
<1>1. /\ dataPc[c] = "read"
      /\ archived' = [archived EXCEPT ![c] = bars] /\ gaps' = [gaps EXCEPT ![c] = missing]
      /\ IF missing = <<>> THEN Data!Answers(c, bars)
         ELSE dataPc' = [dataPc EXCEPT ![c] = "fetch"] /\ UNCHANGED <<cache, answer>>
      /\ UNCHANGED <<archive, lock, coverage, direct, got, fetched, unsaved,
                     existing, deletes, gone, served, starved>>
  BY DEF Data!ReadBars, Data!files
<1>2. bars \in Data!Bars /\ DOMAIN bars = InWanted(bars, c)
  <2>1. archive \in Data!Bars
    BY DEF DataInv, DataTypes
  <2>2. /\ Data!In(archive, Wants[c]) \in Data!Bars
        /\ \A d \in DOMAIN Data!In(archive, Wants[c]) : Wants[c][1] <= d /\ d <= Wants[c][2]
    BY <2>1, InIs
  <2> QED BY <2>2, NoBarsAreNone DEF InWanted
<1>3. /\ missing \in Seq(Parts(c))
      /\ missing = <<>> => /\ coverage[c] # <<>>
                          /\ coverage[c][1] <= Wants[c][1] /\ Wants[c][2] <= coverage[c][2]
  <2>1. coverage[c] \in {<<>>} \cup (Data!Days \X Data!Days)
    BY DEF DataInv, DataTypes
  <2> QED BY <2>1, GapsAre
<1>4. missing \in Seq(Data!Days \X Data!Days)
  <2>1. Parts(c) \subseteq Data!Days \X Data!Days
    BY DEF Parts
  <2> HIDE DEF missing
  <2> QED BY <1>3, <2>1
<1> HIDE DEF bars, missing
<1>5. /\ archived' \in [Fetches -> Data!Bars] /\ archived'[c] = bars
      /\ gaps' \in [Fetches -> Seq(Data!Days \X Data!Days)] /\ gaps'[c] = missing
      /\ \A d \in Fetches : d # c => archived'[d] = archived[d] /\ gaps'[d] = gaps[d]
  BY <1>1, <1>2, <1>4 DEF DataInv, DataTypes
<1>6. /\ cache' \in Data!Bars /\ answer' \in [Fetches -> Data!Bars]
      /\ dataPc' \in [Fetches -> {"idle", "coverage", "read", "fetch", "locking", "merging",
                                  "done", "crashed"}]
      /\ \A d \in Fetches : d # c => answer'[d] = answer[d] /\ dataPc'[d] = dataPc[d]
      /\ \/ missing = <<>> /\ dataPc'[c] = "done" /\ answer'[c] = bars
         \/ missing # <<>> /\ dataPc'[c] = "fetch"
  <2>1. CASE missing = <<>>
    <3>1. Data!Answers(c, bars) /\ unsaved' \in [Fetches -> Data!Bars]
      BY <1>1, <2>1 DEF DataInv, DataTypes
    <3> QED BY <1>2, <2>1, <3>1, AnswersAre DEF DataInv
  <2>2. CASE missing # <<>>
    BY <1>1, <2>2 DEF DataInv, DataTypes
  <2> QED BY <2>1, <2>2
<1>7. DataTypes'
  BY <1>1, <1>5, <1>6 DEF DataInv, DataTypes
<1>8. CallIsSafe(c)'
  <2>1. AnswerIsWhole(c)' \/ dataPc'[c] # "done"
    BY <1>1, <1>3, <1>5, <1>6 DEF AnswerIsWhole
  <2> QED BY <1>1, <1>2, <1>3, <1>5, <1>6, <2>1 DEF CallIsSafe, InWanted, Parts
<1>9. ASSUME NEW d \in Fetches, d # c PROVE CallIsSafe(d)'
  BY <1>1, <1>5, <1>6, <1>9, OthersStay
<1> QED BY <1>1, <1>7, <1>8, <1>9 DEF DataInv, Data!DeletedStaysGone, OnlyServed

LEMMA ReadFailsHolds == ASSUME DataInv, NEW c \in Fetches, Data!ReadFails(c) PROVE DataInv'
<1>1. /\ dataPc[c] \in {"coverage", "read"} /\ dataPc' = [dataPc EXCEPT ![c] = "fetch"]
      /\ direct' = [direct EXCEPT ![c] = TRUE] /\ gaps' = [gaps EXCEPT ![c] = <<Wants[c]>>]
      /\ UNCHANGED <<archive, cache, lock, coverage, archived, got, fetched, unsaved,
                     existing, answer, deletes, gone, served, starved>>
  BY DEF Data!ReadFails, Data!files
<1>2. Wants[c] \in Parts(c) /\ Wants[c] \in Data!Days \X Data!Days
  BY DataAssumption DEF Parts, Data!Days
<1>3. <<Wants[c]>> \in Seq(Parts(c)) /\ <<Wants[c]>> \in Seq(Data!Days \X Data!Days) /\ <<Wants[c]>> # <<>>
  BY <1>2, OnePart
<1>4. /\ DataTypes' /\ dataPc'[c] = "fetch" /\ gaps'[c] = <<Wants[c]>>
      /\ \A d \in Fetches : d # c =>
           direct'[d] = direct[d] /\ gaps'[d] = gaps[d] /\ dataPc'[d] = dataPc[d]
  BY <1>1, <1>3 DEF DataInv, DataTypes
<1>5. CallIsSafe(c)'
  BY <1>1, <1>3, <1>4 DEF DataInv, CallIsSafe, InWanted, Parts
<1>6. ASSUME NEW d \in Fetches, d # c PROVE CallIsSafe(d)'
  BY <1>1, <1>4, <1>6, OthersStay
<1> QED BY <1>1, <1>4, <1>5, <1>6 DEF DataInv, Data!DeletedStaysGone, OnlyServed

\* The end of a fetch, wherever the bars come from: they are real or were served, and
\* something is wanted of them.
LEMMA FetchedHolds ==
    ASSUME DataInv, NEW c \in Fetches, dataPc[c] = "fetch", NEW bars \in Data!Bars,
           NEW synthetic \in BOOLEAN, Data!Fetched(c, bars, synthetic),
           unsaved' \in [Fetches -> Data!Bars], served \subseteq served', starved \subseteq starved',
           ~synthetic => \A d \in DOMAIN bars : bars[d] = "demo" => d \in served',
           c \in starved' \/ InWanted(bars, c) # {}
    PROVE  DataInv'
<1> DEFINE all == Data!Over(bars, fetched[c])
           archives == Data!Archives(c, bars, synthetic)
           rest == Tail(gaps[c])
<1>1. /\ got' = [got EXCEPT ![c] = bars] /\ fetched' = [fetched EXCEPT ![c] = all]
      /\ UNCHANGED <<archive, lock, existing, deletes, gone, coverage, archived, direct>>
      /\ archives => ~synthetic
  BY DEF Data!Fetched, Data!files, Data!mine, Data!Archives
<1>2. /\ all \in Data!Bars /\ DOMAIN all = DOMAIN fetched[c] \cup DOMAIN bars
      /\ fetched \in [Fetches -> Data!Bars] /\ got \in [Fetches -> Data!Bars]
      /\ gaps \in [Fetches -> Seq(Data!Days \X Data!Days)]
  <2>1. /\ fetched \in [Fetches -> Data!Bars] /\ got \in [Fetches -> Data!Bars]
        /\ gaps \in [Fetches -> Seq(Data!Days \X Data!Days)]
    BY DEF DataInv, DataTypes
  <2>2. fetched[c] \in Data!Bars
    BY <2>1
  <2> QED BY <2>1, <2>2, OverIs
<1>3. c \in starved' \/ InWanted(all, c) # {}
  BY <1>2 DEF InWanted
<1>4. gaps[c] \in Seq(Parts(c)) /\ gaps[c] # <<>>
  BY DEF DataInv, CallIsSafe
<1>5. rest \in Seq(Parts(c)) /\ rest \in Seq(Data!Days \X Data!Days)
  BY <1>2, <1>4, GapsShrink
<1>6. CASE archives
  <2>1. dataPc' = [dataPc EXCEPT ![c] = "locking"] /\ UNCHANGED <<gaps, cache, answer>>
    BY <1>6 DEF Data!Fetched
  <2> HIDE DEF all, archives
  <2>2. /\ DataTypes' /\ dataPc'[c] = "locking" /\ got'[c] = bars /\ fetched'[c] = all
        /\ \A d \in Fetches : d # c =>
             dataPc'[d] = dataPc[d] /\ got'[d] = got[d] /\ fetched'[d] = fetched[d]
    BY <1>1, <1>2, <2>1 DEF DataInv, DataTypes
  <2>3. OnlyServed(got[c])'
    BY <1>1, <1>6, <2>2 DEF OnlyServed
  <2>4. c \in starved' \/ InWanted(fetched'[c], c) # {}
    BY <1>3, <2>2
  <2>5. CallIsSafe(c)'
    BY <1>1, <1>4, <2>1, <2>2, <2>3, <2>4 DEF DataInv, CallIsSafe, InWanted, Parts
  <2>6. ASSUME NEW d \in Fetches, d # c PROVE CallIsSafe(d)'
    BY <1>1, <2>1, <2>2, <2>6, OthersStay
  <2> QED BY <1>1, <2>2, <2>5, <2>6 DEF DataInv, Data!DeletedStaysGone, OnlyServed
<1>7. CASE ~archives
  <2>1. /\ gaps' = [gaps EXCEPT ![c] = rest]
        /\ IF gaps'[c] = <<>> THEN Data!Answers(c, Data!Merged(c, fetched'[c]))
           ELSE UNCHANGED <<dataPc, cache, answer>>
    BY <1>7 DEF Data!Fetched
  <2> HIDE DEF all, archives, rest
  <2>2. /\ got' \in [Fetches -> Data!Bars] /\ got'[c] = bars
        /\ fetched' \in [Fetches -> Data!Bars] /\ fetched'[c] = all
        /\ gaps' \in [Fetches -> Seq(Data!Days \X Data!Days)] /\ gaps'[c] = rest
        /\ \A d \in Fetches : d # c =>
             gaps'[d] = gaps[d] /\ got'[d] = got[d] /\ fetched'[d] = fetched[d]
    BY <1>1, <1>2, <1>5, <2>1
  <2>3. CASE rest = <<>>
    <3>1. Data!Answers(c, Data!Merged(c, all))
      BY <2>1, <2>2, <2>3
    <3>2. /\ Data!Merged(c, all) \in Data!Bars
          /\ InWanted(archived[c], c) \subseteq DOMAIN Data!Merged(c, all)
          /\ InWanted(all, c) # {} => Data!Merged(c, all) # Data!NoBars
      BY <1>2, MergedIs DEF DataInv
    <3>3. /\ cache' \in Data!Bars
          /\ answer' \in [Fetches -> Data!Bars] /\ answer'[c] = Data!Merged(c, all)
          /\ dataPc' \in [Fetches -> {"idle", "coverage", "read", "fetch", "locking", "merging",
                                      "done", "crashed"}]
          /\ dataPc'[c] = "done"
          /\ \A d \in Fetches : d # c => answer'[d] = answer[d] /\ dataPc'[d] = dataPc[d]
      BY <3>1, <3>2, AnswersAre DEF DataInv
    <3>4. DataTypes'
      BY <1>1, <2>2, <3>3 DEF DataInv, DataTypes
    <3>5. DOMAIN archived[c] = InWanted(archived[c], c)
      BY DEF DataInv, CallIsSafe
    <3>6. AnswerIsWhole(c)'
      BY <1>1, <1>3, <3>2, <3>3, <3>5 DEF AnswerIsWhole
    <3>7. CallIsSafe(c)'
      BY <1>1, <1>5, <2>2, <3>3, <3>5, <3>6 DEF CallIsSafe, InWanted, Parts
    <3>8. ASSUME NEW d \in Fetches, d # c PROVE CallIsSafe(d)'
      BY <1>1, <2>2, <3>3, <3>8, OthersStay
    <3> QED BY <1>1, <3>4, <3>7, <3>8 DEF DataInv, Data!DeletedStaysGone, OnlyServed
  <2>4. CASE rest # <<>>
    <3>1. UNCHANGED <<dataPc, cache, answer>>
      BY <2>1, <2>2, <2>4
    <3>2. DataTypes'
      BY <1>1, <2>2, <3>1 DEF DataInv, DataTypes
    <3>3. CallIsSafe(c)'
      BY <1>1, <1>5, <2>2, <2>4, <3>1 DEF DataInv, CallIsSafe, InWanted, Parts
    <3>4. ASSUME NEW d \in Fetches, d # c PROVE CallIsSafe(d)'
      BY <1>1, <2>2, <3>1, <3>4, OthersStay
    <3> QED BY <1>1, <3>2, <3>3, <3>4 DEF DataInv, Data!DeletedStaysGone, OnlyServed
  <2> QED BY <2>3, <2>4
<1> QED BY <1>6, <1>7

LEMMA PartIsDays ==
    ASSUME NEW v \in Data!Days, NEW w \in Data!Days, NEW x \in Data!Days, NEW y \in Data!Days,
           v <= x, x <= y, y <= w
    PROVE  /\ x..y \subseteq Data!Days /\ x..y # {}
           /\ \A d \in x..y : v <= d /\ d <= w
<1>1. N \in Nat
  BY DataAssumption
<1>2. v \in 1..N /\ w \in 1..N /\ x \in 1..N /\ y \in 1..N
  BY DEF Data!Days
<1>3. x \in x..y
  BY <1>2
<1>4. x..y \subseteq 1..N
  BY <1>1, <1>2
<1>5. \A d \in x..y : v <= d /\ d <= w
  BY <1>2
<1> QED BY <1>3, <1>4, <1>5 DEF Data!Days

LEMMA FetchesHold ==
    ASSUME DataInv, NEW c \in Fetches,
           Data!FromCache(c) \/ Data!FromSource(c) \/ Data!FromDemo(c) \/ Data!FromNowhere(c)
    PROVE  DataInv'
<1>1. /\ dataPc[c] = "fetch" /\ gaps[c] \in Seq(Parts(c)) /\ gaps[c] # <<>>
      /\ unsaved \in [Fetches -> Data!Bars] /\ unsaved[c] \in Data!Bars /\ cache \in Data!Bars
  BY DEF Data!FromCache, Data!FromSource, Data!FromDemo, Data!FromNowhere, DataInv, DataTypes, CallIsSafe
<1> DEFINE gap == Data!Gap(c)
<1>2. gap \in Parts(c)
  BY <1>1, GapsShrink DEF Data!Gap
<1>3. /\ gap[1] \in Data!Days /\ gap[2] \in Data!Days /\ gap[1] <= gap[2]
      /\ Wants[c][1] <= gap[1] /\ gap[2] <= Wants[c][2]
      /\ Wants[c][1] \in Data!Days /\ Wants[c][2] \in Data!Days
  BY <1>2, DataAssumption DEF Parts, Data!Days
<1> HIDE DEF gap
<1>4. /\ gap[1]..gap[2] \subseteq Data!Days /\ gap[1]..gap[2] # {}
      /\ \A d \in gap[1]..gap[2] : Wants[c][1] <= d /\ d <= Wants[c][2]
  BY <1>3, PartIsDays
<1>5. ASSUME NEW bars \in Data!Bars, Data!Saves(c, bars) PROVE unsaved' \in [Fetches -> Data!Bars]
  <2>1. Data!Over(bars, unsaved[c]) \in Data!Bars
    BY <1>1, OverIs
  <2> QED BY <1>1, <1>5, <2>1 DEF Data!Saves
<1>6. CASE Data!FromCache(c)
  <2> DEFINE bars == Data!Cached(c)
  <2>1. Data!Over(unsaved[c], cache) \in Data!Bars
    BY <1>1, OverIs
  <2>2. /\ bars \in Data!Bars
        /\ \A d \in DOMAIN bars : gap[1] <= d /\ d <= gap[2]
    BY <2>1, InIs DEF Data!Cached, gap
  <2>3. /\ bars # Data!NoBars /\ Data!Fetched(c, bars, FALSE) /\ UNCHANGED <<unsaved, starved>>
        /\ served' = served \cup {d \in DOMAIN bars : bars[d] = "demo"}
    BY <1>6 DEF Data!FromCache, Data!CacheHit
  <2> HIDE DEF bars
  <2>4. DOMAIN bars # {} /\ DOMAIN bars \subseteq Data!Days
    BY <2>2, <2>3, NoBarsAreNone, BarsAre
  <2>5. InWanted(bars, c) # {}
    <3>1. PICK d \in DOMAIN bars : TRUE
      BY <2>4
    <3>2. gap[1] <= d /\ d <= gap[2] /\ d \in Data!Days
      BY <2>2, <2>4
    <3>3. Wants[c][1] <= d /\ d <= Wants[c][2]
      BY <1>3, <3>2 DEF Data!Days
    <3> QED BY <3>3 DEF InWanted
  <2>6. served \subseteq served' /\ \A d \in DOMAIN bars : bars[d] = "demo" => d \in served'
    BY <2>3
  <2> QED BY <1>1, <2>2, <2>3, <2>5, <2>6, FetchedHolds
<1>7. CASE Data!FromSource(c)
  <2>1. PICK D \in (SUBSET (gap[1]..gap[2])) \ {{}} :
          Data!Saves(c, Data!All("real", D)) /\ Data!Fetched(c, Data!All("real", D), FALSE)
    BY <1>7 DEF Data!FromSource, gap
  <2>2. D # {} /\ D \in SUBSET Data!Days /\ \A d \in D : Wants[c][1] <= d /\ d <= Wants[c][2]
    BY <1>4
  <2> DEFINE bars == Data!All("real", D)
  <2>3. bars \in Data!Bars /\ DOMAIN bars = D /\ \A d \in D : bars[d] = "real"
    BY <2>2, AllIs
  <2>4. UNCHANGED <<served, starved>>
    BY <1>7 DEF Data!FromSource
  <2>5. Data!Saves(c, bars) /\ Data!Fetched(c, bars, FALSE)
    BY <2>1
  <2> HIDE DEF bars
  <2>6. InWanted(bars, c) # {}
    BY <2>2, <2>3 DEF InWanted
  <2>7. unsaved' \in [Fetches -> Data!Bars]
    BY <1>5, <2>3, <2>5
  <2>8. \A d \in DOMAIN bars : bars[d] = "demo" => d \in served'
    BY <2>3
  <2> QED BY <1>1, <2>3, <2>4, <2>5, <2>6, <2>7, <2>8, FetchedHolds
<1>8. CASE Data!FromDemo(c)
  <2> DEFINE D == gap[1]..gap[2]
             bars == Data!All("demo", D)
  <2>1. Data!Saves(c, bars) /\ Data!Fetched(c, bars, TRUE) /\ UNCHANGED <<served, starved>>
    BY <1>8 DEF Data!FromDemo, gap
  <2>2. bars \in Data!Bars /\ DOMAIN bars = D
    BY <1>4, AllIs
  <2>3. D # {} /\ \A d \in D : Wants[c][1] <= d /\ d <= Wants[c][2]
    BY <1>4
  <2> HIDE DEF bars, D
  <2>4. InWanted(bars, c) # {}
    BY <2>2, <2>3 DEF InWanted
  <2>5. unsaved' \in [Fetches -> Data!Bars]
    BY <1>5, <2>1, <2>2
  <2> QED BY <1>1, <2>1, <2>2, <2>4, <2>5, FetchedHolds
<1>9. CASE Data!FromNowhere(c)
  <2>1. /\ Data!Fetched(c, Data!NoBars, FALSE) /\ UNCHANGED <<unsaved, served>>
        /\ starved' = starved \cup {c}
    BY <1>9 DEF Data!FromNowhere
  <2> QED BY <1>1, <2>1, NoBarsAreNone, FetchedHolds
<1> QED BY <1>6, <1>7, <1>8, <1>9

\* A call that takes the lock has read what the file has.
LEMMA LocksHold == ASSUME DataInv, NEW c \in Fetches, Data!Locks(c) PROVE DataInv'
<1>1. /\ dataPc[c] = "locking" /\ lock = None /\ lock' = c
      /\ existing' = [existing EXCEPT ![c] = archive] /\ dataPc' = [dataPc EXCEPT ![c] = "merging"]
      /\ UNCHANGED <<archive, cache, coverage, archived, gaps, direct, got, fetched, unsaved,
                     answer, deletes, gone, served, starved>>
  BY DEF Data!Locks, Data!LockFree, Data!mine
<1>2. /\ DataTypes' /\ dataPc'[c] = "merging" /\ existing'[c] = archive
      /\ \A d \in Fetches : d # c => dataPc'[d] = dataPc[d] /\ existing'[d] = existing[d]
  BY <1>1 DEF DataInv, DataTypes
<1>3. MergeIsSafe(c)'
  BY <1>1, <1>2 DEF DataInv, MergeIsSafe, Contains, OnlyServed, Data!DeletedStaysGone
<1>4. CallIsSafe(c)'
  BY <1>1, <1>2, <1>3 DEF DataInv, CallIsSafe, InWanted, OnlyServed, Parts
<1>5. ASSUME NEW d \in Fetches, d # c PROVE CallIsSafe(d)'
  <2>1. dataPc[d] # "merging"
    BY <1>1, DataAssumption DEF DataInv, CallIsSafe, MergeIsSafe
  <2> QED BY <1>1, <1>2, <1>5, <2>1, OthersStay
<1> QED BY <1>1, <1>2, <1>4, <1>5 DEF DataInv, Data!DeletedStaysGone, OnlyServed

\* The lock is given back, with a file that is still safe.
LEMMA UnlocksHold ==
    ASSUME DataInv, NEW c \in Fetches, dataPc[c] = "merging", Data!Unlocks(c),
           archive' \in Data!Bars, Data!DeletedStaysGone', OnlyServed(archive)'
    PROVE  DataInv'
<1> DEFINE rest == Tail(gaps[c])
           bars == Data!Merged(c, fetched[c])
<1>1. /\ lock' = None /\ gaps' = [gaps EXCEPT ![c] = rest]
      /\ UNCHANGED <<existing, deletes, coverage, archived, direct, got, fetched, unsaved, served, starved>>
      /\ IF gaps'[c] = <<>> THEN Data!Answers(c, bars)
         ELSE dataPc' = [dataPc EXCEPT ![c] = "fetch"] /\ UNCHANGED <<cache, answer>>
  BY DEF Data!Unlocks, Data!mine
<1>2. /\ gaps[c] \in Seq(Parts(c)) /\ gaps[c] # <<>> /\ DOMAIN archived[c] = InWanted(archived[c], c)
      /\ c \in starved \/ InWanted(fetched[c], c) # {}
      /\ lock = c
  BY DEF DataInv, CallIsSafe, MergeIsSafe
<1>3. /\ gaps \in [Fetches -> Seq(Data!Days \X Data!Days)] /\ fetched[c] \in Data!Bars
      /\ unsaved' \in [Fetches -> Data!Bars]
  BY <1>1 DEF DataInv, DataTypes
<1>4. rest \in Seq(Parts(c)) /\ rest \in Seq(Data!Days \X Data!Days)
  BY <1>2, <1>3, GapsShrink
<1>5. /\ bars \in Data!Bars /\ InWanted(archived[c], c) \subseteq DOMAIN bars
      /\ InWanted(fetched[c], c) # {} => bars # Data!NoBars
  BY <1>3, MergedIs DEF DataInv
<1> HIDE DEF rest, bars
<1>6. /\ gaps' \in [Fetches -> Seq(Data!Days \X Data!Days)] /\ gaps'[c] = rest
      /\ \A d \in Fetches : d # c => gaps'[d] = gaps[d]
  BY <1>1, <1>3, <1>4
<1>7. /\ cache' \in Data!Bars /\ answer' \in [Fetches -> Data!Bars]
      /\ dataPc' \in [Fetches -> {"idle", "coverage", "read", "fetch", "locking", "merging",
                                  "done", "crashed"}]
      /\ \A d \in Fetches : d # c => answer'[d] = answer[d] /\ dataPc'[d] = dataPc[d]
      /\ \/ dataPc'[c] = "done" /\ answer'[c] = bars
         \/ rest # <<>> /\ dataPc'[c] = "fetch"
  <2>1. CASE rest = <<>>
    BY <1>1, <1>3, <1>5, <1>6, <2>1, AnswersAre DEF DataInv
  <2>2. CASE rest # <<>>
    BY <1>1, <1>6, <2>2 DEF DataInv, DataTypes
  <2> QED BY <2>1, <2>2
<1>8. DataTypes'
  BY <1>1, <1>6, <1>7 DEF DataInv, DataTypes
<1>9. CallIsSafe(c)'
  <2>1. AnswerIsWhole(c)' \/ dataPc'[c] # "done"
    BY <1>1, <1>2, <1>5, <1>7 DEF AnswerIsWhole
  <2> QED BY <1>1, <1>2, <1>4, <1>6, <1>7, <2>1 DEF CallIsSafe, InWanted, Parts
<1>10. ASSUME NEW d \in Fetches, d # c PROVE CallIsSafe(d)'
  <2>1. dataPc[d] # "merging"
    BY <1>2, <1>10 DEF DataInv, CallIsSafe, MergeIsSafe
  <2> QED BY <1>1, <1>6, <1>7, <1>10, <2>1, OthersStay
<1> QED BY <1>8, <1>9, <1>10 DEF DataInv

\* The merged file has all the file had; what was deleted comes back only if it was sent.
LEMMA ReplacesAre ==
    ASSUME DataInv, NEW c \in Fetches, Data!Replaces(c)
    PROVE  /\ dataPc[c] = "merging" /\ Data!Unlocks(c) /\ archive' \in Data!Bars
           /\ Data!DeletedStaysGone' /\ OnlyServed(archive)' /\ Contains(archive', archive)
<1> DEFINE merged == Data!Over(existing[c], got[c])
<1>1. /\ dataPc[c] = "merging" /\ Data!Unlocks(c) /\ served' = served
      /\ archive' = IF merged = existing[c] THEN archive ELSE merged
      /\ gone' = gone \ DOMAIN got[c]
  BY DEF Data!Replaces, Data!Unlocks, Data!Written
<1>2. /\ existing[c] \in Data!Bars /\ got[c] \in Data!Bars /\ archive \in Data!Bars
      /\ MergeIsSafe(c) /\ OnlyServed(got[c]) /\ OnlyServed(archive)
      /\ DOMAIN archive \cap gone = {}
  BY <1>1 DEF DataInv, DataTypes, CallIsSafe, Data!DeletedStaysGone
<1>3. /\ merged \in Data!Bars /\ DOMAIN merged = DOMAIN got[c] \cup DOMAIN existing[c]
      /\ \A d \in DOMAIN got[c] \cup DOMAIN existing[c] :
           merged[d] = IF d \in DOMAIN existing[c] THEN existing[c][d] ELSE got[c][d]
  BY <1>2, OverIs
<1> HIDE DEF merged
<1>4. Contains(archive', archive)
  BY <1>1, <1>2, <1>3 DEF MergeIsSafe, Contains
<1>5. Data!DeletedStaysGone'
  BY <1>1, <1>2, <1>3 DEF MergeIsSafe, Data!DeletedStaysGone
<1>6. OnlyServed(archive)'
  BY <1>1, <1>2, <1>3 DEF MergeIsSafe, OnlyServed
<1> QED BY <1>1, <1>2, <1>3, <1>4, <1>5, <1>6

LEMMA CrashHolds == ASSUME DataInv, NEW c \in Fetches, Data!Crash(c) PROVE DataInv'
<1>1. /\ dataPc[c] = "merging" /\ dataPc' = [dataPc EXCEPT ![c] = "crashed"]
      /\ lock' = IF lock = c THEN None ELSE lock
      /\ UNCHANGED <<archive, cache, coverage, archived, gaps, direct, got, fetched, unsaved,
                     existing, answer, deletes, gone, served, starved>>
  BY DEF Data!Crash, Data!mine
<1>2. /\ DataTypes' /\ dataPc'[c] = "crashed" /\ \A d \in Fetches : d # c => dataPc'[d] = dataPc[d]
  BY <1>1 DEF DataInv, DataTypes
<1>3. CallIsSafe(c)'
  BY <1>1, <1>2 DEF DataInv, CallIsSafe, InWanted, Parts
<1>4. ASSUME NEW d \in Fetches, d # c PROVE CallIsSafe(d)'
  <2>1. dataPc[d] # "merging"
    BY <1>1, <1>4 DEF DataInv, CallIsSafe, MergeIsSafe
  <2> QED BY <1>1, <1>2, <1>4, <2>1, OthersStay
<1> QED BY <1>1, <1>2, <1>3, <1>4 DEF DataInv, Data!DeletedStaysGone, OnlyServed

\* A delete empties the file; a merge under way keeps what it has read.
LEMMA DeleteHolds == ASSUME DataInv, Data!Delete PROVE DataInv'
<1>1. /\ archive' = Data!NoBars /\ deletes < MaxDeletes /\ deletes' = deletes + 1
      /\ gone' = (gone \cup DOMAIN archive) \
                   UNION {DOMAIN existing[c] : c \in {x \in Fetches : dataPc[x] = "merging"}}
      /\ UNCHANGED <<lock, existing, cache, dataPc, coverage, archived, direct, gaps, got, fetched,
                     unsaved, answer, served, starved>>
  BY DEF Data!Delete, Data!mine
<1>2. archive' \in Data!Bars /\ DOMAIN archive' = {}
  BY <1>1, NoBarsAreNone
<1>3. DataTypes'
  BY <1>1, <1>2, DataAssumption DEF DataInv, DataTypes
<1>4. ASSUME NEW c \in Fetches PROVE CallIsSafe(c)'
  <2>1. dataPc[c] = "merging" => MergeIsSafe(c)'
    BY <1>1, <1>2 DEF DataInv, CallIsSafe, MergeIsSafe, Contains, OnlyServed
  <2> QED BY <1>1, <2>1 DEF DataInv, CallIsSafe, InWanted, OnlyServed, AnswerIsWhole, Parts, Data!NoBars
<1> QED BY <1>2, <1>3, <1>4 DEF DataInv, Data!DeletedStaysGone, OnlyServed

LEMMA DataStep == DataInv /\ [Data!Next]_(Data!vars) => DataInv'
<1> SUFFICES ASSUME DataInv, [Data!Next]_(Data!vars) PROVE DataInv'
  OBVIOUS
<1>1. CASE UNCHANGED Data!vars
  <2>1. UNCHANGED <<archive, cache, lock, dataPc, coverage, archived, gaps, direct, got, fetched,
                    unsaved, existing, answer, deletes, gone, served, starved>>
    BY <1>1 DEF Data!vars, Data!files, Data!mine
  <2>2. \A c \in Fetches : CallIsSafe(c)'
    BY <2>1
       DEF DataInv, CallIsSafe, MergeIsSafe, InWanted, OnlyServed, Contains, AnswerIsWhole, Parts, Data!NoBars
  <2> QED BY <2>1, <2>2 DEF DataInv, DataTypes, Data!DeletedStaysGone, OnlyServed
<1>2. ASSUME NEW c \in Fetches, Data!Replaces(c) PROVE DataInv'
  BY <1>2, ReplacesAre, UnlocksHold
<1>3. ASSUME NEW c \in Fetches, Data!WriteFails(c) PROVE DataInv'
  <2>1. dataPc[c] = "merging" /\ Data!Unlocks(c) /\ UNCHANGED <<archive, gone, served>>
    BY <1>3 DEF Data!WriteFails, Data!Unlocks
  <2>2. archive' \in Data!Bars /\ Data!DeletedStaysGone' /\ OnlyServed(archive)'
    BY <2>1 DEF DataInv, DataTypes, Data!DeletedStaysGone, OnlyServed
  <2> QED BY <2>1, <2>2, UnlocksHold
<1> QED BY <1>1, <1>2, <1>3, BeginsHold, ReadsCoverageHold, ReadsBarsHold, ReadFailsHolds, FetchesHold,
           LocksHold, CrashHolds, DeleteHolds DEF Data!Next, Data!Step

\* The archive changes only by a merge, which keeps what it has, and by a delete.
LEMMA ArchiveGrows ==
    ASSUME DataInv, [Data!Next]_(Data!vars), deletes' = deletes
    PROVE  Contains(archive', archive)
<1>1. CASE archive' = archive
  BY <1>1 DEF Contains
<1>2. ASSUME NEW c \in Fetches, Data!Replaces(c) PROVE Contains(archive', archive)
  BY <1>2, ReplacesAre
<1>3. CASE Data!Delete
  <2>1. deletes' = deletes + 1 /\ deletes \in Nat
    BY <1>3, DataAssumption DEF Data!Delete, DataInv, DataTypes
  <2> QED BY <2>1
<1>4. \/ archive' = archive
      \/ \E c \in Fetches : Data!Replaces(c)
      \/ Data!Delete
  BY DEF Data!Next, Data!Step, Data!vars, Data!files, Data!Begin, Data!ReadCoverage, Data!ReadBars,
         Data!ReadFails, Data!FromCache, Data!FromSource, Data!FromDemo, Data!FromNowhere,
         Data!Fetched, Data!Locks, Data!WriteFails, Data!Crash
<1> QED BY <1>1, <1>2, <1>3, <1>4

\* The archive keeps what it was given, for any number of processes that read it, merge
\* into it under the lock, crash, or delete it without (data/file_store.py,
\* data/service.py).
THEOREM ArchiveStaysKept == Data!Spec => ArchiveIsKept
<1>1. DataInv => Data!TypeOK /\ Data!DeletedStaysGone /\ Data!DemoNeedsCache /\ Data!AnswersAreWhole
  <2> SUFFICES ASSUME DataInv
               PROVE  Data!TypeOK /\ Data!DeletedStaysGone /\ Data!DemoNeedsCache /\ Data!AnswersAreWhole
    OBVIOUS
  <2>1. ASSUME NEW c \in Fetches, dataPc[c] \in {"fetch", "locking", "merging"}
        PROVE  gaps[c] # <<>> /\ Data!Gap(c)[1] <= Data!Gap(c)[2]
    <3>1. gaps[c] \in Seq(Parts(c)) /\ gaps[c] # <<>>
      BY <2>1 DEF DataInv, CallIsSafe
    <3>2. Data!Gap(c) \in Parts(c)
      BY <3>1, GapsShrink DEF Data!Gap
    <3> QED BY <3>1, <3>2 DEF Parts
  <2>2. Data!TypeOK
    BY <2>1 DEF DataInv, DataTypes, Data!TypeOK
  <2>3. Data!DemoNeedsCache /\ Data!DeletedStaysGone
    BY DEF DataInv, OnlyServed, Data!DemoNeedsCache
  <2>4. Data!AnswersAreWhole
    BY DEF DataInv, CallIsSafe, AnswerIsWhole, Data!AnswersAreWhole
  <2> QED BY <2>2, <2>3, <2>4
<1>2. DataInv /\ [Data!Next]_(Data!vars) =>
        [deletes' = deletes =>
           \A d \in DOMAIN archive : d \in DOMAIN archive' /\ archive'[d] = archive[d]]_(Data!vars)
  BY ArchiveGrows DEF Contains
<1> QED BY <1>1, <1>2, DataInit, DataStep, PTL
        DEF Data!Spec, ArchiveIsKept, Data!ArchiveIsKept, Data!ArchiveKeepsBars
==============================================================================
