------------------------- MODULE Strategies_proofs -------------------------
(***************************************************************************)
(* Proofs about live trading, for every set of start calls, symbols and    *)
(* limits.  First the instances (StrategyEngine): what makes the two       *)
(* bounds hold is what one state shows of another actor: a live task's     *)
(* instance is RUNNING, so that the check of a later start sees it; and    *)
(* every checked order under way was checked below the daily limit.        *)
(* Then the loop of one strategy (LiveRunner): where every bar is, and     *)
(* what the counts stand for, at every await.                              *)
(***************************************************************************)
EXTENDS Strategies, FiniteSetTheorems, TLAPS

Placing == {c \in Starts : task[c] = "placing"}

\* Only the task of a RUNNING instance is live; what has no task has none yet.
LiveIsRunning ==
    \A c \in Starts : /\ Live(c) => state[c] = "RUNNING" /\ call[c] = "returned"
                      /\ accepted[c] <= today

\* Who loads knows the registered instance, or it ended.
LoadingKnows ==
    \A c \in Starts : \A d \in Others(c) :
        call[c] = "loading" /\ registered[Id[d]] = d /\ Live(d) => d \in rival[c]

\* A registered instance is registered under its own id.
RegisteredIsOwn ==
    \A i \in Ids : registered[i] # None => registered[i] \in Starts /\ Id[registered[i]] = i

\* Every checked order under way was checked against a count below the limit.
UnderWay ==
    Severity = "block" =>
        today + Cardinality(Placing) <= MaxDaily - 1 + Cardinality(Starts) + exempt

\* What was sent unchecked was counted.
ExemptCounted == exempt <= today

IInv ==
    /\ TypeOK /\ LiveIsRunning /\ RegisteredIsOwn
    /\ LoadingKnows /\ OrphansNeedOverlap /\ UnderWay /\ ExemptCounted

-----------------------------------------------------------------------------
(* The orders under way.                                                    *)

LEMMA PlacingType ==
    /\ IsFiniteSet(Placing) /\ Cardinality(Placing) \in Nat
    /\ Cardinality(Starts) \in Nat /\ Cardinality(Starts) >= 1
    /\ Cardinality(Placing) <= Cardinality(Starts)
<1>1. Placing \subseteq Starts
  BY DEF Placing
<1>2. Cardinality(Starts) # 0
  BY FS_EmptySet, EngineAssumption
<1> QED
  BY <1>1, <1>2, FS_Subset, FS_CardinalityType, EngineAssumption

\* No new order under way and no new order counted: the bound stays.
LEMMA FewerUnderWay ==
    ASSUME IInv, Placing' \subseteq Placing, UNCHANGED <<today, exempt>>
    PROVE  UnderWay' /\ ExemptCounted'
<1>1. Cardinality(Placing') <= Cardinality(Placing) /\ Cardinality(Placing') \in Nat
  BY PlacingType, FS_Subset, FS_CardinalityType
<1> QED
  BY <1>1, PlacingType, EngineAssumption DEF IInv, UnderWay, ExemptCounted, TypeOK

\* What tasks, stops and failures leave alone keeps what is known of registrations,
\* as long as no task comes to life.
LEMMA RegistrationKept ==
    ASSUME IInv, UNCHANGED calls, \A d \in Starts : Live(d)' => Live(d)
    PROVE  RegisteredIsOwn' /\ LoadingKnows' /\ OrphansNeedOverlap'
<1>1. RegisteredIsOwn'
  BY DEF IInv, RegisteredIsOwn, calls
<1>2. LoadingKnows'
  BY DEF IInv, LoadingKnows, calls, Others
<1>3. OrphansNeedOverlap'
  BY DEF IInv, OrphansNeedOverlap, calls, Others
<1> QED
  BY <1>1, <1>2, <1>3

-----------------------------------------------------------------------------
(* The invariant is inductive.                                              *)

THEOREM InitHolds == Init => IInv
<1> SUFFICES ASSUME Init PROVE IInv
  OBVIOUS
<1>1. TypeOK
  BY EngineAssumption DEF Init, TypeOK
<1>2. \A c \in Starts : ~Live(c)
  BY DEF Init, Live
<1>3. LiveIsRunning /\ RegisteredIsOwn /\ LoadingKnows /\ OrphansNeedOverlap
  BY <1>2 DEF Init, LiveIsRunning, RegisteredIsOwn, LoadingKnows, OrphansNeedOverlap, Others
<1>4. UnderWay /\ ExemptCounted
  <2>1. Placing = {}
    BY DEF Init, Placing
  <2>2. Cardinality(Placing) = 0
    BY <2>1, FS_EmptySet
  <2> QED
    BY <2>2, PlacingType, EngineAssumption DEF Init, UnderWay, ExemptCounted
<1> QED
  BY <1>1, <1>3, <1>4 DEF IInv

\* A start checks: what is registered under its id is not RUNNING, and not live.
LEMMA ChecksHold == ASSUME IInv, NEW c \in Starts, StartChecks(c) PROVE IInv'
<1>1. /\ UNCHANGED <<registered, rival, state, task, stop, cancelled, controls, today, accepted, exempt>>
      /\ call' = [call EXCEPT ![c] = IF Free(c) THEN "loading" ELSE "raised"]
      /\ call[c] = "idle"
  BY DEF StartChecks
<1>2. TypeOK' /\ LiveIsRunning' /\ RegisteredIsOwn' /\ OrphansNeedOverlap'
  <2>1. TypeOK'
    BY <1>1 DEF IInv, TypeOK
  <2>2. LiveIsRunning'
    BY <1>1 DEF IInv, TypeOK, LiveIsRunning, Live
  <2>3. RegisteredIsOwn'
    BY <1>1 DEF IInv, RegisteredIsOwn
  <2>4. OrphansNeedOverlap'
    BY <1>1 DEF IInv, TypeOK, OrphansNeedOverlap, Others, Live
  <2> QED
    BY <2>1, <2>2, <2>3, <2>4
<1>3. LoadingKnows'
  <2> SUFFICES ASSUME NEW e \in Starts, NEW d \in Others(e), call'[e] = "loading",
                      registered[Id[d]] = d, Live(d)
               PROVE  d \in rival[e]
    BY <1>1 DEF LoadingKnows, Others, Live
  <2>1. CASE e = c
    <3>1. Free(c)
      BY <1>1, <2>1 DEF IInv, TypeOK
    <3>2. registered[Id[c]] = d /\ d \in Starts
      BY <2>1 DEF Others
    <3>3. state[d] # "RUNNING"
      BY <3>1, <3>2, EngineAssumption DEF Free
    <3> QED
      BY <3>2, <3>3 DEF IInv, LiveIsRunning
  <2>2. CASE e # c
    BY <1>1, <2>2 DEF IInv, TypeOK, LoadingKnows
  <2> QED
    BY <2>1, <2>2
<1>4. UnderWay' /\ ExemptCounted'
  BY <1>1, FewerUnderWay DEF Placing
<1> QED
  BY <1>2, <1>3, <1>4 DEF IInv

\* A start returns: whoever loads for the same id notes it, and whoever was
\* registered before it and is live was noted by it.
LEMMA ReturnsHold == ASSUME IInv, NEW c \in Starts, StartReturns(c) PROVE IInv'
<1>1. /\ call[c] = "loading" /\ call' = [call EXCEPT ![c] = "returned"]
      /\ \A d \in Starts : rival'[d] = IF d \in Others(c) /\ call[d] = "loading"
                                       THEN rival[d] \cup {c} ELSE rival[d]
      /\ registered' = [registered EXCEPT ![Id[c]] = c]
      /\ state' = [state EXCEPT ![c] = "RUNNING"]
      /\ task' = [task EXCEPT ![c] = "waiting"]
      /\ UNCHANGED <<stop, cancelled, today, accepted, exempt>>
      /\ controls' \in Portfolio \cup {None}
      /\ Id[c] \in Ids
  BY DEF IInv, TypeOK, StartReturns, Ids
<1>2. TypeOK'
  <2>1. rival' \in [Starts -> SUBSET Starts]
    BY DEF IInv, TypeOK, StartReturns
  <2> QED
    BY <1>1, <2>1 DEF IInv, TypeOK
<1>3. ~Live(c) /\ task[c] # "placing"
  BY <1>1 DEF IInv, LiveIsRunning, Live
<1>4. LiveIsRunning'
  BY <1>1 DEF IInv, TypeOK, LiveIsRunning, Live
<1>5. RegisteredIsOwn'
  BY <1>1 DEF IInv, TypeOK, RegisteredIsOwn
<1>6. LoadingKnows'
  <2> SUFFICES ASSUME NEW e \in Starts, NEW d \in Others(e), call'[e] = "loading",
                      registered'[Id[d]] = d, Live(d)'
               PROVE  d \in rival'[e]
    BY DEF LoadingKnows, Others
  <2>1. e # c /\ call[e] = "loading" /\ d \in Starts /\ Id[d] = Id[e] /\ d # e
    BY <1>1 DEF IInv, TypeOK, Others
  <2>2. CASE d = c
    BY <1>1, <2>1, <2>2 DEF Others
  <2>3. CASE d # c
    <3>1. Id[d] # Id[c] /\ registered[Id[d]] = d /\ Live(d)
      BY <1>1, <2>1, <2>3 DEF IInv, TypeOK, Live, Ids
    <3> QED
      BY <1>1, <2>1, <3>1 DEF IInv, LoadingKnows
  <2> QED
    BY <2>2, <2>3
<1>7. OrphansNeedOverlap'
  <2> SUFFICES ASSUME NEW d \in Starts, Live(d)', registered'[Id[d]] # d
               PROVE  \E e \in Others(d) : d \in rival'[e] /\ call'[e] = "returned"
    BY DEF OrphansNeedOverlap, Others
  <2>1. d # c /\ Live(d)
    BY <1>1 DEF IInv, TypeOK, Live
  <2>2. CASE registered[Id[d]] # d
    <3>1. PICK e \in Others(d) : d \in rival[e] /\ call[e] = "returned"
      BY <2>1, <2>2 DEF IInv, OrphansNeedOverlap
    <3>2. d \in rival'[e] /\ call'[e] = "returned"
      BY <1>1, <3>1 DEF IInv, TypeOK, Others
    <3> QED
      BY <3>2
  <2>3. CASE registered[Id[d]] = d
    <3>1. Id[d] = Id[c] /\ c \in Others(d) /\ d \in Others(c)
      BY <1>1, <2>1, <2>3 DEF IInv, TypeOK, Others, Ids
    <3>2. d \in rival[c]
      BY <1>1, <2>1, <2>3, <3>1 DEF IInv, LoadingKnows
    <3>3. d \in rival'[c] /\ call'[c] = "returned"
      BY <1>1, <3>2 DEF IInv, TypeOK
    <3> QED
      BY <3>1, <3>3
  <2> QED
    BY <2>2, <2>3
<1>8. UnderWay' /\ ExemptCounted'
  <2>1. Placing' \subseteq Placing
    BY <1>1 DEF Placing, IInv, TypeOK
  <2> QED
    BY <1>1, <2>1, FewerUnderWay
<1> QED
  BY <1>2, <1>4, <1>5, <1>6, <1>7, <1>8 DEF IInv

LEMMA StartFailsHolds == ASSUME IInv, NEW c \in Starts, StartFails(c) PROVE IInv'
<1>1. /\ UNCHANGED <<registered, rival, state, task, stop, cancelled, controls, today, accepted, exempt>>
      /\ call' = [call EXCEPT ![c] = "raised"]
      /\ call[c] = "loading"
  BY DEF StartFails
<1>2. TypeOK'
  BY <1>1 DEF IInv, TypeOK
<1>3. LiveIsRunning'
  BY <1>1 DEF IInv, TypeOK, LiveIsRunning, Live
<1>4. RegisteredIsOwn'
  BY <1>1 DEF IInv, RegisteredIsOwn
<1>5. LoadingKnows'
  BY <1>1 DEF IInv, TypeOK, LoadingKnows, Others, Live
<1>6. OrphansNeedOverlap'
  BY <1>1 DEF IInv, TypeOK, OrphansNeedOverlap, Others, Live
<1>7. UnderWay' /\ ExemptCounted'
  BY <1>1, FewerUnderWay DEF Placing
<1> QED
  BY <1>2, <1>3, <1>4, <1>5, <1>6, <1>7 DEF IInv

-----------------------------------------------------------------------------
(* The tasks.                                                               *)

\* A step of a task that neither sends nor is about to.
LEMMA QuietTaskHolds ==
    ASSUME IInv, NEW c \in Starts, NEW place \in {"waiting", "account", "unchecked", "ended"},
           Live(c), Goes(c, place), UNCHANGED <<today, accepted, exempt>>,
           cancelled' \subseteq Starts,
           \/ UNCHANGED state
           \/ place = "ended" /\ state' = [state EXCEPT ![c] = "ERROR"]
    PROVE  IInv'
<1>1. /\ task' = [task EXCEPT ![c] = place]
      /\ UNCHANGED <<registered, call, rival, stop, controls>>
  BY DEF Goes, calls
<1>2. TypeOK'
  BY <1>1 DEF IInv, TypeOK
<1>3. \A d \in Starts : Live(d)' => Live(d)
  BY <1>1 DEF IInv, TypeOK, Live
<1>4. LiveIsRunning'
  BY <1>1, <1>3 DEF IInv, TypeOK, LiveIsRunning, Live
<1>5. Placing' \subseteq Placing
  BY <1>1 DEF IInv, TypeOK, Placing
<1>6. UnderWay' /\ ExemptCounted'
  BY <1>5, FewerUnderWay
<1>7. RegisteredIsOwn' /\ LoadingKnows' /\ OrphansNeedOverlap'
  BY <1>3, RegistrationKept DEF Goes
<1> QED
  BY <1>2, <1>4, <1>6, <1>7 DEF IInv

\* The check of the daily limit: an order that goes on was counted against a number
\* below the limit, and every other task has at most one order under way.
LEMMA ChecksGoOn == ASSUME IInv, NEW c \in Starts, Checks(c) PROVE IInv'
<1>1. task[c] = "account" /\ Live(c) /\ UNCHANGED <<state, cancelled, today, accepted, exempt>>
  BY DEF Checks, Runs, Live
<1>2. cancelled' \subseteq Starts
  BY <1>1 DEF IInv, TypeOK
<1>3. CASE Blocked
  <2>1. Goes(c, "waiting")
    BY <1>3 DEF Checks
  <2> QED
    BY <1>1, <1>2, <2>1, QuietTaskHolds
<1>4. CASE ~Blocked
  <2>1. /\ task' = [task EXCEPT ![c] = "placing"]
        /\ UNCHANGED <<registered, call, rival, stop, controls>> /\ UNCHANGED calls
    BY <1>4 DEF Checks, Goes, calls
  <2>2. TypeOK'
    BY <1>1, <2>1 DEF IInv, TypeOK
  <2>3. \A d \in Starts : Live(d)' => Live(d)
    BY <1>1, <2>1 DEF IInv, TypeOK, Live
  <2>4. LiveIsRunning'
    BY <1>1, <2>1, <2>3 DEF IInv, TypeOK, LiveIsRunning, Live
  <2>5. RegisteredIsOwn' /\ LoadingKnows' /\ OrphansNeedOverlap'
    BY <2>1, <2>3, RegistrationKept
  <2>6. UnderWay' /\ ExemptCounted'
    <3>1. Placing' \subseteq Starts
      BY DEF Placing
    <3>2. Cardinality(Placing') <= Cardinality(Starts) /\ Cardinality(Placing') \in Nat
      BY <3>1, FS_Subset, FS_CardinalityType, EngineAssumption
    <3>3. Severity = "block" => today <= MaxDaily - 1
      BY <1>4, EngineAssumption DEF Blocked, OverLimit, IInv, TypeOK
    <3> QED
      BY <1>1, <3>2, <3>3, PlacingType, EngineAssumption DEF IInv, TypeOK, UnderWay, ExemptCounted
  <2> QED
    BY <2>2, <2>4, <2>5, <2>6 DEF IInv
<1> QED
  BY <1>3, <1>4

\* An order is placed: one more is counted, and one checked order less is under
\* way, or one more was sent unchecked.
LEMMA PlacedHolds == ASSUME IInv, NEW c \in Starts, Placed(c) PROVE IInv'
<1>1. /\ task[c] \in {"placing", "unchecked"} /\ today < MaxOrders /\ today' = today + 1
      /\ accepted' = [accepted EXCEPT ![c] = @ + 1]
      /\ exempt' = IF task[c] = "unchecked" THEN exempt + 1 ELSE exempt
      /\ task' = [task EXCEPT ![c] = "waiting"]
      /\ UNCHANGED <<registered, call, rival, stop, controls, state, cancelled>>
      /\ UNCHANGED calls
  BY DEF Placed, Sending, Runs, Goes, calls
<1>2. /\ accepted[c] <= today /\ accepted[c] \in 0..MaxOrders /\ today \in 0..MaxOrders
      /\ exempt <= today /\ exempt \in 0..MaxOrders
  BY DEF IInv, TypeOK, LiveIsRunning, ExemptCounted
<1>3. TypeOK' /\ ExemptCounted'
  <2>1. /\ today' \in 0..MaxOrders /\ accepted[c] + 1 \in 0..MaxOrders
        /\ exempt' \in 0..MaxOrders /\ exempt' <= today'
    BY <1>1, <1>2, EngineAssumption
  <2> QED
    BY <1>1, <2>1 DEF IInv, TypeOK, ExemptCounted
<1>4. \A d \in Starts : Live(d)' => Live(d)
  BY <1>1 DEF IInv, TypeOK, Live
<1>5. LiveIsRunning'
  <2>1. \A d \in Starts : accepted'[d] <= today'
    BY <1>1, <1>2, EngineAssumption DEF IInv, TypeOK, LiveIsRunning
  <2> QED
    BY <1>1, <1>4, <2>1 DEF IInv, TypeOK, LiveIsRunning
<1>6. RegisteredIsOwn' /\ LoadingKnows' /\ OrphansNeedOverlap'
  BY <1>1, <1>4, RegistrationKept
<1>7. CASE task[c] = "placing"
  <2>1. Placing' = Placing \ {c} /\ c \in Placing
    BY <1>1, <1>7 DEF IInv, TypeOK, Placing
  <2>2. Cardinality(Placing') = Cardinality(Placing) - 1
    BY <2>1, PlacingType, FS_RemoveElement
  <2>3. exempt' = exempt
    BY <1>1, <1>7
  <2>4. UnderWay'
    BY <1>1, <1>2, <2>2, <2>3, PlacingType, EngineAssumption DEF IInv, UnderWay
  <2> QED
    BY <1>3, <1>5, <1>6, <2>4 DEF IInv
<1>8. CASE task[c] = "unchecked"
  <2>1. Placing' = Placing
    BY <1>1, <1>8 DEF IInv, TypeOK, Placing
  <2>2. exempt' = exempt + 1
    BY <1>1, <1>8
  <2>3. UnderWay'
    BY <1>1, <1>2, <2>1, <2>2, PlacingType, EngineAssumption DEF IInv, UnderWay
  <2> QED
    BY <1>3, <1>5, <1>6, <2>3 DEF IInv
<1> QED
  BY <1>1, <1>7, <1>8

LEMMA TaskHolds == ASSUME IInv, NEW c \in Starts, Task(c) \/ Lands(c) PROVE IInv'
<1>1. cancelled \subseteq Starts
  BY DEF IInv, TypeOK
<1>2. CASE Orders(c)
  BY <1>1, <1>2, QuietTaskHolds DEF Orders, Runs, Live
<1>3. CASE SkipsPoint(c)
  BY <1>1, <1>3, QuietTaskHolds DEF SkipsPoint, Runs, Live
<1>4. CASE PlaceFails(c)
  BY <1>1, <1>4, QuietTaskHolds DEF PlaceFails, Sending, Runs, Live
<1>5. CASE StreamEnds(c)
  BY <1>1, <1>5, QuietTaskHolds DEF StreamEnds, Runs, Live
<1>6. CASE StreamFails(c)
  BY <1>1, <1>6, QuietTaskHolds DEF StreamFails, Runs, Live
<1>7. CASE Lands(c)
  BY <1>1, <1>7, QuietTaskHolds DEF Lands
<1>8. CASE SkipsCheck(c)
  BY <1>1, <1>8, QuietTaskHolds DEF SkipsCheck, Runs, Live
<1> QED
  BY <1>2, <1>3, <1>4, <1>5, <1>6, <1>7, <1>8, ChecksGoOn, PlacedHolds DEF Task

-----------------------------------------------------------------------------
(* Stopping and deleting.                                                   *)

\* Only an instance without a live task is STOPPED at once; a live one is
\* RUNNING until its task has ended.
LEMMA StopsHold ==
    ASSUME IInv, NEW c \in Starts, UNCHANGED <<calls, task, controls, today, accepted, exempt>>,
           cancelled' \subseteq Starts, stop' \in [Starts -> BOOLEAN],
           \/ UNCHANGED state
           \/ ~Live(c) /\ state' = [state EXCEPT ![c] = "STOPPED"]
    PROVE  IInv'
<1>1. UNCHANGED <<registered, call, rival>>
  BY DEF calls
<1>2. TypeOK'
  BY <1>1 DEF IInv, TypeOK
<1>3. \A d \in Starts : Live(d)' <=> Live(d)
  BY DEF Live
<1>4. LiveIsRunning'
  BY <1>1, <1>3 DEF IInv, TypeOK, LiveIsRunning
<1>5. RegisteredIsOwn' /\ LoadingKnows' /\ OrphansNeedOverlap'
  BY <1>3, RegistrationKept
<1>6. UnderWay' /\ ExemptCounted'
  BY FewerUnderWay DEF Placing
<1> QED
  BY <1>2, <1>4, <1>5, <1>6 DEF IInv

LEMMA StopStrategyHolds == ASSUME IInv, NEW i \in Ids, StopStrategy(i) PROVE IInv'
<1> DEFINE c == registered[i]
<1>1. c \in Starts
  BY DEF StopStrategy, Running, IInv, TypeOK
<1>2. StopTask(c) /\ UNCHANGED <<calls, task, controls, today, accepted, exempt>>
  BY DEF StopStrategy
<1>3. cancelled' \subseteq Starts /\ stop' \in [Starts -> BOOLEAN]
  BY <1>1, <1>2 DEF StopTask, IInv, TypeOK
<1>4. UNCHANGED state \/ (~Live(c) /\ state' = [state EXCEPT ![c] = "STOPPED"])
  BY <1>2 DEF StopTask
<1> HIDE DEF c
<1> QED
  BY <1>1, <1>2, <1>3, <1>4, StopsHold

LEMMA StopReturnsHolds == ASSUME IInv, NEW c \in Starts, StopReturns(c) PROVE IInv'
<1>1. cancelled' \subseteq Starts /\ stop' \in [Starts -> BOOLEAN]
  BY DEF StopReturns, IInv, TypeOK
<1> QED
  BY <1>1, StopsHold DEF StopReturns

\* What is deleted is not RUNNING, and so not live: nobody becomes an orphan.
LEMMA DeleteHolds == ASSUME IInv, NEW i \in Ids, DeleteStrategy(i) PROVE IInv'
<1>1. /\ registered[i] # None /\ state[registered[i]] # "RUNNING"
      /\ registered' = [registered EXCEPT ![i] = None]
      /\ UNCHANGED <<call, rival, state, task, stop, cancelled, controls, today, accepted, exempt>>
  BY DEF DeleteStrategy, Deletable, Running
<1>2. TypeOK'
  BY <1>1 DEF IInv, TypeOK
<1>3. LiveIsRunning'
  BY <1>1 DEF IInv, LiveIsRunning, Live
<1>4. RegisteredIsOwn'
  BY <1>1 DEF IInv, TypeOK, RegisteredIsOwn
<1>5. LoadingKnows'
  BY <1>1, EngineAssumption DEF IInv, TypeOK, LoadingKnows, Others, Live, Ids
<1>6. OrphansNeedOverlap'
  <2> SUFFICES ASSUME NEW d \in Starts, Live(d), registered'[Id[d]] # d
               PROVE  \E e \in Others(d) : d \in rival[e] /\ call[e] = "returned"
    BY <1>1 DEF OrphansNeedOverlap, Others, Live
  <2>1. registered[Id[d]] # d
    BY <1>1 DEF IInv, TypeOK, LiveIsRunning, Ids
  <2> QED
    BY <2>1 DEF IInv, OrphansNeedOverlap
<1>7. UnderWay' /\ ExemptCounted'
  BY <1>1, FewerUnderWay DEF Placing
<1> QED
  BY <1>2, <1>3, <1>4, <1>5, <1>6, <1>7 DEF IInv

-----------------------------------------------------------------------------
\* Every step of starts, tasks, stops and deletions keeps the invariant.
THEOREM StepHolds == IInv /\ [Next]_vars => IInv'
<1> SUFFICES ASSUME IInv, [Next]_vars PROVE IInv'
  OBVIOUS
<1>1. ASSUME NEW c \in Starts, \/ StartChecks(c) \/ StartReturns(c) \/ StartFails(c)
                               \/ Task(c) \/ Lands(c) \/ StopReturns(c)
      PROVE  IInv'
  BY <1>1, ChecksHold, ReturnsHold, StartFailsHolds, TaskHolds, StopReturnsHolds
<1>2. ASSUME NEW i \in Ids, StopStrategy(i) \/ DeleteStrategy(i)
      PROVE  IInv'
  BY <1>2, StopStrategyHolds, DeleteHolds
<1>3. ASSUME UNCHANGED vars
      PROVE  IInv'
  <2>1. UNCHANGED <<registered, call, rival, state, task, stop, cancelled, controls, today,
                    accepted, exempt>> /\ UNCHANGED calls
    BY <1>3 DEF vars, calls
  <2>2. TypeOK' /\ LiveIsRunning'
    BY <2>1 DEF IInv, TypeOK, LiveIsRunning, Live
  <2>3. RegisteredIsOwn' /\ LoadingKnows' /\ OrphansNeedOverlap'
    BY <2>1, RegistrationKept DEF Live
  <2>4. UnderWay' /\ ExemptCounted'
    BY <2>1, FewerUnderWay DEF Placing
  <2> QED
    BY <2>2, <2>3, <2>4 DEF IInv
<1> QED
  BY <1>1, <1>2, <1>3 DEF Next

\* The invariant says what the project states: an orphaned task comes of overlapping
\* starts only, and the daily limit is overshot by the other tasks' orders at most,
\* besides those that are sent unchecked for want of a price.
THEOREM InvariantImplies == IInv => OverlapsAreBounded
<1> SUFFICES ASSUME IInv PROVE OverlapsAreBounded
  OBVIOUS
<1>1. OvershootIsBounded
  BY PlacingType, EngineAssumption DEF IInv, UnderWay, OvershootIsBounded, TypeOK
<1> QED
  BY <1>1 DEF IInv, OverlapsAreBounded

\* Two starts of one id, or the orders of several tasks, at once: what can come of
\* it is bounded, however many instances there are (strategy/engine.py:180, :488).
THEOREM OverlapsStayBounded == Spec => []OverlapsAreBounded
<1> QED
  BY InitHolds, StepHolds, InvariantImplies, PTL DEF Spec

\* An instance shown as STOPPED or in ERROR sends no order: its task has ended.
THEOREM StoppedIsQuiet == Spec => StoppedStaysQuiet
<1>1. IInv /\ [Next]_vars =>
        [\A c \in Starts : state[c] \in {"STOPPED", "ERROR"} => accepted'[c] = accepted[c]]_vars
  <2> SUFFICES ASSUME IInv, Next, NEW c \in Starts, state[c] \in {"STOPPED", "ERROR"}
               PROVE  accepted'[c] = accepted[c]
    OBVIOUS
  <2>1. ~Live(c)
    BY DEF IInv, LiveIsRunning
  <2>2. ASSUME NEW d \in Starts, Placed(d) PROVE accepted'[c] = accepted[c]
    <3>1. d # c
      BY <2>1, <2>2 DEF Placed, Sending, Runs, Live
    <3> QED
      BY <2>2, <3>1 DEF Placed, IInv, TypeOK
  <2>3. (\A d \in Starts : ~Placed(d)) => UNCHANGED accepted
    BY DEF Next, Task, StartChecks, StartReturns, StartFails, Orders, Checks, SkipsCheck, SkipsPoint,
           PlaceFails, StreamEnds, StreamFails, Lands, StopReturns, StopStrategy, DeleteStrategy
  <2> QED
    BY <2>2, <2>3
<1> QED
  BY <1>1, InitHolds, StepHolds, PTL DEF Spec, StoppedStaysQuiet
-----------------------------------------------------------------------------
(* The loop of one strategy.                                                *)

LEMMA LoopConstants ==
    /\ MaxTime \in Nat /\ MaxItems \in Nat /\ MaxDaily \in Nat
    /\ MaxFailures \in Nat \ {0}
    /\ OrderLists \subseteq Seq([sym : Symbols, type : {"MARKET", "STOP"}])
BY LoopAssumption, EngineAssumption

Firing == {"account", "positions", "flush", "placing"}
Over == {"closing", "ended"}
OrderRecords == [sym : Symbols, type : {"MARKET", "STOP"}]

FeedTypes ==
    /\ queue \in Seq(Loop!Bars \cup {Loop!END, Loop!FAILED}) /\ items \in 0..MaxItems
    /\ feeder \in {"on", "off"} /\ delivered \subseteq Loop!Bars
    /\ pc \in {"next"} \cup Firing \cup Over /\ ending \in BOOLEAN

BarTypes ==
    /\ bucket \in [Symbols -> 0..MaxTime] /\ key \in 0..MaxTime
    /\ deferred = {} \/ \E b \in Loop!Bars : deferred = {b}
    /\ history \in [Symbols -> SUBSET (1..MaxTime)]
    /\ point \in [time : 0..MaxTime, bars : SUBSET Loop!Bars]

\* The bucket holds bars of one time; while it is fired, it is empty.
BucketIsOne ==
    /\ \A s \in Loop!In(bucket) : bucket[s] = key
    /\ pc \in Firing => bucket = Loop!NoBars
    /\ pc = "next" => deferred = {} /\ ~ending

\* A mark is the last item of the queue, and the feeder's last.
MarksAreLast ==
    /\ \A i \in DOMAIN queue : queue[i] \notin Loop!Bars => i = Len(queue) /\ feeder = "off"
    /\ ending => queue = <<>> /\ feeder = "off" /\ deferred = {}

FeedInv ==
    /\ FeedTypes /\ BarTypes /\ BucketIsOne /\ MarksAreLast
    /\ Loop!NoBarLost /\ Loop!PointsAreNotMixed

\* l ends in n failures, and no more.
Trailing(l, n) ==
    /\ n <= Len(l)
    /\ \A i \in DOMAIN l : i > Len(l) - n => l[i] = FALSE
    /\ n < Len(l) => l[Len(l) - n] = TRUE

\* failures counts the failures at the end of lately, up to the last success.
FailuresCount ==
    /\ failures \in 0..MaxFailures
    /\ lately \in Seq(BOOLEAN) /\ Len(lately) <= MaxFailures
    /\ Trailing(lately, failures)
    /\ failures = MaxFailures <=> error = "snapshot"

OrdersCount ==
    /\ orders \in Seq(OrderRecords)
    /\ results \in [{"sent", "error"} -> Nat]
    /\ made \in Nat /\ placed \in Nat /\ sent \in Nat /\ unpriced \in Nat
    /\ counted = sent
    /\ Len(orders) + results["sent"] + results["error"] = made
    /\ sent = placed + results["sent"]
    /\ pc \in {"next", "account", "positions"} => results = Loop!NoResults
    /\ sent <= MaxDaily + unpriced
    /\ pc = "placing" => sent < MaxDaily + unpriced /\ orders # <<>>

ErrorEnds ==
    /\ shown \in {"RUNNING", "STOPPED", "ERROR"} /\ error \in {"none", "snapshot", "stream"}
    /\ {stopping, interrupted, lost} \subseteq BOOLEAN
    /\ shown # "RUNNING" \/ error # "none" => pc \in Over

LoopInv == FeedInv /\ FailuresCount /\ OrdersCount /\ ErrorEnds

-----------------------------------------------------------------------------
(* The bars.                                                                *)

\* A mark is not a bar.
LEMMA MarksAreNoBars == Loop!END \notin Loop!Bars /\ Loop!FAILED \notin Loop!Bars
BY LoopConstants DEF Loop!END, Loop!FAILED, Loop!Bars

\* What a step of the aggregator keeps: of the bars in bk, and of the history.
Holds(bk) ==
    \A s \in Symbols : /\ history[s] \subseteq history'[s]
                       /\ bk[s] # 0 => bucket'[s] = bk[s] \/ bk[s] \in history'[s]

\* The bars are those of a bucket of one time point.
OneTime(bk, k) ==
    /\ bk \in [Symbols -> 0..MaxTime] /\ k \in 0..MaxTime
    /\ \A s \in Loop!In(bk) : bk[s] = k

LEMMA FireKeeps ==
    ASSUME BarTypes, NEW bk, NEW k, OneTime(bk, k), Loop!Fire(bk, k),
           deferred' = {} \/ \E b \in Loop!Bars : deferred' = {b}
    PROVE  /\ BarTypes' /\ Loop!PointsAreNotMixed' /\ OneTime(bucket', key')
           /\ Holds(bk) /\ bucket' = Loop!NoBars
           /\ \A s \in Symbols : bk[s] # 0 => bk[s] \in history'[s]
           /\ pc' = "account"
<1>1. /\ point' = [time |-> k, bars |-> {[sym |-> s, time |-> bk[s]] : s \in Loop!In(bk)}]
      /\ history' = [s \in Symbols |-> history[s] \cup ({bk[s]} \ {0})]
      /\ bucket' = Loop!NoBars /\ key' = 0 /\ pc' = "account"
  BY DEF Loop!Fire
<1>2. bk \in [Symbols -> 0..MaxTime] /\ k \in 0..MaxTime /\ 0 \in 0..MaxTime /\ MaxTime \in Nat
  BY LoopConstants DEF OneTime
<1>3. \A s \in Symbols : bk[s] # 0 => bk[s] \in 1..MaxTime
  BY <1>2
<1>4. history' \in [Symbols -> SUBSET (1..MaxTime)]
  BY <1>1, <1>3 DEF BarTypes
<1>5. bucket' \in [Symbols -> 0..MaxTime]
  BY <1>1, <1>2 DEF Loop!NoBars
<1>6. {[sym |-> s, time |-> bk[s]] : s \in Loop!In(bk)} \subseteq Loop!Bars
  BY <1>3 DEF Loop!In, Loop!Bars
<1>7. point' \in [time : 0..MaxTime, bars : SUBSET Loop!Bars]
  BY <1>1, <1>2, <1>6
<1>8. BarTypes'
  BY <1>1, <1>2, <1>4, <1>5, <1>7 DEF BarTypes
<1>9. Loop!PointsAreNotMixed'
  BY <1>1 DEF OneTime, Loop!PointsAreNotMixed
<1>10. Loop!In(bucket') = {}
  BY <1>1 DEF Loop!In, Loop!NoBars
<1>11. OneTime(bucket', key')
  BY <1>1, <1>2, <1>5, <1>10 DEF OneTime
<1>12. \A s \in Symbols : bk[s] # 0 => bk[s] \in history'[s]
  BY <1>1
<1>13. \A s \in Symbols : history[s] \subseteq history'[s]
  BY <1>1
<1> QED
  BY <1>1, <1>8, <1>9, <1>11, <1>12, <1>13 DEF Holds

LEMMA CollectKeeps ==
    ASSUME BarTypes, NEW bk, NEW k, OneTime(bk, k), Loop!Collect(bk, k),
           deferred' = {} \/ \E b \in Loop!Bars : deferred' = {b}
    PROVE  /\ BarTypes' /\ Loop!PointsAreNotMixed' /\ OneTime(bucket', key')
           /\ Holds(bk)
           /\ \/ pc' = "next"
              \/ pc' = "account" /\ bucket' = Loop!NoBars
<1>1. CASE Loop!In(bk) = Symbols
  <2>1. Loop!Fire(bk, k)
    BY <1>1 DEF Loop!Collect
  <2> QED
    BY <2>1, FireKeeps
<1>2. CASE Loop!In(bk) # Symbols
  <2>1. /\ bucket' = bk /\ key' = k /\ pc' = "next" /\ point' = Loop!NoPoint
        /\ UNCHANGED history
    BY <1>2 DEF Loop!Collect
  <2>2. point' \in [time : 0..MaxTime, bars : SUBSET Loop!Bars] /\ Loop!PointsAreNotMixed'
    BY <2>1, LoopConstants DEF Loop!NoPoint, Loop!PointsAreNotMixed
  <2>3. BarTypes'
    BY <2>1, <2>2 DEF BarTypes, OneTime
  <2>4. OneTime(bucket', key')
    BY <2>1 DEF OneTime
  <2>5. Holds(bk)
    BY <2>1 DEF Holds
  <2> QED
    BY <2>1, <2>2, <2>3, <2>4, <2>5
<1> QED
  BY <1>1, <1>2

\* What is behind the head of a queue is in its tail.
LEMMA TailKeeps ==
    ASSUME NEW S, NEW q \in Seq(S), q # <<>>
    PROVE  /\ Tail(q) \in Seq(S) /\ Head(q) \in S /\ Head(q) = q[1] /\ 1 \in DOMAIN q
           /\ Len(Tail(q)) = Len(q) - 1 /\ Len(q) \in Nat
           /\ \A i \in DOMAIN Tail(q) : Tail(q)[i] = q[i + 1] /\ i + 1 \in DOMAIN q
           /\ \A i \in DOMAIN q : q[i] # Head(q) => i - 1 \in DOMAIN Tail(q) /\ Tail(q)[i - 1] = q[i]
OBVIOUS

LEMMA AppendKeeps ==
    ASSUME NEW S, NEW q \in Seq(S), NEW e \in S
    PROVE  /\ Append(q, e) \in Seq(S) /\ Len(Append(q, e)) = Len(q) + 1 /\ Len(q) \in Nat
           /\ Append(q, e)[Len(q) + 1] = e /\ Len(q) + 1 \in DOMAIN Append(q, e)
           /\ \A i \in DOMAIN q : Append(q, e)[i] = q[i] /\ i \in DOMAIN Append(q, e)
           /\ \A i \in DOMAIN Append(q, e) : i \in DOMAIN q \/ i = Len(q) + 1
OBVIOUS

\* A new item is behind the others; after a mark there is none.
LEMMA FeedsKeeps ==
    ASSUME FeedInv, NEW item \in Loop!Bars \cup {Loop!END, Loop!FAILED}, Loop!Feeds(item),
           \/ item \in Loop!Bars /\ delivered' = delivered \cup {item} /\ feeder' = feeder
           \/ item \notin Loop!Bars /\ feeder' = "off" /\ delivered' = delivered
    PROVE  FeedInv'
<1>1. /\ feeder = "on" /\ items \in Nat /\ items < MaxItems /\ items' = items + 1
      /\ queue' = Append(queue, item)
      /\ UNCHANGED <<bucket, key, deferred, history, point, pc, ending>>
  BY LoopConstants DEF Loop!Feeds, Loop!bars, FeedInv, FeedTypes
<1>2. queue \in Seq(Loop!Bars \cup {Loop!END, Loop!FAILED})
  BY DEF FeedInv, FeedTypes
<1>3. /\ queue' \in Seq(Loop!Bars \cup {Loop!END, Loop!FAILED})
      /\ Len(queue') = Len(queue) + 1 /\ Len(queue) \in Nat
      /\ queue'[Len(queue) + 1] = item /\ Len(queue) + 1 \in DOMAIN queue'
      /\ \A i \in DOMAIN queue : queue'[i] = queue[i] /\ i \in DOMAIN queue'
      /\ \A i \in DOMAIN queue' : i \in DOMAIN queue \/ i = Len(queue) + 1
  BY <1>1, <1>2, AppendKeeps
<1>4. FeedTypes'
  BY <1>1, <1>3, LoopConstants DEF FeedInv, FeedTypes, Firing, Over
<1>5. BarTypes' /\ BucketIsOne' /\ Loop!PointsAreNotMixed'
  BY <1>1 DEF FeedInv, BarTypes, BucketIsOne, Loop!PointsAreNotMixed, Loop!In, Firing
<1>6. ~ending
  BY <1>1 DEF FeedInv, MarksAreLast
<1>7. MarksAreLast'
  BY <1>1, <1>3, <1>6 DEF FeedInv, MarksAreLast
<1>8. Loop!NoBarLost'
  <2> SUFFICES ASSUME pc \notin {"closing", "ended"}, NEW b \in delivered'
               PROVE  \/ \E i \in DOMAIN queue' : queue'[i] = b
                      \/ b \in deferred
                      \/ bucket[b.sym] = b.time
                      \/ b.time \in history[b.sym]
    BY <1>1, <1>6 DEF Loop!NoBarLost
  <2>1. CASE b \in delivered
    BY <1>3, <2>1 DEF FeedInv, Loop!NoBarLost
  <2>2. CASE b = item
    BY <1>3, <2>2
  <2> QED
    BY <2>1, <2>2
<1> QED
  BY <1>4, <1>5, <1>7, <1>8 DEF FeedInv

LEMMA FeedKeeps == ASSUME FeedInv, Loop!Feed PROVE FeedInv'
<1>1. ASSUME NEW b \in Loop!Bars, Loop!FeedBar(b) PROVE FeedInv'
  BY <1>1, FeedsKeeps DEF Loop!FeedBar
<1>2. ASSUME NEW mark \in {Loop!END, Loop!FAILED}, Loop!FeedStops(mark) PROVE FeedInv'
  BY <1>2, FeedsKeeps, MarksAreNoBars DEF Loop!FeedStops
<1> QED
  BY <1>1, <1>2 DEF Loop!Feed

LEMMA BucketOneTime == ASSUME FeedInv PROVE OneTime(bucket, key)
BY DEF FeedInv, BarTypes, BucketIsOne, OneTime

\* The bars of a record: its fields.
LEMMA BarFields ==
    ASSUME NEW b \in Loop!Bars
    PROVE  b.sym \in Symbols /\ b.time \in 1..MaxTime /\ b.time # 0
BY LoopConstants DEF Loop!Bars

\* A bar is put into the bucket, or waits until the bucket has been fired.
LEMMA TakeBarKeeps ==
    ASSUME FeedInv, pc = "next", NEW b \in Loop!Bars, Loop!TakeBar(b)
    PROVE  /\ BarTypes' /\ Loop!PointsAreNotMixed' /\ OneTime(bucket', key')
           /\ Holds(bucket)
           /\ \/ b \in deferred' \/ bucket'[b.sym] = b.time \/ b.time \in history'[b.sym]
           /\ \/ pc' = "next" /\ deferred' = {}
              \/ pc' = "account" /\ bucket' = Loop!NoBars
<1>1. OneTime(bucket, key) /\ deferred = {} /\ BarTypes
  BY BucketOneTime DEF FeedInv, BucketIsOne
<1>2. b.sym \in Symbols /\ b.time \in 0..MaxTime /\ b.time # 0
  BY BarFields, LoopConstants
<1>3. CASE Loop!Fits(b)
  <2> DEFINE bk == [bucket EXCEPT ![b.sym] = b.time]
             k == IF Loop!In(bucket) = {} THEN b.time ELSE key
  <2>1. Loop!Collect(bk, k) /\ deferred' = {}
    BY <1>1, <1>3 DEF Loop!TakeBar
  <2>2. bucket \in [Symbols -> 0..MaxTime] /\ key \in 0..MaxTime
    BY <1>1 DEF OneTime
  <2>3. \A s \in Loop!In(bk) : s = b.sym \/ (s \in Loop!In(bucket) /\ bk[s] = bucket[s])
    BY <2>2 DEF Loop!In
  <2>4. b.time = k
    BY <1>3 DEF Loop!Fits
  <2>5. \A s \in Loop!In(bk) : bk[s] = k
    BY <1>1, <1>2, <2>2, <2>3, <2>4 DEF OneTime
  <2>6. OneTime(bk, k)
    BY <1>2, <2>2, <2>4, <2>5 DEF OneTime
  <2>7. bk[b.sym] = b.time /\ \A s \in Symbols : bucket[s] # 0 => bk[s] = bucket[s]
    BY <1>1, <1>2, <2>2, <2>4 DEF Loop!In, OneTime
  <2> HIDE DEF bk, k
  <2>8. /\ BarTypes' /\ Loop!PointsAreNotMixed' /\ OneTime(bucket', key')
        /\ Holds(bk)
        /\ pc' = "next" \/ (pc' = "account" /\ bucket' = Loop!NoBars)
    BY <1>1, <2>1, <2>6, CollectKeeps
  <2>9. Holds(bucket) /\ (bucket'[b.sym] = b.time \/ b.time \in history'[b.sym])
    BY <1>2, <2>7, <2>8 DEF Holds
  <2> QED
    BY <2>1, <2>8, <2>9
<1>4. CASE ~Loop!Fits(b)
  <2>1. Loop!Fire(bucket, key) /\ deferred' = {b}
    BY <1>4 DEF Loop!TakeBar, Loop!Defers
  <2> QED
    BY <1>1, <2>1, FireKeeps
<1> QED
  BY <1>3, <1>4

LEMMA WhereTheyAre ==
    ASSUME FeedInv, NEW b \in delivered, pc \notin Over
    PROVE  /\ b \in Loop!Bars
           /\ \/ \E i \in DOMAIN queue : queue[i] = b
              \/ b \in deferred
              \/ bucket[b.sym] = b.time
              \/ b.time \in history[b.sym]
BY DEF FeedInv, FeedTypes, Loop!NoBarLost, Over

LEMMA TakeKeeps == ASSUME FeedInv, Loop!TakeItem PROVE FeedInv'
<1> DEFINE item == Head(queue)
<1>1. /\ pc = "next" /\ queue # <<>> /\ queue' = Tail(queue)
      /\ UNCHANGED <<items, feeder, delivered>>
      /\ queue \in Seq(Loop!Bars \cup {Loop!END, Loop!FAILED})
  BY DEF Loop!TakeItem, FeedInv, FeedTypes
<1>2. /\ queue' \in Seq(Loop!Bars \cup {Loop!END, Loop!FAILED})
      /\ item \in Loop!Bars \cup {Loop!END, Loop!FAILED} /\ item = queue[1]
      /\ 1 \in DOMAIN queue /\ Len(queue') = Len(queue) - 1 /\ Len(queue) \in Nat
      /\ \A i \in DOMAIN queue' : queue'[i] = queue[i + 1] /\ i + 1 \in DOMAIN queue
      /\ \A i \in DOMAIN queue : queue[i] # item => i - 1 \in DOMAIN queue' /\ queue'[i - 1] = queue[i]
  BY <1>1, TailKeeps
<1>3. deferred = {} /\ ~ending
  BY <1>1 DEF FeedInv, BucketIsOne
<1>4. \A i \in DOMAIN queue' : queue'[i] \notin Loop!Bars => i = Len(queue') /\ feeder' = "off"
  BY <1>1, <1>2 DEF FeedInv, MarksAreLast
<1>5. \A b \in delivered : \/ \E i \in DOMAIN queue' : queue'[i] = b
                           \/ b = item
                           \/ bucket[b.sym] = b.time
                           \/ b.time \in history[b.sym]
  <2> SUFFICES ASSUME NEW b \in delivered, b # item, bucket[b.sym] # b.time,
                      b.time \notin history[b.sym]
               PROVE  \E i \in DOMAIN queue' : queue'[i] = b
    OBVIOUS
  <2>1. PICK i \in DOMAIN queue : queue[i] = b
    BY <1>1, <1>3, WhereTheyAre DEF Over
  <2>2. i - 1 \in DOMAIN queue' /\ queue'[i - 1] = b
    BY <1>2, <2>1
  <2> QED
    BY <2>2
<1>6. /\ delivered' \subseteq Loop!Bars /\ items' \in 0..MaxItems /\ feeder' \in {"on", "off"}
      /\ ending \in BOOLEAN
  BY <1>1 DEF FeedInv, FeedTypes
<1>7. BarTypes /\ OneTime(bucket, key) /\ Loop!PointsAreNotMixed
  BY BucketOneTime DEF FeedInv
<1> HIDE DEF item
<1>8. CASE item \in Loop!Bars /\ Loop!TakeBar(item) /\ UNCHANGED <<ending, shown, error>>
  <2>1. /\ BarTypes' /\ Loop!PointsAreNotMixed' /\ OneTime(bucket', key')
        /\ Holds(bucket)
        /\ item \in deferred' \/ bucket'[item.sym] = item.time \/ item.time \in history'[item.sym]
        /\ \/ pc' = "next" /\ deferred' = {}
           \/ pc' = "account" /\ bucket' = Loop!NoBars
    BY <1>1, <1>8, TakeBarKeeps
  <2>2. FeedTypes'
    BY <1>1, <1>2, <1>3, <1>6, <1>8, <2>1 DEF FeedTypes, Firing, Over
  <2>3. BucketIsOne'
    BY <1>3, <1>8, <2>1 DEF BucketIsOne, OneTime, Firing
  <2>4. MarksAreLast'
    BY <1>3, <1>4, <1>8 DEF MarksAreLast
  <2>5. Loop!NoBarLost'
    <3> SUFFICES ASSUME NEW b \in delivered
                 PROVE  \/ \E i \in DOMAIN queue' : queue'[i] = b
                        \/ b \in deferred'
                        \/ bucket'[b.sym] = b.time
                        \/ b.time \in history'[b.sym]
      BY <1>1, <1>3, <1>8 DEF Loop!NoBarLost
    <3>1. b.sym \in Symbols /\ b.time # 0
      BY <1>1, <1>6, BarFields
    <3> QED
      BY <1>5, <2>1, <3>1 DEF Holds
  <2> QED
    BY <2>1, <2>2, <2>3, <2>4, <2>5 DEF FeedInv
<1>9. CASE /\ item = Loop!END /\ ending' = TRUE /\ UNCHANGED deferred
           /\ IF Loop!In(bucket) # {} THEN Loop!Fire(bucket, key)
              ELSE pc' = "closing" /\ UNCHANGED <<bucket, key, history, point>>
  <2>1. item \notin Loop!Bars
    BY <1>9, MarksAreNoBars
  <2>2. 1 = Len(queue) /\ feeder = "off"
    BY <1>2, <2>1 DEF FeedInv, MarksAreLast
  <2>3. queue' = <<>>
    <3>1. Len(queue') = Len(queue) - 1 /\ queue' \in Seq(Loop!Bars \cup {Loop!END, Loop!FAILED})
      BY <1>2
    <3>2. Len(queue') = 0
      BY <2>2, <3>1
    <3> QED
      BY <3>1, <3>2
  <2>4. /\ BarTypes' /\ Loop!PointsAreNotMixed' /\ OneTime(bucket', key')
        /\ \A s \in Symbols : history[s] \subseteq history'[s]
        /\ \A s \in Symbols : bucket[s] # 0 => bucket[s] \in history'[s]
        /\ \/ pc' = "account" /\ bucket' = Loop!NoBars
           \/ pc' = "closing"
    <3>1. CASE Loop!In(bucket) # {}
      BY <1>3, <1>7, <1>9, <3>1, FireKeeps DEF Holds
    <3>2. CASE Loop!In(bucket) = {}
      <4>1. pc' = "closing" /\ UNCHANGED <<bucket, key, deferred, history, point>>
        BY <1>9, <3>2
      <4>2. BarTypes' /\ Loop!PointsAreNotMixed' /\ OneTime(bucket', key')
        BY <1>7, <4>1 DEF BarTypes, Loop!PointsAreNotMixed, OneTime, Loop!In
      <4> QED
        BY <3>2, <4>1, <4>2 DEF Loop!In
    <3> QED
      BY <3>1, <3>2
  <2>5. FeedTypes'
    BY <1>1, <1>2, <1>6, <1>9, <2>4 DEF FeedTypes, Firing, Over
  <2>6. BucketIsOne'
    BY <2>4 DEF BucketIsOne, OneTime, Firing
  <2>7. MarksAreLast'
    BY <1>1, <1>3, <1>4, <1>9, <2>2, <2>3 DEF MarksAreLast
  <2>8. ASSUME NEW b \in delivered PROVE b.time \in history'[b.sym]
    <3>1. b.sym \in Symbols /\ b.time # 0 /\ b \in Loop!Bars
      BY <1>1, <1>6, BarFields
    <3>2. bucket[b.sym] = b.time \/ b.time \in history[b.sym]
      BY <1>5, <2>1, <2>3, <3>1
    <3> QED
      BY <2>4, <3>1, <3>2
  <2>9. Loop!NoBarLost'
    BY <1>1, <2>8 DEF Loop!NoBarLost
  <2> QED
    BY <2>4, <2>5, <2>6, <2>7, <2>9 DEF FeedInv
<1>10. CASE item = Loop!FAILED /\ pc' = "closing" /\ UNCHANGED <<ending, Loop!bars>>
  <2>1. UNCHANGED <<ending, bucket, key, deferred, history, point>>
    BY <1>10 DEF Loop!bars
  <2>2. FeedTypes'
    BY <1>2, <1>3, <1>6, <1>10, <2>1 DEF FeedTypes, Firing, Over
  <2>3. BarTypes' /\ BucketIsOne' /\ Loop!PointsAreNotMixed'
    BY <1>7, <1>10, <2>1 DEF FeedInv, BarTypes, BucketIsOne, Loop!PointsAreNotMixed, Loop!In,
         Firing
  <2>4. MarksAreLast' /\ Loop!NoBarLost'
    BY <1>3, <1>4, <1>10, <2>1 DEF MarksAreLast, Loop!NoBarLost
  <2> QED
    BY <2>2, <2>3, <2>4 DEF FeedInv
<1> QED
  <2>1. \/ item \in Loop!Bars /\ Loop!TakeBar(item) /\ UNCHANGED <<ending, shown, error>>
        \/ /\ item = Loop!END /\ ending' = TRUE /\ UNCHANGED deferred
           /\ IF Loop!In(bucket) # {} THEN Loop!Fire(bucket, key)
              ELSE pc' = "closing" /\ UNCHANGED <<bucket, key, history, point>>
        \/ item = Loop!FAILED /\ pc' = "closing" /\ UNCHANGED <<ending, Loop!bars>>
    BY DEF Loop!TakeItem, item
  <2> QED
    BY <1>8, <1>9, <1>10, <2>1

\* The window is over: the bucket is fired as it is.
LEMMA WindowKeeps == ASSUME FeedInv, Loop!WindowEnds PROVE FeedInv'
<1>1. /\ pc = "next" /\ Loop!Fire(bucket, key)
      /\ UNCHANGED <<queue, items, feeder, delivered, deferred, ending>>
  BY DEF Loop!WindowEnds, Loop!feed
<1>2. BarTypes /\ deferred = {} /\ ~ending /\ OneTime(bucket, key)
  BY <1>1, BucketOneTime DEF FeedInv, BucketIsOne
<1>3. /\ BarTypes' /\ Loop!PointsAreNotMixed' /\ OneTime(bucket', key')
      /\ Holds(bucket) /\ bucket' = Loop!NoBars /\ pc' = "account"
      /\ \A s \in Symbols : bucket[s] # 0 => bucket[s] \in history'[s]
  BY <1>1, <1>2, FireKeeps
<1>4. FeedTypes'
  BY <1>1, <1>3 DEF FeedInv, FeedTypes, Firing
<1>5. BucketIsOne' /\ MarksAreLast'
  BY <1>1, <1>3 DEF FeedInv, BucketIsOne, OneTime, MarksAreLast
<1>6. Loop!NoBarLost'
  <2> SUFFICES ASSUME NEW b \in delivered
               PROVE  \/ \E i \in DOMAIN queue : queue[i] = b
                      \/ b \in deferred
                      \/ bucket'[b.sym] = b.time
                      \/ b.time \in history'[b.sym]
    BY <1>1, <1>2 DEF Loop!NoBarLost
  <2>1. b.sym \in Symbols /\ b.time # 0
    BY BarFields, WhereTheyAre, <1>1 DEF Over
  <2> QED
    BY <1>1, <1>3, <2>1, WhereTheyAre DEF Holds, Over
<1> QED
  BY <1>3, <1>4, <1>5, <1>6 DEF FeedInv

\* After a time point the deferred bar is the first of the next bucket.
LEMMA ProceedsKeeps ==
    ASSUME FeedInv, pc \in Firing, Loop!Proceeds, UNCHANGED <<Loop!feed, ending>>
    PROVE  FeedInv'
<1>1. UNCHANGED <<queue, items, feeder, delivered, ending>>
  BY DEF Loop!feed
<1>2. BarTypes /\ bucket = Loop!NoBars /\ pc \notin Over
  BY DEF FeedInv, BucketIsOne, Firing, Over
<1>3. CASE ending \/ deferred = {}
  <2>1. /\ pc' = IF ending THEN "closing" ELSE "next"
        /\ point' = Loop!NoPoint
        /\ UNCHANGED <<bucket, key, deferred, history>>
    BY <1>3 DEF Loop!Proceeds
  <2>2. BarTypes' /\ Loop!PointsAreNotMixed'
    <3>1. Loop!NoPoint \in [time : 0..MaxTime, bars : SUBSET Loop!Bars] /\ Loop!NoPoint.bars = {}
      BY LoopConstants DEF Loop!NoPoint
    <3> QED
      BY <1>2, <2>1, <3>1 DEF BarTypes, Loop!PointsAreNotMixed
  <2>3. FeedTypes'
    BY <1>1, <2>1 DEF FeedInv, FeedTypes, Over
  <2>4. BucketIsOne' /\ MarksAreLast'
    BY <1>1, <1>3, <2>1 DEF FeedInv, BucketIsOne, MarksAreLast, Loop!In, Firing
  <2>5. Loop!NoBarLost'
    BY <1>1, <1>2, <2>1 DEF FeedInv, Loop!NoBarLost, Over
  <2> QED
    BY <2>2, <2>3, <2>4, <2>5 DEF FeedInv
<1>4. CASE ~(ending \/ deferred = {})
  <2>1. PICK b \in deferred : Loop!Collect([Loop!NoBars EXCEPT ![b.sym] = b.time], b.time)
    BY <1>4 DEF Loop!Proceeds
  <2>2. deferred' = {} /\ deferred = {b} /\ b \in Loop!Bars
    BY <1>2, <1>4, <2>1 DEF Loop!Proceeds, BarTypes
  <2>3. b.sym \in Symbols /\ b.time \in 1..MaxTime /\ b.time # 0
    BY <2>2, BarFields
  <2> DEFINE bk == [Loop!NoBars EXCEPT ![b.sym] = b.time]
  <2>4. bk \in [Symbols -> 0..MaxTime] /\ bk[b.sym] = b.time
    BY <2>3, LoopConstants DEF Loop!NoBars
  <2>5. \A s \in Loop!In(bk) : s = b.sym
    BY <2>3 DEF Loop!NoBars, Loop!In
  <2>6. Loop!Collect(bk, b.time)
    BY <2>1
  <2> HIDE DEF bk
  <2>7. OneTime(bk, b.time)
    BY <2>3, <2>4, <2>5, LoopConstants DEF OneTime
  <2>8. /\ BarTypes' /\ Loop!PointsAreNotMixed' /\ OneTime(bucket', key')
        /\ Holds(bk)
        /\ pc' = "next" \/ (pc' = "account" /\ bucket' = Loop!NoBars)
    BY <1>2, <2>2, <2>6, <2>7, CollectKeeps
  <2>9. FeedTypes'
    BY <1>1, <2>8 DEF FeedInv, FeedTypes, Firing
  <2>10. BucketIsOne' /\ MarksAreLast'
    BY <1>1, <1>4, <2>2, <2>8 DEF FeedInv, BucketIsOne, OneTime, MarksAreLast, Firing
  <2>11. Loop!NoBarLost'
    <3> SUFFICES ASSUME NEW d \in delivered
                 PROVE  \/ \E i \in DOMAIN queue : queue[i] = d
                        \/ bucket'[d.sym] = d.time
                        \/ d.time \in history'[d.sym]
      BY <1>1, <1>4, <2>2 DEF Loop!NoBarLost
    <3>1. d.sym \in Symbols /\ d.time # 0
      BY <1>2, BarFields, WhereTheyAre
    <3>2. (\E i \in DOMAIN queue : queue[i] = d) \/ d = b \/ d.time \in history[d.sym]
      BY <1>2, <2>2, <3>1, WhereTheyAre DEF Loop!NoBars
    <3> QED
      BY <2>3, <2>4, <2>8, <3>1, <3>2 DEF Holds
  <2> QED
    BY <2>8, <2>9, <2>10, <2>11 DEF FeedInv
<1> QED
  BY <1>3, <1>4

\* The loop goes on within a time point, or is over.
LEMMA MovesKeep ==
    ASSUME FeedInv, UNCHANGED <<queue, items, delivered, Loop!bars, ending>>,
           feeder' = feeder \/ feeder' = "off",
           \/ pc' = pc
           \/ pc \in Firing /\ pc' \in Firing
           \/ pc' \in Over
    PROVE  FeedInv'
<1>1. UNCHANGED <<bucket, key, deferred, history, point>>
  BY DEF Loop!bars
<1>2. FeedTypes' /\ BarTypes' /\ Loop!PointsAreNotMixed'
  BY <1>1 DEF FeedInv, FeedTypes, BarTypes, Loop!PointsAreNotMixed, Firing, Over
<1>3. BucketIsOne' /\ MarksAreLast'
  BY <1>1 DEF FeedInv, BucketIsOne, MarksAreLast, Loop!In, Firing, Over
<1>4. Loop!NoBarLost'
  BY <1>1 DEF FeedInv, Loop!NoBarLost, Firing, Over
<1> QED
  BY <1>2, <1>3, <1>4 DEF FeedInv

-----------------------------------------------------------------------------
(* The failures in a row.                                                   *)

LEMMA OneMore ==
    ASSUME NEW l \in Seq(BOOLEAN), NEW ok \in BOOLEAN, NEW a, a = Append(l, ok)
    PROVE  /\ a \in Seq(BOOLEAN) /\ Len(a) = Len(l) + 1 /\ Len(l) \in Nat /\ a # <<>>
           /\ a[Len(l) + 1] = ok /\ DOMAIN a = 1..Len(a) /\ DOMAIN l = 1..Len(l)
           /\ \A i \in DOMAIN l : a[i] = l[i]
OBVIOUS

LEMMA OneLess ==
    ASSUME NEW a \in Seq(BOOLEAN), a # <<>>, NEW r, r = Tail(a)
    PROVE  /\ r \in Seq(BOOLEAN) /\ Len(r) = Len(a) - 1 /\ Len(a) \in Nat
           /\ DOMAIN r = 1..(Len(a) - 1) /\ DOMAIN a = 1..Len(a)
           /\ \A i \in DOMAIN r : r[i] = a[i + 1]
OBVIOUS

\* The oldest snapshot is forgotten; it is none of the failures that are counted.
LEMMA TrailingStays ==
    ASSUME NEW a \in Seq(BOOLEAN), NEW n \in Nat, Trailing(a, n), n < Len(a)
    PROVE  Trailing(Tail(a), n)
<1> DEFINE r == Tail(a)
<1>1. a # <<>>
  OBVIOUS
<1>2. /\ r \in Seq(BOOLEAN) /\ Len(r) = Len(a) - 1 /\ Len(a) \in Nat
      /\ DOMAIN r = 1..(Len(a) - 1) /\ DOMAIN a = 1..Len(a)
      /\ \A i \in DOMAIN r : r[i] = a[i + 1]
  BY <1>1, OneLess
<1> HIDE DEF r
<1>3. \A i \in DOMAIN r : i > Len(r) - n => r[i] = FALSE
  BY <1>2 DEF Trailing
<1>4. n < Len(r) => r[Len(r) - n] = TRUE
  <2> SUFFICES ASSUME n < Len(r) PROVE r[Len(r) - n] = TRUE
    OBVIOUS
  <2>1. Len(r) - n \in 1..(Len(a) - 1) /\ (Len(r) - n) + 1 = Len(a) - n
    BY <1>2
  <2>2. r[Len(r) - n] = a[Len(a) - n]
    BY <1>2, <2>1
  <2> QED
    BY <2>2 DEF Trailing
<1>5. Trailing(r, n)
  BY <1>2, <1>3, <1>4 DEF Trailing
<1> QED
  BY <1>5 DEF r

\* One more snapshot: the row of failures is one longer, or is over.
LEMMA TrailingGrows ==
    ASSUME NEW l \in Seq(BOOLEAN), NEW n \in Nat, Trailing(l, n)
    PROVE  Trailing(Append(l, FALSE), n + 1) /\ Trailing(Append(l, TRUE), 0)
<1>1. ASSUME NEW ok \in BOOLEAN, ok = FALSE, NEW a, a = Append(l, ok) PROVE Trailing(a, n + 1)
  <2>1. /\ a \in Seq(BOOLEAN) /\ Len(a) = Len(l) + 1 /\ Len(l) \in Nat
        /\ a[Len(l) + 1] = ok /\ DOMAIN a = 1..Len(a) /\ DOMAIN l = 1..Len(l)
        /\ \A i \in DOMAIN l : a[i] = l[i]
    BY <1>1, OneMore
  <2>2. n + 1 <= Len(a)
    BY <2>1 DEF Trailing
  <2>3. \A i \in DOMAIN a : i > Len(a) - (n + 1) => a[i] = FALSE
    BY <1>1, <2>1 DEF Trailing
  <2>4. ASSUME n + 1 < Len(a) PROVE a[Len(a) - (n + 1)] = TRUE
    <3>1. Len(a) - (n + 1) = Len(l) - n /\ Len(l) - n \in DOMAIN l /\ n < Len(l)
      BY <2>1, <2>4
    <3> QED
      BY <2>1, <3>1 DEF Trailing
  <2> QED
    BY <2>2, <2>3, <2>4 DEF Trailing
<1>2. ASSUME NEW a, a = Append(l, TRUE) PROVE Trailing(a, 0)
  <2>1. Len(a) = Len(l) + 1 /\ Len(l) \in Nat /\ a[Len(l) + 1] = TRUE /\ DOMAIN a = 1..Len(a)
    BY <1>2, OneMore
  <2>2. 0 <= Len(a) /\ Len(a) - 0 = Len(l) + 1
    BY <2>1
  <2>3. \A i \in DOMAIN a : ~(i > Len(a) - 0)
    BY <2>1
  <2> QED
    BY <2>1, <2>2, <2>3 DEF Trailing
<1> QED
  BY <1>1, <1>2

\* The last MaxFailures snapshots are what the row needs.
LEMMA RecentKeeps ==
    ASSUME NEW n \in Nat, MaxFailures \in Nat \ {0}, NEW ok \in BOOLEAN,
           lately \in Seq(BOOLEAN), Len(lately) <= MaxFailures,
           Trailing(Append(lately, ok), n), n <= MaxFailures
    PROVE  /\ Loop!Recent(ok) \in Seq(BOOLEAN) /\ Len(Loop!Recent(ok)) <= MaxFailures
           /\ Trailing(Loop!Recent(ok), n)
<1> DEFINE a == Append(lately, ok)
<1>1. a \in Seq(BOOLEAN) /\ a # <<>> /\ Len(a) = Len(lately) + 1 /\ Len(lately) \in Nat
  BY OneMore
<1>2. Loop!Recent(ok) = (IF Len(a) > MaxFailures THEN Tail(a) ELSE a) /\ Trailing(a, n)
  BY DEF Loop!Recent
<1> HIDE DEF a
<1>3. CASE Len(a) > MaxFailures
  <2>1. n < Len(a) /\ Len(a) = MaxFailures + 1
    BY <1>1, <1>3
  <2>2. Trailing(Tail(a), n)
    BY <1>1, <1>2, <2>1, TrailingStays
  <2>3. Tail(a) \in Seq(BOOLEAN) /\ Len(Tail(a)) = Len(a) - 1
    BY <1>1, OneLess
  <2>4. Loop!Recent(ok) = Tail(a)
    BY <1>2, <1>3
  <2>5. Len(Loop!Recent(ok)) <= MaxFailures
    BY <2>1, <2>3, <2>4
  <2> QED
    BY <2>2, <2>3, <2>4, <2>5
<1>4. CASE Len(a) <= MaxFailures
  <2>1. Loop!Recent(ok) = a
    BY <1>1, <1>2, <1>4
  <2> QED
    BY <1>1, <1>2, <1>4, <2>1
<1> QED
  BY <1>1, <1>3, <1>4

\* The count of failures is exact, and MaxFailures of them end the loop.
LEMMA FailureKeeps == ASSUME LoopInv, Loop!SnapshotFails PROVE FailuresCount' /\ ErrorEnds'
<1>1. /\ failures' = failures + 1 /\ lately' = Loop!Recent(FALSE)
      /\ pc \in {"account", "positions"}
      /\ UNCHANGED <<stopping, interrupted, lost>>
  BY DEF Loop!SnapshotFails
<1>2. shown = "RUNNING" /\ error = "none"
  BY <1>1 DEF LoopInv, ErrorEnds, Over
<1>3. /\ failures \in Nat /\ failures < MaxFailures /\ MaxFailures \in Nat \ {0}
      /\ lately \in Seq(BOOLEAN) /\ Len(lately) <= MaxFailures /\ Trailing(lately, failures)
  BY <1>2, LoopConstants DEF LoopInv, FailuresCount
<1>4. lately' \in Seq(BOOLEAN) /\ Len(lately') <= MaxFailures /\ Trailing(lately', failures')
  <2>1. Trailing(Append(lately, FALSE), failures + 1)
    BY <1>3, TrailingGrows
  <2>2. failures + 1 \in Nat /\ failures + 1 <= MaxFailures
    BY <1>3
  <2> QED
    BY <1>1, <1>3, <2>1, <2>2, RecentKeeps
<1>5. failures' \in 0..MaxFailures
  BY <1>1, <1>3
<1>6. CASE failures' >= MaxFailures
  <2>1. pc' = "closing" /\ shown' = "ERROR" /\ error' = "snapshot" /\ failures' = MaxFailures
    BY <1>3, <1>5, <1>6 DEF Loop!SnapshotFails
  <2>2. FailuresCount'
    BY <1>4, <1>5, <2>1 DEF FailuresCount
  <2>3. ErrorEnds'
    BY <1>1, <2>1 DEF LoopInv, ErrorEnds, Over
  <2> QED
    BY <2>2, <2>3
<1>7. CASE ~(failures' >= MaxFailures)
  <2>1. UNCHANGED <<shown, error>>
    BY <1>7 DEF Loop!SnapshotFails
  <2>2. failures' # MaxFailures /\ error' # "snapshot"
    BY <1>2, <1>3, <1>5, <1>7, <2>1
  <2>3. FailuresCount'
    BY <1>4, <1>5, <2>2 DEF FailuresCount
  <2>4. ErrorEnds'
    BY <1>1, <1>2, <2>1 DEF LoopInv, ErrorEnds
  <2> QED
    BY <2>3, <2>4
<1> QED
  BY <1>6, <1>7

\* A snapshot that can be read ends the row.
LEMMA SuccessKeeps ==
    ASSUME LoopInv, NEW o \in OrderLists, Loop!Decides(o)
    PROVE  FailuresCount' /\ ErrorEnds'
<1>1. /\ failures' = 0 /\ lately' = Loop!Recent(TRUE) /\ pc = "positions"
      /\ UNCHANGED <<shown, error, stopping, interrupted, lost>>
  BY DEF Loop!Decides, Loop!Recovered, Loop!control
<1>2. shown = "RUNNING" /\ error = "none"
  BY <1>1 DEF LoopInv, ErrorEnds, Over
<1>3. /\ failures \in Nat /\ failures < MaxFailures /\ MaxFailures \in Nat \ {0}
      /\ lately \in Seq(BOOLEAN) /\ Len(lately) <= MaxFailures /\ Trailing(lately, failures)
  BY <1>2, LoopConstants DEF LoopInv, FailuresCount
<1>4. lately' \in Seq(BOOLEAN) /\ Len(lately') <= MaxFailures /\ Trailing(lately', 0)
  <2>1. Trailing(Append(lately, TRUE), 0)
    BY <1>3, TrailingGrows
  <2>2. 0 \in Nat /\ 0 <= MaxFailures
    BY <1>3
  <2> QED
    BY <1>1, <1>3, <2>1, <2>2, RecentKeeps
<1>5. FailuresCount'
  <2>1. failures' \in 0..MaxFailures /\ failures' # MaxFailures /\ error' # "snapshot"
    BY <1>1, <1>2, <1>3
  <2> QED
    BY <1>1, <1>4, <2>1 DEF FailuresCount
<1>6. ErrorEnds'
  BY <1>1, <1>2 DEF LoopInv, ErrorEnds
<1> QED
  BY <1>5, <1>6

-----------------------------------------------------------------------------
(* The orders.                                                              *)

\* An order of the time point is answered.
LEMMA AnswerKeeps ==
    ASSUME OrdersCount, NEW k \in {"sent", "error"}, Loop!Answered(k), orders # <<>>
    PROVE  /\ orders' \in Seq(OrderRecords) /\ results' \in [{"sent", "error"} -> Nat]
           /\ Len(orders') + results'["sent"] + results'["error"] = made
           /\ results'["sent"] = IF k = "sent" THEN results["sent"] + 1 ELSE results["sent"]
<1>1. /\ orders' = Tail(orders) /\ results' = [results EXCEPT ![k] = @ + 1]
      /\ orders \in Seq(OrderRecords) /\ results \in [{"sent", "error"} -> Nat]
      /\ Len(orders) + results["sent"] + results["error"] = made
  BY DEF Loop!Answered, OrdersCount
<1>2. orders' \in Seq(OrderRecords) /\ Len(orders') = Len(orders) - 1 /\ Len(orders) \in Nat
  BY <1>1
<1>3. CASE k = "sent"
  <2>1. results'["sent"] = results["sent"] + 1 /\ results'["error"] = results["error"]
    BY <1>1, <1>3
  <2> QED
    BY <1>1, <1>2, <1>3, <2>1
<1>4. CASE k = "error"
  <2>1. results'["sent"] = results["sent"] /\ results'["error"] = results["error"] + 1
    BY <1>1, <1>4
  <2> QED
    BY <1>1, <1>2, <1>4, <2>1
<1> QED
  BY <1>3, <1>4

LEMMA FlushKeeps == ASSUME OrdersCount, Loop!FlushRefuses \/ Loop!FlushSends PROVE OrdersCount'
<1>1. CASE Loop!FlushRefuses
  <2>1. /\ pc = "flush" /\ orders # <<>> /\ Loop!Answered("error")
        /\ UNCHANGED <<pc, made, placed, sent, counted, unpriced>>
    BY <1>1 DEF Loop!FlushRefuses, Loop!Refused
  <2>2. /\ orders' \in Seq(OrderRecords) /\ results' \in [{"sent", "error"} -> Nat]
        /\ Len(orders') + results'["sent"] + results'["error"] = made
        /\ results'["sent"] = results["sent"]
    BY <2>1, AnswerKeeps
  <2> QED
    BY <2>1, <2>2 DEF OrdersCount
<1>2. CASE Loop!FlushSends
  <2>1. /\ pc = "flush" /\ orders # <<>> /\ ~Loop!MustBlock(Head(orders)) /\ pc' = "placing"
        /\ unpriced' = IF Loop!Priced(Head(orders)) THEN unpriced ELSE unpriced + 1
        /\ UNCHANGED <<orders, made, results, placed, sent, counted>>
    BY <1>2 DEF Loop!FlushSends
  <2>2. unpriced' \in Nat /\ sent < MaxDaily + unpriced'
    BY <2>1, LoopConstants DEF OrdersCount, Loop!MustBlock
  <2> QED
    BY <2>1, <2>2, LoopConstants DEF OrdersCount
<1> QED
  BY <1>1, <1>2

LEMMA ReturnKeeps == ASSUME OrdersCount, Loop!OrderReturns \/ Loop!OrderRaises PROVE OrdersCount'
<1>1. CASE Loop!OrderReturns
  <2>1. /\ pc = "placing" /\ sent' = sent + 1 /\ counted' = counted + 1 /\ Loop!Answered("sent")
        /\ pc' = "flush" /\ UNCHANGED <<made, placed, unpriced>> /\ orders # <<>>
    BY <1>1 DEF Loop!OrderReturns, Loop!Submitted, OrdersCount
  <2>2. /\ orders' \in Seq(OrderRecords) /\ results' \in [{"sent", "error"} -> Nat]
        /\ Len(orders') + results'["sent"] + results'["error"] = made
        /\ results'["sent"] = results["sent"] + 1
    BY <2>1, AnswerKeeps
  <2>3. results["sent"] \in Nat
    BY DEF OrdersCount
  <2> QED
    <3> DEFINE n == results["sent"]
    <3>1. sent = placed + n /\ counted = sent /\ placed \in Nat /\ n \in Nat
      BY <2>3 DEF OrdersCount
    <3>2. results'["sent"] = n + 1
      BY <2>2
    <3> HIDE DEF n
    <3>3. sent' \in Nat /\ counted' = sent' /\ sent' = placed' + results'["sent"]
      BY <2>1, <3>1, <3>2
    <3>4. sent' <= MaxDaily + unpriced'
      BY <2>1, LoopConstants DEF OrdersCount
    <3> QED
      BY <2>1, <2>2, <3>3, <3>4 DEF OrdersCount
<1>2. CASE Loop!OrderRaises
  <2>1. /\ pc = "placing" /\ Loop!Answered("error") /\ pc' = "flush" /\ orders # <<>>
        /\ UNCHANGED <<made, placed, sent, counted, unpriced>>
    BY <1>2 DEF Loop!OrderRaises, OrdersCount
  <2>2. /\ orders' \in Seq(OrderRecords) /\ results' \in [{"sent", "error"} -> Nat]
        /\ Len(orders') + results'["sent"] + results'["error"] = made
        /\ results'["sent"] = results["sent"]
    BY <2>1, AnswerKeeps
  <2> QED
    BY <2>1, <2>2 DEF OrdersCount
<1> QED
  BY <1>1, <1>2

LEMMA DecideKeeps == ASSUME OrdersCount, NEW o \in OrderLists, Loop!Decides(o) PROVE OrdersCount'
<1>1. /\ pc = "positions" /\ orders' = o /\ made' = Len(o) /\ results' = Loop!NoResults
      /\ pc' = "flush"
      /\ UNCHANGED <<placed, sent, counted, unpriced>>
  BY DEF Loop!Decides
<1>2. o \in Seq(OrderRecords) /\ Len(o) \in Nat
  <2>1. o \in Seq(OrderRecords)
    BY LoopConstants DEF OrderRecords
  <2> QED
    BY <2>1
<1>3. /\ Loop!NoResults \in [{"sent", "error"} -> Nat]
      /\ Loop!NoResults["sent"] = 0 /\ Loop!NoResults["error"] = 0
  BY DEF Loop!NoResults
<1>4. results["sent"] = 0
  BY <1>1, <1>3 DEF OrdersCount
<1> QED
  BY <1>1, <1>2, <1>3, <1>4 DEF OrdersCount

LEMMA ProceedsPc == ASSUME Loop!Proceeds PROVE pc' \in {"closing", "next", "account"}
BY DEF Loop!Proceeds, Loop!Collect, Loop!Fire

LEMMA ReportKeeps == ASSUME OrdersCount, Loop!Reports PROVE OrdersCount'
<1>1. /\ pc = "flush" /\ orders = <<>> /\ placed' = placed + results["sent"]
      /\ made' = 0 /\ results' = Loop!NoResults
      /\ UNCHANGED <<orders, sent, counted, unpriced>>
  BY DEF Loop!Reports, Loop!Sent
<1>2. /\ Loop!NoResults \in [{"sent", "error"} -> Nat]
      /\ Loop!NoResults["sent"] = 0 /\ Loop!NoResults["error"] = 0
  BY DEF Loop!NoResults
<1>3. pc' # "placing" /\ Len(orders) = 0
  BY <1>1, ProceedsPc DEF Loop!Reports
<1>4. results["sent"] \in Nat /\ placed \in Nat
  BY DEF OrdersCount
<1> QED
  BY <1>1, <1>2, <1>3, <1>4 DEF OrdersCount

\* What leaves the orders alone.
LEMMA OrdersAlone ==
    ASSUME OrdersCount, UNCHANGED Loop!sending, pc' # "placing" \/ pc' = pc,
           pc' \in {"next", "account", "positions"} => pc \in {"next", "account", "positions"}
    PROVE  OrdersCount'
BY DEF OrdersCount, Loop!sending

LEMMA CountAlone ==
    ASSUME FailuresCount, UNCHANGED <<failures, lately, error>>
    PROVE  FailuresCount'
BY DEF FailuresCount

-----------------------------------------------------------------------------
(* The invariant is inductive.                                              *)

LEMMA LoopInit == Loop!Init => LoopInv
<1> SUFFICES ASSUME Loop!Init PROVE LoopInv
  OBVIOUS
<1>1. FeedTypes /\ MarksAreLast /\ Loop!NoBarLost
  <2>1. <<>> \in Seq(Loop!Bars \cup {Loop!END, Loop!FAILED}) /\ DOMAIN <<>> = {}
    OBVIOUS
  <2>2. FeedTypes
    <3>1. queue = <<>> /\ items = 0 /\ feeder = "on" /\ delivered = {} /\ pc = "next" /\ ending = FALSE
      BY DEF Loop!Init
    <3>2. queue \in Seq(Loop!Bars \cup {Loop!END, Loop!FAILED})
      BY <2>1, <3>1
    <3>3. ending \in BOOLEAN
      BY <3>1
    <3>4. items \in 0..MaxItems /\ delivered \subseteq Loop!Bars
      BY <3>1, LoopConstants
    <3> QED
      BY <3>1, <3>2, <3>3, <3>4 DEF FeedTypes
  <2>3. MarksAreLast
    BY <2>1 DEF Loop!Init, MarksAreLast
  <2>4. Loop!NoBarLost
    BY DEF Loop!Init, Loop!NoBarLost
  <2> QED
    BY <2>2, <2>3, <2>4
<1>2. BarTypes /\ Loop!PointsAreNotMixed /\ BucketIsOne
  <2>1. Loop!NoPoint \in [time : 0..MaxTime, bars : SUBSET Loop!Bars] /\ Loop!NoPoint.bars = {}
    BY LoopConstants DEF Loop!NoPoint
  <2>2. Loop!NoBars \in [Symbols -> 0..MaxTime] /\ Loop!In(Loop!NoBars) = {}
    BY LoopConstants DEF Loop!NoBars, Loop!In
  <2> QED
    BY <2>1, <2>2, LoopConstants DEF Loop!Init, BarTypes, Loop!PointsAreNotMixed,
         BucketIsOne, Firing
<1>3. FailuresCount
  <2>1. <<>> \in Seq(BOOLEAN) /\ Len(<<>>) = 0 /\ DOMAIN <<>> = {}
    OBVIOUS
  <2> QED
    BY <2>1, LoopConstants DEF Loop!Init, FailuresCount, Trailing
<1>4. OrdersCount
  <2>1. <<>> \in Seq(OrderRecords) /\ Len(<<>>) = 0
    OBVIOUS
  <2>2. /\ Loop!NoResults \in [{"sent", "error"} -> Nat]
        /\ Loop!NoResults["sent"] = 0 /\ Loop!NoResults["error"] = 0
    BY DEF Loop!NoResults
  <2> QED
    BY <2>1, <2>2, LoopConstants DEF Loop!Init, OrdersCount
<1>5. ErrorEnds
  BY DEF Loop!Init, ErrorEnds
<1> QED
  BY <1>1, <1>2, <1>3, <1>4, <1>5 DEF LoopInv, FeedInv

\* Bars come, are taken or are fired.
LEMMA BarStep ==
    ASSUME LoopInv, \/ Loop!Feed \/ Loop!Take \/ Loop!WindowEnds \/ Loop!InterruptSwallowed
    PROVE  LoopInv'
<1>1. FeedInv /\ FailuresCount /\ OrdersCount /\ ErrorEnds
  BY DEF LoopInv
<1>2. CASE Loop!Feed
  <2>1. FeedInv' /\ UNCHANGED <<Loop!bars, Loop!account, Loop!sending, Loop!control, pc, ending>>
    BY <1>1, <1>2, FeedKeeps DEF Loop!Feed, Loop!FeedBar, Loop!FeedStops, Loop!Feeds
  <2>2. FailuresCount' /\ OrdersCount' /\ ErrorEnds'
    BY <1>1, <2>1, OrdersAlone, CountAlone DEF Loop!account, Loop!control, ErrorEnds
  <2> QED
    BY <2>1, <2>2 DEF LoopInv
<1>3. CASE Loop!WindowEnds
  <2>1. /\ FeedInv' /\ pc = "next" /\ pc' = "account"
        /\ UNCHANGED <<Loop!account, Loop!sending, Loop!control>>
    BY <1>1, <1>3, WindowKeeps DEF Loop!WindowEnds, Loop!Fire
  <2>2. FailuresCount' /\ OrdersCount' /\ ErrorEnds'
    BY <1>1, <2>1, OrdersAlone, CountAlone DEF Loop!account, Loop!control, ErrorEnds, Over
  <2> QED
    BY <2>1, <2>2 DEF LoopInv
<1>4. CASE Loop!TakeItem /\ {interrupted', lost'} \subseteq BOOLEAN
  <2>1. FeedInv' /\ pc = "next" /\ UNCHANGED <<Loop!account, Loop!sending, stopping>>
    BY <1>1, <1>4, TakeKeeps DEF Loop!TakeItem
  <2>2. pc' \in {"next", "account", "closing"}
    BY <1>4 DEF Loop!TakeItem, Loop!TakeBar, Loop!Collect, Loop!Fire
  <2>3. /\ shown = "RUNNING" /\ error = "none"
        /\ \/ UNCHANGED <<shown, error>>
           \/ pc' = "closing" /\ shown' = "ERROR" /\ error' = "stream"
    BY <1>1, <1>4, <2>1 DEF Loop!TakeItem, ErrorEnds, Over
  <2>4. OrdersCount'
    BY <1>1, <2>1, <2>2, OrdersAlone
  <2>5. FailuresCount'
    BY <1>1, <2>1, <2>3 DEF FailuresCount, Loop!account
  <2>6. ErrorEnds'
    BY <1>1, <1>4, <2>1, <2>3 DEF ErrorEnds, Over
  <2> QED
    BY <2>1, <2>4, <2>5, <2>6 DEF LoopInv
<1> QED
  BY <1>1, <1>2, <1>3, <1>4 DEF Loop!Take, Loop!InterruptSwallowed, ErrorEnds

\* A time point is fired: snapshot, strategy and orders.
LEMMA FiringStep ==
    ASSUME LoopInv,
           \/ Loop!AccountReads \/ Loop!SnapshotFails \/ (\E o \in OrderLists : Loop!Decides(o))
           \/ Loop!FlushRefuses \/ Loop!FlushSends \/ Loop!OrderReturns
           \/ Loop!OrderRaises \/ Loop!Reports
    PROVE  LoopInv'
<1>1. FeedInv /\ FailuresCount /\ OrdersCount /\ ErrorEnds
  BY DEF LoopInv
<1>2. CASE Loop!AccountReads
  <2>1. /\ pc = "account" /\ pc' = "positions"
        /\ UNCHANGED <<Loop!feed, Loop!bars, Loop!account, Loop!sending, Loop!control, ending>>
    BY <1>2 DEF Loop!AccountReads
  <2>2. FeedInv'
    BY <1>1, <2>1, MovesKeep DEF Loop!feed, Firing
  <2>3. FailuresCount' /\ OrdersCount' /\ ErrorEnds'
    BY <1>1, <2>1, OrdersAlone, CountAlone DEF Loop!account, Loop!control, ErrorEnds, Over
  <2> QED
    BY <2>2, <2>3 DEF LoopInv
<1>3. CASE Loop!SnapshotFails
  <2>1. FailuresCount' /\ ErrorEnds'
    BY <1>3, FailureKeeps
  <2>2. /\ pc \in {"account", "positions"} /\ UNCHANGED <<Loop!feed, Loop!sending, ending>>
        /\ \/ pc' = "closing" /\ UNCHANGED Loop!bars
           \/ Loop!Proceeds
    BY <1>3 DEF Loop!SnapshotFails
  <2>3. FeedInv'
    BY <1>1, <2>2, MovesKeep, ProceedsKeeps DEF Loop!feed, Firing, Over
  <2>4. OrdersCount'
    BY <1>1, <2>2, ProceedsPc, OrdersAlone
  <2> QED
    BY <2>1, <2>3, <2>4 DEF LoopInv
<1>4. ASSUME NEW o \in OrderLists, Loop!Decides(o) PROVE LoopInv'
  <2>1. pc = "positions" /\ pc' = "flush" /\ UNCHANGED <<Loop!feed, Loop!bars, ending>>
    BY <1>4 DEF Loop!Decides
  <2>2. FeedInv'
    BY <1>1, <2>1, MovesKeep DEF Loop!feed, Firing
  <2> QED
    BY <1>1, <1>4, <2>2, SuccessKeeps, DecideKeeps DEF LoopInv
<1>5. CASE Loop!FlushRefuses \/ Loop!FlushSends \/ Loop!OrderReturns \/ Loop!OrderRaises
  <2>1. /\ pc \in {"flush", "placing"} /\ pc' \in {"flush", "placing"}
        /\ UNCHANGED <<Loop!feed, Loop!bars, Loop!account, Loop!control, ending>>
    BY <1>5 DEF Loop!FlushRefuses, Loop!FlushSends, Loop!OrderReturns, Loop!OrderRaises
  <2>2. FeedInv'
    BY <1>1, <2>1, MovesKeep DEF Loop!feed, Firing
  <2>3. OrdersCount'
    BY <1>1, <1>5, FlushKeeps, ReturnKeeps
  <2>4. FailuresCount' /\ ErrorEnds'
    BY <1>1, <2>1, CountAlone DEF Loop!account, Loop!control, ErrorEnds, Over
  <2> QED
    BY <2>2, <2>3, <2>4 DEF LoopInv
<1>6. CASE Loop!Reports
  <2>1. pc = "flush" /\ Loop!Proceeds /\ UNCHANGED <<Loop!feed, Loop!account, Loop!control, ending>>
    BY <1>6 DEF Loop!Reports
  <2>2. FeedInv'
    BY <1>1, <2>1, ProceedsKeeps DEF Firing
  <2>3. OrdersCount'
    BY <1>1, <1>6, ReportKeeps
  <2>4. FailuresCount' /\ ErrorEnds'
    BY <1>1, <2>1, CountAlone DEF Loop!account, Loop!control, ErrorEnds, Over
  <2> QED
    BY <2>2, <2>3, <2>4 DEF LoopInv
<1> QED
  BY <1>2, <1>3, <1>4, <1>5, <1>6

\* The loop is stopped, or is over.
LEMMA StopStep ==
    ASSUME LoopInv, \/ Loop!Closes \/ Loop!Stop \/ Loop!InterruptLands
                    \/ Loop!StopReturns \/ UNCHANGED Loop!vars
    PROVE  LoopInv'
<1>1. FeedInv /\ FailuresCount /\ OrdersCount /\ ErrorEnds
  BY DEF LoopInv
<1>2. /\ UNCHANGED <<queue, items, delivered, Loop!bars, Loop!account, Loop!sending, ending, error>>
      /\ feeder' = feeder \/ feeder' = "off"
      /\ pc' = pc \/ pc' \in Over
  BY DEF Loop!Closes, Loop!Stop, Loop!InterruptLands, Loop!StopReturns, Loop!vars, Loop!feed,
       Loop!control, Over
<1>3. FeedInv'
  BY <1>1, <1>2, MovesKeep
<1>4. FailuresCount' /\ OrdersCount'
  BY <1>1, <1>2, OrdersAlone, CountAlone DEF Loop!account, Over
<1>5. ErrorEnds'
  <2>1. CASE Loop!Closes \/ Loop!InterruptLands \/ UNCHANGED Loop!vars
    BY <1>1, <2>1 DEF Loop!Closes, Loop!InterruptLands, Loop!vars, Loop!control, ErrorEnds, Over
  <2>2. CASE Loop!Stop
    BY <1>1, <2>2 DEF Loop!Stop, Loop!StopTask, Loop!done, ErrorEnds, Over
  <2>3. CASE Loop!StopReturns
    BY <1>1, <2>3 DEF Loop!StopReturns, Loop!done, ErrorEnds, Over
  <2> QED
    BY <2>1, <2>2, <2>3
<1> QED
  BY <1>3, <1>4, <1>5 DEF LoopInv

LEMMA LoopStep == LoopInv /\ [Loop!Next]_(Loop!vars) => LoopInv'
BY BarStep, FiringStep, StopStep DEF Loop!Next, Loop!Step, Loop!Timeout, Loop!Interrupt

\* What the invariant says of the bars and of the counts.
LEMMA LoopImplies == LoopInv => Loop!BarsAreKept /\ Loop!CountsAreTrue
<1> SUFFICES ASSUME LoopInv PROVE Loop!BarsAreKept /\ Loop!CountsAreTrue
  OBVIOUS
<1>1. FeedInv /\ FailuresCount /\ OrdersCount /\ ErrorEnds
  BY DEF LoopInv
<1>2. deferred \subseteq Loop!Bars /\ Loop!Cardinality(deferred) <= 1
  <2>1. Cardinality({}) = 0 /\ \A b \in Loop!Bars : Cardinality({b}) = 1
    BY FS_EmptySet, FS_Singleton
  <2> QED
    <3>1. Loop!Cardinality(deferred) = Cardinality(deferred)
      BY DEF Loop!Cardinality, Cardinality
    <3>2. deferred = {} \/ \E b \in Loop!Bars : deferred = {b}
      BY <1>1 DEF FeedInv, BarTypes
    <3> QED
      BY <2>1, <3>1, <3>2
<1>3. Len(orders) \in Nat /\ results["sent"] \in Nat /\ results["error"] \in Nat /\ Len(orders) <= made
  <2>1. orders \in Seq(OrderRecords) /\ results["sent"] \in Nat /\ results["error"] \in Nat
    BY <1>1 DEF OrdersCount
  <2>2. Len(orders) \in Nat
    BY <2>1
  <2> QED
    BY <1>1, <2>1, <2>2 DEF OrdersCount
<1>4. counted <= sent /\ placed <= sent
  BY <1>1, <1>3 DEF OrdersCount
<1>5. Loop!TypeOK
  <2>1. /\ queue \in Seq(Loop!Bars \cup {Loop!END, Loop!FAILED}) /\ items \in 0..MaxItems
        /\ feeder \in {"on", "off"} /\ delivered \subseteq Loop!Bars /\ ending \in BOOLEAN
        /\ pc \in {"next", "account", "positions", "flush", "placing", "closing", "ended"}
    BY <1>1 DEF FeedInv, FeedTypes, Firing, Over
  <2>2. /\ bucket \in [Symbols -> 0..MaxTime] /\ key \in 0..MaxTime
        /\ history \in [Symbols -> SUBSET (1..MaxTime)]
        /\ point \in [time : 0..MaxTime, bars : SUBSET Loop!Bars]
    BY <1>1 DEF FeedInv, BarTypes
  <2> QED
    BY <1>1, <1>2, <1>3, <1>4, <2>1, <2>2 DEF Loop!TypeOK, FailuresCount, ErrorEnds
<1>6. Loop!FailuresInARow
  <2>1. /\ failures \in 0..MaxFailures /\ lately \in Seq(BOOLEAN) /\ Len(lately) <= MaxFailures
        /\ Trailing(lately, failures) /\ (failures = MaxFailures <=> error = "snapshot")
        /\ MaxFailures \in Nat
    BY <1>1, LoopConstants DEF FailuresCount
  <2>2. Len(lately) \in Nat /\ DOMAIN lately = 1..Len(lately)
    BY <2>1
  <2>3. CASE failures = MaxFailures
    <3>0. Len(lately) = MaxFailures
      <4>1. failures <= Len(lately)
        BY <2>1 DEF Trailing
      <4>2. Len(lately) <= MaxFailures /\ MaxFailures \in Nat
        BY <2>1
      <4>3. MaxFailures <= Len(lately) /\ Len(lately) \in Nat
        BY <2>2, <2>3, <4>1
      <4> DEFINE n == Len(lately)
      <4> HIDE DEF n
      <4>4. n <= MaxFailures /\ MaxFailures <= n /\ n \in Nat
        BY <4>2, <4>3 DEF n
      <4>5. n = MaxFailures
        BY <4>2, <4>4
      <4> QED
        BY <4>5 DEF n
    <3>1. Len(lately) = MaxFailures /\ \A i \in DOMAIN lately : i > Len(lately) - failures
      BY <2>1, <2>2, <2>3, <3>0
    <3>2. \A i \in DOMAIN lately : lately[i] = FALSE
      BY <2>1, <3>1 DEF Trailing
    <3> QED
      BY <2>1, <2>3, <3>1, <3>2 DEF Loop!FailuresInARow
  <2>4. CASE failures < MaxFailures
    <3>1. ASSUME Len(lately) = MaxFailures PROVE \E i \in DOMAIN lately : lately[i] = TRUE
      <4>1. Len(lately) - failures \in 1..Len(lately)
        BY <2>1, <2>2, <2>4, <3>1
      <4> QED
        BY <2>1, <2>2, <2>4, <3>1, <4>1 DEF Trailing
    <3>2. error # "snapshot"
      BY <2>1, <2>4
    <3> QED
      BY <3>1, <3>2 DEF Loop!FailuresInARow
  <2> QED
    BY <2>1, <2>3, <2>4
<1>7. Loop!OrdersAreAccounted
  <2>1. pc = "next" => results["sent"] = 0
    BY <1>1 DEF OrdersCount, Loop!NoResults
  <2> QED
    BY <1>1, <2>1 DEF OrdersCount, Loop!OrdersAreAccounted
<1>8. Loop!DailyLimitHolds
  BY <1>1 DEF OrdersCount, Loop!DailyLimitHolds
<1> QED
  BY <1>1, <1>5, <1>6, <1>7, <1>8 DEF FeedInv, Loop!BarsAreKept, Loop!CountsAreTrue

\* Who is not RUNNING is at its end.
LEMMA LoopQuiet ==
    LoopInv /\ [Loop!Next]_(Loop!vars) =>
        [shown # "RUNNING" => UNCHANGED <<decided, sent>>]_(Loop!vars)
<1> SUFFICES ASSUME LoopInv, Loop!Next, shown # "RUNNING" PROVE UNCHANGED <<decided, sent>>
  OBVIOUS
<1>1. pc \in Over
  BY DEF LoopInv, ErrorEnds
<1>2. ~(\E o \in OrderLists : Loop!Decides(o)) /\ ~Loop!OrderReturns
  BY <1>1 DEF Loop!Decides, Loop!OrderReturns, Over
<1>3. CASE Loop!Feed
  BY <1>3 DEF Loop!Feed, Loop!FeedBar, Loop!FeedStops, Loop!Feeds, Loop!account, Loop!sending
<1>4. CASE Loop!Step
  BY <1>2, <1>4 DEF Loop!Step, Loop!Take, Loop!TakeItem, Loop!AccountReads,
       Loop!SnapshotFails, Loop!FlushRefuses, Loop!FlushSends,
     Loop!OrderRaises, Loop!Reports, Loop!Closes, Loop!account, Loop!sending
<1>5. CASE Loop!Timeout \/ Loop!Stop \/ Loop!Interrupt \/ Loop!StopReturns
  BY <1>5 DEF Loop!Timeout, Loop!WindowEnds, Loop!Stop, Loop!Interrupt, Loop!InterruptLands,
       Loop!InterruptSwallowed, Loop!TakeItem,
     Loop!StopReturns, Loop!account, Loop!sending
<1> QED
  BY <1>3, <1>4, <1>5 DEF Loop!Next

-----------------------------------------------------------------------------
(* Theorems.                                                                *)

LEMMA StrategiesStep == LoopInv /\ [StrategiesNext]_<<side, loopVars, vars>> => LoopInv'
<1>1. UNCHANGED loopVars => UNCHANGED Loop!vars
  BY DEF loopVars, Loop!vars, Loop!feed, Loop!bars, Loop!account, Loop!sending, Loop!control
<1> QED
  BY <1>1, LoopStep DEF StrategiesNext

LEMMA LoopInvHolds == StrategiesSpec => []LoopInv
<1>1. StrategiesInit => LoopInv
  BY LoopInit DEF StrategiesInit
<1> QED
  BY <1>1, StrategiesStep, PTL DEF StrategiesSpec

\* Every bar that was delivered is in the queue, deferred, in the bucket or in the
\* history, and time points are not mixed (bars_for_points, live_runner.py:487).
THEOREM BarsStayKept == StrategiesSpec => []BarsAreKept
<1>1. LoopInv => BarsAreKept
  BY LoopImplies DEF BarsAreKept
<1> QED
  BY <1>1, LoopInvHolds, PTL

\* Failures in a row, answers to orders and the orders of the day are counted as
\* they happened, whatever the loop was awaiting when (live_runner.py:501).
THEOREM CountsStayTrue == StrategiesSpec => []CountsAreTrue
<1>1. LoopInv => CountsAreTrue
  BY LoopImplies DEF CountsAreTrue
<1> QED
  BY <1>1, LoopInvHolds, PTL

\* What is shown as STOPPED or ERROR decides nothing and sends nothing: neither the
\* loop of an instance nor any instance of the engine (live_strategy.py, engine.py).
THEOREM StopStaysFinal == StrategiesSpec => StopIsFinal
<1>1. LoopInv /\ [StrategiesNext]_<<side, loopVars, vars>> =>
        [shown # "RUNNING" => UNCHANGED <<decided, sent>>]_(Loop!vars)
  <2>1. UNCHANGED loopVars => UNCHANGED Loop!vars
    BY DEF loopVars, Loop!vars, Loop!feed, Loop!bars, Loop!account, Loop!sending, Loop!control
  <2> QED
    BY <2>1, LoopQuiet DEF StrategiesNext
<1>2. StrategiesSpec => Loop!NothingAfterStop
  BY <1>1, LoopInvHolds, PTL DEF StrategiesSpec, Loop!NothingAfterStop
<1>3. StrategiesInit => Init
  BY DEF StrategiesInit
<1>4. [StrategiesNext]_<<side, loopVars, vars>> => [Next]_vars
  BY DEF StrategiesNext
<1>5. StrategiesSpec => Spec
  BY <1>3, <1>4, PTL DEF StrategiesSpec, Spec
<1> QED
  BY <1>2, <1>5, StoppedIsQuiet, PTL DEF StopIsFinal
=============================================================================
