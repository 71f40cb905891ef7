--------------------------- MODULE StrategyEngine ---------------------------
(***************************************************************************)
(* Starting, stopping and deleting strategy instances (strategy/engine.py  *)
(* with api/v1/endpoints/live_strategy.py), and the way of their orders    *)
(* through the risk engine (risk/engine.py).  Every start call makes an    *)
(* instance object and a task of its own; _instances holds the object that *)
(* was registered last under an id.  How a portfolio strategy's loop       *)
(* comes to an order is the matter of LiveRunner.                          *)
(***************************************************************************)
EXTENDS Integers, FiniteSets

CONSTANTS
    Starts,      \* calls of start_strategy and start_portfolio_strategy
    Portfolio,   \* those of start_portfolio_strategy
    Id,          \* Id[c]: the instance id call c asks for
    None,
    MaxDaily,    \* value of the rule MAX_DAILY_ORDERS
    Severity,    \* its severity: "block" or "halt"
    MaxOrders    \* bound: orders that are sent to the order manager

ASSUME EngineAssumption ==
    /\ IsFiniteSet(Starts) /\ Starts # {} /\ Portfolio \subseteq Starts /\ None \notin Starts
    /\ MaxDaily \in Nat /\ MaxOrders \in Nat

VARIABLES
    registered,  \* _instances: the start call whose object is under an id
    call,        \* where the start call is
    state,       \* state[c]: state of the instance object c made
    task,        \* task[c]: where its task is
    stop,        \* stop[c]: a stop call awaits the task of c
    cancelled,   \* the tasks that have been cancelled
    rival,       \* history: rival[c]: calls that returned while c was loading
    controls,    \* the start call whose controls the order manager has
    today,       \* the risk engine's count of orders of the day
    accepted,    \* history: accepted[c]: orders the order manager took from c
    exempt       \* history: those of all instances that no risk check looked at

calls == <<registered, call, rival>>
vars  == <<calls, state, task, stop, cancelled, controls, today, accepted, exempt>>

Ids == {Id[c] : c \in Starts}
Live(c) == task[c] \notin {"none", "ended"}
Others(c) == {d \in Starts \ {c} : Id[d] = Id[c]}

Init ==
    /\ registered = [i \in Ids |-> None]
    /\ call = [c \in Starts |-> "idle"]
    /\ state = [c \in Starts |-> "IDLE"]
    /\ task = [c \in Starts |-> "none"]
    /\ stop = [c \in Starts |-> FALSE]
    /\ cancelled = {}
    /\ rival = [c \in Starts |-> {}]
    /\ controls = None /\ today = 0
    /\ accepted = [c \in Starts |-> 0] /\ exempt = 0

-----------------------------------------------------------------------------
(* Starting.                                                                *)

Free(c) == registered[Id[c]] = None \/ state[registered[Id[c]]] # "RUNNING"

\* The id is free: the call goes on to await the history.
StartChecks(c) ==
    /\ call[c] = "idle"
    /\ call' = [call EXCEPT ![c] = IF Free(c) THEN "loading" ELSE "raised"]
    /\ UNCHANGED <<registered, rival, state, task, stop, cancelled, controls, today, accepted, exempt>>

\* The history is there: object, registration and task, in one step.  What is
\* registered by now is not looked at again.
StartReturns(c) ==
    /\ call[c] = "loading"
    /\ call' = [call EXCEPT ![c] = "returned"]
    /\ rival' = [d \in Starts |-> IF d \in Others(c) /\ call[d] = "loading"
                                  THEN rival[d] \cup {c} ELSE rival[d]]
    /\ registered' = [registered EXCEPT ![Id[c]] = c]
    /\ state' = [state EXCEPT ![c] = "RUNNING"]
    /\ task' = [task EXCEPT ![c] = "waiting"]
    /\ controls' = IF c \in Portfolio THEN c ELSE controls
    /\ UNCHANGED <<stop, cancelled, today, accepted, exempt>>

\* get_bars raises; start_portfolio_strategy goes on with an empty history.
StartFails(c) ==
    /\ call[c] = "loading" /\ c \notin Portfolio
    /\ call' = [call EXCEPT ![c] = "raised"]
    /\ UNCHANGED <<registered, rival, state, task, stop, cancelled, controls, today, accepted, exempt>>

-----------------------------------------------------------------------------
(* The tasks.                                                               *)

\* Mutant: the limit is compared with > instead of >=.
OverLimitLate == today > MaxDaily

OverLimit == today >= MaxDaily

\* Callers look for violations of severity "block" only.
Blocked == OverLimit /\ Severity = "block"

Goes(c, place) ==
    /\ task' = [task EXCEPT ![c] = place]
    /\ UNCHANGED <<calls, stop, controls>>

Runs(c, place) == task[c] = place /\ c \notin cancelled

\* A bar, and an order of the strategy: the account is awaited.
Orders(c) ==
    /\ Runs(c, "waiting")
    /\ Goes(c, "account")
    /\ UNCHANGED <<state, cancelled, today, accepted, exempt>>

\* The account has been read, or could not be read, which a single-symbol
\* strategy takes for a portfolio of value 0.  The check of the risk engine and
\* the call of the order manager follow without an await.
Checks(c) ==
    /\ Runs(c, "account")
    /\ Goes(c, IF Blocked THEN "waiting" ELSE "placing")
    /\ UNCHANGED <<state, cancelled, today, accepted, exempt>>

\* The account of a portfolio strategy has no price for the symbol: the risk
\* engine is not asked, and the order is sent whatever the count of the day is.
SkipsCheck(c) ==
    /\ Runs(c, "account") /\ c \in Portfolio
    /\ Goes(c, "unchecked")
    /\ UNCHANGED <<state, cancelled, today, accepted, exempt>>

SkipsPoint(c) ==
    /\ Runs(c, "account") /\ c \in Portfolio
    /\ Goes(c, "waiting")
    /\ UNCHANGED <<state, cancelled, today, accepted, exempt>>

Sending(c) == Runs(c, "placing") \/ Runs(c, "unchecked")

Placed(c) ==
    /\ Sending(c)
    /\ today < MaxOrders
    /\ accepted' = [accepted EXCEPT ![c] = @ + 1]
    /\ today' = today + 1
    /\ exempt' = IF task[c] = "unchecked" THEN exempt + 1 ELSE exempt
    /\ Goes(c, "waiting")
    /\ UNCHANGED <<state, cancelled>>

PlaceFails(c) ==
    /\ Sending(c)
    /\ Goes(c, "waiting")
    /\ UNCHANGED <<state, cancelled, today, accepted, exempt>>

\* The stream ends: the task does, and the instance goes on as RUNNING.
StreamEnds(c) ==
    /\ Runs(c, "waiting")
    /\ Goes(c, "ended")
    /\ UNCHANGED <<state, cancelled, today, accepted, exempt>>

StreamFails(c) ==
    /\ Runs(c, "waiting")
    /\ Goes(c, "ended")
    /\ state' = [state EXCEPT ![c] = "ERROR"]
    /\ UNCHANGED <<cancelled, today, accepted, exempt>>

\* CancelledError ends a task at any of its awaits.
Lands(c) ==
    /\ c \in cancelled /\ Live(c)
    /\ Goes(c, "ended")
    /\ cancelled' = cancelled \ {c}
    /\ UNCHANGED <<state, today, accepted, exempt>>

Task(c) ==
    \/ Orders(c) \/ Checks(c) \/ SkipsCheck(c) \/ SkipsPoint(c)
    \/ Placed(c) \/ PlaceFails(c) \/ StreamEnds(c) \/ StreamFails(c)

-----------------------------------------------------------------------------
(* Stopping and deleting what is registered under an id.                    *)

Running(i) == registered[i] # None /\ state[registered[i]] = "RUNNING"

StopTask(c) ==
    IF Live(c)
    THEN /\ stop' = [stop EXCEPT ![c] = TRUE]
         /\ cancelled' = cancelled \cup {c}
         /\ UNCHANGED state
    ELSE /\ state' = [state EXCEPT ![c] = "STOPPED"]
         /\ UNCHANGED <<stop, cancelled>>

StopStrategy(i) ==
    /\ Running(i) /\ ~stop[registered[i]]
    /\ StopTask(registered[i])
    /\ UNCHANGED <<calls, task, controls, today, accepted, exempt>>

\* The awaited task has ended, whatever state it left: the object is STOPPED.
StopReturns(c) ==
    /\ stop[c] /\ ~Live(c)
    /\ stop' = [stop EXCEPT ![c] = FALSE]
    /\ state' = [state EXCEPT ![c] = "STOPPED"]
    /\ UNCHANGED <<calls, task, cancelled, controls, today, accepted, exempt>>

Deletable(i) == registered[i] # None /\ ~Running(i)

DeleteStrategy(i) ==
    /\ Deletable(i)
    /\ registered' = [registered EXCEPT ![i] = None]
    /\ UNCHANGED <<call, rival, state, task, stop, cancelled, controls, today, accepted, exempt>>

-----------------------------------------------------------------------------
Next ==
    \/ \E c \in Starts : \/ StartChecks(c) \/ StartReturns(c) \/ StartFails(c)
                         \/ Task(c) \/ Lands(c) \/ StopReturns(c)
    \/ \E i \in Ids : StopStrategy(i) \/ DeleteStrategy(i)

Spec == Init /\ [][Next]_vars

\* A cancelled task is run by the event loop, and so is who awaits it.
Fairness == \A c \in Starts : WF_vars(Lands(c)) /\ WF_vars(StopReturns(c))
FairSpec == Spec /\ Fairness

-----------------------------------------------------------------------------
(* Properties.                                                              *)

TypeOK ==
    /\ registered \in [Ids -> Starts \cup {None}]
    /\ call \in [Starts -> {"idle", "loading", "returned", "raised"}]
    /\ state \in [Starts -> {"IDLE", "RUNNING", "STOPPED", "ERROR"}]
    /\ task \in [Starts -> {"none", "waiting", "account", "placing", "unchecked", "ended"}]
    /\ stop \in [Starts -> BOOLEAN] /\ cancelled \subseteq Starts
    /\ rival \in [Starts -> SUBSET Starts]
    /\ controls \in Portfolio \cup {None}
    /\ today \in 0..MaxOrders /\ accepted \in [Starts -> 0..MaxOrders]
    /\ exempt \in 0..MaxOrders

\* A live task that no id leads to, which nobody can stop any more, comes of one
\* thing only: its start call returned while another start call of the same id
\* was loading its history.
OrphansNeedOverlap ==
    \A d \in Starts : Live(d) /\ registered[Id[d]] # d =>
        \E c \in Others(d) : d \in rival[c] /\ call[c] = "returned"

\* The daily limit is read before the order manager is awaited and counted
\* after: each other strategy can be one checked order ahead of the count, and no
\* more.  Orders of symbols without a price are not checked, and come on top.
OvershootIsBounded ==
    Severity = "block" => today <= MaxDaily + Cardinality(Starts) - 1 + exempt

\* An instance that is shown as STOPPED or in ERROR sends nothing.
StoppedStaysQuiet ==
    [][\A c \in Starts : state[c] \in {"STOPPED", "ERROR"} => accepted'[c] = accepted[c]]_vars

\* Stopping comes to its end, whatever the task is waiting for.
StopCallsReturn == \A c \in Starts : stop[c] ~> ~stop[c]

\* What overlapping calls can do is bounded: an instance nobody can stop needs two
\* starts of one id at once, and the daily limit is overshot by no more than one
\* checked order of each other task, besides the orders a portfolio strategy sends
\* unchecked for want of a price (strategy/engine.py:180, :488, live_runner.py:278).
OverlapsAreBounded == TypeOK /\ OrphansNeedOverlap /\ OvershootIsBounded
=============================================================================
