----------------------------- MODULE LiveRunner -----------------------------
(***************************************************************************)
(* The live loop of one portfolio strategy (strategy/live_runner.py): a    *)
(* feeder task puts bars into a queue, the loop collects the bars of one   *)
(* time point in a bucket, and fires the bucket when it is complete, when  *)
(* its window is over, or when a bar of another time point arrives.  To    *)
(* fire is to read the account, to run the strategy and to send its        *)
(* orders, one by one.  Steps are the pieces of code between two awaits.   *)
(***************************************************************************)
EXTENDS Integers, Sequences, FiniteSets

CONSTANTS
    Symbols,        \* the subscribed symbols
    MaxTime,        \* bars carry the times 1..MaxTime
    MaxItems,       \* bound: items the data service delivers
    OrderLists,     \* the lists of orders one call of on_bars may make
    MaxFailures,    \* MAX_CONSECUTIVE_SNAPSHOT_FAILURES
    MaxDaily        \* the risk engine's MAX_DAILY_ORDERS

VARIABLES
    queue,       \* bars, or a mark: the stream has ended, the stream has failed
    items,       \* items delivered so far
    feeder,      \* the feeder task: "on" or "off"
    delivered,   \* history: the bars the data service has delivered
    bucket,      \* the aggregator's bars: bucket[s] is a time, 0 for none
    key,         \* the time point of the bucket
    deferred,    \* the bar of another time point that waits for the bucket to fire
    history,     \* history[s]: the times of the bars absorbed
    point,       \* the time point that is being fired, with its bars
    pc,          \* where the loop is
    ending,      \* the stream has ended: the loop returns after this bucket
    failures,    \* snapshot_failures
    lately,      \* history: the last MaxFailures snapshots, TRUE for read
    decided,     \* history: the time points the strategy was run for
    orders,      \* orders of this time point still to be sent
    made,        \* how many orders on_bars made
    results,     \* results[k]: how many orders of this time point ended as k
    placed,      \* the instance's orders_placed
    accepted,    \* history: orders the order manager has taken
    today,       \* the risk engine's count of orders
    unpriced,    \* history: orders sent without a reference price
    state,       \* the instance: "RUNNING", "STOPPED" or "ERROR"
    error,       \* why: "none", "snapshot" or "stream"
    stopping,    \* stop_strategy awaits the task
    interrupted, \* task.cancel() has been called and has not landed
    lost         \* a cancellation was swallowed by wait_for

feed    == <<queue, items, feeder, delivered>>
bars    == <<bucket, key, deferred, history, point>>
account == <<failures, lately, decided>>
sending == <<orders, made, results, placed, accepted, today, unpriced>>
control == <<state, error, stopping, interrupted, lost>>
vars    == <<feed, bars, account, sending, control, pc, ending>>

Bars == [sym : Symbols, time : 1..MaxTime]
END == [sym |-> "end", time |-> 0]          \* _STREAM_END
FAILED == [sym |-> "failed", time |-> 0]    \* an exception of the data service
NoBars == [s \in Symbols |-> 0]
NoPoint == [time |-> 0, bars |-> {}]
NoResults == [k \in {"sent", "error"} |-> 0]
In(bk) == {s \in Symbols : bk[s] # 0}
done == pc = "ended"

Init ==
    /\ queue = <<>> /\ items = 0 /\ feeder = "on" /\ delivered = {}
    /\ bucket = NoBars /\ key = 0 /\ deferred = {}
    /\ history = [s \in Symbols |-> {}]
    /\ point = NoPoint
    /\ pc = "next" /\ ending = FALSE
    /\ failures = 0 /\ lately = <<>> /\ decided = <<>>
    /\ orders = <<>> /\ made = 0 /\ results = NoResults
    /\ placed = 0 /\ accepted = 0 /\ today = 0 /\ unpriced = 0
    /\ state = "RUNNING" /\ error = "none"
    /\ stopping = FALSE /\ interrupted = FALSE /\ lost = FALSE

-----------------------------------------------------------------------------
(* The feeder.  Bars of one symbol come in the order of their times; a feed *)
(* that polls repeats the latest one; symbols may lag behind one another.   *)

Feeds(item) ==
    /\ feeder = "on" /\ items < MaxItems
    /\ items' = items + 1
    /\ queue' = Append(queue, item)
    /\ UNCHANGED <<bars, account, sending, control, pc, ending>>

FeedBar(b) ==
    /\ \A d \in delivered : d.sym = b.sym => d.time <= b.time
    /\ delivered' = delivered \cup {b}
    /\ UNCHANGED feeder
    /\ Feeds(b)

FeedStops(mark) ==
    /\ feeder' = "off"
    /\ UNCHANGED delivered
    /\ Feeds(mark)

-----------------------------------------------------------------------------
(* The aggregator and the loop.                                             *)

\* The bucket is taken, its bars become history, and the account is read.
Fire(bk, k) ==
    /\ point' = [time |-> k, bars |-> {[sym |-> s, time |-> bk[s]] : s \in In(bk)}]
    /\ history' = [s \in Symbols |-> history[s] \cup ({bk[s]} \ {0})]
    /\ bucket' = NoBars
    /\ key' = 0
    /\ pc' = "account"

\* A bar was put into the bucket: a complete bucket is fired at once.
Collect(bk, k) ==
    IF In(bk) = Symbols
    THEN Fire(bk, k)
    ELSE /\ bucket' = bk /\ key' = k
         /\ pc' = "next"
         /\ point' = NoPoint
         /\ UNCHANGED history

Fits(b) == In(bucket) = {} \/ b.time = key

\* Mutant: the bar that closes a bucket is not kept for the next one.
DefersNothing(b) == {}

Defers(b) == {b}

TakeBar(b) ==
    IF Fits(b)
    THEN Collect([bucket EXCEPT ![b.sym] = b.time], IF In(bucket) = {} THEN b.time ELSE key)
         /\ UNCHANGED deferred
    ELSE Fire(bucket, key) /\ deferred' = Defers(b)

\* After a time point: return, or add the deferred bar, or turn to the queue.
Proceeds ==
    IF ending \/ deferred = {}
    THEN /\ pc' = IF ending THEN "closing" ELSE "next"
         /\ point' = NoPoint
         /\ UNCHANGED <<bucket, key, deferred, history>>
    ELSE /\ \E b \in deferred : Collect([NoBars EXCEPT ![b.sym] = b.time], b.time)
         /\ deferred' = {}

\* queue.get returns: a bar, the end (what is left is fired), or an exception,
\* which ends the loop.
TakeItem ==
    /\ pc = "next" /\ queue # <<>>
    /\ queue' = Tail(queue)
    /\ LET item == Head(queue) IN
       \/ /\ item \in Bars
          /\ TakeBar(item)
          /\ UNCHANGED <<ending, state, error>>
       \/ /\ item = END
          /\ ending' = TRUE
          /\ IF In(bucket) # {} THEN Fire(bucket, key)
             ELSE pc' = "closing" /\ UNCHANGED <<bucket, key, history, point>>
          /\ UNCHANGED <<deferred, state, error>>
       \/ /\ item = FAILED
          /\ pc' = "closing"
          /\ state' = "ERROR" /\ error' = "stream"
          /\ UNCHANGED <<ending, bars>>
    /\ UNCHANGED <<items, feeder, delivered, account, sending, stopping>>

Take ==
    /\ ~interrupted
    /\ TakeItem
    /\ UNCHANGED <<interrupted, lost>>

\* The window of a bucket is over: wait_for gives up, even if an item has
\* just come.
WindowEnds ==
    /\ pc = "next" /\ In(bucket) # {} /\ ~interrupted
    /\ Fire(bucket, key)
    /\ UNCHANGED <<feed, deferred, account, sending, control, ending>>

-----------------------------------------------------------------------------
(* One time point: the snapshot, the strategy, the orders.                  *)

Recent(ok) ==
    LET all == Append(lately, ok) IN
    IF Len(all) > MaxFailures THEN Tail(all) ELSE all

\* get_account or get_positions raises, or the account is not usable: the time
\* point is skipped, or the loop is given up.
SnapshotFails ==
    /\ pc \in {"account", "positions"} /\ ~interrupted
    /\ failures' = failures + 1
    /\ lately' = Recent(FALSE)
    /\ IF failures' >= MaxFailures
       THEN pc' = "closing" /\ state' = "ERROR" /\ error' = "snapshot" /\ UNCHANGED bars
       ELSE Proceeds /\ UNCHANGED <<state, error>>
    /\ UNCHANGED <<feed, decided, sending, ending, stopping, interrupted, lost>>

AccountReads ==
    /\ pc = "account" /\ ~interrupted
    /\ pc' = "positions"
    /\ UNCHANGED <<feed, bars, account, sending, control, ending>>

\* Mutant: a snapshot that could be read does not end a row of failures.
RecoveredNot == failures

Recovered == 0

\* The snapshot is complete, and on_bars runs: o is what it ordered.
Decides(o) ==
    /\ pc = "positions" /\ ~interrupted
    /\ failures' = Recovered
    /\ lately' = Recent(TRUE)
    /\ decided' = Append(decided, point.time)
    /\ orders' = o /\ made' = Len(o) /\ results' = NoResults
    /\ pc' = "flush"
    /\ UNCHANGED <<feed, bars, control, ending, placed, accepted, today, unpriced>>

\* _risk_block_reason: an order without a reference price is not checked; of
\* the rules, only the daily count has a state, and the others may block.
Priced(o) == history[o.sym] # {}
MayBlock(o) == Priced(o)
MustBlock(o) == Priced(o) /\ today >= MaxDaily

Answered(k) ==
    /\ orders' = Tail(orders)
    /\ results' = [results EXCEPT ![k] = @ + 1]

Refused == Answered("error")

\* An order of a type no broker takes, or one that the risk engine blocks.
FlushRefuses ==
    /\ pc = "flush" /\ orders # <<>>
    /\ Head(orders).type = "STOP" \/ MayBlock(Head(orders))
    /\ Refused
    /\ UNCHANGED <<feed, bars, account, control, pc, ending, made, placed, accepted, today, unpriced>>

FlushSends ==
    /\ pc = "flush" /\ orders # <<>>
    /\ Head(orders).type = "MARKET" /\ ~MustBlock(Head(orders))
    /\ unpriced' = IF Priced(Head(orders)) THEN unpriced ELSE unpriced + 1
    /\ pc' = "placing"
    /\ UNCHANGED <<feed, bars, account, control, ending, orders, made, results, placed, accepted, today>>

Submitted == accepted' = accepted + 1 /\ today' = today + 1

OrderReturns ==
    /\ pc = "placing" /\ ~interrupted
    /\ Submitted
    /\ Answered("sent")
    /\ pc' = "flush"
    /\ UNCHANGED <<feed, bars, account, control, ending, made, placed, unpriced>>

OrderRaises ==
    /\ pc = "placing" /\ ~interrupted
    /\ Answered("error")
    /\ pc' = "flush"
    /\ UNCHANGED <<feed, bars, account, control, ending, made, placed, accepted, today, unpriced>>

Sent == results["sent"]

\* All orders are answered: the step is reported to the instance.
Reports ==
    /\ pc = "flush" /\ orders = <<>>
    /\ placed' = placed + Sent
    /\ made' = 0 /\ results' = NoResults
    /\ Proceeds
    /\ UNCHANGED <<feed, account, control, ending, orders, accepted, today, unpriced>>

\* Mutant: the feeder is awaited and not cancelled.
FeederIsOverAlone == feeder = "off"

FeederIsOver == TRUE

\* The feeder is cancelled and awaited, and the task is over.  A cancellation
\* that lands here is suppressed.  A stream that has ended leaves the state of
\* the instance as it is.
Closes ==
    /\ pc = "closing" /\ FeederIsOver
    /\ pc' = "ended"
    /\ feeder' = "off"
    /\ interrupted' = FALSE
    /\ UNCHANGED <<queue, items, delivered, bars, account, sending, ending, state, error, stopping, lost>>

-----------------------------------------------------------------------------
(* Stopping the instance.                                                   *)

\* Mutant: the instance is marked at once, the task is cancelled and not awaited.
StopNow == state' = "STOPPED" /\ interrupted' = ~done /\ UNCHANGED stopping

StopTask ==
    IF done THEN state' = "STOPPED" /\ UNCHANGED <<stopping, interrupted>>
            ELSE stopping' = TRUE /\ interrupted' = TRUE /\ UNCHANGED state

\* The endpoint lets a running instance be stopped, and be stopped again while
\* a first request is still waiting.
Stop ==
    /\ state = "RUNNING" /\ ~interrupted
    /\ StopTask
    /\ UNCHANGED <<feed, bars, account, sending, error, pc, ending, lost>>

\* CancelledError is raised at the await the task is at; an order that is
\* being placed is counted by nobody here.
InterruptLands ==
    /\ interrupted /\ pc \in {"next", "account", "positions", "placing"}
    /\ interrupted' = FALSE
    /\ pc' = "closing"
    /\ UNCHANGED <<feed, bars, account, sending, ending, state, error, stopping, lost>>

\* wait_for (Python 3.11) returns the item instead of raising when both come in
\* one turn of the event loop: the loop takes the bar and goes on.
InterruptSwallowed ==
    /\ interrupted /\ In(bucket) # {}
    /\ TakeItem
    /\ interrupted' = FALSE
    /\ lost' = TRUE

StopReturns ==
    /\ stopping /\ done
    /\ stopping' = FALSE
    /\ state' = "STOPPED"
    /\ UNCHANGED <<feed, bars, account, sending, error, pc, ending, interrupted, lost>>

-----------------------------------------------------------------------------
Feed == \/ \E b \in Bars : FeedBar(b)
        \/ \E mark \in {END, FAILED} : FeedStops(mark)

\* Mutant: a bucket waits for its last symbol.
TimeoutNever == FALSE /\ UNCHANGED vars

Timeout == WindowEnds

Step == \/ Take \/ AccountReads \/ SnapshotFails
        \/ \E o \in OrderLists : Decides(o)
        \/ FlushRefuses \/ FlushSends \/ OrderReturns \/ OrderRaises
        \/ Reports \/ Closes

Interrupt == InterruptLands \/ InterruptSwallowed

Next == Feed \/ Step \/ Timeout \/ Stop \/ Interrupt \/ StopReturns

Spec == Init /\ [][Next]_vars

\* asyncio runs a task that is ready, its awaits end, timers fire, and a
\* cancellation is delivered.  Nothing is assumed of the data service or of
\* the operator.
Fairness == WF_vars(Step) /\ WF_vars(Timeout) /\ WF_vars(Interrupt) /\ WF_vars(StopReturns)
FairSpec == Spec /\ Fairness

-----------------------------------------------------------------------------
(* Properties.                                                              *)

TypeOK ==
    /\ queue \in Seq(Bars \cup {END, FAILED}) /\ items \in 0..MaxItems
    /\ feeder \in {"on", "off"} /\ delivered \subseteq Bars
    /\ bucket \in [Symbols -> 0..MaxTime] /\ key \in 0..MaxTime
    /\ deferred \subseteq Bars /\ Cardinality(deferred) <= 1
    /\ history \in [Symbols -> SUBSET (1..MaxTime)]
    /\ point \in [time : 0..MaxTime, bars : SUBSET Bars]
    /\ pc \in {"next", "account", "positions", "flush", "placing", "closing", "ended"}
    /\ failures \in 0..MaxFailures /\ Len(lately) <= MaxFailures
    /\ Len(orders) <= made /\ today <= accepted /\ placed <= accepted
    /\ state \in {"RUNNING", "STOPPED", "ERROR"} /\ error \in {"none", "snapshot", "stream"}
    /\ {ending, stopping, interrupted, lost} \subseteq BOOLEAN

\* Until the loop is given up, every bar that was delivered is in the queue,
\* deferred, in the bucket, or in the history the strategy reads; when the
\* stream has ended, it is in the history.
NoBarLost ==
    /\ pc \notin {"closing", "ended"} =>
        \A b \in delivered :
            \/ \E i \in DOMAIN queue : queue[i] = b
            \/ b \in deferred
            \/ bucket[b.sym] = b.time
            \/ b.time \in history[b.sym]
    /\ ending => \A b \in delivered : b.time \in history[b.sym]

\* The bars a strategy is shown belong to one time point, the one it is told:
\* a bar of another point is deferred, not mixed in.
PointsAreNotMixed == \A b \in point.bars : b.time = point.time

\* An instance ends in ERROR for its account exactly when MaxFailures snapshots
\* in a row could not be read: single failures skip their time point only.
FailuresInARow ==
    error = "snapshot" <=> (Len(lately) = MaxFailures /\ \A i \in DOMAIN lately : ~lately[i])

\* Every order of a time point is answered, whatever became of the ones before
\* it, and the instance's count is the number the order manager took.
OrdersAreAccounted ==
    /\ pc \in {"flush", "placing"} => Len(orders) + results["sent"] + results["error"] = made
    /\ pc = "next" => placed = accepted

\* The daily limit of the risk engine holds for one strategy, but for orders
\* of symbols without any price, which it does not look at.
DailyLimitHolds == accepted <= MaxDaily + unpriced

\* An instance that is shown as STOPPED or ERROR neither decides nor orders.
NothingAfterStop == [][state # "RUNNING" => UNCHANGED <<decided, accepted>>]_vars

\* A bucket does not wait for ever for a symbol that is suspended.
BucketFires == (In(bucket) # {}) ~> (In(bucket) = {} \/ done)

\* A stop request comes to its end, unless its cancellation was swallowed.
StopEnds == stopping ~> (~stopping \/ lost)

\* The feed reaches the strategy: every delivered bar, in a time point of its own
\* time (bars_for_points, live_runner.py:487).
BarsAreKept == TypeOK /\ NoBarLost /\ PointsAreNotMixed

\* What the loop counts is what happened: failures in a row, answers to orders, and
\* the orders of the day (live_runner.py:501, flush of the orders).
CountsAreTrue == FailuresInARow /\ OrdersAreAccounted /\ DailyLimitHolds
=============================================================================
