----------------------------- MODULE Strategies -----------------------------
(***************************************************************************)
(* The two sides of live trading: the life of the instances                *)
(* (StrategyEngine) and the loop of one of them (LiveRunner).  Each        *)
(* behaviour is one of the chosen side; the other stays as it was.         *)
(***************************************************************************)
EXTENDS StrategyEngine, Sequences

CONSTANTS
    Symbols, MaxTime, MaxItems, OrderLists, MaxFailures    \* see LiveRunner

\* MAX_CONSECUTIVE_SNAPSHOT_FAILURES is 3 (live_runner.py:51).
ASSUME LoopAssumption ==
    /\ MaxTime \in Nat /\ MaxItems \in Nat /\ MaxFailures \in Nat \ {0}
    /\ OrderLists \subseteq Seq([sym : Symbols, type : {"MARKET", "STOP"}])

VARIABLES
    side,
    queue, items, feeder, delivered, bucket, key, deferred, history, point, pc,
    ending, failures, lately, decided, orders, made, results, placed, sent,
    counted, unpriced, shown, error, stopping, interrupted, lost

Loop == INSTANCE LiveRunner WITH state <- shown, today <- counted, accepted <- sent

loopVars ==
    <<queue, items, feeder, delivered, bucket, key, deferred, history, point, pc,
      ending, failures, lately, decided, orders, made, results, placed, sent,
      counted, unpriced, shown, error, stopping, interrupted, lost>>

StrategiesInit == side \in {"loop", "engine"} /\ Loop!Init /\ Init
StrategiesNext ==
    \/ side = "loop" /\ Loop!Next /\ UNCHANGED <<side, vars>>
    \/ side = "engine" /\ Next /\ UNCHANGED <<side, loopVars>>

\* In its initial state a side has no fair action enabled.
StrategiesSpec ==
    /\ StrategiesInit /\ [][StrategiesNext]_<<side, loopVars, vars>>
    /\ Loop!Fairness /\ Fairness

\* See LiveRunner: delivered bars reach the strategy, in time points of their own time.
BarsAreKept == Loop!BarsAreKept
\* See LiveRunner: what the loop counts is what happened.
CountsAreTrue == Loop!CountsAreTrue
\* What was stopped sends nothing: the loop of an instance, wherever the stop finds
\* it (LiveRunner), and every instance the engine was told to stop (StrategyEngine).
StopIsFinal == Loop!NothingAfterStop /\ StoppedStaysQuiet
\* See LiveRunner: a bucket is fired in the end.
BucketFires == Loop!BucketFires
\* Stopping ends: the loop, unless its cancellation is swallowed (LiveRunner), and
\* the calls that wait for it (StrategyEngine).
StopsEnd == Loop!StopEnds /\ StopCallsReturn
=============================================================================
