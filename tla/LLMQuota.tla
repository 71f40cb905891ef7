------------------------------ MODULE LLMQuota ------------------------------
(***************************************************************************)
(* The daily quota of LLM calls of one user (core/llm_quota.py): a counter *)
(* per day in Redis that is incremented before it is looked at.  Several   *)
(* calls are at it at once, each command may fail (the call then goes on,  *)
(* degraded), the process may end between two commands.                    *)
(***************************************************************************)
EXTENDS Integers, FiniteSets

CONSTANTS
    Calls,        \* calls of consume
    Limit,        \* limit_for the role
    LastDay       \* bound

ASSUME QuotaAssumption == Limit \in Nat \ {0} /\ IsFiniteSet(Calls) /\ LastDay \in Nat

VARIABLES
    today,
    used,         \* used[d]: the counter of day d
    expires,      \* the days whose counter has an expiry
    pc, day,      \* of each call: where it is, the day of its key
    seen          \* what its INCR returned

vars == <<today, used, expires, pc, day, seen>>
Days == 0..LastDay

Init ==
    /\ today = 0
    /\ used = [d \in Days |-> 0] /\ expires = {}
    /\ pc = [c \in Calls |-> "idle"]
    /\ day = [c \in Calls |-> 0] /\ seen = [c \in Calls |-> 0]

Goes(c, where) == pc' = [pc EXCEPT ![c] = where]

\* consume up to its first command; the key is that of the day.
Begin(c) ==
    /\ pc[c] = "idle"
    /\ day' = [day EXCEPT ![c] = today]
    /\ Goes(c, "incr")
    /\ UNCHANGED <<today, used, expires, seen>>

\* Mutant: a call too many is let through.
IsOverLate(n) == n > Limit + 1

IsOver(n) == n > Limit

Verdict(n) == IF IsOver(n) THEN "decr" ELSE "allowed"

First(n) == n = 1

Increments(c) ==
    /\ pc[c] = "incr"
    /\ used' = [used EXCEPT ![day[c]] = @ + 1]
    /\ seen' = [seen EXCEPT ![c] = used[day[c]] + 1]
    /\ Goes(c, IF First(used[day[c]] + 1) THEN "expire" ELSE Verdict(used[day[c]] + 1))
    /\ UNCHANGED <<today, expires, day>>

Expires(c) ==
    /\ pc[c] = "expire"
    /\ expires' = expires \cup {day[c]}
    /\ Goes(c, Verdict(seen[c]))
    /\ UNCHANGED <<today, used, day, seen>>

GivenBack(c) == [used EXCEPT ![day[c]] = @ - 1]

Decrements(c) ==
    /\ pc[c] = "decr"
    /\ used' = GivenBack(c)
    /\ Goes(c, "refused")
    /\ UNCHANGED <<today, expires, day, seen>>

\* A command fails without effect, or its reply is lost: the call is let through.
Fails(c) ==
    /\ \/ pc[c] = "incr" /\ used' \in {used, [used EXCEPT ![day[c]] = @ + 1]}
       \/ pc[c] = "decr" /\ used' \in {used, GivenBack(c)}
       \/ pc[c] = "expire" /\ used' = used
    /\ expires' \in IF pc[c] = "expire" THEN {expires, expires \cup {day[c]}} ELSE {expires}
    /\ Goes(c, CASE pc[c] = "incr" -> "unseen" [] pc[c] = "decr" -> "overrun"
                 [] OTHER -> "unbounded")
    /\ UNCHANGED <<today, day, seen>>

\* The process ends and the call with it.
Crashes(c) ==
    /\ pc[c] \in {"incr", "expire", "decr"}
    /\ Goes(c, "crashed")
    /\ UNCHANGED <<today, used, expires, day, seen>>

Midnight == today < LastDay /\ today' = today + 1 /\ UNCHANGED <<used, expires, pc, day, seen>>

Next ==
    \/ \E c \in Calls :
         Begin(c) \/ Increments(c) \/ Expires(c) \/ Decrements(c) \/ Fails(c) \/ Crashes(c)
    \/ Midnight

Spec == Init /\ [][Next]_vars

-----------------------------------------------------------------------------
(* Properties.                                                              *)

\* The calls that went on because of a failure: degraded = True.
Degraded == {"unseen", "overrun", "unbounded"}

TypeOK ==
    /\ today \in Days
    /\ used \in [Days -> Nat] /\ expires \subseteq Days
    /\ pc \in [Calls -> {"idle", "incr", "expire", "decr", "allowed", "refused", "crashed"}
                        \cup Degraded]
    /\ day \in [Calls -> Days] /\ seen \in [Calls -> Int]

At(d, where) == {c \in Calls : day[c] = d /\ pc[c] \in where}

\* No more calls than the limit are let through on a day, degraded ones apart,
\* however they interleave: the counter is raised before it is looked at.
LimitHolds ==
    \A d \in Days : Cardinality(At(d, {"allowed"})) <= Limit

\* No call within the limit is refused: the limit was reached by calls that went on
\* or are gone.
RefusedForCause ==
    \A d \in Days : At(d, {"refused"}) # {} =>
        Cardinality(At(d, {"allowed", "expire", "crashed"} \cup Degraded)) >= Limit

\* With no call under way, the counter is not above the limit, unless a call over
\* it could not give back what it took.
CounterIsReadable ==
    \A d \in Days : At(d, {"incr", "expire", "decr"}) = {} =>
        used[d] <= Limit \/ At(d, Degraded \cup {"crashed"}) # {}

\* A counter stays without expiry only when its first call failed or ended there.
CountersExpire ==
    \A d \in Days : used[d] > 0 /\ d \notin expires =>
        At(d, {"expire", "crashed", "unseen", "unbounded"}) # {}

\* The quota of a day: no call beyond it, no refusal below it, and a counter that
\* is readable and expires, in whatever order the commands of concurrent calls
\* reach Redis or fail (llm_quota.py:99).
QuotaHolds == TypeOK /\ LimitHolds /\ RefusedForCause /\ CounterIsReadable /\ CountersExpire
=============================================================================
