----------------------------- MODULE Reconcile -----------------------------
(***************************************************************************)
(* Reconciliation of the order book of a process with the positions at the *)
(* broker.  The orders behave as the ledger promises (OrderLedger: the     *)
(* broker executes, the book follows), others trade on the same account,   *)
(* the process may start again with an empty book, and the check reads the *)
(* book first and the broker an await later.  The Celery task runs it in a *)
(* worker, whose book is empty.  Positions are of one market; symbols whose *)
(* position is 0 on both sides do not differ.                              *)
(***************************************************************************)
EXTENDS Integers, FiniteSets, Functions

CONSTANTS
    Ids, Qty,          \* orders and their quantities
    Sym, Side,         \* of an order: its symbol, and 1 for BUY or -1 for SELL
    Checks,
    MaxOutside, MaxRestarts  \* bounds

VARIABLES
    executed, reported,      \* see OrderLedger
    booked,                  \* orders in the book of the API process
    outside,                 \* outside[s]: net quantity others have traded
    trades, restarts,        \* how often
    pc, by,                  \* of each check: where it is; "api" (the endpoint),
                             \* "cash" (the endpoint, cash too) or "task" (Celery)
    local, count,            \* what it read of the book
    diffs,                   \* the symbols that differ
    result, told,            \* how it ended, and whether users were notified
    failed,                  \* history: checks one of whose requests failed
    behind, moved            \* history, of each check: symbols with executions the book
                             \* did not show when it was read, and symbols traded since

ledger == <<executed, reported>>
world == <<booked, outside, trades, restarts>>
checks == <<pc, by, local, count, diffs, result, told>>
past == <<behind, moved, failed>>
vars == <<ledger, world, checks, past>>

Ledger == INSTANCE OrderLedger

Symbols == {Sym[o] : o \in Ids}
Waiting == {c \in Checks : pc[c] \in {"positions", "account"}}

\* Net quantity of the orders S on a symbol, by a quantity for each order.
Net(S, q, s) ==
    SumFunctionOnSet([o \in S |-> Side[o] * q[o]], {o \in S : Sym[o] = s})

Broker == [s \in Symbols |-> Net(Ids, executed, s) + outside[s]]

Init ==
    /\ Ledger!Init
    /\ booked = {} /\ outside = [s \in Symbols |-> 0] /\ trades = 0 /\ restarts = 0
    /\ pc = [c \in Checks |-> "idle"] /\ by = [c \in Checks |-> "api"]
    /\ local = [c \in Checks |-> [s \in Symbols |-> 0]] /\ count = [c \in Checks |-> 0]
    /\ diffs = [c \in Checks |-> {}]
    /\ result = [c \in Checks |-> "none"] /\ told = [c \in Checks |-> FALSE]
    /\ behind = [c \in Checks |-> {}] /\ moved = [c \in Checks |-> {}] /\ failed = {}

Traded(s) == moved' = [c \in Checks |-> IF c \in Waiting THEN moved[c] \cup {s} ELSE moved[c]]

-----------------------------------------------------------------------------
(* The account and the book.                                                *)

Submits(o) ==
    /\ o \notin booked /\ executed[o] = 0 /\ restarts = 0
    /\ booked' = booked \cup {o}
    /\ UNCHANGED <<ledger, outside, trades, restarts, checks, past>>

Executes(o) ==
    /\ o \in booked \/ executed[o] > 0
    /\ Ledger!Execute(o) /\ Traded(Sym[o])
    /\ UNCHANGED <<world, checks, behind, failed>>

\* A poll, of orders the book has.
Reports(o) ==
    /\ o \in booked /\ executed[o] # reported[o]
    /\ Ledger!Report(o)
    /\ UNCHANGED <<world, checks, past>>

\* Somebody trades by other means.
TradesOutside(s) ==
    /\ trades < MaxOutside /\ trades' = trades + 1
    /\ \E n \in {-1, 1} : outside' = [outside EXCEPT ![s] = @ + n]
    /\ Traded(s)
    /\ UNCHANGED <<ledger, booked, restarts, checks, behind, failed>>

\* The API process starts again: its book is empty, its checks are gone.
Restarts ==
    /\ restarts < MaxRestarts /\ restarts' = restarts + 1
    /\ booked' = {}
    /\ LET gone == {c \in Waiting : by[c] # "task"}
       IN /\ pc' = [c \in Checks |-> IF c \in gone THEN "done" ELSE pc[c]]
          /\ result' = [c \in Checks |-> IF c \in gone THEN "gone" ELSE result[c]]
    /\ UNCHANGED <<ledger, outside, trades, by, local, count, diffs, told, past>>

-----------------------------------------------------------------------------
(* The check.                                                               *)

BookOf(who) == IF who = "task" THEN {} ELSE booked

Filled == reported

\* local_net_positions, then the request to the broker.
Reads(c) ==
    /\ pc[c] = "idle"
    /\ \E who \in {"api", "cash", "task"} :
         /\ by' = [by EXCEPT ![c] = who]
         /\ local' = [local EXCEPT ![c] = [s \in Symbols |-> Net(BookOf(who), Filled, s)]]
         /\ count' = [count EXCEPT ![c] = Cardinality(BookOf(who))]
         /\ behind' = [behind EXCEPT ![c] = {Sym[o] : o \in
              {x \in Ids : executed[x] # (IF x \in BookOf(who) THEN reported[x] ELSE 0)}}]
    /\ pc' = [pc EXCEPT ![c] = "positions"]
    /\ UNCHANGED <<ledger, world, diffs, result, told, moved, failed>>

\* The task finds no gateway in its process, which is logged.
NoGateway(c) ==
    /\ pc[c] = "idle" /\ by' = [by EXCEPT ![c] = "task"]
    /\ pc' = [pc EXCEPT ![c] = "done"]
    /\ result' = [result EXCEPT ![c] = "unregistered"]
    /\ UNCHANGED <<ledger, world, local, count, diffs, told, past>>

\* Mutant: no difference is a clean result.
CleanByCount(reachable, D) == D = {}

\* is_clean.
Clean(reachable, D) == reachable /\ D = {}

\* _suppression_reason, of the task only.
Suppressed(c, D) ==
    by[c] = "task" /\ count[c] = 0 /\ D # {} /\ \A s \in D : local[c][s] = 0

Verdict(c, reachable, D) ==
    CASE Clean(reachable, D) -> "clean"
      [] ~reachable /\ ~Clean(reachable, D) -> "unreachable"
      [] OTHER -> IF Suppressed(c, D) THEN "suppressed" ELSE "different"

\* The result, with no differences unless the broker answered, and who is told.
Ends(c, reachable, D) ==
    LET shown == IF reachable THEN D ELSE {}
        verdict == Verdict(c, reachable, shown)
    IN /\ pc' = [pc EXCEPT ![c] = "done"]
       /\ diffs' = [diffs EXCEPT ![c] = shown]
       /\ result' = [result EXCEPT ![c] = verdict]
       /\ local' = [local EXCEPT ![c] = [s \in Symbols |-> 0]]
       /\ count' = [count EXCEPT ![c] = 0]
       /\ told' = [told EXCEPT ![c] = verdict \in {"unreachable", "different"}]

\* diff_positions.
Differ(c) == {s \in Symbols : local[c][s] # Broker[s]}

\* The positions arrive; with cash to compare, another request follows.
Answers(c) ==
    /\ pc[c] = "positions"
    /\ IF by[c] = "cash"
       THEN /\ pc' = [pc EXCEPT ![c] = "account"]
            /\ diffs' = [diffs EXCEPT ![c] = Differ(c)]
            /\ UNCHANGED <<local, count, result, told>>
       ELSE Ends(c, TRUE, Differ(c))
    /\ UNCHANGED <<ledger, world, by, past>>

\* The cash arrives; that it differs is left out.
CashAnswers(c) ==
    /\ pc[c] = "account"
    /\ Ends(c, TRUE, diffs[c])
    /\ UNCHANGED <<ledger, world, by, past>>

\* Either request fails.
BrokerFails(c) ==
    /\ pc[c] \in {"positions", "account"}
    /\ Ends(c, FALSE, diffs[c])
    /\ failed' = failed \cup {c}
    /\ UNCHANGED <<ledger, world, by, behind, moved>>

Next ==
    \/ \E o \in Ids : Submits(o) \/ Executes(o) \/ Reports(o)
    \/ \E s \in Symbols : TradesOutside(s)
    \/ Restarts
    \/ \E c \in Checks :
         Reads(c) \/ NoGateway(c) \/ Answers(c) \/ CashAnswers(c) \/ BrokerFails(c)

Spec == Init /\ [][Next]_vars

-----------------------------------------------------------------------------
(* Properties.                                                              *)

TypeOK ==
    /\ \A o \in Ids : 0 <= reported[o] /\ reported[o] <= executed[o]
    /\ booked \subseteq Ids /\ outside \in [Symbols -> Int]
    /\ pc \in [Checks -> {"idle", "positions", "account", "done"}]
    /\ local \in [Checks -> [Symbols -> Int]]
    /\ result \in [Checks -> {"none", "clean", "different", "suppressed", "unreachable",
                           "unregistered", "gone"}]

Compared == {c \in Checks : result[c] \in {"clean", "different", "suppressed"}}

\* A symbol that differs has a cause: executions the book did not show yet, trades
\* while the answer was under way or by others, or orders the book has lost.
DifferencesHaveACause ==
    \A c \in Compared : \A s \in diffs[c] :
        s \in behind[c] \cup moved[c] \/ trades > 0

\* With trades on one side only, a clean result means that the book showed every
\* execution when it was read, unless others traded.
CleanIsComplete ==
    \A c \in Checks : result[c] = "clean" /\ trades = 0 =>
        \A s \in behind[c] :
            Cardinality({Side[o] : o \in {x \in Ids : Sym[x] = s}}) = 2

\* A check that could not ask the broker everything is never clean, shows no
\* differences as its result, and is told.
UnreachableIsNeverClean ==
    \A c \in failed : result[c] = "unreachable" /\ diffs[c] = {} /\ told[c]

\* The scheduled check tells only that the broker cannot be reached: the book of its
\* process is empty, and whatever differs is taken for that.
TaskTellsOnlyUnreachable ==
    \A c \in Checks : by[c] = "task" /\ told[c] => result[c] = "unreachable"

\* What a reconciliation reports is true: a difference has a cause, "clean" means
\* that everything was compared, a broker out of reach is never clean, and the
\* scheduled task tells of nothing else (reconcile.py).
ReportsAreTrue ==
    /\ TypeOK
    /\ DifferencesHaveACause /\ CleanIsComplete
    /\ UnreachableIsNeverClean /\ TaskTellsOnlyUnreachable
=============================================================================
