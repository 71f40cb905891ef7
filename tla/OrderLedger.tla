----------------------------- MODULE OrderLedger -----------------------------
(***************************************************************************)
(* What the OMS promises about executions, whatever the order of polls,    *)
(* cancels, fills and replies: each order has a true executed quantity,    *)
(* which only the broker raises and never beyond the order's quantity, and *)
(* a reported one, which follows it monotonically and never runs ahead.    *)
(***************************************************************************)
EXTENDS Integers

CONSTANTS Ids, Qty

VARIABLES
  executed,   \* the quantity the broker has executed
  reported    \* the quantity the order book shows

Init ==
  /\ executed = [o \in Ids |-> 0]
  /\ reported = [o \in Ids |-> 0]

\* The broker executes more of the order.
Execute(o) ==
  /\ \E n \in (executed[o] + 1) .. Qty[o] : executed' = [executed EXCEPT ![o] = n]
  /\ UNCHANGED reported

\* The order book learns of executions that have happened.
Report(o) ==
  /\ \E n \in reported[o] .. executed[o] : reported' = [reported EXCEPT ![o] = n]
  /\ UNCHANGED executed

Next == \E o \in Ids : Execute(o) \/ Report(o)

Spec == Init /\ [][Next]_<<executed, reported>>
=============================================================================
