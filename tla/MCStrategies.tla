---------------------------- MODULE MCStrategies ----------------------------
(***************************************************************************)
(* One run for the two sides of live trading (Strategies): three start     *)
(* calls, and a loop of two symbols.                                       *)
(***************************************************************************)
EXTENDS Strategies, TLC

CONSTANTS s1, s2, c1, c2, c3

\* No order; an order; one that is refused before one that is not.
MCOrderLists ==
    {<<>>,
     <<[sym |-> s1, type |-> "MARKET"]>>,
     <<[sym |-> s1, type |-> "STOP"], [sym |-> s2, type |-> "MARKET"]>>}

\* Two calls for one id, and a portfolio strategy.
MCId == (c1 :> 1) @@ (c2 :> 1) @@ (c3 :> 2)
=============================================================================
