--------------------------- MODULE MCOrderManager ---------------------------
(***************************************************************************)
(* The instances of Trading that are checked.                              *)
(*                                                                         *)
(* "live": two symbols, operators who change the configuration, no Redis   *)
(* and a guard that counts the exits.  "restart": one symbol, a Redis      *)
(* whose writes land late or fail, a restart, and the required_profit of 0 *)
(* with which the guard counts none.                                       *)
(***************************************************************************)
EXTENDS Trading

CONSTANTS
    o1, o2,      \* orders
    s1, s2, c1   \* symbols, a request for a configuration

\* One symbol: o1 buys, the others sell.
MCSymbol == [o \in Ids |-> "AAPL"]
MCSide == [o \in Ids |-> IF o = o1 THEN "BUY" ELSE "SELL"]

\* Two shares can fill in one or two executions.
MCQty == [o \in Ids |-> 2]
MCQtyMixed == [o \in Ids |-> IF o = o1 THEN 2 ELSE 1]

\* The protections switched on and off; the cooldown outlasts the lookback.
MCShort == [active |-> TRUE, stop |-> 2]
MCOff == [active |-> FALSE, stop |-> 2]
MCLong == [active |-> TRUE, stop |-> 3]

MCRunning ==
    [symbols |-> {s1, s2}, puts |-> {c1}, configs |-> {MCShort, MCOff}, initial |-> MCShort,
     lookback |-> 1, guardStop |-> 2, limit |-> 2, profit |-> 1, redis |-> FALSE,
     maxTime |-> 3, maxTrades |-> 2, maxClears |-> 0, maxRestarts |-> 0]
MCRestarted ==
    [symbols |-> {s1}, puts |-> {}, configs |-> {MCLong}, initial |-> MCLong,
     lookback |-> 1, guardStop |-> 2, limit |-> 2, profit |-> 0, redis |-> TRUE,
     maxTime |-> 3, maxTrades |-> 2, maxClears |-> 1, maxRestarts |-> 1]

MCLastVersion == <<1, 2>>
=============================================================================
