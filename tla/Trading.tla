------------------------------- MODULE Trading -------------------------------
(***************************************************************************)
(* The order manager (OrderManager), the protections it asks before it     *)
(* takes an entry (ProtectionManager), and the browsers that follow its    *)
(* orders (OrderStream).  Each behaviour is one of the chosen side; the    *)
(* others stay as they were.                                               *)
(*                                                                         *)
(* The protections come in two settings, Running and Restarted: records of *)
(* the constants of ProtectionManager.                                     *)
(***************************************************************************)
EXTENDS OrderManager

CONSTANTS
    Sides,               \* the sides to check
    Running, Restarted,      \* settings of the protections, sides "live" and "restart"
    Global,              \* see ProtectionManager
    Numbers, LastVersion, Count, Limit   \* see OrderStream

\* What config.py allows: durations and limits are at least 1.
IsSetting(S) ==
    /\ IsFiniteSet(S.symbols) /\ Global \notin S.symbols
    /\ IsFiniteSet(S.configs) /\ S.initial \in S.configs
    /\ S.configs \subseteq [active : BOOLEAN, stop : Nat \ {0}]
    /\ S.lookback \in Nat \ {0} /\ S.guardStop \in Nat \ {0} /\ S.limit \in Nat \ {0}
    /\ S.profit \in Int /\ S.redis \in BOOLEAN
    /\ S.maxTime \in Nat /\ S.maxTrades \in Nat /\ S.maxClears \in Nat /\ S.maxRestarts \in Nat

ASSUME SettingAssumption == IsSetting(Running) /\ IsSetting(Restarted)

VARIABLES
    side,
    now, closings, guards, locks, made, writes, store, saved, put, decision, closed,
    cleared, reboots,
    book, tasks, stream, open, lastId, from, batch, round, view

guardVars ==
    <<now, closings, guards, locks, made, writes, store, saved, put, decision, closed,
      cleared, reboots>>
streamVars == <<book, tasks, stream, open, lastId, from, batch, round, view>>

Guard(S) == INSTANCE ProtectionManager
    WITH Symbols <- S.symbols, Puts <- S.puts, Configs <- S.configs, Initial <- S.initial,
         Lookback <- S.lookback, GuardStop <- S.guardStop, Limit <- S.limit,
         RequiredProfit <- S.profit, Redis <- S.redis, MaxTime <- S.maxTime,
         MaxTrades <- S.maxTrades, MaxClears <- S.maxClears, MaxRestarts <- S.maxRestarts,
         trades <- closings, config <- guards, restarts <- reboots

Stream == INSTANCE OrderStream WITH Orders <- Numbers

TradingInit ==
    /\ side \in Sides
    /\ Init /\ Stream!Init
    /\ IF side = "restart" THEN Guard(Restarted)!Init ELSE Guard(Running)!Init

TradingNext ==
    \/ side = "orders" /\ Next /\ UNCHANGED <<side, guardVars, streamVars>>
    \/ side = "live" /\ Guard(Running)!Next /\ UNCHANGED <<side, vars, streamVars>>
    \/ side = "restart" /\ Guard(Restarted)!Next /\ UNCHANGED <<side, vars, streamVars>>
    \/ side = "stream" /\ Stream!Next /\ UNCHANGED <<side, vars, guardVars>>

TradingSpec == TradingInit /\ [][TradingNext]_<<side, guardVars, streamVars, vars>>

\* With the fairness of the order manager and of the connections; in its initial
\* state a side has no fair action enabled.
FairTradingSpec == TradingSpec /\ Fairness /\ Stream!Fairness

\* See ProtectionManager: locks hold as long as they say, for a cause, and over a
\* restart.
LocksHold ==
    IF side = "restart" THEN Guard(Restarted)!LocksHold ELSE Guard(Running)!LocksHold

\* See OrderStream: a browser shows the orders as they are in the end.
ClientsCatchUp == Stream!ClientsCatchUp
=============================================================================
