------------------------- MODULE ProtectionManager -------------------------
(***************************************************************************)
(* The dynamic protections (oms/protections): rules over the closed trades *)
(* of the order book lock entries for a while, and the active locks are    *)
(* kept in Redis by background writes so that they survive a restart.      *)
(*                                                                         *)
(* Two rules are modelled, the two the trade source of the OMS can trigger: *)
(* StoplossGuard (a lock of everything, and one of each symbol concerned,   *)
(* after Limit stop-loss exits) and CooldownPeriod (a lock of a symbol      *)
(* after an exit).  MaxDrawdown and LowProfitPairs read profits, which that *)
(* source reports as 0.                                                     *)
(*                                                                          *)
(* Every method of the manager runs without an await; Redis writes are      *)
(* tasks of their own, each on a connection of its own, and land in any     *)
(* order, or fail silently.  Time is counted in ticks.                      *)
(***************************************************************************)
EXTENDS Integers, FiniteSets, FiniteSetsExt

CONSTANTS
  Symbols,         \* the traded symbols
  Puts,            \* concurrent PUT /protections/config requests
  Configs,         \* the configurations operators use: [active, stop], where
                   \* stop is the cooldown's stop_duration
  Initial,         \* the configuration at the start
  Lookback,        \* lookback of the two rules
  GuardStop,       \* StoplossGuard.stop_duration
  Limit,           \* StoplossGuard.trade_limit
  RequiredProfit,  \* StoplossGuard.required_profit
  Redis,           \* whether the manager has a redis_client
  MaxTime,         \* bound of the clock
  MaxTrades,       \* bound of the trades closed in a behaviour
  MaxClears,       \* bound of the locks operators clear in a behaviour
  MaxRestarts,     \* bound of the restarts in a behaviour
  Global           \* the scope of a lock of every symbol

VARIABLES
  now,       \* the time
  trades,    \* the filled SELL orders of the order book
  config,    \* ProtectionManager._config
  locks,     \* ProtectionManager._locks
  made,      \* [key -> locks created so far], numbers the ids
  writes,    \* the Redis writes under way
  store,     \* the Redis hash protections:locks
  saved,     \* the Redis hash protections:config
  put,       \* where each PUT request is
  decision,  \* the answer of the check_entry just made, if any
  closed,    \* every trade ever closed (history)
  cleared,   \* every lock an operator cleared (history)
  restarts   \* the restarts so far

lockVars == <<locks, made, writes>>
configVars == <<config, saved, put>>
history == <<closed, cleared, restarts>>
vars == <<now, trades, lockVars, store, configVars, decision, history>>

\* dedup_key: the rule of a lock and what it locks.
Keys == {<<"guard", Global>>} \union ({"guard", "cooldown"} \X Symbols)

\* ActiveLock.id, a UUID
id(l) == <<l.key, l.n>>

\* ActiveLock.is_active
is_active(l) == l.until > now

\* _persist_lock, _persist_delete: background writes, if there is a Redis.
Save(ls) == {[op |-> "save", lock |-> l] : l \in IF Redis THEN ls ELSE {}}
Delete(ls) == {[op |-> "delete", lock |-> l] : l \in IF Redis THEN ls ELSE {}}

-----------------------------------------------------------------------------
(* Rules *)

\* Mutant: the stop durations are left out.
WidestLookback == Lookback

\* _widest_since: the longest lookback or stop of the enabled rules.
Widest == Max({1, Lookback, config.stop, GuardStop})

\* What evaluate looks at: _fetch_trades(None, _widest_since(now)).
Fetched(tr) == {t \in tr : t.close >= now - Widest}

Within(tr, ticks) == {t \in tr : t.close >= now - ticks}

\* StoplossGuard._count_stoplosses: every trade has profit_ratio 0.
Stoplosses(tr) == {t \in tr : t.stop /\ 0 < RequiredProfit}

\* evaluate gives a rule's stop_per_symbol the symbol's trades of this window.
SymbolTrades(tr, sym, stop) ==
  {t \in Within(tr, Max({Lookback, stop})) : t.symbol = sym}

\* StoplossGuard.global_stop and stop_per_symbol
GuardResult(tr, scope) ==
  IF Cardinality(Stoplosses(tr)) < Limit THEN {}
  ELSE {[key |-> <<"guard", scope>>, until |-> now + GuardStop]}

\* CooldownPeriod.stop_per_symbol
CooldownResult(tr, sym) ==
  LET recent == Within(tr, config.stop)
      until == Max({t.close : t \in recent}) + config.stop
  IN IF recent = {} \/ until <= now THEN {}
     ELSE {[key |-> <<"cooldown", sym>>, until |-> until]}

\* The results of all rules over the trades tr, one per key at most.
Results(tr) ==
  GuardResult(Within(tr, Lookback), Global) \union
  UNION {GuardResult(SymbolTrades(tr, sym, GuardStop), sym) \union
         CooldownResult(SymbolTrades(tr, sym, config.stop), sym) : sym \in Symbols}

-----------------------------------------------------------------------------
(* evaluate *)

Alive == {l \in locks : is_active(l)}

\* The lock of each key that _upsert_lock finds first; a restart may leave two
\* of a key, in any order.
Standing == {S \in SUBSET Alive :
               \A l \in Alive : Cardinality({m \in S : m.key = l.key}) = 1}

\* _upsert_lock: the lock that stands for a result.
Upserted(S, r) ==
  IF \E l \in S : l.key = r.key
  THEN [(CHOOSE l \in S : l.key = r.key) EXCEPT !.until = r.until]
  ELSE [key |-> r.key, n |-> made[r.key] + 1, until |-> r.until]

\* evaluate, over the trades tr: _prune, then every rule.
Evaluates(tr) ==
  \E S \in Standing :
    LET results == IF config.active THEN Results(Fetched(tr)) ELSE {}
        upserted == {Upserted(S, r) : r \in results}
        ids == {id(l) : l \in upserted}
    IN /\ locks' = {l \in Alive : id(l) \notin ids} \union upserted
       /\ made' = [k \in Keys |-> Max({made[k]} \union {l.n : l \in {u \in upserted : u.key = k}})]
       /\ writes' = writes \union Save(upserted) \union Delete(locks \ Alive)

-----------------------------------------------------------------------------
Init ==
  /\ now = 0
  /\ trades = {}
  /\ config = Initial
  /\ locks = {}
  /\ made = [k \in Keys |-> 0]
  /\ writes = {}
  /\ store = {}
  /\ saved = Initial
  /\ put = [p \in Puts |-> [pc |-> "idle", body |-> Initial]]
  /\ decision = {}
  /\ closed = {}
  /\ cleared = {}
  /\ restarts = 0

Tick ==
  /\ now < MaxTime
  /\ now' = now + 1
  /\ decision' = {}
  /\ UNCHANGED <<trades, lockVars, store, configVars, history>>

\* A SELL order of the symbol is filled; exit_reason is inferred from its
\* strategy_id.  A fill found by polling is evaluated at once, one made by the
\* paper gateway is not.
CloseTrade(sym) ==
  /\ Cardinality(closed) < MaxTrades
  /\ \E stop \in BOOLEAN :
       LET t == [symbol |-> sym, close |-> now, stop |-> stop, n |-> Cardinality(closed)]
       IN /\ trades' = trades \union {t}
          /\ closed' = closed \union {t}
          /\ Evaluates(trades') \/ UNCHANGED lockVars
  /\ decision' = {}
  /\ UNCHANGED <<now, store, configVars, cleared, restarts>>

\* Another fill found by polling: a BUY, or part of an order.
OtherFill ==
  /\ Evaluates(trades)
  /\ decision' = {}
  /\ UNCHANGED <<now, trades, store, configVars, history>>

\* is_globally_locked, is_symbol_locked
Covers(l, sym) == l.key[2] \in {Global, sym}
Refuses(sym, set) == \E l \in set : Covers(l, sym) /\ is_active(l)

\* check_entry: the locks are looked at, and the rules if none refuses.
CheckEntry(sym) ==
  /\ IF config.active /\ ~Refuses(sym, locks)
     THEN /\ Evaluates(trades)
          /\ decision' = {[symbol |-> sym, ok |-> ~Refuses(sym, locks')]}
     ELSE /\ decision' = {[symbol |-> sym, ok |-> ~config.active]}
          /\ UNCHANGED lockVars
  /\ UNCHANGED <<now, trades, store, configVars, history>>

\* active_locks (GET /protections/locks)
ListLocks ==
  /\ locks' = Alive
  /\ writes' = writes \union Delete(locks \ Alive)
  /\ decision' = {}
  /\ UNCHANGED <<now, trades, made, store, configVars, history>>

\* clear_lock (DELETE /protections/locks/{id})
ClearLock(l) ==
  /\ Cardinality(cleared) < MaxClears
  /\ locks' = locks \ {l}
  /\ writes' = writes \union Delete({l})
  /\ cleared' = cleared \union {l}
  /\ decision' = {}
  /\ UNCHANGED <<now, trades, made, store, configVars, closed, restarts>>

-----------------------------------------------------------------------------
(* Redis *)

\* save_lock (HSET) or delete_lock (HDEL) takes effect.
WriteLands(w) ==
  /\ writes' = writes \ {w}
  /\ store' = {l \in store : id(l) # id(w.lock)} \union
              (IF w.op = "save" THEN {w.lock} ELSE {})
  /\ decision' = {}
  /\ UNCHANGED <<now, trades, locks, made, configVars, history>>

\* _guard swallows the error.
WriteFails(w) ==
  /\ writes' = writes \ {w}
  /\ decision' = {}
  /\ UNCHANGED <<now, trades, locks, made, store, configVars, history>>

-----------------------------------------------------------------------------
(* PUT /protections/config: save_config awaits HSET, then INCR; then the     *)
(* manager is updated.                                                       *)

PutStarts(p) ==
  /\ put[p].pc = "idle"
  /\ \E c \in Configs : put' = [put EXCEPT ![p] = [pc |-> "hset", body |-> c]]
  /\ decision' = {}
  /\ UNCHANGED <<now, trades, lockVars, store, config, saved, history>>

PutStores(p) ==
  /\ put[p].pc = "hset"
  /\ saved' = put[p].body
  /\ put' = [put EXCEPT ![p].pc = "incr"]
  /\ decision' = {}
  /\ UNCHANGED <<now, trades, lockVars, store, config, history>>

\* update_config: the active locks stay.
PutApplies(p) ==
  /\ put[p].pc = "incr"
  /\ config' = put[p].body
  /\ put' = [put EXCEPT ![p].pc = "idle"]
  /\ decision' = {}
  /\ UNCHANGED <<now, trades, lockVars, store, saved, history>>

\* Redis fails: the request ends with an error and the manager is not updated.
PutFails(p) ==
  /\ put[p].pc \in {"hset", "incr"}
  /\ put' = [put EXCEPT ![p].pc = "failed"]
  /\ decision' = {}
  /\ UNCHANGED <<now, trades, lockVars, store, config, saved, history>>

-----------------------------------------------------------------------------
\* The process ends and starts again: the order book is empty, writes and
\* requests under way are lost, and _attach_protections loads the
\* configuration and the locks that have not expired (restore_locks).
Restart ==
  /\ restarts < MaxRestarts
  /\ restarts' = restarts + 1
  /\ trades' = {}
  /\ config' = saved
  /\ locks' = {l \in store : is_active(l)}
  /\ writes' = {}
  /\ put' = [p \in Puts |-> [put[p] EXCEPT !.pc = "idle"]]
  /\ decision' = {}
  /\ UNCHANGED <<now, made, store, saved, closed, cleared>>

Next ==
  \/ Tick
  \/ \E sym \in Symbols : CloseTrade(sym) \/ CheckEntry(sym)
  \/ OtherFill
  \/ ListLocks
  \/ \E l \in locks : ClearLock(l)
  \/ \E w \in writes : WriteLands(w) \/ WriteFails(w)
  \/ \E p \in Puts : PutStarts(p) \/ PutStores(p) \/ PutApplies(p) \/ PutFails(p)
  \/ Restart

Spec == Init /\ [][Next]_vars

-----------------------------------------------------------------------------
(* Properties *)

Trade == [symbol : Symbols, close : 0 .. MaxTime, stop : BOOLEAN, n : 0 .. MaxTrades]
LongestStop == Max({GuardStop} \union {c.stop : c \in Configs})
\* A lock ends within one stop duration of the clock's bound.
Lock == [key : Keys, n : Nat \ {0}, until : 1 .. MaxTime + LongestStop]

TypeOK ==
  /\ now \in 0 .. MaxTime
  /\ trades \subseteq closed
  /\ closed \subseteq Trade
  /\ config \in Configs /\ saved \in Configs
  /\ locks \subseteq Lock /\ store \subseteq Lock /\ cleared \subseteq Lock
  /\ made \in [Keys -> Nat]
  /\ writes \subseteq [op : {"save", "delete"}, lock : Lock]
  /\ put \in [Puts -> [pc : {"idle", "hset", "incr", "failed"}, body : Configs]]
  /\ decision \subseteq [symbol : Symbols, ok : BOOLEAN]
  /\ restarts \in 0 .. MaxRestarts

Allowed(sym) == [symbol |-> sym, ok |-> TRUE] \in decision /\ config.active

Refused(sym) == [symbol |-> sym, ok |-> FALSE] \in decision

\* check_entry never lets an entry through while an exit of its symbol that
\* the order book knows is younger than the cooldown, whichever locks were
\* made, expired, pruned or cleared in between.
NoEntryInCooldown ==
  \A sym \in Symbols : Allowed(sym) =>
    \A t \in trades : t.symbol = sym => t.close + config.stop <= now

\* Limit stop-loss exits within the lookback stop every entry.
GuardHolds ==
  \A sym \in Symbols : Allowed(sym) =>
    Cardinality({t \in trades : t.stop /\ t.close >= now - Lookback}) < Limit

\* The other way round: an entry is refused only for an exit of its symbol
\* that is younger than the longest cooldown in use, or for enough stop-loss
\* exits in the guard's lookback before its lock was last refreshed.  Locks
\* are not prolonged by looking at them, nor by a restart.  (stop_per_symbol
\* counts over the longer of lookback and stop duration.)
RefusedForCause ==
  \A sym \in Symbols : Refused(sym) =>
    \/ \E t \in closed, c \in Configs : t.symbol = sym /\ t.close + c.stop > now
    \/ Cardinality({t \in closed : t.stop /\ t.close > now - GuardStop - Lookback}) >= Limit
    \/ Cardinality({t \in closed : /\ t.stop /\ t.symbol = sym
                                   /\ t.close > now - GuardStop - Max({Lookback, GuardStop})}) >= Limit

\* A lock that reached Redis refuses entries until it expires, restarts
\* included, unless an operator cleared it (while the cooldown's length is not
\* changed).
StoredLocksHold ==
  \A sym \in Symbols : Allowed(sym) =>
    \A l \in store : Covers(l, sym) =>
      ~is_active(l) \/ \E c \in cleared : id(c) = id(l)

\* All of this; the guard where it counts stop-loss exits (required_profit above
\* 0), the stored locks where the cooldown's length is not changed.
LocksHold ==
  /\ TypeOK /\ NoEntryInCooldown /\ RefusedForCause
  /\ 0 < RequiredProfit => GuardHolds
  /\ (\A c, d \in Configs : c.stop = d.stop) => StoredLocksHold
=============================================================================
