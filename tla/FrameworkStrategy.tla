------------------------- MODULE FrameworkStrategy -------------------------
(***************************************************************************)
(* A strategy of the framework (engine/framework): views of the symbols    *)
(* (insights) become target positions, a risk model may clear some of      *)
(* them, an execution model turns what is missing into orders.  Orders     *)
(* fill at later time points, in part or not at all.  Insights of a group  *)
(* are the legs of a pair.  One alpha model; equal weights.                *)
(***************************************************************************)
EXTENDS Integers, FiniteSets, FiniteSetsExt, Functions

CONSTANTS
  FrameworkSymbols,
  Emissions,      \* what the alpha model may say at a point: symbol -> insight,
                  \* an insight being [dir, group, life]; no group is ""
  BarSets,        \* the symbols that may have a bar at a point
  FrameworkModes, \* [exec, risk, period, caps, cash, worth]: period 0 for no rhythm of
                  \* rebalancing, caps what the volume of a bar may allow of an
                  \* order, cash for how many shares the broker may take it, worth
                  \* what the equity may come to: symbol -> the shares it buys, the
                  \* prices and the equity of a point
  Limit,          \* the share of a bar's volume an order may ask for (vwap)
  MaxFrameworkPoints       \* bound on the time points

ASSUME FrameworkAssumption ==
  /\ IsFiniteSet(FrameworkSymbols) /\ BarSets \subseteq SUBSET FrameworkSymbols
  /\ \A said \in Emissions :
       /\ DOMAIN said \subseteq FrameworkSymbols
       /\ \A s \in DOMAIN said : said[s].dir \in {-1, 0, 1} /\ said[s].life \in Nat
  /\ \A m \in FrameworkModes :
       /\ m.exec \in {"immediate", "vwap"} /\ m.risk \in BOOLEAN /\ m.period \in Nat
       /\ m.caps \subseteq Nat /\ m.cash \subseteq Nat
       /\ m.worth \subseteq [FrameworkSymbols -> Nat]
  /\ Limit \in Nat \ {0} /\ MaxFrameworkPoints \in Nat

VARIABLES
  setup, clock,
  known,          \* symbols with a last known price
  active,         \* symbol -> [dir, group, until], the insights in force
  rebalanced,     \* _last_rebalance, 0 for never
  pos,            \* symbol -> shares held, signed
  orders,         \* live orders: [sym, at, left], left signed
  working,        \* the targets of the vwap model that are not reached
  low, high,      \* symbol -> the extremes of the targets it ever had, and 0
  crossed,        \* symbols that are bought and sold at once
  cleared, dear,  \* of the last targets: the symbols that the risk model cleared,
                  \* and those whose share of the equity buys not one
  broken          \* what came in between views and positions: "late", "rejected",
                  \* "forgotten"

frameworkVars ==
  <<setup, clock, known, active, rebalanced, pos, orders, working, low, high, crossed,
    cleared, dear, broken>>

Zero == [s \in FrameworkSymbols |-> 0]

FrameworkInit ==
  /\ setup \in FrameworkModes
  /\ clock = 0 /\ known = {} /\ active = <<>> /\ rebalanced = 0
  /\ pos = Zero /\ orders = {} /\ working = <<>>
  /\ low = Zero /\ high = Zero /\ crossed = {} /\ cleared = {} /\ dear = {} /\ broken = {}

Abs(n) == IF n < 0 THEN -n ELSE n
Least(a, b) == IF a <= b THEN a ELSE b
Most(a, b) == IF a >= b THEN a ELSE b

-----------------------------------------------------------------------------
(* The market: what the orders come to before the strategy is asked *)

\* _volume_capped_qty: how much of the order its symbol's bar allows.
Allowed(o, bars, caps) == IF o.sym \in bars THEN Least(Abs(o.left), caps[o.sym]) ELSE 0

\* _try_fill: what is filled, signed, and what rests.  What the bar does not
\* allow rests; what the cash does not pay is lost, and an order of which
\* nothing is paid is refused as a whole.
Fate(o, bars, caps, paid) ==
  LET allowed == Allowed(o, bars, caps)
      signed(n) == IF o.left > 0 THEN n ELSE -n
  IN [done |-> signed(Least(allowed, paid[o])),
      rest |-> IF allowed > 0 /\ paid[o] = 0 THEN 0 ELSE o.left - signed(allowed)]

\* The cash cuts purchases; a sale is taken or refused.
MayPay(paid) == \A o \in orders : o.left < 0 => paid[o] = 0 \/ paid[o] >= -o.left

OrdersOf(s, live) == {o \in live : o.sym = s}

Filled(fates) ==
  [s \in FrameworkSymbols |->
     pos[s] + SumFunctionOnSet([o \in orders |-> fates[o].done], OrdersOf(s, orders))]

\* _match_symbol: what rests is queued again.
Alive(fates) == {[o EXCEPT !.left = fates[o].rest] : o \in {o \in orders : fates[o].rest # 0}}

-----------------------------------------------------------------------------
(* The strategy *)

\* is_expired_at
Expired(ins, t) == ins.until < t

\* _refresh: the new views, then without those that have run out.
Merged(said, t) ==
  [s \in DOMAIN said \cup DOMAIN active |->
     IF s \in DOMAIN said
     THEN [dir |-> said[s].dir, group |-> said[s].group, until |-> t + said[s].life]
     ELSE active[s]]
Refreshed(said, t) ==
  LET all == Merged(said, t)
  IN [s \in {s \in DOMAIN all : ~ Expired(all[s], t)} |-> all[s]]

\* should_rebalance
DueAt(t) == setup.period > 0 /\ (rebalanced = 0 \/ t - rebalanced >= setup.period)

\* Mutant: a leg without a price is left out on its own.
UsableAlone(views, priced) == DOMAIN views \cap priced

\* _usable: a group with a leg that cannot be traded is dropped as a whole.
Usable(views, priced) ==
  {s \in DOMAIN views \cap priced :
     views[s].group = "" \/ \A x \in DOMAIN views : views[x].group = views[s].group => x \in priced}

\* _liquidations: what is held without a view is to be sold.
Targeted(usable, held) == usable \cup {s \in FrameworkSymbols : held[s] # 0}

\* compute_weights, equal weights: who shares the equity.
Sharing(views, priced) == {s \in Usable(views, priced) : views[s].dir # 0}

\* _target_qty: the shares of s that one of n equal parts of the equity buys.
TargetQty(buys, s, n) == buys[s] \div n

\* create_targets, and the risk model, which clears `losers`.
Targets(views, priced, held, losers, buys) ==
  LET usable == Usable(views, priced)
      sharing == Sharing(views, priced)
  IN [s \in Targeted(usable, held) |->
        [qty |-> IF s \in sharing \ losers
                 THEN views[s].dir * TargetQty(buys, s, Cardinality(sharing)) ELSE 0,
         group |-> IF s \in usable THEN views[s].group ELSE ""]]

\* The symbols of which a share of the equity buys not one.
TooDear(views, priced, buys) ==
  {s \in Sharing(views, priced) : buys[s] < Cardinality(Sharing(views, priced))}

\* _effective_position
Effective(held, live) ==
  [s \in FrameworkSymbols |->
     held[s] + SumFunctionOnSet([o \in live |-> o.left], OrdersOf(s, live))]

\* build_plan: what is missing of each target, by symbol.
Plan(targets, at, priced) ==
  LET blocked == {targets[s].group : s \in DOMAIN targets \ priced} \ {""}
  IN [s \in {s \in DOMAIN targets \cap priced :
               targets[s].qty # at[s] /\ targets[s].group \notin blocked}
        |-> targets[s].qty - at[s]]

\* _slice
Slice(d) == IF Abs(d) <= Limit THEN d ELSE IF d > 0 THEN Limit ELSE -Limit

\* The targets the vwap model still works on: new ones replace old ones, those
\* that are reached go.
Works(targets, held, live) ==
  LET all == [s \in DOMAIN targets \cup DOMAIN working |->
                IF s \in DOMAIN targets THEN targets[s] ELSE working[s]]
      reached == {s \in DOMAIN all : all[s].qty = held[s] /\ Effective(held, live)[s] = held[s]}
  IN [s \in DOMAIN all \ reached |-> all[s]]

\* execute
Ordered(targets, works, held, live, priced, bars, t) ==
  IF setup.exec = "immediate"
  THEN LET plan == Plan(targets, held, priced)
       IN {[sym |-> s, at |-> t, left |-> plan[s]] : s \in DOMAIN plan}
  ELSE LET plan == Plan(works, Effective(held, live), priced)
       IN {[sym |-> s, at |-> t, left |-> Slice(plan[s])] : s \in DOMAIN plan \cap bars}

\* The symbols with orders in both directions, and those that had them, until
\* none is left.
BothWays(live) ==
  {s \in FrameworkSymbols :
     /\ OrdersOf(s, live) # {}
     /\ s \in crossed \/ \E o, p \in OrdersOf(s, live) : o.left > 0 /\ p.left < 0}

\* What may part views and positions at this point: an order that is not filled
\* at once, one that is cut or refused, and a symbol that gets no target, because
\* it is neither wanted nor held, while orders or an older target still work on it.
Partings(fates, targets, live) ==
  (IF \E o \in orders : fates[o].done # o.left THEN {"late"} ELSE {})
    \cup (IF \E o \in orders : fates[o].done + fates[o].rest # o.left THEN {"rejected"} ELSE {})
    \cup (IF \E s \in FrameworkSymbols \ DOMAIN targets :
                s \in DOMAIN working \/ OrdersOf(s, live) # {}
         THEN {"forgotten"} ELSE {})

\* One time point: the market, then on_bars.
FrameworkPoint(bars, said, fates, losers, buys) ==
  LET t == clock + 1
      priced == known \cup bars
      held == Filled(fates)
      live == Alive(fates)
      views == Refreshed(said, t)
      asked == DOMAIN said # {} \/ DOMAIN Merged(said, t) # DOMAIN views \/ DueAt(t)
      targets == Targets(views, priced, held, losers, buys)
      works == Works(targets, held, live)
  IN /\ losers \subseteq {s \in FrameworkSymbols : held[s] # 0}
     /\ clock' = t /\ known' = priced /\ pos' = held /\ active' = views
     /\ rebalanced' = IF DueAt(t) THEN t ELSE rebalanced
     /\ IF asked
        THEN /\ orders' = live \cup Ordered(targets, works, held, live, priced, bars, t)
             /\ working' = IF setup.exec = "vwap" THEN works ELSE working
             /\ low' = [s \in FrameworkSymbols |->
                            IF s \in DOMAIN targets THEN Least(low[s], targets[s].qty) ELSE low[s]]
             /\ high' = [s \in FrameworkSymbols |->
                             IF s \in DOMAIN targets THEN Most(high[s], targets[s].qty) ELSE high[s]]
             /\ cleared' = losers /\ dear' = TooDear(views, priced, buys)
             /\ broken' = broken \cup Partings(fates, targets, live)
        ELSE /\ orders' = live
             /\ losers = {}
             /\ broken' = broken \cup Partings(fates, [s \in FrameworkSymbols |-> 0], live)
             /\ UNCHANGED <<working, low, high, cleared, dear>>
     /\ crossed' = BothWays(orders')
     /\ UNCHANGED setup

FrameworkNext ==
  \E bars \in BarSets, said \in Emissions :
    /\ clock < MaxFrameworkPoints
    /\ \E caps \in [bars -> setup.caps], paid \in [orders -> setup.cash],
          losers \in IF setup.risk THEN SUBSET FrameworkSymbols ELSE {{}}, buys \in setup.worth :
         /\ MayPay(paid)
         /\ FrameworkPoint(bars, said, [o \in orders |-> Fate(o, bars, caps, paid)], losers, buys)

FrameworkSpec == FrameworkInit /\ [][FrameworkNext]_frameworkVars

-----------------------------------------------------------------------------
(* Properties *)

FrameworkTypeOK ==
  /\ setup \in FrameworkModes /\ clock \in 0 .. MaxFrameworkPoints /\ known \subseteq FrameworkSymbols
  /\ DOMAIN active \subseteq FrameworkSymbols /\ DOMAIN working \subseteq FrameworkSymbols
  /\ pos \in [FrameworkSymbols -> Int]
  /\ \A o \in orders : o.sym \in FrameworkSymbols /\ o.at \in 1 .. clock /\ o.left # 0

\* With the vwap model what is held and on its way never goes beyond the targets
\* that were given, although slices fill late, in part or not at all and the
\* targets change meanwhile; nor does what is held, unless the symbol is bought
\* and sold at once, for then the one may fill before the other.  A refusal of
\* what was counted voids the count.  The immediate model has no such memory: it
\* orders again what is still on its way, and is left out.
NeverBeyondTargets ==
  setup.exec = "vwap" /\ "rejected" \notin broken =>
    \A s \in FrameworkSymbols :
      /\ Effective(pos, orders)[s] \in low[s] .. high[s]
      /\ s \notin crossed => pos[s] \in low[s] .. high[s]

\* Nothing is on its way, and no slice is still to come.
Quiet == orders = {} /\ \A s \in DOMAIN working : working[s].qty = pos[s]

\* Nothing came in between: orders were filled or kept, at once by the immediate
\* model, and no symbol was forgotten.
Undisturbed ==
  /\ broken \cap {"rejected", "forgotten"} = {}
  /\ setup.exec = "immediate" => "late" \notin broken

\* The legs of a pair that are not held although the other one is.
Missing ==
  {x \in DOMAIN active :
     /\ active[x].group # "" /\ active[x].dir # 0 /\ pos[x] = 0
     /\ \E s \in DOMAIN active : active[s].group = active[x].group /\ pos[s] # 0}

\* When nothing is on its way, a pair is held with both legs or with none, unless
\* the last targets were without one: the risk model cleared it, or it costs more
\* than its share of the equity.  A leg without a price never gets the other one
\* traded alone, however late its slices are.  (insight.py:8 calls a leg dropped for
\* its price an error, too, but portfolio_construction.py rounds each leg down on its
\* own: that is what "dear" excepts.)
PairsStayPaired == Quiet /\ Undisturbed => Missing \subseteq cleared \cup dear

\* When nothing is on its way, what is held is what the views in force ask
\* for: a position whose view ran out or turned flat is not left behind.
NothingLeftBehind ==
  Quiet /\ Undisturbed =>
    \A s \in FrameworkSymbols : pos[s] # 0 =>
      s \in DOMAIN active /\ active[s].until >= clock /\ active[s].dir * pos[s] > 0

\* Views become positions: never beyond the targets, a pair with both legs or none,
\* as far as the targets have both, and nothing left behind when a view ends.
TargetsAreKept == FrameworkTypeOK /\ NeverBeyondTargets /\ PairsStayPaired /\ NothingLeftBehind
=============================================================================
