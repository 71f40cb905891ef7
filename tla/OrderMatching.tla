---------------------------- MODULE OrderMatching ----------------------------
(***************************************************************************)
(* One order in the queue of the simulated broker and the bars of its      *)
(* symbol (engine/backtest/order_types.py, and _resolve_match and          *)
(* _volume_capped_qty of broker.py): each bar either reaches the order or  *)
(* not, at a price the bar gives it, and the volume allows part of it.     *)
(* The price is the one before slippage.  What cash, positions, the price  *)
(* limits of a day and its end do to the order is in BacktestBroker.       *)
(***************************************************************************)
EXTENDS Integers, Sequences

CONSTANTS
  BarPrices,   \* the prices of bars and orders
  Orders,   \* what is ordered: [type, buy, limit, stop, trigger, back]; a price is
            \* 0 where there is none, and back[e] is the stop of a trailing order
            \* whose extreme is e
  Bars,     \* the bars that may come: [open, high, low, close]
  Qty,      \* the quantity of the order
  MaxBars   \* bound of the bars

TouchedTypes == {"STOP_LIMIT", "LIMIT_IF_TOUCHED"}
LimitTypes == {"LIMIT"} \cup TouchedTypes
StopTypes == {"STOP_MARKET", "TRAILING_STOP"}
Types == {"MARKET", "MARKET_ON_CLOSE"} \cup LimitTypes \cup StopTypes

Price0 == {0} \cup BarPrices
OrderType == [type : Types, buy : BOOLEAN, limit : Price0, stop : Price0, trigger : Price0,
          back : [BarPrices -> Int]]

Bar == {b \in [open : BarPrices, high : BarPrices, low : BarPrices, close : BarPrices] :
          b.low <= b.open /\ b.open <= b.high /\ b.low <= b.close /\ b.close <= b.high}

\* A trailing stop follows the extreme: a further extreme, a further stop.
ASSUME MatchingAssumption ==
  /\ BarPrices \subseteq Int /\ 0 \notin BarPrices
  /\ Orders \subseteq OrderType
  /\ \A o \in Orders : \A p, q \in BarPrices : p <= q => o.back[p] <= o.back[q]
  /\ Bars \subseteq Bar
  /\ Qty \in Nat /\ MaxBars \in Nat

VARIABLES
  order,
  left,       \* the quantity still in the queue
  triggered,  \* Order._triggered
  extreme,    \* Order._extreme_price, 0 before the first bar
  bars,       \* the bars seen so far
  matches     \* history: what each of them did: [reached, price, qty, was]

matchingVars == <<order, left, triggered, extreme, bars, matches>>

\* validate_order_spec: what a type needs is there.
Valid(o) ==
  /\ o.type \in LimitTypes => o.limit # 0
  /\ o.type \in {"STOP_MARKET", "STOP_LIMIT"} => o.stop # 0
  /\ o.type = "LIMIT_IF_TOUCHED" => o.trigger # 0

MatchingInit ==
  /\ order \in {o \in Orders : Valid(o)}
  /\ left = Qty
  /\ triggered = FALSE
  /\ extreme = 0
  /\ bars = <<>> /\ matches = <<>>

Lower(a, b) == IF a < b THEN a ELSE b
Upper(a, b) == IF a < b THEN b ELSE a

\* match_order: the price at which a bar b executes o, if it does.
LimitReached(o, b) == IF o.buy THEN b.low <= o.limit ELSE b.high >= o.limit
LimitPrice(o, b) == IF o.buy THEN Lower(b.open, o.limit) ELSE Upper(b.open, o.limit)

StopReached(o, b, stop) == IF o.buy THEN b.high >= stop ELSE b.low <= stop
StopPrice(o, b, stop) == IF o.buy THEN Upper(b.open, stop) ELSE Lower(b.open, stop)

\* What turns a STOP_LIMIT or a LIMIT_IF_TOUCHED order into a limit order.
Touches(o, b) ==
  IF o.type = "STOP_LIMIT" THEN StopReached(o, b, o.stop)
  ELSE IF o.buy THEN b.low <= o.trigger ELSE b.high >= o.trigger

IsTriggered(o, b, was, stop) ==
  \/ o.type \notin StopTypes \cup TouchedTypes
  \/ o.type \in StopTypes /\ StopReached(o, b, stop)
  \/ o.type \in TouchedTypes /\ (was \/ Touches(o, b))

IsReached(o, b, was, stop) ==
  IsTriggered(o, b, was, stop) /\ (o.type \in LimitTypes => LimitReached(o, b))

MatchPrice(o, b, stop) ==
  CASE o.type \in LimitTypes -> LimitPrice(o, b)
    [] o.type \in StopTypes -> StopPrice(o, b, stop)
    [] o.type = "MARKET" -> b.open
    [] OTHER -> b.close

\* update_trailing_extreme, after the bar was judged.
Updated(e, b) == IF order.buy THEN Lower(e, b.low) ELSE Upper(e, b.high)

\* Mutant: the bar is judged by the extreme it makes itself.
SeededAhead(b) == IF extreme = 0 THEN Updated(b.open, b) ELSE Updated(extreme, b)

\* seed_trailing_extreme: what is known of the extreme when the bar opens.
Seeded(b) == IF extreme = 0 THEN b.open ELSE extreme

StopOf(b) == IF order.type = "TRAILING_STOP" THEN order.back[Seeded(b)] ELSE order.stop

\* _resolve_match, and the part of the quantity that the volume allows.
Match(b) ==
  LET stop == StopOf(b)
      reached == IsReached(order, b, triggered, stop)
  IN
  /\ left > 0 /\ Len(bars) < MaxBars
  /\ bars' = Append(bars, b)
  /\ triggered' = IsTriggered(order, b, triggered, stop)
  /\ extreme' = IF order.type # "TRAILING_STOP" THEN extreme
                ELSE IF reached THEN Seeded(b) ELSE Updated(Seeded(b), b)
  /\ \E q \in 0 .. left :
       /\ reached \/ q = 0
       /\ left' = left - q
       /\ matches' = Append(matches, [reached |-> reached, qty |-> q,
                                      price |-> MatchPrice(order, b, stop)])
  /\ UNCHANGED order

MatchingNext == \E b \in Bars : Match(b)

MatchingSpec == MatchingInit /\ [][MatchingNext]_matchingVars

-----------------------------------------------------------------------------
(* Properties *)

Seen == 1 .. Len(bars)

\* The prices a trailing stop may follow at bar k: the first open, and the extremes
\* of the bars that are over and did not reach the order.
Known(k) ==
  {bars[1].open} \cup
  {IF order.buy THEN bars[i].low ELSE bars[i].high : i \in {j \in 1 .. k - 1 : ~matches[j].reached}}

\* The stops of bar k.
Stops(k) ==
  IF order.type = "TRAILING_STOP" THEN {order.back[p] : p \in Known(k)} ELSE {order.stop}

\* Whether bar k should reach the order, told from the bars up to it alone.
Due(k) ==
  /\ order.type \in LimitTypes => LimitReached(order, bars[k])
  /\ order.type \in TouchedTypes => \E i \in 1 .. k : Touches(order, bars[i])
  /\ order.type \in StopTypes => \E s \in Stops(k) : StopReached(order, bars[k], s)

\* An order is executed at the bars that reach it and at no other: a trailing stop
\* looks at what was over when the bar opened, however often the order was reached
\* and not (wholly) filled; a touched order stays touched.  A bar that touches an
\* order is asked as a whole whether it reaches the limit, the part before the
\* touch included, as the code says of itself (_match_stop_limit): within such a
\* bar this is no statement about what was known when.
ReachedWhenDue == \A k \in Seen : matches[k].reached <=> Due(k)

\* The price is one the bar had.
PriceInBar ==
  \A k \in Seen : matches[k].reached =>
    bars[k].low <= matches[k].price /\ matches[k].price <= bars[k].high

\* What a bar is when it opens.
Opening(b) == [b EXCEPT !.high = b.open, !.low = b.open, !.close = b.open]

\* The order is a limit order when bar k opens: it never waits for a touch, or an
\* earlier bar or this opening touched it.
Standing(k) ==
  \/ order.type \notin TouchedTypes
  \/ \E i \in 1 .. k - 1 : Touches(order, bars[i])
  \/ Touches(order, Opening(bars[k]))

\* The price at which it becomes one, of those of bar k.
Start(k) == IF Standing(k) THEN bars[k].open ELSE order.trigger

\* A limit order gains on its limit only what the price at its start gives it.
NoGainBeforeStart(k) ==
  IF order.buy THEN matches[k].price >= Lower(Start(k), order.limit)
  ELSE matches[k].price <= Upper(Start(k), order.limit)

\* A limit is kept, and a stop is not bettered; nor is a limit by a price from
\* before the order was touched, but for a STOP_LIMIT order in the bar that
\* touches it after its opening: it is given the opening where that is better than
\* its limit, although the stop was touched later.  That is a look ahead, which rule
\* 3 of the code's header (the worse of open and order price) was to prevent.
PriceIsFair ==
  \A k \in Seen : matches[k].reached =>
    /\ order.type \in LimitTypes =>
         IF order.buy THEN matches[k].price <= order.limit ELSE matches[k].price >= order.limit
    /\ order.type \in StopTypes =>
         \E s \in Stops(k) : IF order.buy THEN matches[k].price >= s ELSE matches[k].price <= s
    /\ order.type \in LimitTypes /\ (Standing(k) \/ order.type # "STOP_LIMIT") =>
         NoGainBeforeStart(k)

\* Backtests execute what the bars allow, at a price the bar had and the order
\* allows.  Market, stop, trailing and plain limit orders use nothing that is not
\* known at their price; orders that wait for a touch are ordinary limit orders at
\* the bars after it, and in the bar of the touch no more than the two comments
\* above say.
MatchingIsFair == ReachedWhenDue /\ PriceInBar /\ PriceIsFair
==============================================================================
