--------------------------- MODULE BacktestBroker ---------------------------
(***************************************************************************)
(* The simulated broker of the backtests (engine/backtest/broker.py with   *)
(* its mixins and portfolio_broker.py), driven by the loop of              *)
(* portfolio_engine.py: at each time point dividends come in and the fee   *)
(* for borrowed shares goes out, the queue is matched, expired orders are  *)
(* cancelled, risk exits and adjustments are ordered, and the strategy     *)
(* orders what it wants, for the bars to come.                             *)
(* Whether a bar reaches an order's price, how much of it the volume       *)
(* allows, when a risk rule hits and what a strategy wants is left open;   *)
(* slippage is part of the price, and a fee is its minimum, which is kept  *)
(* apart from the cost of the lots.                                        *)
(***************************************************************************)
EXTENDS Integers, Sequences, FiniteSets, Functions

CONSTANTS
    Universe,    \* sequence of the symbols, in alphabetical order
    DayOf,       \* DayOf[t]: the day of time point t; their number bounds time
    BarSets,     \* sets of symbols that may have a bar at a time point
    PricesAt,    \* PricesAt[t]: the prices of time point t
    DividendOn,  \* DividendOn[d]: the dividends per share of each symbol on day d
    BorrowAt,    \* BorrowAt[t]: the rate for borrowed shares times the time since t - 1
    Wishes,      \* what a strategy may order: [sym, side, type, qty, tif, till]
    MaxOrders,   \* bound: orders of a run
    Modes,       \* market and options: [ashare, short, hooks, volume]
    Cash0, MinFee,
    MaxOpen,     \* max_open_positions
    MaxCount,    \* the control MaxOrderCount
    MaxAdjusts,  \* max_position_adjustments
    Timeout,     \* entry_ and exit_timeout_minutes, in time points
    MaxRecorded  \* MAX_RECORDED_REJECTIONS

Syms == Range(Universe)
Times == DOMAIN DayOf
Days == {DayOf[t] : t \in Times} \cup {0}
OrderTypes == {"MARKET", "LIMIT", "BAD"} \* "BAD": refused by validate_order_spec
\* A GTD order is good until a day, or for ever if none is given.
Wish == [sym : Syms, side : {"BUY", "SELL"}, type : OrderTypes, qty : Nat \ {0},
         tif : {"GTC", "DAY", "GTD"}, till : Nat]

\* Time points are in order of time; a timeout is positive (_apply_timeout).
ASSUME TimeAssumption ==
    /\ DayOf \in Seq(Nat \ {0}) /\ \A t, u \in Times : t <= u => DayOf[t] <= DayOf[u]
    /\ Timeout \in Nat \ {0}
    /\ PricesAt \in [Times -> SUBSET (Nat \ {0})]

ASSUME BacktestAssumption ==
    /\ Universe \in Seq(Syms) /\ BarSets \subseteq SUBSET Syms
    /\ DividendOn \in [Days -> [Syms -> Nat]] /\ BorrowAt \in [Times -> Nat]
    /\ Wishes \subseteq Wish
    /\ Modes \subseteq [ashare : BOOLEAN, short : BOOLEAN, hooks : BOOLEAN, volume : BOOLEAN]
    /\ Cash0 \in Nat /\ MinFee \in Nat
    /\ MaxCount \in Nat /\ MaxRecorded \in Nat

VARIABLES
    mode, now, pc, mark, bars, \* mark: the price of the time point
    order,       \* the orders by number
    pending,     \* the queue: their numbers, which are its order
    matching,    \* the part of it still to be matched at this time point
    selling,     \* the symbols that were being sold when it began
    long, short, \* lots by symbol, oldest first: [qty, price]
    unclosable,  \* shares bought since the last advance_day
    wealth, pnl, fees, \* the cash, realized profit, commissions
    dividends, borrowed, \* what came in as dividends, and went out as borrow fees
    trade,       \* trade[s]: the trade of s: [qty, opened]
    adjusts,     \* adjusts[s]: [opened, long, count]
    seen,        \* symbols the risk gate or the adjustment has dealt with
    today,       \* orders counted, and the day they are of
    ledger,      \* how many rejections are kept
    overflow,    \* and how many are not
    morning, sold, \* history: shares held when the day began, and sold since
    accepted       \* history: accepted[d]: orders queued on day d

positions == <<long, short, unclosable, wealth, pnl, fees, dividends, borrowed,
               trade, sold>>
queue     == <<order, pending, today, ledger, overflow, accepted>>
brokerVars == <<mode, now, pc, mark, bars, queue, matching, selling, positions, adjusts, seen, morning>>

day == IF now = 0 THEN 0 ELSE DayOf[now]
Least(a, b) == IF a < b THEN a ELSE b
Size(n) == IF n < 0 THEN -n ELSE n

\* The shares of the first k lots, and of all.
QtyUpTo(lots, k) == SumFunctionOnSet([j \in DOMAIN lots |-> lots[j].qty], 1..k)
Qty(lots) == QtyUpTo(lots, Len(lots))

\* What lots were bought or sold for.
Cost(lots) == SumFunctionOnSet([j \in DOMAIN lots |-> lots[j].qty * lots[j].price], 1..Len(lots))

net(s) == Qty(long[s]) - Qty(short[s])
Open == {s \in Syms : long[s] # <<>> \/ short[s] # <<>>}
NoTrade == [qty |-> 0, opened |-> 0]

BacktestInit ==
    /\ mode \in Modes /\ now = 0 /\ pc = "strategy" /\ mark = 0 /\ bars = {}
    /\ order = <<>> /\ pending = {} /\ matching = {} /\ selling = {}
    /\ long = [s \in Syms |-> <<>>] /\ short = [s \in Syms |-> <<>>]
    /\ unclosable = [s \in Syms |-> 0]
    /\ wealth = Cash0 /\ pnl = 0 /\ fees = 0 /\ dividends = 0 /\ borrowed = 0
    /\ trade = [s \in Syms |-> NoTrade]
    /\ adjusts = [s \in Syms |-> [opened |-> 0, long |-> TRUE, count |-> 0]]
    /\ seen = {} /\ today = [count |-> 0, day |-> 0]
    /\ ledger = 0 /\ overflow = 0
    /\ morning = [s \in Syms |-> 0] /\ sold = [s \in Syms |-> 0]
    /\ accepted = [d \in Days |-> 0]

-----------------------------------------------------------------------------
(* Submitting an order.                                                     *)

SignedQty(o) == IF o.side = "BUY" THEN o.qty ELSE -o.qty

\* What a symbol will hold when the whole queue has been executed.
Projected(s) ==
    net(s) + SumFunctionOnSet([i \in pending |-> SignedQty(order[i])],
                              {i \in pending : order[i].sym = s})
Reserved == {s \in Syms : Projected(s) # 0}

ExceedsOpenLimit(o) ==
    /\ o.sym \notin Open /\ o.sym \notin Reserved
    /\ Cardinality(Reserved) >= MaxOpen

SellsTooMuch(o) ==
    /\ o.side = "SELL" /\ ~mode.short
    /\ o.qty > IF mode.ashare THEN Qty(long[o.sym]) - unclosable[o.sym] ELSE net(o.sym)

\* _current_order_count: yesterday's count is not today's.
OrdersToday == IF today.day = day THEN today.count ELSE 0

LedgerReasons == {"open", "spec", "position", "veto", "count", "halted", "cash", "expired"}

\* The first check that refuses the order.  The strategy's hooks are asked after
\* the broker's own checks and before the controls.
Refusal(o, hook) ==
    CASE ExceedsOpenLimit(o)       -> "open"
      [] o.type = "BAD"            -> "spec"
      [] SellsTooMuch(o)           -> "position"
      [] hook = "veto"             -> "veto"
      [] OrdersToday >= MaxCount   -> "count"
      [] OTHER                     -> "none"

Refused(o, why) ==
    [o EXCEPT !.status = IF why \in {"veto", "expired"} THEN "CANCELLED" ELSE "REJECTED",
              !.why = why]

\* custom_entry_price and custom_exit_price make a limit order, and the hooks
\* come with a timeout.
Hooked(o, hook) ==
    [o EXCEPT !.type = IF hook = "price" THEN "LIMIT" ELSE @,
              !.until = IF mode.hooks /\ now > 0 THEN now + Timeout ELSE 0]

\* _record_rejection: orders are kept up to a limit, and counted beyond it.
RecordsRejections(n) ==
    LET kept == Least(MaxRecorded - ledger, n) IN
    ledger' = ledger + kept /\ overflow' = overflow + n - kept

Submits(o, hook) ==
    LET id == Len(order) + 1
        why == Refusal(o, hook) IN
    /\ id <= MaxOrders
    /\ hook = "none" \/ mode.hooks
    /\ order' = Append(order, [(IF why = "none" THEN Hooked(o, hook) ELSE Refused(o, why))
                               EXCEPT !.since = day])
    /\ IF why = "none"
       THEN /\ pending' = pending \cup {id}
            /\ today' = [count |-> OrdersToday + 1, day |-> day]
            /\ accepted' = [accepted EXCEPT ![day] = @ + 1]
            /\ UNCHANGED <<ledger, overflow>>
       ELSE /\ RecordsRejections(IF why \in LedgerReasons THEN 1 ELSE 0)
            /\ UNCHANGED <<pending, today, accepted>>

NewOrder(w, exit) ==
    [sym |-> w.sym, side |-> w.side, type |-> w.type, qty |-> w.qty, tif |-> w.tif,
     till |-> w.till, exit |-> exit, status |-> "PENDING", why |-> "none",
     asked |-> w.qty, filled |-> 0, voided |-> 0, since |-> 0, until |-> 0]

Hooks == {"none", "veto", "price"}

-----------------------------------------------------------------------------
(* A time point: bars come, and the queue is matched, symbol by symbol.     *)

\* _credit_dividends: on every bar of the day, for what is held before it.
DividendsDue(d, bs) ==
    SumFunctionOnSet([s \in Syms |-> IF net(s) > 0 THEN net(s) * DividendOn[d][s] ELSE 0], bs)

\* _accrue_borrow_fee: once for a time point, on what short lots were sold for.
BorrowFee(t) ==
    IF mode.short /\ now > 0
    THEN BorrowAt[t] * SumFunctionOnSet([s \in Syms |-> Cost(short[s])], Syms) ELSE 0

NextBars(bs) ==
    /\ pc = "next" /\ now < Len(DayOf)
    /\ now' = now + 1 /\ mark' \in PricesAt[now + 1] /\ bars' = bs
    /\ unclosable' = IF mode.ashare THEN [s \in Syms |-> 0] ELSE unclosable
    /\ dividends' = dividends + DividendsDue(DayOf[now + 1], bs)
    /\ borrowed' = borrowed + BorrowFee(now + 1)
    /\ wealth' = wealth + DividendsDue(DayOf[now + 1], bs) - BorrowFee(now + 1)
    /\ matching' = {i \in pending : order[i].sym \in bs}
    /\ selling' = {order[i].sym : i \in {j \in pending : order[j].side = "SELL"}}
    /\ IF DayOf[now + 1] # day
       THEN morning' = [s \in Syms |-> Qty(long[s])] /\ sold' = [s \in Syms |-> 0]
       ELSE UNCHANGED <<morning, sold>>
    /\ pc' = "match"
    /\ UNCHANGED <<mode, queue, long, short, pnl, fees, trade, adjusts, seen>>

Rank(s) == CHOOSE k \in DOMAIN Universe : Universe[k] = s

\* _matching_sequence: symbols that are being sold come first, to release their
\* cash, and within a symbol the order of the queue.
Before(i, j) ==
    LET a == order[i].sym
        b == order[j].sym
    IN  IF a = b THEN i < j
        ELSE IF (a \in selling) = (b \in selling) THEN Rank(a) < Rank(b) ELSE a \in selling

\* Order i is matched.
Matches(i) ==
    /\ pc = "match" /\ i \in matching /\ \A j \in matching \ {i} : Before(i, j)
    /\ matching' = matching \ {i}
    /\ UNCHANGED <<mode, now, pc, mark, bars, selling, adjusts, seen, morning>>

\* The bar does not reach the price of the order, or trades too little.
NotFilled(i) ==
    /\ Matches(i)
    /\ order[i].type = "LIMIT" \/ mode.volume
    /\ UNCHANGED <<queue, positions>>

\* A rejected order leaves the queue.
Rejects(i, why) ==
    /\ order' = [order EXCEPT ![i] = Refused(@, why)]
    /\ pending' = pending \ {i}
    /\ RecordsRejections(1)
    /\ UNCHANGED <<today, accepted, positions>>

\* An A-share order beyond the day's price limits.
LimitHit(i) == Matches(i) /\ mode.ashare /\ Rejects(i, "halted")

\* How many lots a sale of n shares uses up.
UsedUp(lots, n) ==
    CHOOSE m \in 0..Len(lots) :
        QtyUpTo(lots, m) <= n /\ (m < Len(lots) => n < QtyUpTo(lots, m + 1))

\* Lots are consumed first in, first out.
Consumed(lots, n) ==
    LET m == UsedUp(lots, n) IN
    [k \in 1..Len(lots) - m |->
       IF k = 1 THEN [lots[m + 1] EXCEPT !.qty = QtyUpTo(lots, m + 1) - n] ELSE lots[m + k]]

Lots(n) == IF n = 0 THEN <<>> ELSE <<[qty |-> n, price |-> mark]>>

\* next_trade: the trade of a symbol after a fill that leaves it at n shares.
NextTrade(t, n) ==
    IF n = 0 THEN NoTrade
    ELSE IF t.qty # 0 /\ (t.qty > 0) = (n > 0) THEN [t EXCEPT !.qty = n]
    ELSE [qty |-> n, opened |-> now]

Gain(side, closed, cost) == IF side = "BUY" THEN cost - closed * mark ELSE closed * mark - cost

\* Booking q shares of s, bought or sold: what is closed, and what is opened.
Books(s, side, q) ==
    LET from == IF side = "BUY" THEN short[s] ELSE long[s]
        closed == IF side = "BUY" /\ ~mode.short THEN 0 ELSE Least(Qty(from), q)
        rest == Consumed(from, closed)
        cost == Cost(from) - Cost(rest)
        opened == Lots(q - closed)
        n == IF side = "BUY" THEN net(s) + q ELSE net(s) - q
    IN  /\ IF side = "BUY"
           THEN /\ short' = [short EXCEPT ![s] = rest]
                /\ long' = [long EXCEPT ![s] = @ \o opened]
                /\ unclosable' = IF mode.ashare THEN [unclosable EXCEPT ![s] = @ + q - closed] ELSE unclosable
                /\ wealth' = wealth - q * mark - MinFee
                /\ sold' = sold
           ELSE /\ long' = [long EXCEPT ![s] = rest]
                /\ short' = [short EXCEPT ![s] = @ \o opened]
                /\ wealth' = wealth + q * mark - MinFee
                /\ sold' = [sold EXCEPT ![s] = @ + closed]
                /\ UNCHANGED unclosable
        /\ pnl' = pnl + Gain(side, closed, cost)
        /\ fees' = fees + MinFee
        /\ UNCHANGED <<dividends, borrowed>>
        /\ trade' = [trade EXCEPT ![s] = NextTrade(@, n)]

\* q of the c shares the bar allows are filled; what the cash did not pay for is
\* void, what the volume did not allow stays in the queue.
Fills(i, c, q) ==
    LET o == order[i]
        rest == o.qty - c IN
    /\ order' = [order EXCEPT ![i] =
                    [o EXCEPT !.qty = rest, !.filled = o.filled + q, !.voided = o.voided + c - q,
                              !.status = IF rest > 0 THEN "PARTIAL" ELSE "FILLED"]]
    /\ pending' = IF rest > 0 THEN pending ELSE pending \ {i}
    /\ Books(o.sym, o.side, q)
    /\ UNCHANGED <<today, ledger, overflow, accepted>>

\* _settle_buy_cash: an order that is too dear is cut to what the cash pays for,
\* with 0.5% to spare.
Affordable(c) ==
    IF c * mark + MinFee <= wealth THEN c ELSE (wealth * 1000) \div (mark * 1005)

\* _volume_capped_qty
Allowed(i) == IF mode.volume THEN 1..order[i].qty ELSE {order[i].qty}

FillBuy(i) ==
    /\ Matches(i) /\ order[i].side = "BUY"
    /\ \E c \in Allowed(i) :
         IF Affordable(c) <= 0 THEN Rejects(i, "cash") ELSE Fills(i, c, Affordable(c))

FillSell(i) ==
    /\ Matches(i) /\ order[i].side = "SELL"
    /\ \E c \in Allowed(i) :
         IF ~mode.short /\ c > net(order[i].sym) THEN Rejects(i, "position") ELSE Fills(i, c, c)

\* Mutant: an order is good for the calendar day after, too.
ExpiredLate(o) == \/ o.until # 0 /\ now >= o.until
                  \/ o.tif = "GTD" /\ o.till # 0 /\ day > o.till
                  \/ o.tif = "DAY" /\ o.since # 0 /\ day > o.since + 1

\* A timeout or, for a DAY order, a new day, or for a GTD order a day after its
\* date.  An order from before the first bar counts from that bar.
Expired(o) == \/ o.until # 0 /\ now >= o.until
              \/ o.tif = "GTD" /\ o.till # 0 /\ day > o.till
              \/ o.tif = "DAY" /\ o.since # 0 /\ day > o.since

Expire ==
    /\ pc = "match" /\ matching = {}
    /\ LET gone == {i \in pending : Expired(order[i])} IN
       /\ order' = [i \in DOMAIN order |->
                      IF i \in gone THEN Refused(order[i], "expired")
                      ELSE IF i \in pending /\ order[i].since = 0
                      THEN [order[i] EXCEPT !.since = day]
                      ELSE order[i]]
       /\ pending' = pending \ gone
       /\ RecordsRejections(Cardinality(gone))
    /\ pc' = "exits" /\ seen' = {} /\ selling' = {}
    /\ UNCHANGED <<mode, now, mark, bars, matching, positions, today, accepted, adjusts, morning>>

-----------------------------------------------------------------------------
(* Risk exits, adjustments, the strategy.                                   *)

\* Mutant: every bar orders the exit again.
ExitPendingNever(s) == FALSE

ExitPending(s) == \E i \in pending : order[i].sym = s /\ order[i].exit = "risk"

Market(s, side, n) == [sym |-> s, side |-> side, type |-> "MARKET", qty |-> n, tif |-> "GTC",
                       till |-> 0]
Against(s) == IF trade[s].qty > 0 THEN "SELL" ELSE "BUY"
Along(s) == IF trade[s].qty > 0 THEN "BUY" ELSE "SELL"

\* The symbols whose trade is looked at: those with a bar, and no exit on its way.
Looked(s) == trade[s].qty # 0 /\ s \in bars \ seen /\ ~ExitPending(s)

\* A rule hits: the whole trade is to be closed.
RiskExit(s, hook) ==
    /\ pc = "exits" /\ Looked(s)
    /\ Submits(NewOrder(Market(s, Against(s), Size(trade[s].qty)), "risk"), hook)
    /\ seen' = seen \cup {s}
    /\ UNCHANGED <<mode, now, pc, mark, bars, matching, selling, positions, adjusts, morning>>

ExitsDone ==
    /\ pc = "exits"
    /\ pc' = "adjust" /\ seen' = {}
    /\ UNCHANGED <<mode, now, mark, bars, queue, matching, selling, positions, adjusts, morning>>

SameTrade(s) == adjusts[s].opened = trade[s].opened /\ adjusts[s].long = (trade[s].qty > 0)
Used(s) == IF SameTrade(s) THEN adjusts[s].count ELSE 0

\* adjust_position asks for n shares more, or fewer; what is queued is counted.
Adjust(s, side, n, hook) ==
    /\ pc = "adjust" /\ Looked(s) /\ Used(s) < MaxAdjusts
    /\ side = Along(s) \/ n <= Size(trade[s].qty)
    /\ Submits(NewOrder(Market(s, side, n), IF side = Along(s) THEN "none" ELSE "partial"), hook)
    /\ adjusts' = IF pending' = pending THEN adjusts
                  ELSE [adjusts EXCEPT ![s] = [opened |-> trade[s].opened, long |-> trade[s].qty > 0,
                                               count |-> Used(s) + 1]]
    /\ seen' = seen \cup {s}
    /\ UNCHANGED <<mode, now, pc, mark, bars, matching, selling, positions, morning>>

AdjustsDone ==
    /\ pc = "adjust"
    /\ pc' = "strategy" /\ seen' = {}
    /\ UNCHANGED <<mode, now, mark, bars, queue, matching, selling, positions, adjusts, morning>>

\* on_start and on_bars order what they like.
Wants(w, hook) ==
    /\ pc = "strategy"
    /\ Submits(NewOrder(w, "none"), hook)
    /\ UNCHANGED <<mode, now, pc, mark, bars, matching, selling, positions, adjusts, seen, morning>>

StrategyDone ==
    /\ pc = "strategy"
    /\ pc' = "next"
    /\ UNCHANGED <<mode, now, mark, bars, queue, matching, selling, positions, adjusts, seen, morning>>

\* After the last time point the queue is cancelled, without a reason.
End ==
    /\ pc = "next" /\ now = Len(DayOf)
    /\ order' = [i \in DOMAIN order |-> IF i \in pending
                                        THEN [order[i] EXCEPT !.status = "CANCELLED"] ELSE order[i]]
    /\ pending' = {}
    /\ pc' = "done"
    /\ UNCHANGED <<mode, now, mark, bars, matching, selling, positions, today, ledger, overflow, accepted,
                   adjusts, seen, morning>>

BacktestNext ==
    \/ \E bs \in BarSets : NextBars(bs)
    \/ \E i \in matching : NotFilled(i) \/ LimitHit(i) \/ FillBuy(i) \/ FillSell(i)
    \/ Expire \/ ExitsDone \/ AdjustsDone \/ StrategyDone \/ End
    \/ \E hook \in Hooks :
         \/ \E s \in Syms : RiskExit(s, hook) \/ \E side \in {"BUY", "SELL"} : Adjust(s, side, 1, hook)
         \/ \E w \in Wishes : Wants(w, hook)

BacktestSpec == BacktestInit /\ [][BacktestNext]_brokerVars

-----------------------------------------------------------------------------
(* Properties.                                                              *)

Statuses == {"PENDING", "PARTIAL", "FILLED", "CANCELLED", "REJECTED"}

\* Types, and: the queue holds the orders that are open.
BrokerTypeOK ==
    /\ mode \in Modes /\ now \in 0..Len(DayOf)
    /\ \A i \in DOMAIN order : order[i].status \in Statuses /\ order[i].qty >= 0
    /\ pending = {i \in DOMAIN order : order[i].status \in {"PENDING", "PARTIAL"}}
    /\ matching \subseteq pending
    /\ ledger \in 0..MaxRecorded /\ overflow \in Nat

\* The minimum fee is no more than the price of a share.
FeesAreSmall == \A t \in Times : \A p \in PricesAt[t] : MinFee <= p

\* What was asked for is filled, void for want of cash, or still in the queue;
\* an order is never filled beyond what it asked.  (With a fee beyond the price of
\* a share, the quantity an order is cut to can be larger than what it asked.)
QuantityIsKept ==
    \A i \in DOMAIN order :
        LET o == order[i] IN
        /\ o.asked = o.filled + o.voided + o.qty
        /\ FeesAreSmall => o.filled <= o.asked /\ o.voided >= 0

\* A closed order is closed: what was rejected, cancelled or filled does not trade
\* at a later bar.
ClosedIsClosed ==
    [][\A i \in DOMAIN order :
         order[i].status \in {"FILLED", "CANCELLED", "REJECTED"} => order'[i] = order[i]]_brokerVars

\* The books balance: cash is what was there, with the profit of closed lots, the
\* proceeds of short lots and the price of long lots, less the fees, and with the
\* dividends less what was paid for borrowed shares.
LotsBalance ==
    LET shorts == SumFunctionOnSet([s \in Syms |-> Cost(short[s])], Syms)
        longs == SumFunctionOnSet([s \in Syms |-> Cost(long[s])], Syms)
    IN  wealth = Cash0 + pnl + shorts - longs - fees + dividends - borrowed

\* A symbol is held in one direction, short only where that is allowed, and the
\* risk gate's trade is the position.
TradeIsPosition ==
    \A s \in Syms :
        /\ long[s] = <<>> \/ short[s] = <<>>
        /\ ~mode.short => short[s] = <<>>
        /\ trade[s].qty = net(s)

\* Cash falls below zero by less than one fee, besides what was paid for borrowed
\* shares, which no one compares with the cash: the margin of 0.5% need not cover
\* a minimum fee, but what lacks cash buys nothing.  (Nor does a sale then earn
\* less than its fee.)
CashIsBounded == FeesAreSmall => wealth + borrowed >= 0 \/ wealth + borrowed > -MinFee

\* What is in the queue has not expired: a DAY order is not carried over a bar of
\* a later day, a GTD order not over its date unless it was ordered after it, that
\* day, and an order with a timeout not over its time.
ExpiryIsKept ==
    pc \in {"exits", "adjust", "strategy", "next"} =>
        \A i \in pending :
            /\ order[i].tif = "DAY" /\ order[i].since # 0 => day <= order[i].since
            /\ order[i].tif = "GTD" /\ order[i].till # 0 =>
                   day <= order[i].till \/ order[i].since = day
            /\ order[i].until # 0 => now < order[i].until

\* The limit on orders is one for each day: never more are queued, and none is
\* refused for it on a day on which fewer were.
CountIsOfTheDay ==
    /\ \A d \in DOMAIN accepted : accepted[d] <= MaxCount
    /\ \A i \in DOMAIN order : order[i].why = "count" => accepted[order[i].since] = MaxCount

\* Every order that was refused, vetoed or has expired is in the ledger, or
\* counted as one it had no room for.
RefusalsAreRecorded ==
    ledger + overflow = Cardinality({i \in DOMAIN order : order[i].why # "none"})

\* A risk exit is ordered once, however many bars it takes to be filled.
OneRiskExit ==
    \A i, j \in pending :
        order[i].exit = "risk" /\ order[j].exit = "risk" /\ order[i].sym = order[j].sym => i = j

\* What broker.py says of A shares: shares that were bought today cannot be sold.
TPlusOne == mode.ashare => \A s \in Syms : sold[s] <= morning[s]

\* An order of a backtest is accounted for from its request to its end: filled,
\* cut, expired, refused or waiting, and never again once it is closed
\* (broker.py).
OrdersAreKept ==
    /\ [](QuantityIsKept /\ ExpiryIsKept /\ CountIsOfTheDay /\ RefusalsAreRecorded)
    /\ ClosedIsClosed

\* Lots, cash, profit and trade tell one story: what was bought and sold is held,
\* paid and booked, with dividends and borrow fees; cash falls below zero by less
\* than a fee besides those; the trade is the position, and a position has one risk
\* exit at most (broker.py, trade.py).
BooksBalance == BrokerTypeOK /\ LotsBalance /\ CashIsBounded /\ TradeIsPosition /\ OneRiskExit
=============================================================================
