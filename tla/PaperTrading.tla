---------------------------- MODULE PaperTrading ----------------------------
(***************************************************************************)
(* The OMS with paper gateways only (init_paper_order_manager), one market *)
(* of it.  PaperGateway never suspends, so submit_order, cancel_order and a *)
(* whole poll round are one step each (their last awaits, event and audit, *)
(* come after every change of state).                                      *)
(*                                                                         *)
(* The controls MaxPositionSize(max_shares) and LongOnly may be installed, *)
(* with on_error "log".  Prices and the commission, which the gateway      *)
(* computes from the notional, are small numbers; average cost is left out. *)
(***************************************************************************)
EXTENDS Integers, FiniteSets, Functions

CONSTANTS
  Ids,          \* order ids
  Symbols,      \* the traded symbols
  Qtys,         \* the quantities callers ask for
  Prices,       \* the prices of the cache
  Fee,          \* the commission of a fill
  InitialCash,  \* initial_cash
  LongOnly,     \* TRUE iff the LongOnly control is installed
  MaxShares     \* max_shares of the MaxPositionSize control

ASSUME QtyAssumption == Qtys \subseteq Nat \ {0} /\ Prices \subseteq Nat \ {0}
ASSUME MoneyAssumption == Fee \in Nat /\ InitialCash \in Int
ASSUME ControlAssumption == LongOnly \in BOOLEAN /\ MaxShares \in Nat

VARIABLES
  orders,      \* OrderManager._orders, the LiveOrder of each recorded id
  cash,        \* PaperGateway._cash
  position,    \* PaperGateway._positions, the quantities
  price        \* PaperGateway._prices

gateway == <<cash, position, price>>
vars == <<orders, gateway>>

Recorded == DOMAIN orders

is_active(o) == orders[o].status \in {"pending_submit", "submitted", "partial"}

Signed(side, n) == IF side = "BUY" THEN n ELSE -n

\* What each order has added to the position of its symbol.
Moves == [o \in Recorded |-> Signed(orders[o].side, orders[o].filled_qty)]

OrdersOf(sym) == {o \in Recorded : orders[o].symbol = sym}

\* OrderManager._net_position
net_position(sym) == SumFunctionOnSet(Moves, OrdersOf(sym))

Abs(n) == IF n < 0 THEN -n ELSE n

\* MaxPositionSize.validate, LongOnly.validate
Violation(sym, side, qty) ==
  LET projected == net_position(sym) + Signed(side, qty)
  IN Abs(projected) > MaxShares \/ (LongOnly /\ projected < 0)

\* The LiveOrder of a request the gateway has taken.
Order(sym, side, qty, type) ==
  [symbol |-> sym, side |-> side, qty |-> qty, type |-> type, status |-> "submitted",
   filled_qty |-> 0, avg_fill_price |-> 0]

Records(o, order) == orders' = [k \in Recorded \union {o} |-> IF k = o THEN order ELSE orders[k]]

-----------------------------------------------------------------------------
Init ==
  /\ orders = <<>>
  /\ cash = InitialCash
  /\ position = [s \in Symbols |-> 0]
  /\ price \in [Symbols -> Prices]

\* A control or, for a BUY, a protection refuses the order.
SubmitRefused(o, sym, side, qty, type) ==
  /\ Violation(sym, side, qty) \/ side = "BUY"
  /\ Records(o, [Order(sym, side, qty, type) EXCEPT !.status = "rejected"])
  /\ UNCHANGED gateway

\* A limit order rests: the gateway keeps nothing of it.
SubmitLimit(o, sym, side, qty) ==
  /\ ~Violation(sym, side, qty)
  /\ Records(o, Order(sym, side, qty, "LIMIT"))
  /\ UNCHANGED gateway

\* What a fill adds to the cash.
Proceeds(side, qty, p) == IF side = "BUY" THEN -(p * qty + Fee) ELSE p * qty - Fee

\* _update_position_buy, _update_position_sell
Held(n, side, qty) ==
  IF side = "BUY" THEN n + qty ELSE IF n < qty THEN 0 ELSE n - qty

\* PaperGateway.submit_order fills a market order at the cached price.
SubmitMarket(o, sym, side, qty) ==
  /\ ~Violation(sym, side, qty)
  /\ Records(o, [Order(sym, side, qty, "MARKET") EXCEPT
                   !.status = "filled", !.filled_qty = qty, !.avg_fill_price = price[sym]])
  /\ cash' = cash + Proceeds(side, qty, price[sym])
  /\ position' = [position EXCEPT ![sym] = Held(@, side, qty)]
  /\ UNCHANGED price

\* submit_order
Submit(o) ==
  /\ o \notin Recorded
  /\ \E sym \in Symbols, side \in {"BUY", "SELL"}, qty \in Qtys :
       \/ \E type \in {"MARKET", "LIMIT"} : SubmitRefused(o, sym, side, qty, type)
       \/ SubmitLimit(o, sym, side, qty)
       \/ SubmitMarket(o, sym, side, qty)

\* cancel_order: PaperGateway.cancel_order does nothing.
Cancel(o) ==
  /\ o \in Recorded
  /\ is_active(o)
  /\ orders' = [orders EXCEPT ![o].status = "cancelled"]
  /\ UNCHANGED gateway

\* Mutant: every order is asked about.
PollRoundAll ==
  /\ \E o \in Recorded : is_active(o)
  /\ orders' = [o \in Recorded |->
                  [orders[o] EXCEPT !.status = "filled", !.filled_qty = 0, !.avg_fill_price = 0]]
  /\ UNCHANGED gateway

\* _sync_active_orders: PaperGateway.get_order answers "filled" and names no
\* quantity, which _apply_broker_update reads as 0.
PollRound ==
  /\ \E o \in Recorded : is_active(o)
  /\ orders' = [o \in Recorded |->
                  IF is_active(o)
                  THEN [orders[o] EXCEPT !.status = "filled", !.filled_qty = 0,
                                         !.avg_fill_price = 0]
                  ELSE orders[o]]
  /\ UNCHANGED gateway

\* update_price
UpdatePrice(sym) ==
  /\ \E p \in Prices \ {price[sym]} : price' = [price EXCEPT ![sym] = p]
  /\ UNCHANGED <<orders, cash, position>>

Next ==
  \/ \E o \in Ids : Submit(o) \/ Cancel(o)
  \/ PollRound
  \/ \E sym \in Symbols : UpdatePrice(sym)

Spec == Init /\ [][Next]_vars

-----------------------------------------------------------------------------
(* Properties *)

LiveOrder ==
  [symbol : Symbols, side : {"BUY", "SELL"}, qty : Nat \ {0}, type : {"MARKET", "LIMIT"},
   status : {"submitted", "filled", "cancelled", "rejected"},
   filled_qty : Nat, avg_fill_price : {0} \union Prices]

TypeOK ==
  /\ Recorded \subseteq Ids
  /\ \A o \in Recorded : orders[o] \in LiveOrder
  /\ cash \in Int
  /\ position \in [Symbols -> Nat]
  /\ price \in [Symbols -> Prices]

\* The two ledgers of one account agree: what the OMS derives from the orders
\* of its book, and the controls decide on, is what the gateway holds.  It
\* takes LongOnly: a sale of more than is held leaves the gateway with nothing
\* and the book with a negative position.
BookMatchesGateway == \A sym \in Symbols : net_position(sym) = position[sym]

\* What each order has added to the cash, by its report.
Flows ==
  [o \in Recorded |->
     -Signed(orders[o].side, orders[o].filled_qty * orders[o].avg_fill_price)
     - (IF orders[o].filled_qty > 0 THEN Fee ELSE 0)]

\* The gateway's cash is what the fills reported in the order book add up to,
\* at the prices and fees reported there: polls and cancels lose none of it.
CashMatchesBook == cash = InitialCash + SumFunctionOnSet(Flows, Recorded)

\* However many orders are under way, the controls keep what the gateway holds
\* within MaxPositionSize.
PositionWithinLimit == \A sym \in Symbols : position[sym] <= MaxShares

\* The two books of the paper account agree, whatever the order of submits, fills,
\* cancels and polls: the order book with the gateway's positions, the cash with
\* what was executed, and the positions with the limits of the risk rules.
BooksMatch == TypeOK /\ BookMatchesGateway /\ CashMatchesBook /\ PositionWithinLimit
=============================================================================
