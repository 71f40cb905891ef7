---------------------------- MODULE Account_proofs ----------------------------
(***************************************************************************)
(* The two simulated accounts.                                             *)
(*                                                                         *)
(* The paper account, for all symbols, quantities, prices and limits, for  *)
(* all previews, executions and weights: what the order book says of       *)
(* positions and cash is what the gateway holds (PaperTrading), and what   *)
(* executions of previews and drafts report is true (PaperRebalance).      *)
(* Both sides of the books are sums over the orders, and an action changes *)
(* one summand (DataTheorems).  Positions agree under LongOnly only: a     *)
(* sale of more than is held leaves the gateway with nothing and the book  *)
(* with a negative position.                                               *)
(*                                                                         *)
(* The backtest account, for all symbols, days, prices, wishes, markets    *)
(* and limits: orders, lots, cash, profit and trades stay one story        *)
(* (BacktestBroker).  Lots are sequences; their sums grow lot by lot, and  *)
(* what a sale takes from the front of them is missing from their sum.     *)
(***************************************************************************)
EXTENDS PaperRebalance, BacktestBroker, DataTheorems, SequenceTheorems, TLAPS

\* An order that is still asked about has reported nothing: with the paper
\* gateway, an order is filled when it is placed or not at all.
ActiveIsUnfilled ==
  \A o \in Recorded : is_active(o) => orders[o].filled_qty = 0

\* What holds with any controls.
CashInv ==
  /\ TypeOK /\ IsFiniteSet(Recorded)
  /\ ActiveIsUnfilled /\ CashMatchesBook

\* The strengthening of BooksMatch.
BooksInv == CashInv /\ BookMatchesGateway /\ PositionWithinLimit

-----------------------------------------------------------------------------
(* Sums over the order book.                                               *)

\* What the fields of an order can be.
LEMMA OrderFields ==
  ASSUME NEW ord \in LiveOrder
  PROVE  /\ ord.filled_qty \in Nat /\ ord.avg_fill_price \in Nat
         /\ ord.side \in {"BUY", "SELL"}
<1>1. {0} \cup Prices \subseteq Nat
  BY QtyAssumption
<1>2. ord.filled_qty \in Nat /\ ord.side \in {"BUY", "SELL"}
  BY DEF LiveOrder
<1>3. ord.avg_fill_price \in {0} \cup Prices
  BY DEF LiveOrder
<1> QED BY <1>1, <1>2, <1>3

\* What an order adds is an integer.
LEMMA SummandsAreIntegers ==
  ASSUME TypeOK
  PROVE  \A o \in Recorded : Moves[o] \in Int /\ Flows[o] \in Int
<1> SUFFICES ASSUME NEW o \in Recorded PROVE Moves[o] \in Int /\ Flows[o] \in Int
  OBVIOUS
<1>1. /\ orders[o].filled_qty \in Nat /\ orders[o].avg_fill_price \in Nat
      /\ orders[o].side \in {"BUY", "SELL"}
  BY OrderFields DEF TypeOK
<1>2. orders[o].filled_qty * orders[o].avg_fill_price \in Nat
  BY <1>1
<1> QED BY <1>1, <1>2, MoneyAssumption DEF Moves, Flows, Signed

\* A new order adds its own part to the position of its symbol and to the cash.
LEMMA NewOrderAdds ==
  ASSUME TypeOK, IsFiniteSet(Recorded), NEW o \in Ids, o \notin Recorded,
         NEW ord \in LiveOrder, Records(o, ord)
  PROVE  /\ Recorded' = Recorded \cup {o} /\ IsFiniteSet(Recorded')
         /\ orders'[o] = ord /\ \A k \in Recorded : orders'[k] = orders[k]
         /\ \A sym \in Symbols :
              net_position(sym)' =
                net_position(sym)
                + (IF sym = ord.symbol THEN Signed(ord.side, ord.filled_qty) ELSE 0)
         /\ SumFunctionOnSet(Flows, Recorded)' = SumFunctionOnSet(Flows, Recorded) + Flows'[o]
         /\ Flows'[o] \in Int
<1>1. /\ Recorded' = Recorded \cup {o} /\ o \in Recorded'
      /\ orders'[o] = ord /\ \A k \in Recorded : orders'[k] = orders[k]
  BY DEF Records, Recorded
<1>2. IsFiniteSet(Recorded')
  BY <1>1, FS_AddElement
<1>3. /\ \A k \in Recorded : Moves'[k] = Moves[k] /\ Flows'[k] = Flows[k]
      /\ Moves'[o] = Signed(ord.side, ord.filled_qty)
  BY <1>1 DEF Moves, Flows
<1>4. \A k \in Recorded : Moves[k] \in Int /\ Flows[k] \in Int
  BY SummandsAreIntegers
<1>5. Moves'[o] \in Int /\ Flows'[o] \in Int
  <2>1. /\ ord.filled_qty \in Nat /\ ord.avg_fill_price \in Nat
        /\ ord.side \in {"BUY", "SELL"}
    BY OrderFields
  <2>2. ord.filled_qty * ord.avg_fill_price \in Nat
    BY <2>1
  <2> QED BY <1>1, <1>3, <2>1, <2>2, MoneyAssumption DEF Flows, Signed
<1>6. ASSUME NEW sym \in Symbols
      PROVE  net_position(sym)' =
               net_position(sym)
               + (IF sym = ord.symbol THEN Signed(ord.side, ord.filled_qty) ELSE 0)
  <2> DEFINE S == OrdersOf(sym)
  <2>1. IsFiniteSet(S) /\ S \subseteq Recorded /\ o \notin S
    BY FS_Subset DEF OrdersOf
  <2>2. \A k \in S : Moves'[k] = Moves[k] /\ Moves'[k] \in Int
    BY <1>3, <1>4, <2>1
  <2>3. SumFunctionOnSet(Moves', S) = SumFunctionOnSet(Moves, S)
    <3> HIDE DEF S
    <3> QED BY <2>1, <2>2, SumSame
  <2>4. SumFunctionOnSet(Moves', S) \in Int
    <3> HIDE DEF S
    <3> QED BY <2>1, <2>2, SumType
  <2>5. CASE sym = ord.symbol
    <3>1. OrdersOf(sym)' = S \cup {o}
      BY <1>1, <2>5 DEF OrdersOf
    <3>2. \A k \in S \cup {o} : Moves'[k] \in Int
      BY <1>5, <2>2
    <3>3. SumFunctionOnSet(Moves', S \cup {o}) = SumFunctionOnSet(Moves', S) + Moves'[o]
      <4> HIDE DEF S
      <4> QED BY <2>1, <3>2, SumAdd
    <3> QED BY <1>3, <2>3, <2>5, <3>1, <3>3 DEF net_position
  <2>6. CASE sym # ord.symbol
    <3>1. OrdersOf(sym)' = S
      BY <1>1, <2>6 DEF OrdersOf
    <3> QED BY <2>3, <2>4, <2>6, <3>1 DEF net_position
  <2> QED BY <2>5, <2>6
<1>7. SumFunctionOnSet(Flows, Recorded)' = SumFunctionOnSet(Flows, Recorded) + Flows'[o]
  <2>1. SumFunctionOnSet(Flows', Recorded) = SumFunctionOnSet(Flows, Recorded)
    BY <1>3, SumSame
  <2>2. \A k \in Recorded \cup {o} : Flows'[k] \in Int
    BY <1>3, <1>4, <1>5
  <2>3. SumFunctionOnSet(Flows', Recorded \cup {o}) =
          SumFunctionOnSet(Flows', Recorded) + Flows'[o]
    BY <2>2, SumAdd
  <2> QED BY <1>1, <2>1, <2>3
<1> QED BY <1>1, <1>2, <1>5, <1>6, <1>7

\* A step that changes neither what the orders are of nor what they add changes
\* no sum.
LEMMA SumsStay ==
  ASSUME TypeOK, IsFiniteSet(Recorded), Recorded' = Recorded,
         \A o \in Recorded : /\ orders'[o].symbol = orders[o].symbol
                             /\ Moves'[o] = Moves[o] /\ Flows'[o] = Flows[o]
  PROVE  /\ \A sym \in Symbols : net_position(sym)' = net_position(sym)
         /\ SumFunctionOnSet(Flows, Recorded)' = SumFunctionOnSet(Flows, Recorded)
<1>1. ASSUME NEW sym \in Symbols PROVE net_position(sym)' = net_position(sym)
  <2> DEFINE S == OrdersOf(sym)
  <2>1. OrdersOf(sym)' = S /\ S \subseteq Recorded
    BY DEF OrdersOf
  <2>2. IsFiniteSet(S)
    BY <2>1, FS_Subset
  <2>3. SumFunctionOnSet(Moves', S) = SumFunctionOnSet(Moves, S)
    <3> HIDE DEF S
    <3> QED BY <2>1, <2>2, SumSame
  <2> QED BY <2>1, <2>3 DEF net_position
<1>2. SumFunctionOnSet(Flows', Recorded) = SumFunctionOnSet(Flows, Recorded)
  BY SumSame
<1> QED BY <1>1, <1>2

\* Both sums are integers.
LEMMA SumsAreIntegers ==
  ASSUME TypeOK, IsFiniteSet(Recorded)
  PROVE  /\ \A sym \in Symbols : net_position(sym) \in Int
         /\ SumFunctionOnSet(Flows, Recorded) \in Int
<1>1. \A o \in Recorded : Moves[o] \in Int /\ Flows[o] \in Int
  BY SummandsAreIntegers
<1>2. ASSUME NEW sym \in Symbols PROVE net_position(sym) \in Int
  <2>1. OrdersOf(sym) \subseteq Recorded /\ IsFiniteSet(OrdersOf(sym))
    BY FS_Subset DEF OrdersOf
  <2> QED BY <1>1, <2>1, SumType DEF net_position
<1>3. SumFunctionOnSet(Flows, Recorded) \in Int
  BY <1>1, SumType
<1> QED BY <1>2, <1>3

-----------------------------------------------------------------------------
(* The actions, for any controls: the cash stays matched, and the position *)
(* of the book changes by what is filled.                                  *)

\* What an action must show beside the types.
Unmoved == \A sym \in Symbols : net_position(sym)' = net_position(sym)

\* An order that has reported no fill moves nothing.
LEMMA QuietOrderKeepsCash ==
  ASSUME CashInv, NEW o \in Ids, o \notin Recorded, NEW ord \in LiveOrder,
         ord.filled_qty = 0, ord.avg_fill_price = 0,
         Records(o, ord), UNCHANGED gateway
  PROVE  CashInv' /\ Unmoved /\ position' = position
<1>1. TypeOK /\ IsFiniteSet(Recorded) /\ ActiveIsUnfilled /\ CashMatchesBook
  BY DEF CashInv
<1>2. cash' = cash /\ position' = position /\ price' = price
  BY DEF gateway
<1>3. /\ Recorded' = Recorded \cup {o} /\ IsFiniteSet(Recorded')
      /\ orders'[o] = ord /\ \A k \in Recorded : orders'[k] = orders[k]
      /\ \A sym \in Symbols :
           net_position(sym)' =
             net_position(sym)
             + (IF sym = ord.symbol THEN Signed(ord.side, ord.filled_qty) ELSE 0)
      /\ SumFunctionOnSet(Flows, Recorded)' = SumFunctionOnSet(Flows, Recorded) + Flows'[o]
  BY <1>1, NewOrderAdds
<1>4. \A side : Signed(side, 0) = 0
  <2>1. -0 = 0
    <3>1. \A n \in Int : -n = 0 - n
      OBVIOUS
    <3>2. 0 \in Int /\ 0 - 0 = 0
      OBVIOUS
    <3>3. -0 = 0 - 0
      BY <3>1, <3>2, Zenon
    <3> QED BY <3>2, <3>3, Zenon
  <2>2. TAKE side
  <2>3. CASE side = "BUY"
    BY <2>3 DEF Signed
  <2>4. CASE side # "BUY"
    BY <2>1, <2>4 DEF Signed
  <2> QED BY <2>3, <2>4
<1>5. Flows'[o] = 0
  <2>1. Flows'[o] = -Signed(ord.side, ord.filled_qty * ord.avg_fill_price)
                    - (IF ord.filled_qty > 0 THEN Fee ELSE 0)
    BY <1>3 DEF Flows
  <2>2. ord.filled_qty * ord.avg_fill_price = 0 /\ ~(ord.filled_qty > 0)
    OBVIOUS
  <2>3. Flows'[o] = -Signed(ord.side, 0) - 0
    BY <2>1, <2>2
  <2> QED BY <1>4, <2>3
<1>6. Unmoved
  BY <1>1, <1>3, <1>4, SumsAreIntegers DEF Unmoved
<1>7. TypeOK'
  BY <1>1, <1>2, <1>3 DEF TypeOK
<1>8. ActiveIsUnfilled'
  BY <1>1, <1>3 DEF ActiveIsUnfilled, is_active
<1>9. CashMatchesBook'
  BY <1>1, <1>2, <1>3, <1>5, SumsAreIntegers DEF CashMatchesBook, TypeOK
<1> QED BY <1>2, <1>3, <1>6, <1>7, <1>8, <1>9 DEF CashInv

LEMMA RefusedKeepsCash ==
  ASSUME CashInv, NEW o \in Ids, o \notin Recorded, NEW sym \in Symbols,
         NEW side \in {"BUY", "SELL"}, NEW qty \in Nat \ {0}, NEW type \in {"MARKET", "LIMIT"},
         SubmitRefused(o, sym, side, qty, type)
  PROVE  CashInv' /\ Unmoved /\ position' = position
<1> DEFINE ord == [Order(sym, side, qty, type) EXCEPT !.status = "rejected"]
<1>1. /\ ord \in LiveOrder
      /\ ord.filled_qty = 0 /\ ord.avg_fill_price = 0 /\ ord.status = "rejected"
      /\ ord.side = side
  BY DEF Order, LiveOrder
<1>2. Records(o, ord) /\ UNCHANGED gateway /\ TypeOK /\ IsFiniteSet(Recorded)
  BY DEF SubmitRefused, CashInv
<1> HIDE DEF ord
<1> QED BY <1>1, <1>2, QuietOrderKeepsCash

LEMMA LimitKeepsCash ==
  ASSUME CashInv, NEW o \in Ids, o \notin Recorded, NEW sym \in Symbols,
         NEW side \in {"BUY", "SELL"}, NEW qty \in Nat \ {0}, SubmitLimit(o, sym, side, qty)
  PROVE  CashInv' /\ Unmoved /\ position' = position
<1> DEFINE ord == Order(sym, side, qty, "LIMIT")
<1>1. /\ ord \in LiveOrder
      /\ ord.filled_qty = 0 /\ ord.avg_fill_price = 0 /\ ord.side = side
  BY DEF Order, LiveOrder
<1>2. Records(o, ord) /\ UNCHANGED gateway /\ TypeOK /\ IsFiniteSet(Recorded)
  BY DEF SubmitLimit, CashInv
<1> HIDE DEF ord
<1> QED BY <1>1, <1>2, QuietOrderKeepsCash

\* A fill: the position of its symbol and the cash.
LEMMA MarketKeepsCash ==
  ASSUME CashInv, NEW o \in Ids, o \notin Recorded, NEW sym \in Symbols,
         NEW side \in {"BUY", "SELL"}, NEW qty \in Nat \ {0}, SubmitMarket(o, sym, side, qty)
  PROVE  /\ CashInv'
         /\ \A s \in Symbols :
              net_position(s)' = net_position(s) + (IF s = sym THEN Signed(side, qty) ELSE 0)
<1> DEFINE ord == [Order(sym, side, qty, "MARKET") EXCEPT
                       !.status = "filled", !.filled_qty = qty, !.avg_fill_price = price[sym]]
           p == price[sym]
<1>1. p \in Prices /\ p \in Nat
  BY QtyAssumption DEF CashInv, TypeOK
<1>2. /\ ord \in LiveOrder
      /\ ord.filled_qty = qty /\ ord.avg_fill_price = p /\ ord.status = "filled"
      /\ ord.side = side /\ ord.symbol = sym
  BY <1>1 DEF Order, LiveOrder
<1>3. Records(o, ord) /\ cash' = cash + Proceeds(side, qty, p) /\ price' = price
      /\ position' = [position EXCEPT ![sym] = Held(@, side, qty)]
  BY DEF SubmitMarket
<1>4. TypeOK /\ IsFiniteSet(Recorded) /\ ActiveIsUnfilled /\ CashMatchesBook
  BY DEF CashInv
<1> HIDE DEF ord, p
<1>5. /\ Recorded' = Recorded \cup {o} /\ IsFiniteSet(Recorded')
      /\ orders'[o] = ord /\ \A k \in Recorded : orders'[k] = orders[k]
      /\ \A s \in Symbols :
           net_position(s)' = net_position(s) + (IF s = sym THEN Signed(side, qty) ELSE 0)
      /\ SumFunctionOnSet(Flows, Recorded)' = SumFunctionOnSet(Flows, Recorded) + Flows'[o]
      /\ Flows'[o] \in Int
  <2>1. Signed(ord.side, ord.filled_qty) = Signed(side, qty)
    BY <1>2
  <2>2. \A s \in Symbols : (s = ord.symbol) <=> (s = sym)
    BY <1>2
  <2>3. /\ Recorded' = Recorded \cup {o} /\ IsFiniteSet(Recorded')
        /\ orders'[o] = ord /\ \A k \in Recorded : orders'[k] = orders[k]
        /\ \A s \in Symbols :
             net_position(s)' =
               net_position(s)
               + (IF s = ord.symbol THEN Signed(ord.side, ord.filled_qty) ELSE 0)
        /\ SumFunctionOnSet(Flows, Recorded)' = SumFunctionOnSet(Flows, Recorded) + Flows'[o]
        /\ Flows'[o] \in Int
    BY <1>2, <1>3, <1>4, NewOrderAdds
  <2> QED BY <2>1, <2>2, <2>3
<1>6. Proceeds(side, qty, p) \in Int /\ Flows'[o] = Proceeds(side, qty, p)
  <2>1. qty * p \in Nat /\ qty * p = p * qty
    BY <1>1
  <2>2. Flows'[o] = -Signed(side, qty * p) - (IF qty > 0 THEN Fee ELSE 0)
    BY <1>2, <1>5 DEF Flows
  <2>3. qty > 0
    OBVIOUS
  <2>4. Flows'[o] = -Signed(side, qty * p) - Fee
    BY <2>2, <2>3
  <2> HIDE DEF p
  <2> DEFINE n == qty * p
  <2>5. Flows'[o] = -Signed(side, n) - Fee /\ n \in Nat
        /\ Proceeds(side, qty, p) = IF side = "BUY" THEN -(n + Fee) ELSE n - Fee
    BY <2>1, <2>4 DEF Proceeds
  <2> HIDE DEF n
  <2> QED BY <2>5, MoneyAssumption DEF Signed
<1>7. CashMatchesBook'
  <2>1. SumFunctionOnSet(Flows, Recorded) \in Int
    BY <1>4, SumsAreIntegers
  <2> QED BY <1>3, <1>4, <1>5, <1>6, <2>1, MoneyAssumption DEF CashMatchesBook, TypeOK
<1>8. TypeOK'
  <2>1. \A s \in Symbols : position[s] \in Nat
    BY <1>4 DEF TypeOK
  <2>2. Held(position[sym], side, qty) \in Nat
    BY <2>1 DEF Held
  <2>3. position' \in [Symbols -> Nat]
    BY <1>3, <1>4, <2>2 DEF TypeOK
  <2>4. cash' \in Int
    BY <1>3, <1>4, <1>6 DEF TypeOK
  <2>5. \A k \in Recorded' : orders'[k] \in LiveOrder
    BY <1>2, <1>4, <1>5 DEF TypeOK
  <2> QED BY <1>3, <1>4, <1>5, <2>3, <2>4, <2>5 DEF TypeOK
<1>9. ActiveIsUnfilled'
  BY <1>2, <1>4, <1>5 DEF ActiveIsUnfilled, is_active
<1> QED BY <1>5, <1>7, <1>8, <1>9 DEF CashInv

LEMMA CancelKeepsCash ==
  ASSUME CashInv, NEW o, Cancel(o)
  PROVE  CashInv' /\ Unmoved /\ position' = position
<1>1. /\ o \in Recorded /\ orders' = [orders EXCEPT ![o].status = "cancelled"]
      /\ cash' = cash /\ position' = position /\ price' = price
  BY DEF Cancel, gateway
<1>2. TypeOK /\ IsFiniteSet(Recorded) /\ ActiveIsUnfilled /\ CashMatchesBook
  BY DEF CashInv
<1>3. Recorded' = Recorded
  BY <1>1 DEF Recorded
<1>4. ASSUME NEW k \in Recorded
      PROVE  /\ orders'[k] \in LiveOrder
             /\ orders'[k].symbol = orders[k].symbol
             /\ Moves'[k] = Moves[k] /\ Flows'[k] = Flows[k]
             /\ is_active(k)' => is_active(k)
             /\ orders'[k].filled_qty = orders[k].filled_qty
  <2>1. CASE k = o
    <3>1. orders'[k] = [orders[k] EXCEPT !.status = "cancelled"]
      BY <1>1, <2>1 DEF Recorded
    <3>2. orders[k] \in LiveOrder
      BY <1>2 DEF TypeOK
    <3>3. /\ orders'[k] \in LiveOrder
          /\ orders'[k].symbol = orders[k].symbol /\ orders'[k].side = orders[k].side
          /\ orders'[k].filled_qty = orders[k].filled_qty
          /\ orders'[k].avg_fill_price = orders[k].avg_fill_price
          /\ orders'[k].status = "cancelled"
      BY <3>1, <3>2 DEF LiveOrder
    <3> QED BY <1>3, <3>3 DEF Moves, Flows, is_active
  <2>2. CASE k # o
    <3>1. orders'[k] = orders[k]
      BY <1>1, <2>2 DEF Recorded
    <3> QED BY <1>2, <1>3, <3>1 DEF Moves, Flows, is_active, TypeOK
  <2> QED BY <2>1, <2>2
<1>5. Unmoved /\ SumFunctionOnSet(Flows, Recorded)' = SumFunctionOnSet(Flows, Recorded)
  BY <1>2, <1>3, <1>4, SumsStay DEF Unmoved
<1>6. TypeOK'
  BY <1>1, <1>2, <1>3, <1>4 DEF TypeOK
<1>7. ActiveIsUnfilled' /\ CashMatchesBook'
  BY <1>1, <1>2, <1>3, <1>4, <1>5 DEF ActiveIsUnfilled, CashMatchesBook
<1> QED BY <1>1, <1>2, <1>3, <1>5, <1>6, <1>7 DEF CashInv

\* A poll fills what was asked about with no quantity: nothing was reported before.
LEMMA PollKeepsCash ==
  ASSUME CashInv, PollRound
  PROVE  CashInv' /\ Unmoved /\ position' = position
<1>1. /\ orders' = [o \in Recorded |->
                  IF is_active(o)
                  THEN [orders[o] EXCEPT !.status = "filled", !.filled_qty = 0,
                                         !.avg_fill_price = 0]
                  ELSE orders[o]]
      /\ cash' = cash /\ position' = position /\ price' = price
  BY DEF PollRound, gateway
<1>2. TypeOK /\ IsFiniteSet(Recorded) /\ ActiveIsUnfilled /\ CashMatchesBook
  BY DEF CashInv
<1>3. Recorded' = Recorded
  BY <1>1 DEF Recorded
<1>4. ASSUME NEW k \in Recorded
      PROVE  /\ orders'[k] \in LiveOrder
             /\ orders'[k].symbol = orders[k].symbol
             /\ Moves'[k] = Moves[k] /\ Flows'[k] = Flows[k]
             /\ ~is_active(k)'
  <2>0. orders[k] \in LiveOrder
    BY <1>2 DEF TypeOK
  <2>1. CASE is_active(k)
    <3>1. orders'[k] = [orders[k] EXCEPT !.status = "filled", !.filled_qty = 0,
                                         !.avg_fill_price = 0]
      BY <1>1, <2>1
    <3>2. orders[k].filled_qty = 0
      BY <1>2, <2>1 DEF ActiveIsUnfilled
    <3>3. /\ orders'[k] \in LiveOrder
          /\ orders'[k].symbol = orders[k].symbol /\ orders'[k].side = orders[k].side
          /\ orders'[k].filled_qty = 0 /\ orders'[k].avg_fill_price = 0
          /\ orders'[k].status = "filled"
      <4>1. PICK r : r = orders[k] /\ r \in LiveOrder
        BY <2>0
      <4>2. orders'[k] = [r EXCEPT !.status = "filled", !.filled_qty = 0, !.avg_fill_price = 0]
        BY <3>1, <4>1
      <4>3. /\ orders'[k].symbol = r.symbol /\ orders'[k].side = r.side
            /\ orders'[k].qty = r.qty /\ orders'[k].type = r.type
            /\ orders'[k].filled_qty = 0 /\ orders'[k].avg_fill_price = 0
            /\ orders'[k].status = "filled"
        BY <4>1, <4>2 DEF LiveOrder
      <4>4. orders'[k] = [symbol |-> r.symbol, side |-> r.side, qty |-> r.qty, type |-> r.type,
                          status |-> "filled", filled_qty |-> 0, avg_fill_price |-> 0]
        BY <4>1, <4>2 DEF LiveOrder
      <4> QED BY <4>1, <4>3, <4>4 DEF LiveOrder
    <3>4. orders[k].filled_qty * orders[k].avg_fill_price = 0
          /\ orders'[k].filled_qty * orders'[k].avg_fill_price = 0
      BY <2>0, <3>2, <3>3, OrderFields
    <3> QED BY <1>3, <3>2, <3>3, <3>4 DEF Moves, Flows, is_active
  <2>2. CASE ~is_active(k)
    <3>1. orders'[k] = orders[k]
      BY <1>1, <2>2
    <3> QED BY <1>3, <2>0, <2>2, <3>1 DEF Moves, Flows, is_active
  <2> QED BY <2>1, <2>2
<1>5. Unmoved /\ SumFunctionOnSet(Flows, Recorded)' = SumFunctionOnSet(Flows, Recorded)
  BY <1>2, <1>3, <1>4, SumsStay DEF Unmoved
<1>6. TypeOK'
  BY <1>1, <1>2, <1>3, <1>4 DEF TypeOK
<1>7. ActiveIsUnfilled' /\ CashMatchesBook'
  BY <1>1, <1>2, <1>3, <1>4, <1>5 DEF ActiveIsUnfilled, CashMatchesBook
<1> QED BY <1>1, <1>2, <1>3, <1>5, <1>6, <1>7 DEF CashInv

\* Whatever leaves orders, cash and positions alone.
LEMMA QuietKeepsCash ==
  ASSUME CashInv, UNCHANGED <<orders, cash, position>>, price' \in [Symbols -> Prices]
  PROVE  CashInv' /\ Unmoved /\ position' = position
<1>1. /\ Recorded' = Recorded /\ Moves' = Moves /\ Flows' = Flows
      /\ \A sym \in Symbols : OrdersOf(sym)' = OrdersOf(sym)
  BY DEF Recorded, Moves, Flows, OrdersOf
<1>2. Unmoved
  BY <1>1 DEF Unmoved, net_position
<1> QED BY <1>1, <1>2
        DEF CashInv, TypeOK, ActiveIsUnfilled, is_active, CashMatchesBook

LEMMA PriceKeepsCash ==
  ASSUME CashInv, NEW sym \in Symbols, UpdatePrice(sym)
  PROVE  CashInv' /\ Unmoved /\ position' = position
<1>1. UNCHANGED <<orders, cash, position>> /\ price' \in [Symbols -> Prices]
  BY DEF UpdatePrice, CashInv, TypeOK
<1> QED BY <1>1, QuietKeepsCash

-----------------------------------------------------------------------------
(* The invariants.                                                         *)

LEMMA CashInvInit == Init => CashInv
<1> SUFFICES ASSUME Init PROVE CashInv
  OBVIOUS
<1>1. Recorded = {} /\ IsFiniteSet(Recorded)
  BY FS_EmptySet DEF Init, Recorded
<1>2. SumFunctionOnSet(Flows, Recorded) = 0
  BY <1>1, SumEmpty
<1>3. TypeOK
  BY <1>1, MoneyAssumption DEF Init, TypeOK
<1> QED BY <1>1, <1>2, <1>3, MoneyAssumption
        DEF Init, CashInv, ActiveIsUnfilled, CashMatchesBook

\* With the controls LongOnly and MaxPositionSize, an order they let through keeps
\* the positions within 0 and the limit: the controls decide on the book's
\* positions, which are the gateway's.
LEMMA MarketKeepsBooks ==
  ASSUME LongOnly, BooksInv, NEW o \in Ids, o \notin Recorded, NEW sym \in Symbols,
         NEW side \in {"BUY", "SELL"}, NEW qty \in Nat \ {0}, SubmitMarket(o, sym, side, qty)
  PROVE  BooksInv' /\ position' = [position EXCEPT ![sym] = @ + Signed(side, qty)]
<1>1. CashInv /\ BookMatchesGateway /\ PositionWithinLimit
  BY DEF BooksInv
<1>2. /\ CashInv'
      /\ \A s \in Symbols :
           net_position(s)' = net_position(s) + (IF s = sym THEN Signed(side, qty) ELSE 0)
  BY <1>1, MarketKeepsCash
<1>3. \A s \in Symbols : net_position(s) = position[s] /\ position[s] \in Nat
  BY <1>1 DEF BookMatchesGateway, CashInv, TypeOK
<1>4. /\ ~Violation(sym, side, qty)
      /\ position' = [position EXCEPT ![sym] = Held(@, side, qty)]
  BY DEF SubmitMarket
<1> DEFINE n == position[sym] + Signed(side, qty)
<1>5. n \in Int /\ n >= 0 /\ n <= MaxShares
  BY <1>3, <1>4, ControlAssumption DEF Violation, Abs, Signed
<1>6. Held(position[sym], side, qty) = n
  BY <1>3, <1>5 DEF Held, Signed
<1>7. \A s \in Symbols : position'[s] = IF s = sym THEN n ELSE position[s]
  BY <1>1, <1>4, <1>6 DEF CashInv, TypeOK
<1>8. BookMatchesGateway'
  <2> SUFFICES ASSUME NEW s \in Symbols PROVE net_position(s)' = position'[s]
    BY DEF BookMatchesGateway
  <2>1. CASE s = sym
    BY <1>2, <1>3, <1>7, <2>1
  <2>2. CASE s # sym
    BY <1>2, <1>3, <1>7, <2>2
  <2> QED BY <2>1, <2>2
<1>9. PositionWithinLimit'
  BY <1>1, <1>5, <1>7 DEF PositionWithinLimit
<1>10. position' = [position EXCEPT ![sym] = @ + Signed(side, qty)]
  BY <1>4, <1>6
<1> QED BY <1>2, <1>8, <1>9, <1>10 DEF BooksInv

\* What moves no position keeps the books.
LEMMA UnmovedKeepsBooks ==
  ASSUME BooksInv, CashInv', Unmoved, position' = position
  PROVE  BooksInv'
BY DEF BooksInv, Unmoved, BookMatchesGateway, PositionWithinLimit

\* An order of submit_order.
LEMMA SubmitCases ==
  ASSUME NEW o, Submit(o)
  PROVE  /\ o \notin Recorded
         /\ \E sym \in Symbols, side \in {"BUY", "SELL"}, qty \in Nat \ {0} :
              \/ \E type \in {"MARKET", "LIMIT"} : SubmitRefused(o, sym, side, qty, type)
              \/ SubmitLimit(o, sym, side, qty)
              \/ SubmitMarket(o, sym, side, qty)
BY QtyAssumption DEF Submit

LEMMA CashInvStep == CashInv /\ [Next]_vars => CashInv'
<1> SUFFICES ASSUME CashInv, [Next]_vars PROVE CashInv'
  OBVIOUS
<1>1. ASSUME NEW o \in Ids, Submit(o) PROVE CashInv'
  BY <1>1, SubmitCases, RefusedKeepsCash, LimitKeepsCash, MarketKeepsCash
<1>2. ASSUME NEW o \in Ids, Cancel(o) PROVE CashInv'
  BY <1>2, CancelKeepsCash
<1>3. CASE PollRound
  BY <1>3, PollKeepsCash
<1>4. ASSUME NEW sym \in Symbols, UpdatePrice(sym) PROVE CashInv'
  BY <1>4, PriceKeepsCash
<1>5. CASE UNCHANGED vars
  BY <1>5, QuietKeepsCash DEF vars, gateway, CashInv, TypeOK
<1> QED BY <1>1, <1>2, <1>3, <1>4, <1>5 DEF Next

\* Whatever controls are installed, the gateway's cash is what the fills of the
\* order book add up to (PaperGateway, OrderManager._apply_broker_update).
THEOREM CashIsKept == Spec => []CashMatchesBook
<1>1. CashInv => CashMatchesBook
  BY DEF CashInv
<1> QED BY <1>1, CashInvInit, CashInvStep, PTL DEF Spec

LEMMA BooksInvInit == LongOnly /\ Init => BooksInv
<1> SUFFICES ASSUME Init PROVE BooksInv
  OBVIOUS
<1>1. \A sym \in Symbols : OrdersOf(sym) = {}
  BY DEF Init, OrdersOf, Recorded
<1>2. \A sym \in Symbols : net_position(sym) = 0 /\ position[sym] = 0
  BY <1>1, SumEmpty DEF Init, net_position
<1> QED BY <1>2, CashInvInit, ControlAssumption
        DEF BooksInv, BookMatchesGateway, PositionWithinLimit

LEMMA BooksInvStep == LongOnly /\ BooksInv /\ [Next]_vars => BooksInv'
<1> SUFFICES ASSUME LongOnly, BooksInv, [Next]_vars PROVE BooksInv'
  OBVIOUS
<1>0. CashInv
  BY DEF BooksInv
<1>1. ASSUME NEW o \in Ids, Submit(o) PROVE BooksInv'
  BY <1>0, <1>1, SubmitCases, RefusedKeepsCash, LimitKeepsCash, UnmovedKeepsBooks,
     MarketKeepsBooks
<1>2. ASSUME NEW o \in Ids, Cancel(o) PROVE BooksInv'
  BY <1>0, <1>2, CancelKeepsCash, UnmovedKeepsBooks
<1>3. CASE PollRound
  BY <1>0, <1>3, PollKeepsCash, UnmovedKeepsBooks
<1>4. ASSUME NEW sym \in Symbols, UpdatePrice(sym) PROVE BooksInv'
  BY <1>0, <1>4, PriceKeepsCash, UnmovedKeepsBooks
<1>5. CASE UNCHANGED vars
  BY <1>0, <1>5, QuietKeepsCash, UnmovedKeepsBooks DEF vars, gateway, CashInv, TypeOK
<1> QED BY <1>1, <1>2, <1>3, <1>4, <1>5 DEF Next

\* Under LongOnly, the two books of the paper account agree and respect
\* MaxPositionSize, whatever the order of submits, fills, cancels and polls.
THEOREM BooksStayMatched == ASSUME LongOnly PROVE Spec => []BooksMatch
<1>1. Init => BooksInv
  BY BooksInvInit
<1>2. BooksInv /\ [Next]_vars => BooksInv'
  BY BooksInvStep
<1>3. BooksInv => BooksMatch
  BY DEF BooksInv, CashInv, BooksMatch
<1> QED BY <1>1, <1>2, <1>3, PTL DEF Spec

-----------------------------------------------------------------------------
(* The legs of a plan.                                                     *)

\* The lists of the loop up to each symbol, for syms up to m.
IsKeptUpTo(g, syms, S, m) ==
  g = [n \in 0..m |->
         IF n = 0 THEN <<>>
         ELSE IF syms[n] \in S THEN Append(g[n - 1], syms[n]) ELSE g[n - 1]]

LEMMA KeptExists ==
  ASSUME NEW syms, NEW S
  PROVE  \A m \in Nat : \E g : IsKeptUpTo(g, syms, S, m)
<1> DEFINE Has == {m \in Nat : \E g : IsKeptUpTo(g, syms, S, m)}
<1>1. 0 \in Has
  <2> DEFINE g == [n \in 0..0 |-> <<>>]
  <2>1. IsKeptUpTo(g, syms, S, 0)
    BY DEF IsKeptUpTo
  <2> QED BY <2>1
<1>2. ASSUME NEW m \in Nat, m \in Has PROVE m + 1 \in Has
  <2>1. PICK g : IsKeptUpTo(g, syms, S, m)
    BY <1>2
  <2> DEFINE last == IF syms[m + 1] \in S THEN Append(g[m], syms[m + 1]) ELSE g[m]
             h == [n \in 0..m + 1 |-> IF n = m + 1 THEN last ELSE g[n]]
  <2>2. \A n \in 0..m : h[n] = g[n]
    OBVIOUS
  <2>3. ASSUME NEW n \in 0..m + 1
        PROVE  h[n] = IF n = 0 THEN <<>>
                      ELSE IF syms[n] \in S THEN Append(h[n - 1], syms[n]) ELSE h[n - 1]
    <3>1. CASE n = m + 1
      <4>1. h[n] = last /\ n # 0 /\ n - 1 = m /\ h[n - 1] = g[m]
        BY <3>1, <2>2
      <4> HIDE DEF h
      <4> QED BY <4>1, <3>1
    <3>2. CASE n # m + 1
      <4>1. n \in 0..m /\ h[n] = g[n] /\ (n # 0 => n - 1 \in 0..m /\ h[n - 1] = g[n - 1])
        BY <3>2, <2>2
      <4>2. g[n] = IF n = 0 THEN <<>>
                   ELSE IF syms[n] \in S THEN Append(g[n - 1], syms[n]) ELSE g[n - 1]
        BY <2>1, <4>1 DEF IsKeptUpTo
      <4> HIDE DEF h
      <4> QED BY <4>1, <4>2
    <3> QED BY <3>1, <3>2
  <2>4. IsKeptUpTo(h, syms, S, m + 1)
    BY <2>3 DEF IsKeptUpTo
  <2> QED BY <2>4
<1> HIDE DEF Has
<1>3. \A m \in Nat : m \in Has
  BY <1>1, <1>2, Induction
<1> QED BY <1>3 DEF Has

\* What the loop keeps: the members of S, each as often as it is in syms.
LEMMA KeptProperties ==
  ASSUME NEW T, NEW syms \in Seq(T), NEW S
  PROVE  /\ Kept(syms, S) \in Seq(T)
         /\ Range(Kept(syms, S)) = Range(syms) \cap S
         /\ IsInjective(syms) => IsInjective(Kept(syms, S))
<1> DEFINE L == Len(syms)
<1>1. L \in Nat /\ DOMAIN syms = 1..L
  OBVIOUS
<1>2. PICK g : /\ IsKeptUpTo(g, syms, S, L)
               /\ Kept(syms, S) = g[L]
  <2>1. Kept(syms, S) = (CHOOSE g : IsKeptUpTo(g, syms, S, L))[L]
    BY DEF Kept, IsKeptUpTo
  <2>2. \E g : IsKeptUpTo(g, syms, S, L)
    BY <1>1, KeptExists
  <2> QED BY <2>1, <2>2
<1> HIDE DEF L
<1>3. /\ g[0] = <<>>
      /\ \A n \in 1..L : g[n] = IF syms[n] \in S THEN Append(g[n - 1], syms[n]) ELSE g[n - 1]
  <2>1. ASSUME NEW n \in 0..L
        PROVE  g[n] = IF n = 0 THEN <<>>
                      ELSE IF syms[n] \in S THEN Append(g[n - 1], syms[n]) ELSE g[n - 1]
    BY <1>1, <1>2 DEF IsKeptUpTo
  <2> QED BY <1>1, <2>1
<1> DEFINE Good(n) == /\ g[n] \in Seq(T)
                      /\ Range(g[n]) = {syms[i] : i \in 1..n} \cap S
                      /\ IsInjective(syms) => IsInjective(g[n])
           Set == {n \in Nat : n <= L => Good(n)}
<1>4. 0 \in Set
  <2>1. g[0] = <<>> /\ {syms[i] : i \in 1..0} = {}
    BY <1>3
  <2>2. <<>> \in Seq(T) /\ Range(<<>>) = {} /\ IsInjective(<<>>)
    BY DEF Range, IsInjective
  <2> QED BY <2>1, <2>2
<1>5. ASSUME NEW n \in Nat, n \in Set PROVE n + 1 \in Set
  <2> SUFFICES ASSUME n + 1 <= L PROVE Good(n + 1)
    OBVIOUS
  <2>1. Good(n)
    BY <1>1, <1>5
  <2>2. g[n + 1] = IF syms[n + 1] \in S THEN Append(g[n], syms[n + 1]) ELSE g[n]
    BY <1>1, <1>3
  <2>3. {syms[i] : i \in 1..n + 1} = {syms[i] : i \in 1..n} \cup {syms[n + 1]}
    OBVIOUS
  <2>4. CASE syms[n + 1] \notin S
    BY <2>1, <2>2, <2>3, <2>4
  <2>5. CASE syms[n + 1] \in S
    <3> DEFINE x == syms[n + 1]
               a == g[n]
               b == Append(a, x)
    <3>1. x \in T
      BY <1>1
    <3>2. /\ b \in Seq(T) /\ Len(b) = Len(a) + 1 /\ Len(a) \in Nat
          /\ \A i \in 1..Len(a) : b[i] = a[i]
          /\ b[Len(a) + 1] = x
      <4> HIDE DEF a, x
      <4>1. a \in Seq(T)
        BY <2>1 DEF a
      <4> QED BY <3>1, <4>1, AppendProperties
    <3>3. g[n + 1] = b
      BY <2>2, <2>5
    <3>4. DOMAIN a = 1..Len(a) /\ DOMAIN b = 1..Len(a) + 1
      BY <2>1, <3>2
    <3> HIDE DEF b
    <3>5. Range(b) = Range(a) \cup {x}
      <4> HIDE DEF a, x
      <4>1. \A i \in 1..Len(a) + 1 : i \in 1..Len(a) \/ i = Len(a) + 1
        BY <3>2
      <4>2. 1..Len(a) \subseteq 1..Len(a) + 1 /\ Len(a) + 1 \in 1..Len(a) + 1
        BY <3>2
      <4> QED BY <3>2, <3>4, <4>1, <4>2 DEF Range
    <3>6. ASSUME IsInjective(syms) PROVE IsInjective(b)
      <4>1. IsInjective(a) /\ Range(a) \subseteq {syms[i] : i \in 1..n}
        BY <2>1, <3>6
      <4>2. x \notin Range(a)
        <5>1. \A i \in 1..n : syms[i] # x
          BY <1>1, <3>6 DEF IsInjective
        <5> QED BY <4>1, <5>1
      <4> HIDE DEF a, x
      <4> QED BY <3>2, <3>4, <4>1, <4>2 DEF IsInjective, Range
    <3> QED BY <2>1, <2>3, <2>5, <3>2, <3>3, <3>5, <3>6
  <2> QED BY <2>4, <2>5
<1> HIDE DEF Set
<1>6. L \in Set
  BY <1>1, <1>4, <1>5, Induction
<1>7. Good(L)
  BY <1>1, <1>6 DEF Set
<1>8. {syms[i] : i \in 1..L} = Range(syms)
  BY <1>1 DEF Range
<1> QED BY <1>2, <1>7, <1>8

\* The parts of plan_rebalance for one preview.
TargetOf(q, s) == target_qty(q.value, Weight[s], Whole, q.prices[s], Lot)
DeltaOf(q, s) == Delta(TargetOf(q, s), q.held[s])
TradedIn(q) ==
  {s \in Range(SymbolOrder) : q.prices[s] > 0 /\ Worthwhile(DeltaOf(q, s), q.prices[s], MinTrade)}

\* What a preview has read.
IsRead(q) ==
  /\ q.held \in [Symbols -> Nat] /\ q.prices \in [Symbols -> Nat] /\ q.value \in Int
  /\ q.holdings = q.held

LEMMA TargetIsInteger ==
  ASSUME NEW q, IsRead(q), NEW s \in Symbols, q.prices[s] > 0
  PROVE  TargetOf(q, s) \in Int /\ DeltaOf(q, s) \in Int /\ q.held[s] \in Nat /\ q.prices[s] \in Nat
<1>1. q.held[s] \in Nat /\ q.prices[s] \in Nat /\ q.value \in Int /\ Weight[s] \in Nat
  BY SymbolAssumption DEF IsRead
<1>2. Whole \in Nat /\ Whole > 0 /\ Lot \in Nat /\ Lot > 0
  BY RebalanceAssumption
<1>3. \A a, b \in Nat : a > 0 /\ b > 0 => a * b \in Nat /\ a * b > 0
  OBVIOUS
<1>4. Whole * q.prices[s] * Lot \in Nat /\ Whole * q.prices[s] * Lot > 0
  <2>1. Whole * q.prices[s] \in Nat /\ Whole * q.prices[s] > 0
    BY <1>1, <1>2, <1>3
  <2> QED BY <1>2, <1>3, <2>1
<1>5. q.value * Weight[s] \in Int
  BY <1>1
<1>6. \A a \in Int, b \in Nat : b > 0 => Truncated(a, b) \in Int
  BY DEF Truncated
<1>7. Truncated(q.value * Weight[s], Whole * q.prices[s] * Lot) \in Int
  BY <1>4, <1>5, <1>6
<1>8. TargetOf(q, s) \in Int
  BY <1>2, <1>7 DEF TargetOf, target_qty
<1> QED BY <1>1, <1>8 DEF DeltaOf, Delta

\* The legs of a preview: one for each symbol that is to be traded, with the
\* difference between target and holding, and no other.
LEMMA LegsProperties ==
  ASSUME NEW q, IsRead(q)
  PROVE  /\ Legs(q) \in Seq([sym : Symbols, delta : Int \ {0}])
         /\ \A i \in DOMAIN Legs(q) :
              /\ Legs(q)[i].sym \in TradedIn(q)
              /\ Legs(q)[i].delta = DeltaOf(q, Legs(q)[i].sym)
         /\ \A i, j \in DOMAIN Legs(q) : Legs(q)[i].sym = Legs(q)[j].sym => i = j
         /\ \A s \in TradedIn(q) : \E i \in DOMAIN Legs(q) : Legs(q)[i].sym = s
         /\ Len(Legs(q)) <= Len(SymbolOrder)
<1> DEFINE Sold == {s \in TradedIn(q) : DeltaOf(q, s) < 0}
           Bought == {s \in TradedIn(q) : DeltaOf(q, s) > 0}
           sells == Kept(SymbolOrder, Sold)
           buys == Kept(SymbolOrder, Bought)
           all == sells \o buys
<1>1. Legs(q) = [i \in DOMAIN all |-> [sym |-> all[i], delta |-> DeltaOf(q, all[i])]]
  BY DEF Legs, plan_rebalance, TradedIn, DeltaOf, TargetOf
<1>2. /\ Range(SymbolOrder) = Symbols /\ IsInjective(SymbolOrder)
      /\ SymbolOrder \in Seq(Symbols)
  BY SymbolAssumption
<1>3. \A s \in TradedIn(q) :
        /\ s \in Symbols /\ q.prices[s] > 0 /\ q.prices[s] \in Nat
        /\ DeltaOf(q, s) \in Int /\ DeltaOf(q, s) # 0
  BY <1>2, TargetIsInteger DEF TradedIn, Worthwhile
<1>4. /\ Sold \subseteq Symbols /\ Bought \subseteq Symbols /\ Sold \cap Bought = {}
      /\ TradedIn(q) = Sold \cup Bought
  BY <1>3
<1>5. /\ sells \in Seq(Symbols) /\ Range(sells) = Sold /\ IsInjective(sells)
      /\ buys \in Seq(Symbols) /\ Range(buys) = Bought /\ IsInjective(buys)
  <2>1. \A S : S \subseteq Symbols =>
          /\ Kept(SymbolOrder, S) \in Seq(Symbols) /\ Range(Kept(SymbolOrder, S)) = S
          /\ IsInjective(Kept(SymbolOrder, S))
    <3> SUFFICES ASSUME NEW S, S \subseteq Symbols
                 PROVE  /\ Kept(SymbolOrder, S) \in Seq(Symbols)
                        /\ Range(Kept(SymbolOrder, S)) = S /\ IsInjective(Kept(SymbolOrder, S))
      OBVIOUS
    <3>1. SymbolOrder \in Seq(Symbols)
      BY <1>2
    <3>2. /\ Kept(SymbolOrder, S) \in Seq(Symbols)
          /\ Range(Kept(SymbolOrder, S)) = Range(SymbolOrder) \cap S
          /\ IsInjective(SymbolOrder) => IsInjective(Kept(SymbolOrder, S))
      BY <3>1, KeptProperties
    <3> QED BY <1>2, <3>2
  <2> HIDE DEF Sold, Bought
  <2> QED BY <1>4, <2>1
<1> HIDE DEF Sold, Bought, sells, buys
<1>6. /\ all \in Seq(Symbols) /\ Len(all) = Len(sells) + Len(buys)
      /\ \A i \in 1..Len(all) : all[i] = IF i <= Len(sells) THEN sells[i] ELSE buys[i - Len(sells)]
      /\ Len(sells) \in Nat /\ Len(buys) \in Nat
      /\ DOMAIN sells = 1..Len(sells) /\ DOMAIN buys = 1..Len(buys)
      /\ DOMAIN all = 1..Len(all) /\ Len(all) \in Nat
  <2>1. /\ all \in Seq(Symbols) /\ Len(all) = Len(sells) + Len(buys)
        /\ \A i \in 1..Len(all) :
             all[i] = IF i <= Len(sells) THEN sells[i] ELSE buys[i - Len(sells)]
    BY <1>5, ConcatProperties
  <2> QED BY <1>5, <2>1
<1> HIDE DEF all
<1>7. \A i \in DOMAIN all :
        \/ i \in DOMAIN sells /\ all[i] = sells[i] /\ all[i] \in Sold
        \/ i - Len(sells) \in DOMAIN buys /\ all[i] = buys[i - Len(sells)] /\ all[i] \in Bought
  BY <1>5, <1>6 DEF Range
<1>8. \A i, j \in DOMAIN all : all[i] = all[j] => i = j
  <2> SUFFICES ASSUME NEW i \in DOMAIN all, NEW j \in DOMAIN all, all[i] = all[j]
               PROVE  i = j
    OBVIOUS
  <2>1. CASE i \in DOMAIN sells /\ j \in DOMAIN sells
    <3>1. sells[i] = sells[j]
      BY <1>6, <2>1
    <3> QED BY <1>5, <2>1, <3>1 DEF IsInjective
  <2>2. CASE i - Len(sells) \in DOMAIN buys /\ j - Len(sells) \in DOMAIN buys
    <3>1. buys[i - Len(sells)] = buys[j - Len(sells)]
      BY <1>6, <2>2
    <3>2. i - Len(sells) = j - Len(sells)
      BY <1>5, <2>2, <3>1 DEF IsInjective
    <3> QED BY <1>6, <3>2
  <2>3. ~(all[i] \in Sold /\ all[j] \in Bought) /\ ~(all[i] \in Bought /\ all[j] \in Sold)
    BY <1>4
  <2> QED BY <1>7, <2>1, <2>2, <2>3
<1>9. \A s \in TradedIn(q) : \E i \in DOMAIN all : all[i] = s
  <2> SUFFICES ASSUME NEW s \in TradedIn(q) PROVE \E i \in DOMAIN all : all[i] = s
    OBVIOUS
  <2>1. CASE s \in Sold
    <3>1. PICK i \in DOMAIN sells : sells[i] = s
      BY <1>5, <2>1 DEF Range
    <3>2. i \in DOMAIN all /\ all[i] = s
      BY <1>6, <3>1
    <3> QED BY <3>2
  <2>2. CASE s \in Bought
    <3>1. PICK i \in DOMAIN buys : buys[i] = s
      BY <1>5, <2>2 DEF Range
    <3>2. i + Len(sells) \in DOMAIN all /\ all[i + Len(sells)] = s
      BY <1>6, <3>1
    <3> QED BY <3>2
  <2> QED BY <1>4, <2>1, <2>2
<1>10. /\ DOMAIN Legs(q) = DOMAIN all
       /\ \A i \in DOMAIN all :
            /\ Legs(q)[i].sym = all[i] /\ Legs(q)[i].delta = DeltaOf(q, all[i])
            /\ all[i] \in TradedIn(q)
            /\ Legs(q)[i] \in [sym : Symbols, delta : Int \ {0}]
  BY <1>1, <1>3, <1>4, <1>7
<1>11. Legs(q) \in Seq([sym : Symbols, delta : Int \ {0}]) /\ Len(Legs(q)) = Len(all)
  <2>1. Legs(q) = [i \in 1..Len(all) |-> [sym |-> all[i], delta |-> DeltaOf(q, all[i])]]
    BY <1>1, <1>6
  <2>2. \A i \in 1..Len(all) :
          [sym |-> all[i], delta |-> DeltaOf(q, all[i])] \in [sym : Symbols, delta : Int \ {0}]
    BY <1>6, <1>10, <1>3
  <2>3. Legs(q) \in [1..Len(all) -> [sym : Symbols, delta : Int \ {0}]]
    BY <2>1, <2>2
  <2>4. DOMAIN Legs(q) = 1..Len(all)
    BY <2>1
  <2>5. Legs(q) \in Seq([sym : Symbols, delta : Int \ {0}])
    <3>1. \A S, n : n \in Nat => [1..n -> S] \subseteq Seq(S)
      BY SeqDef
    <3> QED BY <1>6, <2>3, <3>1
  <2> QED BY <1>6, <2>4, <2>5
<1>12. Len(all) <= Len(SymbolOrder)
  <2> DEFINE n == Len(SymbolOrder)
  <2>1. n \in Nat /\ DOMAIN SymbolOrder = 1..n /\ SymbolOrder \in Surjection(1..n, Symbols)
    BY <1>2 DEF Surjection, Range
  <2>2. \A m \in Nat : IsFiniteSet(1..m) /\ Cardinality(1..m) = m
    <3>1. \A m \in Nat : IsFiniteSet(1..m) /\ Cardinality(1..m) = IF 1 > m THEN 0 ELSE m - 1 + 1
      BY FS_Interval
    <3> QED BY <3>1
  <2>3. IsFiniteSet(Symbols) /\ Cardinality(Symbols) <= n
    BY <2>1, <2>2, FS_Surjection
  <2>4. all \in Injection(1..Len(all), Symbols)
    BY <1>6, <1>8 DEF Injection, IsInjective
  <2>5. Cardinality(1..Len(all)) <= Cardinality(Symbols)
    BY <2>3, <2>4, FS_Injection
  <2>6. Cardinality(1..Len(all)) = Len(all)
    BY <1>6, <2>2
  <2> QED BY <1>6, <2>1, <2>3, <2>5, <2>6, FS_CardinalityType
<1> QED BY <1>8, <1>9, <1>10, <1>11, <1>12

-----------------------------------------------------------------------------
(* The inductive invariant.                                                *)

Leg == [sym : Symbols, delta : Int \ {0}]
Idle == [at : {"idle"}]
Reading ==
  [at : {"pricing"}, holdings : [Symbols -> Nat], held : [Symbols -> Nat], value : Int,
   prices : [Symbols -> Nat]]
Answer ==
  [at : {"issued", "expired"}, holdings : [Symbols -> Nat], held : [Symbols -> Nat],
   value : Int, prices : [Symbols -> Nat], legs : Seq(Leg)]

Answered(p) == preview[p].at \in {"issued", "expired"}

\* A preview is what it has read, and the plan for that.
PreviewsAreRead ==
  /\ preview \in [Previews -> Idle \cup Reading \cup Answer]
  /\ \A p \in Previews : preview[p].at # "idle" => IsRead(preview[p])
  /\ \A p \in Previews : Answered(p) => preview[p].legs = Legs(preview[p])

\* The outcome of an execution lists the legs it has sent, in their order.
OutcomesAreKept ==
  /\ run \in [Executions -> {"idle", "sending", "refused", "done"}]
  /\ outcome \in [Executions -> Seq({"submitted", "rejected"})]
  /\ \A e \in Executions :
       /\ run[e] \in {"idle", "refused"} => outcome[e] = <<>>
       /\ run[e] \in {"sending", "done"} =>
            Answered(Preview[e]) /\ Len(outcome[e]) <= Len(Plan(e).legs)
       /\ run[e] = "done" => Len(outcome[e]) = Len(Plan(e).legs)
       /\ \A k \in 1..Len(SymbolOrder) : <<e, k>> \in Recorded => k <= Len(outcome[e])
       /\ \A k \in 1..Len(outcome[e]) :
            outcome[e][k] = "submitted" <=>
              LegId(e, k) \in Recorded /\ orders[LegId(e, k)].filled_qty > 0

Submitted(d) == {k \in 1..Len(outcome[d]) : outcome[d][k] = "submitted"}
Traders(p) == {d \in traded : Preview[d] = p}

\* Those traded who have an order that was filled.
TradersTraded ==
  traded = {d \in Executions : Submitted(d) # {}}

\* What the positions are, as long as nobody but executions of p has traded since
\* the snapshot of p: a symbol none of them has traded is as it was, one that was
\* traded is at its target or beyond it, and at the target if one execution traded.
Story(p) ==
  LET held == preview[p].held
  IN  /\ \A s \in Symbols :
           \/ position[s] = held[s]
           \/ \E d \in Traders(p) : \E k \in Submitted(d) : preview[p].legs[k].sym = s
      /\ \A d \in Traders(p) : \A k \in Submitted(d) :
           LET leg == preview[p].legs[k]
           IN  /\ leg.delta > 0 => position[leg.sym] >= held[leg.sym] + leg.delta
               /\ leg.delta < 0 => position[leg.sym] <= held[leg.sym] + leg.delta
               /\ Traders(p) = {d} => position[leg.sym] = held[leg.sym] + leg.delta

StoriesAreTrue ==
  \A p \in Previews \ outside : preview[p].at # "idle" => Story(p)

Drafts == {Draft[x] : x \in Executions \cup Manual \cup Invalid}

\* The drafts remembered are the last ones claimed, and all of them until there are
\* too many.
ClaimsAreRemembered ==
  /\ claims \in Seq(Drafts) /\ consumed \in Seq(Drafts)
  /\ Len(consumed) <= MaxRemembered /\ Len(consumed) <= Len(claims)
  /\ Len(consumed) < MaxRemembered => Len(consumed) = Len(claims)
  /\ \A i \in 1..Len(consumed) : consumed[i] = claims[Len(claims) - Len(consumed) + i]
  /\ IsInjective(consumed) /\ lookup = Range(consumed)

\* The strengthening of ExecutionsAreTrue.
RebalanceInv ==
  /\ BooksInv
  /\ PreviewsAreRead /\ OutcomesAreKept
  /\ TradersTraded /\ StoriesAreTrue /\ ReplayNeedsOthers
  /\ ClaimsAreRemembered /\ DraftOnce

-----------------------------------------------------------------------------
(* The orders and positions.                                               *)

\* No order loses or changes what it has filled, and only those of new may be added.
FillsStay(new) ==
  /\ Recorded \subseteq Recorded' /\ Recorded' \subseteq Recorded \cup new
  /\ \A o \in Recorded : orders'[o].filled_qty = orders[o].filled_qty

LEMMA NewOrderKeepsFills ==
  ASSUME NEW o, o \notin Recorded, NEW ord, Records(o, ord)
  PROVE  FillsStay({o}) /\ o \in Recorded' /\ orders'[o] = ord
<1>1. /\ Recorded' = Recorded \cup {o} /\ o \in Recorded'
      /\ orders'[o] = ord /\ \A k \in Recorded : orders'[k] = orders[k]
  BY DEF Records, Recorded
<1> QED BY <1>1 DEF FillsStay

LEMMA CancelKeepsFills ==
  ASSUME BooksInv, NEW o, Cancel(o) PROVE FillsStay({})
<1>1. o \in Recorded /\ orders' = [orders EXCEPT ![o].status = "cancelled"]
  BY DEF Cancel
<1>2. Recorded' = Recorded
  BY <1>1 DEF Recorded
<1>3. ASSUME NEW k \in Recorded PROVE orders'[k].filled_qty = orders[k].filled_qty
  <2>1. orders[k] \in LiveOrder
    BY DEF BooksInv, CashInv, TypeOK
  <2>2. CASE k = o
    <3>1. orders'[k] = [orders[k] EXCEPT !.status = "cancelled"]
      BY <1>1, <2>2 DEF Recorded
    <3> QED BY <2>1, <3>1 DEF LiveOrder
  <2>3. CASE k # o
    BY <1>1, <2>3 DEF Recorded
  <2> QED BY <2>2, <2>3
<1> QED BY <1>2, <1>3 DEF FillsStay

LEMMA PollKeepsFills ==
  ASSUME BooksInv, PollRound PROVE FillsStay({})
<1>1. orders' = [o \in Recorded |->
                  IF is_active(o)
                  THEN [orders[o] EXCEPT !.status = "filled", !.filled_qty = 0,
                                         !.avg_fill_price = 0]
                  ELSE orders[o]]
  BY DEF PollRound
<1>2. Recorded' = Recorded
  BY <1>1 DEF Recorded
<1>3. ASSUME NEW k \in Recorded PROVE orders'[k].filled_qty = orders[k].filled_qty
  <2>1. orders[k] \in LiveOrder /\ (is_active(k) => orders[k].filled_qty = 0)
    BY DEF BooksInv, CashInv, TypeOK, ActiveIsUnfilled
  <2>2. CASE is_active(k)
    <3>1. orders'[k] = [orders[k] EXCEPT !.status = "filled", !.filled_qty = 0,
                                         !.avg_fill_price = 0]
      BY <1>1, <2>2
    <3> QED BY <2>1, <2>2, <3>1 DEF LiveOrder
  <2>3. CASE ~is_active(k)
    BY <1>1, <2>3
  <2> QED BY <2>2, <2>3
<1> QED BY <1>2, <1>3 DEF FillsStay

\* What is not an execution.
LEMMA SubmitKeepsBooks ==
  ASSUME LongOnly, BooksInv, NEW o \in Ids, Submit(o)
  PROVE  /\ BooksInv' /\ FillsStay({o})
         /\ gateway' = gateway => position' = position
<1>0. CashInv
  BY DEF BooksInv
<1>1. o \notin Recorded
  BY SubmitCases
<1>2. PICK sym \in Symbols, side \in {"BUY", "SELL"}, qty \in Nat \ {0} :
              \/ \E type \in {"MARKET", "LIMIT"} : SubmitRefused(o, sym, side, qty, type)
              \/ SubmitLimit(o, sym, side, qty)
              \/ SubmitMarket(o, sym, side, qty)
  BY SubmitCases
<1>3. BooksInv'
  BY <1>0, <1>1, <1>2, RefusedKeepsCash, LimitKeepsCash, UnmovedKeepsBooks, MarketKeepsBooks
<1>4. \E ord : Records(o, ord)
  BY <1>2 DEF SubmitRefused, SubmitLimit, SubmitMarket
<1>5. FillsStay({o})
  BY <1>1, <1>4, NewOrderKeepsFills
<1> QED BY <1>3, <1>5 DEF gateway

LEMMA AccountKeepsBooks ==
  ASSUME BooksInv, PollRound \/ (\E o \in Manual : Cancel(o)) \/ (\E sym \in Symbols : UpdatePrice(sym))
  PROVE  BooksInv' /\ FillsStay({}) /\ position' = position
<1>0. CashInv
  BY DEF BooksInv
<1>1. CASE PollRound
  BY <1>0, <1>1, PollKeepsCash, PollKeepsFills, UnmovedKeepsBooks
<1>2. ASSUME NEW o \in Manual, Cancel(o) PROVE BooksInv' /\ FillsStay({}) /\ position' = position
  BY <1>0, <1>2, CancelKeepsCash, CancelKeepsFills, UnmovedKeepsBooks
<1>3. ASSUME NEW sym \in Symbols, UpdatePrice(sym)
      PROVE  BooksInv' /\ FillsStay({}) /\ position' = position
  <2>1. FillsStay({})
    BY <1>3 DEF UpdatePrice, FillsStay, Recorded
  <2> QED BY <1>0, <1>3, <2>1, PriceKeepsCash, UnmovedKeepsBooks
<1> QED BY <1>1, <1>2, <1>3

\* A leg that is sent: it is listed as rejected and has moved nothing, or it is
\* listed as submitted and has moved the position of its symbol by its difference.
LegRejected(e, k) ==
  /\ outcome' = [outcome EXCEPT ![e] = Append(@, "rejected")]
  /\ position' = position /\ UNCHANGED <<traded, outside>>
  /\ LegId(e, k) \in Recorded' => ~(orders'[LegId(e, k)].filled_qty > 0)

LegFilled(e, k) ==
  LET leg == Plan(e).legs[k]
  IN  /\ outcome' = [outcome EXCEPT ![e] = Append(@, "submitted")]
      /\ position' = [position EXCEPT ![leg.sym] = @ + leg.delta]
      /\ traded' = traded \cup {e}
      /\ outside' = outside \cup ({p \in Previews : preview[p].at # "idle"} \ {Preview[e]})
      /\ LegId(e, k) \in Recorded' /\ orders'[LegId(e, k)].filled_qty > 0

LEMMA LegStep ==
  ASSUME LongOnly, BooksInv, NEW e \in Executions, NEW k \in 1..Len(SymbolOrder),
         LegId(e, k) \notin Recorded, Plan(e).legs[k] \in Leg, SendsLeg(e, k)
  PROVE  /\ BooksInv' /\ FillsStay({LegId(e, k)})
         /\ LegRejected(e, k) \/ LegFilled(e, k)
<1> DEFINE leg == Plan(e).legs[k]
           o == LegId(e, k)
           side == Side(leg)
           qty == Abs(leg.delta)
<1>1. leg.sym \in Symbols /\ leg.delta \in Int /\ leg.delta # 0
  BY DEF Leg
<1>2. /\ side \in {"BUY", "SELL"} /\ qty \in Nat \ {0}
      /\ Signed(side, qty) = leg.delta
  BY <1>1 DEF Side, Abs, Signed
<1>3. o \in Ids /\ o \notin Recorded
  BY IdAssumption DEF LegId
<1>4. CashInv
  BY DEF BooksInv
<1>5. \/ /\ UNCHANGED <<vars, traded, outside>>
         /\ outcome' = [outcome EXCEPT ![e] = Append(@, "rejected")]
      \/ /\ SubmitRefused(o, leg.sym, side, qty, "MARKET")
         /\ UNCHANGED <<traded, outside>>
         /\ outcome' = [outcome EXCEPT ![e] = Append(@, Reported(o))]
      \/ /\ SubmitMarket(o, leg.sym, side, qty)
         /\ traded' = traded \cup {e}
         /\ outside' = outside \cup ({p \in Previews : preview[p].at # "idle"} \ {Preview[e]})
         /\ outcome' = [outcome EXCEPT ![e] = Append(@, Reported(o))]
  BY DEF SendsLeg
<1> HIDE DEF o, side, qty
<1>6. CASE UNCHANGED <<vars, traded, outside>> /\ outcome' = [outcome EXCEPT ![e] = Append(@, "rejected")]
  <2>1. UNCHANGED <<orders, cash, position, price>>
    BY <1>6 DEF vars, gateway
  <2>2. BooksInv'
    <3>1. CashInv' /\ Unmoved
      BY <1>4, <2>1, QuietKeepsCash DEF CashInv, TypeOK
    <3> QED BY <2>1, <3>1, UnmovedKeepsBooks
  <2>3. FillsStay({o}) /\ o \notin Recorded'
    BY <1>3, <2>1 DEF FillsStay, Recorded
  <2> QED BY <1>6, <2>1, <2>2, <2>3 DEF LegRejected, o
<1>7. CASE /\ SubmitRefused(o, leg.sym, side, qty, "MARKET")
           /\ UNCHANGED <<traded, outside>>
           /\ outcome' = [outcome EXCEPT ![e] = Append(@, Reported(o))]
  <2> DEFINE ord == [Order(leg.sym, side, qty, "MARKET") EXCEPT !.status = "rejected"]
  <2>1. BooksInv' /\ position' = position
    BY <1>1, <1>2, <1>3, <1>4, <1>7, RefusedKeepsCash, UnmovedKeepsBooks
  <2>2. Records(o, ord)
    BY <1>7 DEF SubmitRefused
  <2>3. ord.status = "rejected" /\ ~(ord.filled_qty > 0)
    BY DEF Order
  <2> HIDE DEF ord
  <2>4. FillsStay({o}) /\ orders'[o] = ord
    BY <1>3, <2>2, NewOrderKeepsFills
  <2>5. outcome' = [outcome EXCEPT ![e] = Append(@, "rejected")]
    BY <1>7, <2>3, <2>4 DEF Reported
  <2> QED BY <1>7, <2>1, <2>3, <2>4, <2>5 DEF LegRejected, o
<1>8. CASE /\ SubmitMarket(o, leg.sym, side, qty)
           /\ traded' = traded \cup {e}
           /\ outside' = outside \cup ({p \in Previews : preview[p].at # "idle"} \ {Preview[e]})
           /\ outcome' = [outcome EXCEPT ![e] = Append(@, Reported(o))]
  <2> DEFINE ord == [Order(leg.sym, side, qty, "MARKET") EXCEPT
                         !.status = "filled", !.filled_qty = qty, !.avg_fill_price = price[leg.sym]]
  <2>1. BooksInv' /\ position' = [position EXCEPT ![leg.sym] = @ + Signed(side, qty)]
    BY <1>1, <1>2, <1>3, <1>8, MarketKeepsBooks
  <2>2. Records(o, ord)
    BY <1>8 DEF SubmitMarket
  <2>3. ord.status = "filled" /\ ord.filled_qty = qty
    BY DEF Order
  <2> HIDE DEF ord
  <2>4. FillsStay({o}) /\ orders'[o] = ord /\ o \in Recorded'
    BY <1>3, <2>2, NewOrderKeepsFills
  <2>5. outcome' = [outcome EXCEPT ![e] = Append(@, "submitted")]
    BY <1>8, <2>3, <2>4 DEF Reported
  <2>6. position' = [position EXCEPT ![leg.sym] = @ + leg.delta]
    BY <1>2, <2>1
  <2>7. orders'[o].filled_qty > 0
    BY <1>2, <2>3, <2>4
  <2> QED BY <1>8, <2>1, <2>4, <2>5, <2>6, <2>7 DEF LegFilled, o
<1> QED BY <1>5, <1>6, <1>7, <1>8

-----------------------------------------------------------------------------
(* The previews.                                                           *)

\* What was read and answered stays as it is.
PreviewsStay ==
  \A p \in Previews :
    /\ preview[p].at # "idle" =>
         preview'[p].at # "idle" /\ preview'[p].held = preview[p].held
    /\ Answered(p) => Answered(p)' /\ preview'[p].legs = preview[p].legs

LEMMA PreviewsUnchanged ==
  ASSUME PreviewsAreRead, preview' = preview PROVE PreviewsAreRead' /\ PreviewsStay
BY DEF PreviewsAreRead, PreviewsStay, Answered, IsRead, Legs

\* A preview that changes to a record of its kind.
LEMMA PreviewChanges ==
  ASSUME PreviewsAreRead, NEW p \in Previews, NEW r \in Reading \cup Answer,
         preview' = [preview EXCEPT ![p] = r], IsRead(r),
         r.at # "pricing" => r.legs = Legs(r),
         preview[p].at # "idle" => r.held = preview[p].held,
         Answered(p) => r.at # "pricing" /\ r.legs = preview[p].legs
  PROVE  PreviewsAreRead' /\ PreviewsStay
<1>1. preview' \in [Previews -> Idle \cup Reading \cup Answer]
  BY DEF PreviewsAreRead
<1>2. /\ preview'[p] = r /\ \A q \in Previews \ {p} : preview'[q] = preview[q]
  BY DEF PreviewsAreRead
<1>3. r.at \in {"pricing", "issued", "expired"}
  BY DEF Reading, Answer
<1>4. \A q \in Previews : preview'[q].at # "idle" => IsRead(preview'[q])
  BY <1>2 DEF PreviewsAreRead
<1>5. \A q \in Previews : Answered(q)' => preview'[q].legs = Legs(preview'[q])
  BY <1>2, <1>3 DEF PreviewsAreRead, Answered
<1>6. PreviewsAreRead'
  <2>1. \A q \in Previews : (preview[q].at # "idle" => IsRead(preview[q]))' <=>
                            (preview'[q].at # "idle" => IsRead(preview'[q]))
    BY DEF IsRead
  <2>2. \A q \in Previews : Legs(preview[q])' = Legs(preview'[q])
    BY DEF Legs
  <2> QED BY <1>1, <1>4, <1>5, <2>1, <2>2 DEF PreviewsAreRead
<1>7. PreviewsStay
  BY <1>2, <1>3 DEF PreviewsStay, Answered
<1> QED BY <1>6, <1>7

LEMMA PreviewSteps ==
  ASSUME BooksInv, PreviewsAreRead, NEW p \in Previews,
         PreviewReads(p) \/ PreviewIssues(p) \/ Expires(p)
  PROVE  PreviewsAreRead' /\ PreviewsStay
<1>0. /\ position \in [Symbols -> Nat] /\ cash \in Int
      /\ \A s \in Symbols : price[s] \in Nat
  BY QtyAssumption DEF BooksInv, CashInv, TypeOK
<1>1. CASE PreviewReads(p)
  <2> DEFINE r == [at |-> "pricing", holdings |-> Holdings, held |-> position,
                   value |-> portfolio_value,
                   prices |-> [s \in Symbols |-> IF position[s] # 0 THEN price[s] ELSE Reference[s]]]
  <2>1. [s \in Symbols |-> IF position[s] # 0 THEN price[s] ELSE Reference[s]] \in [Symbols -> Nat]
    BY <1>0, SymbolAssumption
  <2>2. r \in Reading
    BY <1>0, <2>1 DEF Reading, Holdings, portfolio_value
  <2>3. IsRead(r) /\ r.at = "pricing"
    BY <1>0, <2>1 DEF IsRead, Holdings, portfolio_value
  <2>4. preview' = [preview EXCEPT ![p] = r] /\ preview[p].at = "idle"
    BY <1>1 DEF PreviewReads
  <2> HIDE DEF r
  <2> QED BY <2>2, <2>3, <2>4, PreviewChanges DEF Answered
<1>2. CASE PreviewIssues(p)
  <2> DEFINE q == preview[p]
             r == [at |-> "issued", holdings |-> q.holdings, held |-> q.held, value |-> q.value,
                   prices |-> q.prices, legs |-> Legs(q)]
  <2>1. q.at = "pricing" /\ IsRead(q) /\ q \in Reading
    BY <1>2 DEF PreviewIssues, PreviewsAreRead, Idle, Reading, Answer
  <2>2. Legs(q) \in Seq(Leg)
    BY <2>1, LegsProperties DEF Leg
  <2>3. preview' = [preview EXCEPT ![p] = r]
    BY <1>2 DEF PreviewIssues, PreviewsAreRead
  <2>4. r \in Answer /\ r.at = "issued" /\ r.held = q.held
    BY <2>1, <2>2 DEF Answer, Reading
  <2>5. IsRead(r)
    BY <2>1 DEF IsRead
  <2>6. r.legs = Legs(r)
    BY DEF Legs
  <2>7. ~Answered(p)
    BY <2>1 DEF Answered
  <2> HIDE DEF r
  <2> QED BY <2>3, <2>4, <2>5, <2>6, <2>7, PreviewChanges
<1>3. CASE Expires(p)
  <2> DEFINE q == preview[p]
             r == [q EXCEPT !.at = "expired"]
  <2>1. q.at = "issued" /\ IsRead(q) /\ q \in Answer /\ q.legs = Legs(q)
    BY <1>3 DEF Expires, PreviewsAreRead, Idle, Reading, Answer, Answered
  <2>2. preview' = [preview EXCEPT ![p] = r]
    BY <1>3 DEF Expires, PreviewsAreRead
  <2>3. /\ r \in Answer /\ r.at = "expired" /\ r.held = q.held /\ r.legs = q.legs
        /\ r.prices = q.prices /\ r.value = q.value /\ r.holdings = q.holdings
    BY <2>1 DEF Answer
  <2>4. IsRead(r)
    BY <2>1, <2>3 DEF IsRead
  <2>5. r.legs = Legs(r)
    BY <2>1, <2>3 DEF Legs
  <2> HIDE DEF r
  <2> QED BY <2>2, <2>3, <2>4, <2>5, PreviewChanges
<1> QED BY <1>1, <1>2, <1>3

\* The legs of an answered preview.
LEMMA AnsweredLegs ==
  ASSUME PreviewsAreRead, NEW p \in Previews, Answered(p)
  PROVE  /\ IsRead(preview[p]) /\ preview[p].legs = Legs(preview[p])
         /\ preview[p].legs \in Seq(Leg)
         /\ DOMAIN preview[p].legs = 1..Len(preview[p].legs)
         /\ Len(preview[p].legs) \in Nat /\ Len(preview[p].legs) <= Len(SymbolOrder)
         /\ \A k \in 1..Len(preview[p].legs) :
              preview[p].legs[k] \in Leg /\ preview[p].legs[k].sym \in Symbols
         /\ \A i, j \in 1..Len(preview[p].legs) :
              preview[p].legs[i].sym = preview[p].legs[j].sym => i = j
<1>1. IsRead(preview[p]) /\ preview[p].legs = Legs(preview[p])
  BY DEF PreviewsAreRead, Answered
<1>2. preview[p].legs \in Seq(Leg)
  <2>1. Legs(preview[p]) \in Seq(Leg)
    BY <1>1, LegsProperties DEF Leg
  <2> QED BY <1>1, <2>1
<1>3. /\ DOMAIN preview[p].legs = 1..Len(preview[p].legs) /\ Len(preview[p].legs) \in Nat
      /\ \A k \in 1..Len(preview[p].legs) : preview[p].legs[k] \in Leg
  BY <1>2
<1>4. \A k \in 1..Len(preview[p].legs) : preview[p].legs[k].sym \in Symbols
  BY <1>3 DEF Leg
<1>5. /\ Len(Legs(preview[p])) <= Len(SymbolOrder)
      /\ \A i, j \in DOMAIN Legs(preview[p]) :
           Legs(preview[p])[i].sym = Legs(preview[p])[j].sym => i = j
  BY <1>1, LegsProperties
<1> QED BY <1>1, <1>2, <1>3, <1>4, <1>5

-----------------------------------------------------------------------------
(* The executions.                                                         *)

\* An execution sends its next leg.
Sends(e, k) ==
  /\ k = Len(outcome[e]) + 1 /\ k \in 1..Len(Plan(e).legs) /\ k \in 1..Len(SymbolOrder)
  /\ Answered(Preview[e]) /\ Plan(e).legs[k] \in Leg
  /\ LegId(e, k) \notin Recorded
  /\ SendsLeg(e, k)
  /\ run[e] \in {"idle", "sending"}
  /\ preview' = preview /\ run' = [run EXCEPT ![e] = "sending"]

LEMMA ExecutionSends ==
  ASSUME PreviewsAreRead, OutcomesAreKept, NEW e \in Executions, Executes(e) \/ NextLeg(e)
  PROVE  \E k \in Nat : Sends(e, k)
<1> DEFINE k == Len(outcome[e]) + 1
<1>1. Preview[e] \in Previews
  BY IdAssumption
<1>2. outcome[e] \in Seq({"submitted", "rejected"}) /\ Len(outcome[e]) \in Nat
  BY DEF OutcomesAreKept
<1>3. /\ Answered(Preview[e]) /\ k \in 1..Len(Plan(e).legs) /\ SendsLeg(e, k)
      /\ run[e] \in {"idle", "sending"}
      /\ preview' = preview /\ run' = [run EXCEPT ![e] = "sending"]
  <2>1. CASE Executes(e)
    <3>1. Answered(Preview[e]) /\ Plan(e).legs # <<>> /\ run[e] = "idle"
      BY <2>1 DEF Executes, Answers, Answered, Plan
    <3>2. Len(outcome[e]) = 0
      BY <3>1 DEF OutcomesAreKept
    <3>3. Plan(e).legs \in Seq(Leg)
      BY <1>1, <3>1, AnsweredLegs DEF Plan
    <3>4. k = 1 /\ 1 \in 1..Len(Plan(e).legs)
      BY <3>1, <3>2, <3>3, EmptySeq
    <3> QED BY <2>1, <3>1, <3>4 DEF Executes
  <2>2. CASE NextLeg(e)
    <3>1. run[e] = "sending" /\ Len(outcome[e]) < Len(Plan(e).legs) /\ SendsLeg(e, k)
          /\ preview' = preview /\ run' = run
      BY <2>2 DEF NextLeg
    <3>2. Answered(Preview[e])
      BY <3>1 DEF OutcomesAreKept
    <3>3. Len(Plan(e).legs) \in Nat
      BY <1>1, <3>2, AnsweredLegs DEF Plan
    <3>4. run' = [run EXCEPT ![e] = "sending"]
      BY <3>1 DEF OutcomesAreKept
    <3>5. k \in 1..Len(Plan(e).legs)
      BY <1>2, <3>1, <3>3
    <3> HIDE DEF k
    <3> QED BY <3>1, <3>2, <3>4, <3>5
  <2> QED BY <2>1, <2>2
<1>4. /\ Len(Plan(e).legs) \in Nat /\ Len(Plan(e).legs) <= Len(SymbolOrder)
      /\ Plan(e).legs[k] \in Leg
  BY <1>1, <1>3, AnsweredLegs DEF Plan
<1>5. k \in 1..Len(SymbolOrder) /\ k \in Nat
  <2>1. Len(SymbolOrder) \in Nat
    BY SymbolAssumption
  <2> QED BY <1>3, <1>4, <2>1
<1>6. LegId(e, k) \notin Recorded
  <2>1. LegId(e, k) \in Recorded => k <= Len(outcome[e])
    BY <1>5 DEF OutcomesAreKept, LegId
  <2> QED BY <1>2, <2>1
<1> QED BY <1>3, <1>4, <1>5, <1>6 DEF Sends

\* What a leg that is sent does to the outcomes.
LEMMA SendingLists ==
  ASSUME PreviewsAreRead, OutcomesAreKept, NEW e \in Executions, NEW k \in Nat, Sends(e, k),
         LegRejected(e, k) \/ LegFilled(e, k)
  PROVE  /\ outcome' \in [Executions -> Seq({"submitted", "rejected"})]
         /\ \A d \in Executions \ {e} : outcome'[d] = outcome[d]
         /\ Len(outcome'[e]) = k /\ Len(outcome[e]) = k - 1
         /\ \A j \in 1..k - 1 : outcome'[e][j] = outcome[e][j]
         /\ outcome'[e][k] = IF LegFilled(e, k) THEN "submitted" ELSE "rejected"
<1> DEFINE S == {"submitted", "rejected"}
<1>1. PICK r \in S : outcome' = [outcome EXCEPT ![e] = Append(@, r)]
                     /\ r = IF LegFilled(e, k) THEN "submitted" ELSE "rejected"
  BY DEF LegRejected, LegFilled
<1>2. outcome \in [Executions -> Seq(S)] /\ outcome[e] \in Seq(S)
  BY DEF OutcomesAreKept
<1> HIDE DEF S
<1>3. /\ Append(outcome[e], r) \in Seq(S) /\ Len(Append(outcome[e], r)) = Len(outcome[e]) + 1
      /\ \A j \in 1..Len(outcome[e]) : Append(outcome[e], r)[j] = outcome[e][j]
      /\ Append(outcome[e], r)[Len(outcome[e]) + 1] = r
  BY <1>2, AppendProperties
<1>4. outcome'[e] = Append(outcome[e], r) /\ \A d \in Executions \ {e} : outcome'[d] = outcome[d]
  BY <1>1, <1>2
<1>5. outcome' \in [Executions -> Seq(S)]
  BY <1>1, <1>2, <1>3
<1>6. k = Len(outcome[e]) + 1 /\ Len(outcome[e]) \in Nat
  BY <1>2 DEF Sends
<1>7. Len(outcome[e]) = k - 1
  BY <1>6
<1> QED BY <1>1, <1>3, <1>4, <1>5, <1>6, <1>7 DEF S

LEMMA SendingKeepsOutcomes ==
  ASSUME LongOnly, BooksInv, PreviewsAreRead, OutcomesAreKept, NEW e \in Executions, NEW k \in Nat,
         Sends(e, k), LegRejected(e, k) \/ LegFilled(e, k), FillsStay({LegId(e, k)})
  PROVE  OutcomesAreKept'
<1>1. /\ outcome' \in [Executions -> Seq({"submitted", "rejected"})]
      /\ \A d \in Executions \ {e} : outcome'[d] = outcome[d]
      /\ Len(outcome'[e]) = k /\ Len(outcome[e]) = k - 1
      /\ \A j \in 1..k - 1 : outcome'[e][j] = outcome[e][j]
      /\ outcome'[e][k] = IF LegFilled(e, k) THEN "submitted" ELSE "rejected"
  BY SendingLists
<1>2. /\ run' \in [Executions -> {"idle", "sending", "refused", "done"}]
      /\ run'[e] = "sending" /\ \A d \in Executions \ {e} : run'[d] = run[d]
  BY DEF Sends, OutcomesAreKept
<1>3. /\ preview' = preview /\ Answered(Preview[e]) /\ k <= Len(Plan(e).legs)
      /\ k \in 1..Len(SymbolOrder)
  BY DEF Sends
<1>4. \A d : Plan(d)' = Plan(d) /\ (Answered(Preview[d])' <=> Answered(Preview[d]))
  BY <1>3 DEF Plan, Answered
<1>5. ASSUME NEW d \in Executions
      PROVE  /\ run'[d] \in {"idle", "refused"} => outcome'[d] = <<>>
             /\ run'[d] \in {"sending", "done"} =>
                  Answered(Preview[d])' /\ Len(outcome'[d]) <= Len(Plan(d)'.legs)
             /\ run'[d] = "done" => Len(outcome'[d]) = Len(Plan(d)'.legs)
  <2>1. CASE d = e
    BY <1>1, <1>2, <1>3, <1>4, <2>1
  <2>2. CASE d # e
    BY <1>1, <1>2, <1>4, <2>2 DEF OutcomesAreKept
  <2> QED BY <2>1, <2>2
<1>6. \A d \in Executions, j \in 1..Len(SymbolOrder) :
        (d # e \/ j # k) => <<d, j>> # LegId(e, k)
  BY DEF LegId
<1>7. ASSUME NEW d \in Executions, NEW j \in 1..Len(SymbolOrder), <<d, j>> \in Recorded'
      PROVE  j <= Len(outcome'[d])
  <2>1. CASE d = e /\ j = k
    BY <1>1, <2>1
  <2>2. CASE d # e \/ j # k
    <3>1. <<d, j>> \in Recorded
      BY <1>6, <1>7, <2>2 DEF FillsStay
    <3>2. j <= Len(outcome[d])
      BY <3>1 DEF OutcomesAreKept
    <3> QED BY <1>1, <3>2
  <2> QED BY <2>1, <2>2
<1>8. ASSUME NEW d \in Executions, NEW j \in 1..Len(outcome'[d])
      PROVE  outcome'[d][j] = "submitted" <=>
               <<d, j>> \in Recorded' /\ orders'[<<d, j>>].filled_qty > 0
  <2>1. CASE d = e /\ j = k
    <3>1. CASE LegFilled(e, k)
      BY <1>1, <2>1, <3>1 DEF LegFilled, LegId
    <3>2. CASE ~LegFilled(e, k)
      BY <1>1, <2>1, <3>2 DEF LegRejected, LegId
    <3> QED BY <3>1, <3>2
  <2>2. CASE d # e \/ j # k
    <3>1. j \in 1..Len(outcome[d]) /\ outcome'[d][j] = outcome[d][j]
      BY <1>1, <2>2
    <3>2. outcome[d][j] = "submitted" <=>
            <<d, j>> \in Recorded /\ orders[<<d, j>>].filled_qty > 0
      BY <3>1 DEF OutcomesAreKept, LegId
    <3>3. <<d, j>> # LegId(e, k)
      BY <2>2 DEF LegId
    <3>4. /\ <<d, j>> \in Recorded' <=> <<d, j>> \in Recorded
          /\ <<d, j>> \in Recorded => orders'[<<d, j>>].filled_qty = orders[<<d, j>>].filled_qty
      BY <3>3 DEF FillsStay
    <3> QED BY <3>1, <3>2, <3>4
  <2> QED BY <2>1, <2>2
<1> QED BY <1>1, <1>2, <1>5, <1>7, <1>8 DEF OutcomesAreKept, LegId

\* What sends no leg, and ends no execution before its last one.
LEMMA QuietKeepsOutcomes ==
  ASSUME OutcomesAreKept, PreviewsStay, NEW new, FillsStay(new),
         \A d \in Executions, j \in 1..Len(SymbolOrder) : <<d, j>> \notin new,
         outcome' = outcome,
         run' \in [Executions -> {"idle", "sending", "refused", "done"}],
         \A d \in Executions : \/ run'[d] = run[d]
                               \/ run[d] = "idle" /\ run'[d] = "refused"
                               \/ /\ run[d] = "sending" /\ run'[d] = "done"
                                  /\ Len(outcome[d]) = Len(Plan(d).legs),
         PreviewsAreRead
  PROVE  OutcomesAreKept'
<1>1. \A d \in Executions : Preview[d] \in Previews
  BY IdAssumption
<1>2. \A d \in Executions :
        Answered(Preview[d]) => Answered(Preview[d])' /\ Plan(d)'.legs = Plan(d).legs
  BY <1>1 DEF PreviewsStay, Plan
<1>3. ASSUME NEW d \in Executions
      PROVE  /\ run'[d] \in {"idle", "refused"} => outcome'[d] = <<>>
             /\ run'[d] \in {"sending", "done"} =>
                  Answered(Preview[d])' /\ Len(outcome'[d]) <= Len(Plan(d)'.legs)
             /\ run'[d] = "done" => Len(outcome'[d]) = Len(Plan(d)'.legs)
  BY <1>2 DEF OutcomesAreKept
<1>4. ASSUME NEW d \in Executions, NEW j \in 1..Len(SymbolOrder), <<d, j>> \in Recorded'
      PROVE  j <= Len(outcome'[d])
  <2>1. <<d, j>> \in Recorded
    BY <1>4 DEF FillsStay
  <2> QED BY <2>1 DEF OutcomesAreKept
<1>5. ASSUME NEW d \in Executions, NEW j \in 1..Len(outcome[d])
      PROVE  outcome[d][j] = "submitted" <=>
               <<d, j>> \in Recorded' /\ orders'[<<d, j>>].filled_qty > 0
  <2>1. j \in 1..Len(SymbolOrder)
    <3>1. Answered(Preview[d]) /\ Len(outcome[d]) <= Len(Plan(d).legs)
      BY DEF OutcomesAreKept
    <3>2. Len(Plan(d).legs) \in Nat /\ Len(Plan(d).legs) <= Len(SymbolOrder)
      BY <1>1, <3>1, AnsweredLegs DEF Plan
    <3>3. Len(SymbolOrder) \in Nat /\ Len(outcome[d]) \in Nat
      BY SymbolAssumption DEF OutcomesAreKept
    <3> QED BY <3>1, <3>2, <3>3
  <2>2. outcome[d][j] = "submitted" <=>
          <<d, j>> \in Recorded /\ orders[<<d, j>>].filled_qty > 0
    BY DEF OutcomesAreKept, LegId
  <2>3. /\ <<d, j>> \in Recorded' <=> <<d, j>> \in Recorded
        /\ <<d, j>> \in Recorded => orders'[<<d, j>>].filled_qty = orders[<<d, j>>].filled_qty
    BY <2>1 DEF FillsStay
  <2> QED BY <2>2, <2>3
<1> QED BY <1>3, <1>4, <1>5 DEF OutcomesAreKept, LegId

-----------------------------------------------------------------------------
(* The positions.                                                          *)

\* Those who have traded have legs that were filled, of an answered preview.
LEMMA TradersAreAnswered ==
  ASSUME PreviewsAreRead, OutcomesAreKept, TradersTraded, NEW p \in Previews, NEW d \in Traders(p)
  PROVE  /\ d \in Executions /\ Preview[d] = p /\ Answered(p) /\ Submitted(d) # {}
         /\ \A k \in Submitted(d) : k \in 1..Len(outcome[d]) /\ k \in 1..Len(preview[p].legs)
<1>1. d \in Executions /\ Preview[d] = p /\ Submitted(d) # {}
  BY DEF Traders, TradersTraded
<1>2. outcome[d] # <<>>
  BY <1>1 DEF Submitted
<1>3. run[d] \in {"sending", "done"}
  BY <1>1, <1>2 DEF OutcomesAreKept
<1>4. Answered(p) /\ Len(outcome[d]) <= Len(preview[p].legs)
  BY <1>1, <1>3 DEF OutcomesAreKept, Plan
<1>5. Len(outcome[d]) \in Nat /\ Len(preview[p].legs) \in Nat
  BY <1>1, <1>4, AnsweredLegs DEF OutcomesAreKept
<1> QED BY <1>1, <1>4, <1>5 DEF Submitted

\* A step in which nobody trades keeps what the positions are.
LEMMA QuietKeepsStories ==
  ASSUME BooksInv, PreviewsAreRead, OutcomesAreKept, TradersTraded, StoriesAreTrue,
         PreviewsStay, position' = position, traded' = traded, outcome' = outcome,
         outside \subseteq outside',
         \A p \in Previews : preview[p].at = "idle" /\ preview'[p].at # "idle" =>
                               preview'[p].held = position
  PROVE  TradersTraded' /\ StoriesAreTrue'
<1>1. \A d : Submitted(d)' = Submitted(d)
  BY DEF Submitted
<1>2. \A p : Traders(p)' = Traders(p)
  BY DEF Traders
<1>3. TradersTraded'
  BY <1>1 DEF TradersTraded
<1>4. ASSUME NEW p \in Previews \ outside', preview'[p].at # "idle"
      PROVE  Story(p)'
  <2>1. CASE preview[p].at = "idle"
    <3>1. preview'[p].held = position
      BY <1>4, <2>1
    <3>2. ~Answered(p)
      BY <2>1 DEF Answered
    <3>3. Traders(p) = {}
      BY <3>2, TradersAreAnswered
    <3> QED BY <1>1, <1>2, <3>1, <3>3 DEF Story
  <2>2. CASE preview[p].at # "idle"
    <3>1. Story(p) /\ preview'[p].held = preview[p].held
      BY <1>4, <2>2 DEF StoriesAreTrue, PreviewsStay
    <3>2. ASSUME NEW d \in Traders(p) PROVE preview'[p].legs = preview[p].legs
      BY TradersAreAnswered DEF PreviewsStay
    <3> QED BY <1>1, <1>2, <3>1, <3>2 DEF Story
  <2> QED BY <2>1, <2>2
<1> QED BY <1>3, <1>4 DEF StoriesAreTrue

\* A leg that was rejected is no trade.
LEMMA RejectedKeepsStories ==
  ASSUME BooksInv, PreviewsAreRead, OutcomesAreKept, TradersTraded, StoriesAreTrue,
         NEW e \in Executions, NEW k \in Nat, Sends(e, k), LegRejected(e, k), ~LegFilled(e, k)
  PROVE  TradersTraded' /\ StoriesAreTrue'
<1>1. /\ \A d \in Executions \ {e} : outcome'[d] = outcome[d]
      /\ Len(outcome'[e]) = k /\ Len(outcome[e]) = k - 1
      /\ \A j \in 1..k - 1 : outcome'[e][j] = outcome[e][j]
      /\ outcome'[e][k] = "rejected"
  BY SendingLists
<1>2. ASSUME NEW d \in Executions PROVE Submitted(d)' = Submitted(d)
  <2>1. CASE d = e
    <3>1. \A j \in 1..k : j \in 1..k - 1 \/ j = k
      OBVIOUS
    <3> QED BY <1>1, <2>1, <3>1 DEF Submitted
  <2>2. CASE d # e
    BY <1>1, <2>2 DEF Submitted
  <2> QED BY <2>1, <2>2
<1>3. traded' = traded /\ outside' = outside /\ position' = position /\ preview' = preview
  BY DEF LegRejected, Sends
<1>4. TradersTraded'
  BY <1>2, <1>3 DEF TradersTraded
<1>5. \A p : Traders(p)' = Traders(p) /\ Traders(p) \subseteq Executions
  BY <1>3 DEF Traders, TradersTraded
<1>6. \A p \in Previews \ outside : preview[p].at # "idle" => Story(p)'
  BY <1>2, <1>3, <1>5 DEF StoriesAreTrue, Story
<1> QED BY <1>3, <1>4, <1>6 DEF StoriesAreTrue

\* A leg that is filled: previews of others are left to outside trades, and the story
\* of its own goes on.
LEMMA FilledKeepsStories ==
  ASSUME BooksInv, PreviewsAreRead, OutcomesAreKept, TradersTraded, StoriesAreTrue,
         NEW e \in Executions, NEW k \in Nat, Sends(e, k), LegFilled(e, k)
  PROVE  TradersTraded' /\ StoriesAreTrue'
<1> DEFINE p == Preview[e]
           legs == preview[p].legs
           leg == legs[k]
           held == preview[p].held
<1>1. /\ \A d \in Executions \ {e} : outcome'[d] = outcome[d]
      /\ Len(outcome'[e]) = k /\ Len(outcome[e]) = k - 1
      /\ \A j \in 1..k - 1 : outcome'[e][j] = outcome[e][j]
      /\ outcome'[e][k] = "submitted"
  BY SendingLists
<1>2. /\ k \in 1..Len(legs) /\ Answered(p) /\ preview' = preview /\ p \in Previews
      /\ position' = [position EXCEPT ![leg.sym] = @ + leg.delta]
      /\ traded' = traded \cup {e}
      /\ outside' = outside \cup ({q \in Previews : preview[q].at # "idle"} \ {p})
  BY IdAssumption DEF Sends, LegFilled, Plan
<1>3. /\ \A d \in Executions \ {e} : Submitted(d)' = Submitted(d)
      /\ Submitted(e)' = Submitted(e) \cup {k} /\ k \notin Submitted(e)
  <2>1. \A d \in Executions \ {e} : Submitted(d)' = Submitted(d)
    BY <1>1 DEF Submitted
  <2>2. \A j \in 1..k : j \in 1..k - 1 \/ j = k
    OBVIOUS
  <2>3. 1..k - 1 \subseteq 1..k /\ k \in 1..k /\ k \notin 1..k - 1
    BY <1>2
  <2> QED BY <1>1, <2>1, <2>2, <2>3 DEF Submitted
<1>4. TradersTraded'
  BY <1>2, <1>3 DEF TradersTraded
<1>5. /\ \A q \in Previews : q \notin outside' /\ preview[q].at # "idle" => q = p
      /\ outside \subseteq outside'
  BY <1>2
<1>6. Traders(p)' = Traders(p) \cup {e} /\ Traders(p) \subseteq Executions
  BY <1>2, <1>4 DEF Traders, TradersTraded
<1>7. ASSUME p \notin outside' PROVE Story(p)'
  <2>1. Story(p)
    BY <1>2, <1>5, <1>7 DEF StoriesAreTrue, Answered
  <2>2. /\ \A j \in 1..Len(legs) :
             legs[j].sym \in Symbols /\ legs[j].delta \in Int /\ legs[j].delta # 0
        /\ \A i, j \in 1..Len(legs) : legs[i].sym = legs[j].sym => i = j
    BY <1>2, AnsweredLegs DEF Leg
  <2>3. /\ held \in [Symbols -> Nat] /\ position \in [Symbols -> Nat]
    BY <1>2, AnsweredLegs DEF IsRead, BooksInv, CashInv, TypeOK
  <2>4. \A d \in Traders(p) : \A j \in Submitted(d) : j \in 1..Len(legs)
    BY <1>2, TradersAreAnswered
  <2>5. \A j \in 1..Len(legs) :
          position'[legs[j].sym] = position[legs[j].sym] + (IF j = k THEN leg.delta ELSE 0)
    BY <1>2, <2>2, <2>3
  <2>6. \A s \in Symbols : s # leg.sym => position'[s] = position[s]
    BY <1>2, <2>3
  <2> DEFINE after(d) == IF d = e THEN Submitted(e) \cup {k} ELSE Submitted(d)
  <2>0. \A d \in Traders(p) \cup {e} : Submitted(d)' = after(d)
    BY <1>3, <1>6
  <2> HIDE DEF legs, leg, held
  <2>7. /\ \A s \in Symbols :
             \/ position[s] = held[s]
             \/ \E d \in Traders(p) : \E j \in Submitted(d) : legs[j].sym = s
        /\ \A d \in Traders(p) : \A j \in Submitted(d) :
             /\ legs[j].delta > 0 => position[legs[j].sym] >= held[legs[j].sym] + legs[j].delta
             /\ legs[j].delta < 0 => position[legs[j].sym] <= held[legs[j].sym] + legs[j].delta
             /\ Traders(p) = {d} => position[legs[j].sym] = held[legs[j].sym] + legs[j].delta
    BY <2>1 DEF Story, legs, held
  <2>8. leg = legs[k]
    BY DEF leg
  \* Before the step, the symbol of the leg is where it was or beyond its target.
  <2>9. /\ leg.delta > 0 => position[leg.sym] >= held[leg.sym]
        /\ leg.delta < 0 => position[leg.sym] <= held[leg.sym]
        /\ Traders(p) \subseteq {e} => position[leg.sym] = held[leg.sym]
    <3>1. CASE position[leg.sym] = held[leg.sym]
      BY <1>2, <2>2, <2>3, <2>8, <3>1
    <3>2. CASE \E d \in Traders(p) : \E j \in Submitted(d) : legs[j].sym = leg.sym
      <4>0. PICK d \in Traders(p) : \E j \in Submitted(d) : legs[j].sym = leg.sym
        BY <3>2
      <4>1. PICK j \in Submitted(d) : legs[j].sym = leg.sym
        BY <4>0
      <4>2. j = k
        BY <1>2, <2>2, <2>4, <2>8, <4>1
      <4>3. d # e
        BY <1>3, <4>2
      <4>4. /\ leg.delta > 0 => position[leg.sym] >= held[leg.sym] + leg.delta
            /\ leg.delta < 0 => position[leg.sym] <= held[leg.sym] + leg.delta
        BY <2>7, <2>8, <4>1, <4>2
      <4>5. ~(Traders(p) \subseteq {e})
        BY <4>3
      <4>6. held[leg.sym] \in Nat /\ position[leg.sym] \in Nat /\ leg.delta \in Int
        BY <1>2, <2>2, <2>3, <2>8
      <4> QED BY <4>4, <4>5, <4>6
    <3> QED BY <1>2, <2>2, <2>7, <2>8, <3>1, <3>2
  <2>10. \A s \in Symbols :
           \/ position'[s] = held[s]
           \/ \E d \in Traders(p) \cup {e} : \E j \in after(d) : legs[j].sym = s
    <3> SUFFICES ASSUME NEW s \in Symbols
                 PROVE  \/ position'[s] = held[s]
                        \/ \E d \in Traders(p) \cup {e} : \E j \in after(d) : legs[j].sym = s
      OBVIOUS
    <3>1. CASE s = leg.sym
      BY <1>3, <1>6, <2>8, <3>1
    <3>2. CASE s # leg.sym /\ position[s] = held[s]
      BY <2>6, <3>2
    <3>3. CASE \E d \in Traders(p) : \E j \in Submitted(d) : legs[j].sym = s
      <4>0. PICK d \in Traders(p) : \E j \in Submitted(d) : legs[j].sym = s
        BY <3>3
      <4>1. PICK j \in Submitted(d) : legs[j].sym = s
        BY <4>0
      <4>2. d \in Traders(p) \cup {e} /\ j \in after(d)
        BY <4>1
      <4> QED BY <4>1, <4>2
    <3> QED BY <2>7, <3>1, <3>2, <3>3
  <2>11. ASSUME NEW d \in Traders(p) \cup {e}, NEW j \in after(d)
         PROVE  /\ legs[j].delta > 0 => position'[legs[j].sym] >= held[legs[j].sym] + legs[j].delta
                /\ legs[j].delta < 0 => position'[legs[j].sym] <= held[legs[j].sym] + legs[j].delta
                /\ Traders(p) \cup {e} = {d} => position'[legs[j].sym] = held[legs[j].sym] + legs[j].delta
    <3>1. d \in Executions /\ (d # e => d \in Traders(p))
      BY <1>6
    <3>2. d = e \/ d # e
      OBVIOUS
    <3>3. CASE j = k
      <4>1. position'[leg.sym] = position[leg.sym] + leg.delta
        BY <1>2, <2>5, <2>8
      <4>2. held[leg.sym] \in Nat /\ position[leg.sym] \in Nat /\ leg.delta \in Int
        BY <1>2, <2>2, <2>3, <2>8
      <4>3. Traders(p) \cup {e} = {d} => Traders(p) \subseteq {e}
        BY <1>6
      <4> QED BY <2>8, <2>9, <3>3, <4>1, <4>2, <4>3
    <3>4. CASE j # k
      <4>1. j \in Submitted(d)
        BY <1>3, <2>11, <3>1, <3>4
      <4>2. d \in Traders(p)
        <5>1. CASE d = e
          <6>1. e \in traded
            BY <4>1, <5>1 DEF TradersTraded
          <6> QED BY <5>1, <6>1 DEF Traders
        <5> QED BY <3>1, <5>1
      <4>3. j \in 1..Len(legs)
        BY <2>4, <4>1, <4>2
      <4>4. position'[legs[j].sym] = position[legs[j].sym]
        BY <2>2, <2>3, <2>5, <3>4, <4>3
      <4>5. Traders(p) \cup {e} = {d} => Traders(p) = {d}
        BY <1>6, <4>2
      <4> QED BY <2>7, <4>1, <4>2, <4>4, <4>5
    <3> QED BY <3>3, <3>4
  <2>12. preview'[p].legs = legs /\ preview'[p].held = held
    BY <1>2 DEF legs, held
  <2> HIDE DEF after
  <2> QED BY <1>6, <2>0, <2>10, <2>11, <2>12 DEF Story
<1>8. ASSUME NEW q \in Previews \ outside', preview'[q].at # "idle" PROVE Story(q)'
  <2>1. q = p
    BY <1>2, <1>5, <1>8
  <2> QED BY <1>7, <1>8, <2>1
<1> QED BY <1>4, <1>8 DEF StoriesAreTrue

-----------------------------------------------------------------------------
(* The drafts.                                                             *)

LEMMA AppendedSequence ==
  ASSUME NEW T, NEW s \in Seq(T), NEW y \in T
  PROVE  /\ Append(s, y) \in Seq(T) /\ Len(s) \in Nat /\ Len(Append(s, y)) = Len(s) + 1
         /\ Append(s, y)[Len(s) + 1] = y
         /\ \A i \in 1..Len(s) : Append(s, y)[i] = s[i]
BY AppendProperties

LEMMA TailOfSequence ==
  ASSUME NEW T, NEW s \in Seq(T), Len(s) >= 1
  PROVE  /\ Tail(s) \in Seq(T) /\ Len(Tail(s)) = Len(s) - 1
         /\ \A i \in 1..Len(s) - 1 : Tail(s)[i] = s[i + 1]
         /\ Head(s) = s[1]
<1>1. s # <<>> /\ Len(s) \in Nat
  BY EmptySeq
<1> QED BY <1>1, HeadTailProperties

LEMMA IntervalSize == \A m \in Nat : IsFiniteSet(1..m) /\ Cardinality(1..m) = m
<1>1. \A m \in Nat : IsFiniteSet(1..m) /\ Cardinality(1..m) = IF 1 > m THEN 0 ELSE m - 1 + 1
  BY FS_Interval
<1> QED BY <1>1

LEMMA IntervalIsFinite == \A a, b \in Int : IsFiniteSet(a..b)
BY FS_Interval

LEMMA ClaimKeepsClaims ==
  ASSUME ClaimsAreRemembered, DraftOnce, NEW x \in Executions \cup Manual \cup Invalid, Claims(x)
  PROVE  ClaimsAreRemembered' /\ DraftOnce'
<1>1. CASE Draft[x] = None
  <2>1. UNCHANGED <<consumed, lookup, claims>>
    BY <1>1 DEF Claims
  <2>2. ClaimsAreRemembered' BY <2>1 DEF ClaimsAreRemembered
  <2>3. DraftOnce' BY <2>1 DEF DraftOnce
  <2> QED BY <2>2, <2>3
<1>2. CASE Draft[x] # None
  <2> DEFINE d == Draft[x]
             n == Len(consumed)
             c == Len(claims)
             full == n = MaxRemembered
             rest == IF full THEN Tail(consumed) ELSE consumed
             r == Len(rest)
  <2>1. /\ d \notin lookup /\ lookup' = (lookup \ Forgotten) \cup {d}
        /\ consumed' = Append(rest, d) /\ claims' = Append(claims, d)
    BY <1>2 DEF Claims, Claimable
  <2>2. /\ claims \in Seq(Drafts) /\ consumed \in Seq(Drafts) /\ d \in Drafts
        /\ n \in Nat /\ c \in Nat /\ n <= MaxRemembered /\ n <= c
        /\ n < MaxRemembered => n = c
        /\ MaxRemembered \in Nat /\ MaxRemembered > 0
        /\ DOMAIN claims = 1..c /\ DOMAIN consumed = 1..n
    BY RebalanceAssumption DEF ClaimsAreRemembered, Drafts
  <2>3. \A i \in 1..n : consumed[i] = claims[c - n + i]
    BY DEF ClaimsAreRemembered
  <2>4. /\ lookup = {consumed[i] : i \in 1..n}
        /\ \A i, j \in 1..n : consumed[i] = consumed[j] => i = j
    BY <2>2 DEF ClaimsAreRemembered, Range, IsInjective
  \* What is left when there is room for one more.
  <2>5. /\ rest \in Seq(Drafts) /\ r \in Nat /\ r < MaxRemembered /\ r <= c
        /\ r + 1 < MaxRemembered => r = c
        /\ \A i \in 1..r : rest[i] = claims[c - r + i]
        /\ lookup \ Forgotten = {rest[i] : i \in 1..r}
        /\ \A i, j \in 1..r : rest[i] = rest[j] => i = j
    <3>1. CASE full
      <4>0. consumed \in Seq(Drafts)
        BY <2>2
      <4>1. n >= 1
        <5>1. n = MaxRemembered
          BY <3>1
        <5> HIDE DEF n, c, rest, r
        <5> QED BY <2>2, <5>1
      <4>2. /\ Tail(consumed) \in Seq(Drafts) /\ Len(Tail(consumed)) = n - 1
            /\ \A i \in 1..n - 1 : Tail(consumed)[i] = consumed[i + 1]
            /\ Head(consumed) = consumed[1]
        BY <4>0, <4>1, TailOfSequence
      <4>3. rest = Tail(consumed) /\ r = n - 1 /\ Forgotten = {consumed[1]}
        BY <3>1, <4>2 DEF Forgotten
      <4> HIDE DEF rest, n, c, r
      <4>4. \A i \in 1..r : i + 1 \in 1..n /\ rest[i] = consumed[i + 1]
        BY <2>2, <4>2, <4>3
      <4>5. \A i \in 1..r : rest[i] = claims[c - r + i]
        <5> SUFFICES ASSUME NEW i \in 1..r PROVE rest[i] = claims[c - r + i]
          OBVIOUS
        <5>1. c - n + (i + 1) = c - r + i
          BY <2>2, <4>3
        <5> QED BY <2>3, <4>4, <5>1
      <4>6. \A i \in 1..n : i = 1 \/ (i - 1 \in 1..r /\ rest[i - 1] = consumed[i])
        BY <2>2, <4>3, <4>4
      <4>7. lookup \ Forgotten = {rest[i] : i \in 1..r}
        <5>1. ASSUME NEW y \in lookup \ Forgotten PROVE y \in {rest[i] : i \in 1..r}
          <6>1. PICK i \in 1..n : y = consumed[i]
            BY <2>4
          <6>2. i # 1
            BY <4>3, <6>1
          <6>3. i - 1 \in 1..r /\ rest[i - 1] = y
            BY <4>6, <6>1, <6>2
          <6> QED BY <6>3
        <5>2. ASSUME NEW i \in 1..r PROVE rest[i] \in lookup \ Forgotten
          <6>1. i + 1 \in 1..n /\ rest[i] = consumed[i + 1] /\ 1 \in 1..n /\ i + 1 # 1
            BY <2>2, <4>1, <4>4
          <6> QED BY <2>4, <4>3, <6>1
        <5> QED BY <5>1, <5>2
      <4>8. \A i, j \in 1..r : rest[i] = rest[j] => i = j
        <5> SUFFICES ASSUME NEW i \in 1..r, NEW j \in 1..r, rest[i] = rest[j] PROVE i = j
          OBVIOUS
        <5>1. i + 1 = j + 1
          BY <2>4, <4>4
        <5> QED BY <5>1
      <4> QED BY <2>2, <3>1, <4>2, <4>3, <4>5, <4>7, <4>8 DEF n
    <3>2. CASE ~full
      <4>1. rest = consumed /\ r = n /\ Forgotten = {} /\ n # MaxRemembered
        BY <3>2 DEF Forgotten
      <4> HIDE DEF rest, n, c, r
      <4>2. n < MaxRemembered
        BY <2>2, <4>1
      <4> QED BY <2>2, <2>3, <2>4, <4>1, <4>2
    <3> QED BY <3>1, <3>2
  <2>6. d \notin {rest[i] : i \in 1..r}
    <3> HIDE DEF rest, d, r
    <3> QED BY <2>1, <2>5
  <2>7. /\ claims' \in Seq(Drafts) /\ Len(claims') = c + 1 /\ claims'[c + 1] = d
        /\ \A i \in 1..c : claims'[i] = claims[i]
    <3>1. claims \in Seq(Drafts) /\ d \in Drafts
      BY <2>2
    <3> HIDE DEF d
    <3> QED BY <2>1, <3>1, AppendedSequence
  <2>8. /\ consumed' \in Seq(Drafts) /\ Len(consumed') = r + 1 /\ consumed'[r + 1] = d
        /\ \A i \in 1..r : consumed'[i] = rest[i]
    <3>1. rest \in Seq(Drafts) /\ d \in Drafts
      BY <2>2, <2>5
    <3> HIDE DEF d, rest
    <3> QED BY <2>1, <3>1, AppendedSequence
  <2> HIDE DEF d, n, c, r, rest
  <2>9. ClaimsAreRemembered'
    <3>1. ASSUME NEW i \in 1..r + 1 PROVE consumed'[i] = claims'[(c + 1) - (r + 1) + i]
      <4>1. CASE i = r + 1
        <5>1. (c + 1) - (r + 1) + i = c + 1
          BY <2>2, <2>5, <4>1
        <5> QED BY <2>7, <2>8, <4>1, <5>1
      <4>2. CASE i # r + 1
        <5>1. i \in 1..r /\ (c + 1) - (r + 1) + i = c - r + i /\ c - r + i \in 1..c
          BY <2>2, <2>5, <4>2
        <5> QED BY <2>5, <2>7, <2>8, <5>1
      <4> QED BY <4>1, <4>2
    <3>2. DOMAIN consumed' = 1..r + 1
      BY <2>8
    <3>3. \A i \in 1..r + 1 : i \in 1..r \/ i = r + 1
      BY <2>5
    <3>4. IsInjective(consumed')
      BY <2>5, <2>6, <2>8, <3>2, <3>3 DEF IsInjective
    <3>5. lookup' = Range(consumed')
      <4>1. Range(consumed') = {rest[i] : i \in 1..r} \cup {d}
        <5>1. 1..r \subseteq 1..r + 1 /\ r + 1 \in 1..r + 1
          BY <2>5
        <5> QED BY <2>8, <3>2, <3>3, <5>1 DEF Range
      <4> QED BY <2>1, <2>5, <4>1
    <3>6. /\ Len(consumed') <= MaxRemembered /\ Len(consumed') <= Len(claims')
          /\ Len(consumed') < MaxRemembered => Len(consumed') = Len(claims')
      BY <2>2, <2>5, <2>7, <2>8
    <3> QED BY <2>7, <2>8, <3>1, <3>4, <3>5, <3>6 DEF ClaimsAreRemembered
  <2>10. DraftOnce'
    <3> SUFFICES ASSUME NEW i \in 1..c + 1, NEW j \in 1..c + 1, i < j, claims'[i] = claims'[j]
                 PROVE  Cardinality({claims'[k] : k \in i + 1..j - 1}) >= MaxRemembered
      BY <2>7 DEF DraftOnce
    <3>1. CASE j \in 1..c
      <4>1. i \in 1..c /\ i + 1..j - 1 \subseteq 1..c
        BY <2>2, <3>1
      <4>2. claims[i] = claims[j]
        BY <2>7, <3>1, <4>1
      <4>3. Cardinality({claims[k] : k \in i + 1..j - 1}) >= MaxRemembered
        BY <2>2, <3>1, <4>1, <4>2 DEF DraftOnce
      <4>4. {claims'[k] : k \in i + 1..j - 1} = {claims[k] : k \in i + 1..j - 1}
        BY <2>7, <4>1
      <4> QED BY <4>3, <4>4
    <3>2. CASE j = c + 1
      <4>1. i \in 1..c /\ claims[i] = d
        BY <2>2, <2>7, <3>2
      <4>2. i <= c - n
        <5> SUFFICES ASSUME i > c - n PROVE FALSE
          BY <2>2
        <5>1. i - (c - n) \in 1..n /\ (c - n) + (i - (c - n)) = i
          BY <2>2, <4>1
        <5>2. consumed[i - (c - n)] = d
          BY <2>3, <4>1, <5>1
        <5> QED BY <2>1, <2>4, <5>1, <5>2
      <4>3. n = MaxRemembered
        BY <2>2, <4>1, <4>2
      <4> DEFINE S == {claims'[k] : k \in i + 1..j - 1}
                 f == [k \in i + 1..j - 1 |-> claims'[k]]
                 R == {consumed[t] : t \in 1..n}
      <4>4. R \subseteq S
        <5> SUFFICES ASSUME NEW t \in 1..n PROVE consumed[t] \in S
          OBVIOUS
        <5>1. c - n + t \in i + 1..j - 1 /\ c - n + t \in 1..c
          BY <2>2, <3>2, <4>2
        <5>2. consumed[t] = claims'[c - n + t]
          BY <2>3, <2>7, <5>1
        <5> QED BY <5>1, <5>2
      <4>6. IsFiniteSet(S)
        <5>1. f \in Surjection(i + 1..j - 1, S)
          BY DEF Surjection
        <5>2. i + 1 \in Int /\ j - 1 \in Int
          BY <2>2
        <5> HIDE DEF f, S
        <5> QED BY IntervalIsFinite, <5>1, <5>2, FS_Surjection
      <4>7. Cardinality(R) = n
        <5>1. consumed \in [1..n -> R] /\ (\A y \in R : \E t \in 1..n : consumed[t] = y)
          BY <2>2
        <5>2. consumed \in Surjection(1..n, R)
          BY <5>1 DEF Surjection
        <5>3. consumed \in Injection(1..n, R)
          BY <2>2, <2>4, <5>1 DEF Injection, IsInjective
        <5>4. IsFiniteSet(1..n) /\ Cardinality(1..n) = n
          BY <2>2, IntervalSize
        <5> HIDE DEF R
        <5> QED BY <5>2, <5>3, <5>4, FS_Surjection
      <4> HIDE DEF S, R
      <4>8. Cardinality(R) <= Cardinality(S) /\ Cardinality(S) \in Nat
        BY <4>4, <4>6, FS_Subset, FS_CardinalityType
      <4> QED BY <2>2, <4>3, <4>7, <4>8 DEF S
    <3> QED BY <2>2, <3>1, <3>2
  <2> QED BY <2>9, <2>10
<1> QED BY <1>1, <1>2

-----------------------------------------------------------------------------
(* The invariant.                                                           *)

\* A token that verifies, without trades of others since its snapshot, is of a
\* preview nobody has traded on.
LEMMA NoneTradedBefore ==
  ASSUME BooksInv, PreviewsAreRead, OutcomesAreKept, TradersTraded, StoriesAreTrue,
         NEW e \in Executions, Verified(Plan(e)), Preview[e] \notin outside
  PROVE  ~(\E d \in traded : Preview[d] = Preview[e])
<1> DEFINE p == Preview[e]
           legs == preview[p].legs
           held == preview[p].held
<1>1. p \in Previews /\ preview[p].at = "issued" /\ preview[p].holdings = position
  BY IdAssumption DEF Verified, Plan, Holdings
<1>2. held = position /\ held \in [Symbols -> Nat]
  BY <1>1 DEF PreviewsAreRead, IsRead
<1>3. Story(p)
  BY <1>1 DEF StoriesAreTrue
<1> SUFFICES ASSUME NEW d \in traded, Preview[d] = p PROVE FALSE
  OBVIOUS
<1>4. d \in Traders(p)
  BY DEF Traders
<1>5. Submitted(d) # {} /\ \A k \in Submitted(d) : k \in 1..Len(legs)
  BY <1>1, <1>4, TradersAreAnswered
<1>6. PICK k \in Submitted(d) : k \in 1..Len(legs)
  BY <1>5
<1>7. legs[k].sym \in Symbols /\ legs[k].delta \in Int /\ legs[k].delta # 0
  BY <1>1, <1>6, AnsweredLegs DEF Answered, Leg
<1>8. /\ legs[k].delta > 0 => position[legs[k].sym] >= held[legs[k].sym] + legs[k].delta
      /\ legs[k].delta < 0 => position[legs[k].sym] <= held[legs[k].sym] + legs[k].delta
  BY <1>3, <1>4, <1>6 DEF Story
<1>9. held[legs[k].sym] \in Nat /\ position[legs[k].sym] = held[legs[k].sym]
  BY <1>2, <1>7
<1> HIDE DEF legs, held
<1> QED BY <1>7, <1>8, <1>9

LEMMA ExecutionKeepsInv ==
  ASSUME LongOnly, RebalanceInv, NEW e \in Executions, Executes(e) \/ NextLeg(e)
  PROVE  RebalanceInv'
<1>0. /\ BooksInv /\ PreviewsAreRead /\ OutcomesAreKept /\ TradersTraded /\ StoriesAreTrue
      /\ ReplayNeedsOthers /\ ClaimsAreRemembered /\ DraftOnce
  BY DEF RebalanceInv
<1>1. PICK k \in Nat : Sends(e, k)
  BY <1>0, ExecutionSends
<1>2. BooksInv' /\ FillsStay({LegId(e, k)}) /\ (LegRejected(e, k) \/ LegFilled(e, k))
  <2>1. /\ k \in 1..Len(SymbolOrder) /\ LegId(e, k) \notin Recorded
        /\ Plan(e).legs[k] \in Leg /\ SendsLeg(e, k)
    BY <1>1 DEF Sends
  <2> QED BY <1>0, <2>1, LegStep
<1>3. OutcomesAreKept'
  BY <1>0, <1>1, <1>2, SendingKeepsOutcomes
<1>4. TradersTraded' /\ StoriesAreTrue'
  BY <1>0, <1>1, <1>2, RejectedKeepsStories, FilledKeepsStories
<1>5. PreviewsAreRead'
  BY <1>0, <1>1, PreviewsUnchanged DEF Sends
<1>6. ReplayNeedsOthers' /\ ClaimsAreRemembered' /\ DraftOnce'
  <2>1. CASE Executes(e)
    <3>1. Claims(e) /\ Verified(Plan(e))
      BY <2>1 DEF Executes
    <3>2. ~(Preview[e] \notin outside /\ \E d \in traded : Preview[d] = Preview[e])
      BY <1>0, <3>1, NoneTradedBefore
    <3>3. replayed' = replayed
      BY <2>1, <3>2 DEF Executes
    <3>4. ClaimsAreRemembered' /\ DraftOnce'
      BY <1>0, <3>1, ClaimKeepsClaims
    <3> QED BY <1>0, <3>3, <3>4 DEF ReplayNeedsOthers
  <2>2. CASE NextLeg(e)
    <3>1. UNCHANGED <<drafts, replayed>>
      BY <2>2 DEF NextLeg
    <3>2. UNCHANGED <<consumed, lookup, claims>> /\ replayed' = replayed
      BY <3>1 DEF drafts
    <3>3. ReplayNeedsOthers'
      BY <1>0, <3>2 DEF ReplayNeedsOthers
    <3>4. ClaimsAreRemembered'
      BY <1>0, <3>2 DEF ClaimsAreRemembered
    <3>5. DraftOnce'
      BY <1>0, <3>2 DEF DraftOnce
    <3> QED BY <3>3, <3>4, <3>5
  <2> QED BY <2>1, <2>2
<1> QED BY <1>2, <1>3, <1>4, <1>5, <1>6 DEF RebalanceInv

\* What keeps the orders of executions, the positions unless others are held to have
\* traded, and the history of replays.
LEMMA OthersKeepInv ==
  ASSUME RebalanceInv, BooksInv', PreviewsAreRead', PreviewsStay,
         NEW new, FillsStay(new),
         \A d \in Executions, j \in 1..Len(SymbolOrder) : <<d, j>> \notin new,
         outcome' = outcome, traded' = traded, replayed' = replayed,
         run' \in [Executions -> {"idle", "sending", "refused", "done"}],
         \A d \in Executions : \/ run'[d] = run[d]
                               \/ run[d] = "idle" /\ run'[d] = "refused"
                               \/ /\ run[d] = "sending" /\ run'[d] = "done"
                                  /\ Len(outcome[d]) = Len(Plan(d).legs),
         ClaimsAreRemembered' /\ DraftOnce',
         \/ position' = position /\ outside \subseteq outside'
            /\ \A p \in Previews : preview[p].at = "idle" /\ preview'[p].at # "idle" =>
                                    preview'[p].held = position
         \/ preview' = preview
            /\ outside' = outside \cup {p \in Previews : preview[p].at # "idle"}
  PROVE  RebalanceInv'
<1>0. /\ BooksInv /\ PreviewsAreRead /\ OutcomesAreKept /\ TradersTraded /\ StoriesAreTrue
      /\ ReplayNeedsOthers
  BY DEF RebalanceInv
<1>1. OutcomesAreKept'
  BY <1>0, QuietKeepsOutcomes
<1>2. TradersTraded' /\ StoriesAreTrue'
  <2>1. CASE position' = position /\ outside \subseteq outside'
             /\ \A p \in Previews : preview[p].at = "idle" /\ preview'[p].at # "idle" =>
                                     preview'[p].held = position
    BY <1>0, <2>1, QuietKeepsStories
  <2>2. CASE preview' = preview
             /\ outside' = outside \cup {p \in Previews : preview[p].at # "idle"}
    <3>1. \A d : Submitted(d)' = Submitted(d)
      BY DEF Submitted
    <3>2. TradersTraded'
      BY <1>0, <3>1 DEF TradersTraded
    <3> QED BY <2>2, <3>2 DEF StoriesAreTrue
  <2> QED BY <2>1, <2>2
<1>3. ReplayNeedsOthers'
  BY <1>0 DEF ReplayNeedsOthers
<1> QED BY <1>1, <1>2, <1>3 DEF RebalanceInv

LEMMA NoLegIsManual ==
  \A o \in Manual : \A d \in Executions, j \in 1..Len(SymbolOrder) : <<d, j>> # o
BY IdAssumption

LEMMA RebalanceInvStep == LongOnly /\ RebalanceInv /\ [RNext]_<<vars, rebalancing>> => RebalanceInv'
<1> SUFFICES ASSUME LongOnly, RebalanceInv, [RNext]_<<vars, rebalancing>> PROVE RebalanceInv'
  OBVIOUS
<1>0. /\ BooksInv /\ PreviewsAreRead /\ OutcomesAreKept /\ ClaimsAreRemembered /\ DraftOnce
      /\ run \in [Executions -> {"idle", "sending", "refused", "done"}]
  BY DEF RebalanceInv, OutcomesAreKept
<1>a. preview' = preview => PreviewsAreRead' /\ PreviewsStay
  BY <1>0, PreviewsUnchanged
<1>b. UNCHANGED vars => BooksInv' /\ FillsStay({}) /\ position' = position
  <2> SUFFICES ASSUME UNCHANGED vars PROVE BooksInv' /\ FillsStay({}) /\ position' = position
    OBVIOUS
  <2>1. UNCHANGED <<orders, cash, position, price>>
    BY DEF vars, gateway
  <2>2. CashInv' /\ Unmoved
    BY <1>0, <2>1, QuietKeepsCash DEF BooksInv, CashInv, TypeOK
  <2> QED BY <1>0, <2>1, <2>2, UnmovedKeepsBooks DEF FillsStay, Recorded
<1>c. UNCHANGED drafts => ClaimsAreRemembered' /\ DraftOnce'
  BY <1>0 DEF drafts, ClaimsAreRemembered, DraftOnce
<1>1. ASSUME NEW p \in Previews, PreviewReads(p) \/ PreviewIssues(p) \/ Expires(p)
      PROVE  RebalanceInv'
  <2>1. UNCHANGED <<vars, run, outcome, drafts, history>>
    BY <1>1 DEF PreviewReads, PreviewIssues, Expires
  <2>2. PreviewsAreRead' /\ PreviewsStay
    BY <1>0, <1>1, PreviewSteps
  <2>3. \A q \in Previews : preview[q].at = "idle" /\ preview'[q].at # "idle" =>
                               preview'[q].held = position
    BY <1>0, <1>1 DEF PreviewReads, PreviewIssues, Expires, PreviewsAreRead
  <2> QED BY <1>0, <1>b, <1>c, <2>1, <2>2, <2>3, OthersKeepInv DEF history
<1>2. ASSUME NEW e \in Executions, Executes(e) \/ NextLeg(e) PROVE RebalanceInv'
  BY <1>2, ExecutionKeepsInv
<1>3. ASSUME NEW e \in Executions, Refuses(e) PROVE RebalanceInv'
  <2>1. /\ UNCHANGED <<vars, preview, outcome, history>> /\ Claims(e)
        /\ run[e] = "idle" /\ run' = [run EXCEPT ![e] = "refused"]
    BY <1>3 DEF Refuses, Answers
  <2>2. ClaimsAreRemembered' /\ DraftOnce'
    BY <1>0, <2>1, ClaimKeepsClaims
  <2>3. /\ run' \in [Executions -> {"idle", "sending", "refused", "done"}]
        /\ \A d \in Executions : \/ run'[d] = run[d]
                                 \/ run[d] = "idle" /\ run'[d] = "refused"
    BY <1>0, <2>1
  <2> QED BY <1>a, <1>b, <2>1, <2>2, <2>3, OthersKeepInv DEF history
<1>4. ASSUME NEW e \in Executions, Reports(e) PROVE RebalanceInv'
  <2>1. /\ UNCHANGED <<vars, preview, outcome, drafts, history>>
        /\ run[e] = "sending" /\ Len(outcome[e]) = Len(Plan(e).legs)
        /\ run' = [run EXCEPT ![e] = "done"]
    BY <1>4 DEF Reports, GoesOn
  <2>2. /\ run' \in [Executions -> {"idle", "sending", "refused", "done"}]
        /\ \A d \in Executions : \/ run'[d] = run[d]
                                 \/ /\ run[d] = "sending" /\ run'[d] = "done"
                                    /\ Len(outcome[d]) = Len(Plan(d).legs)
    BY <1>0, <2>1
  <2> QED BY <1>a, <1>b, <1>c, <2>1, <2>2, OthersKeepInv DEF history
<1>5. ASSUME NEW o \in Manual, Places(o) PROVE RebalanceInv'
  <2>1. /\ Claims(o) /\ Submit(o) /\ UNCHANGED <<preview, run, outcome, traded, replayed>>
        /\ outside' = IF gateway' = gateway THEN outside
                      ELSE outside \cup {p \in Previews : preview[p].at # "idle"}
    BY <1>5 DEF Places
  <2>2. /\ BooksInv' /\ FillsStay({o}) /\ (gateway' = gateway => position' = position)
    BY <1>0, <2>1, SubmitKeepsBooks, IdAssumption
  <2>3. ClaimsAreRemembered' /\ DraftOnce'
    BY <1>0, <2>1, ClaimKeepsClaims
  <2>4. \A d \in Executions, j \in 1..Len(SymbolOrder) : <<d, j>> \notin {o}
    BY NoLegIsManual
  <2> QED BY <1>0, <1>a, <2>1, <2>2, <2>3, <2>4, OthersKeepInv
<1>6. ASSUME NEW o \in Invalid, Raises(o) PROVE RebalanceInv'
  <2>1. Claims(o) /\ UNCHANGED <<vars, preview, run, outcome, history>>
    BY <1>6 DEF Raises
  <2>2. ClaimsAreRemembered' /\ DraftOnce'
    BY <1>0, <2>1, ClaimKeepsClaims
  <2> QED BY <1>0, <1>a, <1>b, <2>1, <2>2, OthersKeepInv DEF history
<1>7. CASE Account
  <2>1. /\ PollRound \/ (\E o \in Manual : Cancel(o)) \/ (\E sym \in Symbols : UpdatePrice(sym))
        /\ UNCHANGED rebalancing
    BY <1>7, SymbolAssumption DEF Account
  <2>2. BooksInv' /\ FillsStay({}) /\ position' = position
    BY <1>0, <2>1, AccountKeepsBooks
  <2> QED BY <1>0, <1>a, <1>c, <2>1, <2>2, OthersKeepInv DEF rebalancing, history
<1>8. CASE UNCHANGED <<vars, rebalancing>>
  BY <1>0, <1>a, <1>b, <1>c, <1>8, OthersKeepInv DEF rebalancing, history
<1> QED BY <1>1, <1>2, <1>3, <1>4, <1>5, <1>6, <1>7, <1>8 DEF RNext

LEMMA RebalanceInvInit == LongOnly /\ RInit => RebalanceInv
<1> SUFFICES ASSUME LongOnly, RInit PROVE RebalanceInv
  OBVIOUS
<1>1. BooksInv
  BY BooksInvInit DEF RInit
<1>2. /\ preview = [p \in Previews |-> [at |-> "idle"]]
      /\ run = [e \in Executions |-> "idle"] /\ outcome = [e \in Executions |-> <<>>]
      /\ consumed = <<>> /\ lookup = {} /\ claims = <<>>
      /\ traded = {} /\ outside = {} /\ replayed = {}
  BY DEF RInit
<1>3. PreviewsAreRead
  BY <1>2 DEF PreviewsAreRead, Idle, Answered
<1>4. OutcomesAreKept
  <2>1. Recorded = {}
    BY DEF RInit, Init, Recorded
  <2>2. \A S : <<>> \in Seq(S) /\ Len(<<>>) = 0
    OBVIOUS
  <2> QED BY <1>2, <2>1, <2>2 DEF OutcomesAreKept
<1>5. TradersTraded
  BY <1>2 DEF TradersTraded, Submitted
<1>6. StoriesAreTrue /\ ReplayNeedsOthers /\ DraftOnce
  BY <1>2 DEF StoriesAreTrue, ReplayNeedsOthers, DraftOnce
<1>7. ClaimsAreRemembered
  <2>1. \A S : <<>> \in Seq(S) /\ Len(<<>>) = 0
    OBVIOUS
  <2>2. Range(<<>>) = {} /\ IsInjective(<<>>)
    BY DEF Range, IsInjective
  <2>3. MaxRemembered \in Nat /\ MaxRemembered > 0
    BY RebalanceAssumption
  <2> QED BY <1>2, <2>1, <2>2, <2>3 DEF ClaimsAreRemembered
<1> QED BY <1>1, <1>3, <1>4, <1>5, <1>6, <1>7 DEF RebalanceInv

-----------------------------------------------------------------------------
(* The theorems.                                                            *)

LEMMA OutcomesAreTrue == OutcomesAreKept => OutcomeIsTrue
<1> SUFFICES ASSUME OutcomesAreKept, NEW e \in Executions, run[e] = "done"
             PROVE  /\ Len(outcome[e]) = Len(Plan(e).legs)
                    /\ \A k \in DOMAIN outcome[e] :
                         outcome[e][k] = "submitted" <=>
                           LegId(e, k) \in Recorded /\ orders[LegId(e, k)].filled_qty > 0
  BY DEF OutcomeIsTrue
<1>1. DOMAIN outcome[e] = 1..Len(outcome[e])
  BY DEF OutcomesAreKept
<1> QED BY <1>1 DEF OutcomesAreKept

LEMMA TargetIsReached ==
  ASSUME BooksInv, PreviewsAreRead, OutcomesAreKept, TradersTraded, StoriesAreTrue
  PROVE  SoleExecutionReachesTarget
<1> SUFFICES ASSUME NEW e \in Executions,
                    run[e] = "done", ToSet(outcome[e]) = {"submitted"},
                    Preview[e] \notin outside,
                    \A d \in traded \ {e} : Preview[d] # Preview[e],
                    NEW s \in Symbols, Plan(e).prices[s] > 0
             PROVE  LET lack == position[s]
                          - target_qty(Plan(e).value, Weight[s], Whole, Plan(e).prices[s], Lot)
                    IN  lack = 0 \/ Abs(lack) * Plan(e).prices[s] < MinTrade
  BY DEF SoleExecutionReachesTarget
<1> DEFINE p == Preview[e]
           q == preview[p]
           target == TargetOf(q, s)
           delta == DeltaOf(q, s)
<1>1. p \in Previews /\ Answered(p) /\ Len(outcome[e]) = Len(q.legs)
  BY IdAssumption DEF OutcomesAreKept, Plan
<1>2. /\ IsRead(q) /\ q.legs = Legs(q) /\ DOMAIN q.legs = 1..Len(q.legs)
  BY <1>1, AnsweredLegs
<1>3. target \in Int /\ delta \in Int /\ q.held[s] \in Nat /\ q.prices[s] \in Nat
  BY <1>2, TargetIsInteger DEF Plan
<1>4. delta = target - q.held[s]
  BY DEF DeltaOf, Delta
<1>5. /\ outcome[e] # <<>>
      /\ \A k \in 1..Len(q.legs) : k \in Submitted(e)
  <2>1. DOMAIN outcome[e] = 1..Len(outcome[e])
    BY DEF OutcomesAreKept
  <2>2. \A k \in DOMAIN outcome[e] : outcome[e][k] = "submitted"
    BY DEF ToSet
  <2>3. outcome[e] # <<>>
    BY DEF ToSet
  <2> QED BY <1>1, <2>1, <2>2, <2>3 DEF Submitted
<1>6. Traders(p) = {e}
  <2>1. PICK k \in DOMAIN outcome[e] : TRUE
    BY DEF ToSet
  <2>2. k \in 1..Len(q.legs)
    BY <1>1, <2>1 DEF OutcomesAreKept
  <2>3. e \in traded
    BY <1>5, <2>2 DEF TradersTraded
  <2> QED BY <2>3 DEF Traders
<1>7. Story(p)
  BY <1>1 DEF StoriesAreTrue, Answered
<1>8. /\ \A i \in DOMAIN Legs(q) : Legs(q)[i].sym \in TradedIn(q)
                                  /\ Legs(q)[i].delta = DeltaOf(q, Legs(q)[i].sym)
      /\ s \in TradedIn(q) => \E i \in DOMAIN Legs(q) : Legs(q)[i].sym = s
  BY <1>2, LegsProperties
<1>9. CASE s \in TradedIn(q)
  <2>1. PICK i \in DOMAIN q.legs : q.legs[i].sym = s
    BY <1>2, <1>8, <1>9
  <2>2. i \in Submitted(e) /\ q.legs[i].delta = delta
    BY <1>2, <1>5, <1>8, <2>1
  <2>3. position[s] = q.held[s] + delta
    BY <1>6, <1>7, <2>1, <2>2 DEF Story
  <2>4. position[s] = target
    <3> HIDE DEF q, target, delta
    <3> QED BY <1>3, <1>4, <2>3
  <2>5. target - target = 0
    <3> HIDE DEF target
    <3> QED BY <1>3
  <2> QED BY <2>4, <2>5 DEF TargetOf, Plan
<1>10. CASE s \notin TradedIn(q)
  <2>1. ~Worthwhile(delta, q.prices[s], MinTrade)
    BY <1>10, SymbolAssumption DEF TradedIn, Plan
  <2>2. ~(\E d \in Traders(p) : \E k \in Submitted(d) : q.legs[k].sym = s)
    <3> SUFFICES ASSUME NEW k \in Submitted(e), q.legs[k].sym = s PROVE FALSE
      BY <1>6
    <3>1. k \in DOMAIN q.legs
      BY <1>1, <1>2 DEF Submitted
    <3> QED BY <1>2, <1>8, <1>10, <3>1
  <2>3. position[s] = q.held[s]
    BY <1>7, <2>2 DEF Story
  <2> DEFINE lack == position[s] - target
  <2>4. lack = 0 \/ Abs(lack) * q.prices[s] < MinTrade
    <3>1. MinTrade \in Nat
      BY RebalanceAssumption
    <3> HIDE DEF q, target, delta
    <3>2. lack \in Int /\ (delta = 0 => lack = 0) /\ Abs(lack) = Abs(delta)
      BY <1>3, <1>4, <2>3 DEF Abs
    <3>3. Abs(delta) \in Int
      BY <1>3 DEF Abs
    <3> DEFINE m == Abs(delta)
    <3>4. delta = 0 \/ ~(m * q.prices[s] >= MinTrade)
      BY <2>1 DEF Worthwhile
    <3> HIDE DEF lack, m
    <3> QED BY <1>3, <3>1, <3>2, <3>3, <3>4 DEF m
  <2> QED BY <2>4 DEF TargetOf, Plan
<1> QED BY <1>9, <1>10

\* Under LongOnly, whatever previews, executions, other orders, drafts and prices do:
\* every leg is reported as what became of it, an execution nobody traded beside has
\* reached its targets, a token serves again only after trades of others, and a draft is
\* executed once (rebalance_service.py, copilot/execute.py).
THEOREM ExecutionsStayTrue == ASSUME LongOnly PROVE RSpec => []ExecutionsAreTrue
<1>1. RInit => RebalanceInv
  BY RebalanceInvInit
<1>2. RebalanceInv /\ [RNext]_<<vars, rebalancing>> => RebalanceInv'
  BY RebalanceInvStep
<1>3. RebalanceInv => ExecutionsAreTrue
  BY OutcomesAreTrue, TargetIsReached DEF RebalanceInv, ExecutionsAreTrue
<1> QED BY <1>1, <1>2, <1>3, PTL DEF RSpec

\* Under LongOnly, the books of the account agree whatever the executions send.
THEOREM RebalancedBooksStayMatched == ASSUME LongOnly PROVE RSpec => []BooksMatch
<1>1. RInit => RebalanceInv
  BY RebalanceInvInit
<1>2. RebalanceInv /\ [RNext]_<<vars, rebalancing>> => RebalanceInv'
  BY RebalanceInvStep
<1>3. RebalanceInv => BooksMatch
  BY DEF RebalanceInv, BooksInv, CashInv, BooksMatch
<1> QED BY <1>1, <1>2, <1>3, PTL DEF RSpec

-----------------------------------------------------------------------------
(* The lots of the backtest broker.                                        *)

\* What the lots of a symbol are made of.
LotSet == [qty : Nat \ {0}, price : Nat]

\* The sum over the first lots grows by one lot at a time.
LEMMA QtySteps ==
  ASSUME NEW l \in Seq(LotSet)
  PROVE  /\ QtyUpTo(l, 0) = 0
         /\ \A k \in 1..Len(l) : QtyUpTo(l, k) = QtyUpTo(l, k - 1) + l[k].qty
         /\ \A k \in 0..Len(l) : QtyUpTo(l, k) \in Nat
<1> DEFINE f == [j \in DOMAIN l |-> l[j].qty]
<1>1. /\ Len(l) \in Nat /\ DOMAIN l = 1..Len(l)
      /\ \A j \in 1..Len(l) : l[j] \in LotSet
  OBVIOUS
<1>2. \A j \in 1..Len(l) : f[j] = l[j].qty /\ f[j] \in Nat
  BY <1>1 DEF LotSet
<1>3. \A k : QtyUpTo(l, k) = SumFunctionOnSet(f, 1..k)
  BY DEF QtyUpTo
<1> HIDE DEF f
<1>4. QtyUpTo(l, 0) = 0
  <2>1. 1..0 = {} OBVIOUS
  <2> QED BY <1>3, <2>1, SumEmpty
<1>5. \A k \in 1..Len(l) : QtyUpTo(l, k) = QtyUpTo(l, k - 1) + l[k].qty
  <2> TAKE k \in 1..Len(l)
  <2>1. IsFiniteSet(1..k - 1) BY <1>1, FS_Interval
  <2>2. 1..k = (1..k - 1) \cup {k} /\ k \notin 1..k - 1
    BY <1>1
  <2>3. \A j \in (1..k - 1) \cup {k} : f[j] \in Int
    BY <1>1, <1>2
  <2>4. SumFunctionOnSet(f, (1..k - 1) \cup {k}) = SumFunctionOnSet(f, 1..k - 1) + f[k]
    BY <2>1, <2>2, <2>3, SumAdd
  <2> QED BY <1>2, <1>3, <2>2, <2>4
<1>6. \A k \in Nat : k \in {n \in Nat : n <= Len(l) => QtyUpTo(l, n) \in Nat}
  <2> DEFINE S == {n \in Nat : n <= Len(l) => QtyUpTo(l, n) \in Nat}
  <2>1. 0 \in S BY <1>4
  <2>2. ASSUME NEW n \in Nat, n \in S PROVE n + 1 \in S
    <3> SUFFICES ASSUME n + 1 <= Len(l) PROVE QtyUpTo(l, n + 1) \in Nat
      OBVIOUS
    <3>1. QtyUpTo(l, n) \in Nat BY <1>1, <2>2
    <3>2. n + 1 \in 1..Len(l) /\ (n + 1) - 1 = n BY <1>1
    <3>3. QtyUpTo(l, n + 1) = QtyUpTo(l, n) + l[n + 1].qty BY <1>5, <3>2
    <3> QED BY <1>2, <3>1, <3>2, <3>3
  <2> HIDE DEF S
  <2>3. \A k \in Nat : k \in S BY <2>1, <2>2, Induction
  <2> QED BY <2>3 DEF S
<1> QED BY <1>1, <1>4, <1>5, <1>6

\* A symbol without lots has no shares, and one with lots has some.
LEMMA QtyOfLots ==
  ASSUME NEW l \in Seq(LotSet)
  PROVE  Qty(l) \in Nat /\ (Qty(l) = 0 <=> l = <<>>)
<1>1. Len(l) \in Nat /\ (Len(l) = 0 <=> l = <<>>)
  OBVIOUS
<1>2. Qty(l) \in Nat
  BY <1>1, QtySteps DEF Qty
<1>3. l = <<>> => Qty(l) = 0
  BY <1>1, QtySteps DEF Qty
<1>4. ASSUME l # <<>> PROVE Qty(l) > 0
  <2>1. Len(l) \in 1..Len(l) BY <1>1, <1>4
  <2>2. QtyUpTo(l, Len(l)) = QtyUpTo(l, Len(l) - 1) + l[Len(l)].qty BY <2>1, QtySteps
  <2>3. QtyUpTo(l, Len(l) - 1) \in Nat BY <1>1, <2>1, QtySteps
  <2>4. l[Len(l)] \in LotSet BY <2>1
  <2> QED BY <2>2, <2>3, <2>4 DEF Qty, LotSet
<1> QED BY <1>2, <1>3, <1>4

\* First in, first out: what is left has its n shares less.
LEMMA ConsumedLots ==
  ASSUME NEW l \in Seq(LotSet), NEW n \in Nat, n <= Qty(l)
  PROVE  Consumed(l, n) \in Seq(LotSet) /\ Qty(Consumed(l, n)) = Qty(l) - n
<1>1. Len(l) \in Nat /\ Qty(l) \in Nat /\ \A j \in 1..Len(l) : l[j] \in LotSet
  BY QtyOfLots
<1>2. \E m \in 0..Len(l) : QtyUpTo(l, m) <= n /\ (m < Len(l) => n < QtyUpTo(l, m + 1))
  <2> DEFINE S == {k \in 0..Len(l) : QtyUpTo(l, k) <= n}
  <2>1. 0 \in S BY <1>1, QtySteps
  <2>2. IsFiniteSet(S)
    <3>1. IsFiniteSet(0..Len(l)) BY <1>1, FS_Interval
    <3> QED BY <3>1, FS_Subset
  <2>3. S \subseteq Int /\ S # {} BY <2>1
  <2> HIDE DEF S
  <2>4. PICK m \in S : \A y \in S : y <= m BY <2>2, <2>3, LargestElement
  <2>5. m \in 0..Len(l) /\ QtyUpTo(l, m) <= n BY <2>4 DEF S
  <2>6. m < Len(l) => n < QtyUpTo(l, m + 1)
    <3> SUFFICES ASSUME m < Len(l) PROVE n < QtyUpTo(l, m + 1) OBVIOUS
    <3>1. m + 1 \in 0..Len(l) /\ ~(m + 1 <= m) BY <1>1, <2>5
    <3>2. m + 1 \notin S BY <2>4, <3>1
    <3>3. ~(QtyUpTo(l, m + 1) <= n) BY <3>1, <3>2 DEF S
    <3> QED BY <3>1, <3>3, QtySteps
  <2> QED BY <2>5, <2>6
<1> DEFINE m == UsedUp(l, n)
           r == Consumed(l, n)
<1>3. m \in 0..Len(l) /\ QtyUpTo(l, m) <= n /\ (m < Len(l) => n < QtyUpTo(l, m + 1))
  BY <1>2 DEF UsedUp
<1>4. r = [k \in 1..Len(l) - m |->
             IF k = 1 THEN [l[m + 1] EXCEPT !.qty = QtyUpTo(l, m + 1) - n] ELSE l[m + k]]
  BY DEF Consumed
<1> HIDE DEF m, r
<1>5. CASE m = Len(l)
  <2>1. r = <<>>
    <3>1. 1..Len(l) - m = {} BY <1>1, <1>5
    <3> QED BY <1>4, <3>1
  <2>2. n = Qty(l) BY <1>1, <1>3, <1>5 DEF Qty
  <2>3. r \in Seq(LotSet) /\ Qty(r) = 0
    <3>1. <<>> \in Seq(LotSet) OBVIOUS
    <3>2. Qty(<<>>) = 0 BY <3>1, QtyOfLots
    <3> QED BY <2>1, <3>1, <3>2
  <2> QED BY <1>1, <2>2, <2>3 DEF r
<1>6. CASE m < Len(l)
  <2>1. \A k \in 1..Len(l) - m : m + k \in 1..Len(l) /\ l[m + k] \in LotSet
    BY <1>1, <1>3
  <2>2. m + 1 \in 0..Len(l) /\ QtyUpTo(l, m + 1) \in Nat /\ QtyUpTo(l, m + 1) - n \in Nat \ {0}
    BY <1>1, <1>3, <1>6, QtySteps
  <2>3. \A k \in 1..Len(l) - m : r[k] \in LotSet
    <3> TAKE k \in 1..Len(l) - m
    <3>1. CASE k = 1
      <4>1. l[m + 1] \in LotSet BY <2>1, <3>1
      <4>2. r[k] = [l[m + 1] EXCEPT !.qty = QtyUpTo(l, m + 1) - n] BY <1>4, <3>1
      <4> QED BY <2>2, <4>1, <4>2 DEF LotSet
    <3>2. CASE k # 1 BY <1>4, <2>1, <3>2
    <3> QED BY <3>1, <3>2
  <2>4. r \in Seq(LotSet) /\ Len(r) = Len(l) - m
    <3> DEFINE n0 == Len(l) - m
    <3>1. n0 \in Nat BY <1>1, <1>3
    <3>2. DOMAIN r = 1..n0 BY <1>4
    <3>3. r = [k \in 1..n0 |-> r[k]] BY <1>4
    <3>4. r \in [1..n0 -> LotSet] BY <2>3, <3>2, <3>3
    <3> HIDE DEF n0
    <3>5. r \in Seq(LotSet) BY <3>1, <3>4, SeqDef
    <3>6. Len(r) = n0 BY <3>1, <3>2, <3>5, LenProperties
    <3> QED BY <3>5, <3>6 DEF n0
  <2> DEFINE S == {k \in Nat : k + 1 <= Len(l) - m => QtyUpTo(r, k + 1) = QtyUpTo(l, m + (k + 1)) - n}
  <2>5. 0 \in S
    <3>1. 1 \in 1..Len(r) BY <1>1, <1>3, <1>6, <2>4
    <3>2. QtyUpTo(r, 1) = QtyUpTo(r, 0) + r[1].qty BY <2>4, <3>1, QtySteps
    <3>3. r[1].qty = QtyUpTo(l, m + 1) - n
      <4>1. l[m + 1] \in LotSet BY <2>1, <2>4, <3>1
      <4>2. r[1] = [l[m + 1] EXCEPT !.qty = QtyUpTo(l, m + 1) - n] BY <1>4, <2>4, <3>1
      <4> QED BY <4>1, <4>2 DEF LotSet
    <3>4. QtyUpTo(r, 0) = 0 BY <2>4, QtySteps
    <3> QED BY <2>2, <3>2, <3>3, <3>4
  <2>6. ASSUME NEW k \in Nat, k \in S PROVE k + 1 \in S
    <3> SUFFICES ASSUME (k + 1) + 1 <= Len(l) - m
                 PROVE  QtyUpTo(r, (k + 1) + 1) = QtyUpTo(l, m + ((k + 1) + 1)) - n
      OBVIOUS
    <3> DEFINE j == (k + 1) + 1
    <3>1. j \in 1..Len(r) /\ j # 1 /\ j - 1 = k + 1 /\ m + j \in 1..Len(l) /\ (m + j) - 1 = m + (k + 1)
          /\ k + 1 <= Len(l) - m
      BY <1>1, <1>3, <2>4
    <3>2. QtyUpTo(r, j) = QtyUpTo(r, k + 1) + r[j].qty
      <4>1. QtyUpTo(r, j) = QtyUpTo(r, j - 1) + r[j].qty BY <2>4, <3>1, QtySteps
      <4> QED BY <3>1, <4>1
    <3>3. QtyUpTo(l, m + j) = QtyUpTo(l, m + (k + 1)) + l[m + j].qty
      <4>1. QtyUpTo(l, m + j) = QtyUpTo(l, (m + j) - 1) + l[m + j].qty BY <3>1, QtySteps
      <4> QED BY <3>1, <4>1
    <3>4. r[j] = l[m + j] BY <1>4, <2>4, <3>1
    <3>5. QtyUpTo(r, k + 1) = QtyUpTo(l, m + (k + 1)) - n BY <2>6, <3>1
    <3>6. l[m + j] \in LotSet /\ QtyUpTo(l, m + (k + 1)) \in Nat
      BY <1>1, <1>3, <3>1, QtySteps
    <3> QED BY <3>2, <3>3, <3>4, <3>5, <3>6 DEF LotSet
  <2> HIDE DEF S
  <2>7. \A k \in Nat : k \in S BY <2>5, <2>6, Induction
  <2>8. PICK k \in Nat : k + 1 = Len(l) - m
    <3>1. (Len(l) - m) - 1 \in Nat BY <1>1, <1>3, <1>6
    <3>2. ((Len(l) - m) - 1) + 1 = Len(l) - m BY <1>1, <1>3
    <3> QED BY <3>1, <3>2
  <2>9. QtyUpTo(r, k + 1) = QtyUpTo(l, m + (k + 1)) - n
    <3>1. k \in S BY <2>7
    <3> QED BY <1>1, <1>3, <2>8, <3>1 DEF S
  <2>10. m + (k + 1) = Len(l) BY <1>1, <1>3, <2>8
  <2>11. Qty(r) = Qty(l) - n BY <2>4, <2>8, <2>9, <2>10 DEF Qty
  <2> QED BY <2>4, <2>11 DEF r
<1> QED BY <1>1, <1>3, <1>5, <1>6

\* What lots cost.
LEMMA CostOfLots ==
  ASSUME NEW l \in Seq(LotSet)
  PROVE  Cost(l) \in Nat /\ Cost(<<>>) = 0
<1>1. Len(l) \in Nat /\ DOMAIN l = 1..Len(l) /\ \A j \in 1..Len(l) : l[j] \in LotSet
  OBVIOUS
<1> DEFINE f == [j \in DOMAIN l |-> l[j].qty * l[j].price]
<1>2. \A j \in 1..Len(l) : f[j] \in Nat
  BY <1>1 DEF LotSet
<1>3. Cost(l) = SumFunctionOnSet(f, 1..Len(l)) BY DEF Cost
<1> HIDE DEF f
<1>4. IsFiniteSet(1..Len(l)) BY <1>1, FS_Interval
<1>5. Cost(l) \in Nat BY <1>2, <1>3, <1>4, SumNat
<1>6. Cost(<<>>) = 0
  <2> DEFINE g == [j \in DOMAIN <<>> |-> <<>>[j].qty * <<>>[j].price]
  <2>1. Cost(<<>>) = SumFunctionOnSet(g, 1..Len(<<>>)) BY DEF Cost
  <2> HIDE DEF g
  <2>2. 1..Len(<<>>) = {} OBVIOUS
  <2> QED BY <2>1, <2>2, SumEmpty
<1> QED BY <1>5, <1>6

\* A purchase or a short sale adds a lot behind the others.
LEMMA AddedLots ==
  ASSUME NEW l \in Seq(LotSet), NEW q \in Nat, mark \in Nat
  PROVE  /\ l \o Lots(q) \in Seq(LotSet)
         /\ Qty(l \o Lots(q)) = Qty(l) + q
         /\ Cost(l \o Lots(q)) = Cost(l) + q * mark
         /\ q = 0 => l \o Lots(q) = l
<1>1. Len(l) \in Nat /\ Qty(l) \in Nat /\ Cost(l) \in Int /\ \A j \in 1..Len(l) : l[j] \in LotSet
  BY QtyOfLots, CostOfLots
<1>2. CASE q = 0
  <2>1. l \o Lots(q) = l
    <3>1. Lots(q) = <<>> BY <1>2 DEF Lots
    <3>2. l \o <<>> = l OBVIOUS
    <3> QED BY <3>1, <3>2
  <2>2. q * mark = 0 BY <1>2
  <2>3. Qty(l) = Qty(l) + q /\ Cost(l) = Cost(l) + q * mark BY <1>1, <1>2, <2>2
  <2> QED BY <2>1, <2>3
<1>3. CASE q # 0
  <2> DEFINE x == [qty |-> q, price |-> mark]
             a == l \o <<x>>
  <2>1. l \o Lots(q) = a BY <1>3 DEF Lots
  <2>2. x \in LotSet BY <1>3 DEF LotSet
  <2>3. /\ a \in Seq(LotSet) /\ Len(a) = Len(l) + 1 /\ a[Len(l) + 1] = x
        /\ \A j \in 1..Len(l) : a[j] = l[j]
    BY <1>1, <2>2
  <2> HIDE DEF a, x
  <2>4. DOMAIN a = 1..Len(a) /\ DOMAIN l = 1..Len(l) BY <2>3
  <2>5. QtyUpTo(a, Len(l)) = QtyUpTo(l, Len(l))
    <3> DEFINE f == [j \in DOMAIN a |-> a[j].qty]
               g == [j \in DOMAIN l |-> l[j].qty]
    <3>1. \A j \in 1..Len(l) : f[j] = g[j] BY <1>1, <2>3, <2>4
    <3>2. /\ QtyUpTo(a, Len(l)) = SumFunctionOnSet(f, 1..Len(l))
          /\ QtyUpTo(l, Len(l)) = SumFunctionOnSet(g, 1..Len(l))
      BY DEF QtyUpTo
    <3> HIDE DEF f, g
    <3>3. IsFiniteSet(1..Len(l)) BY <1>1, FS_Interval
    <3> QED BY <3>1, <3>2, <3>3, SumSame
  <2>6. Qty(a) = Qty(l) + q
    <3>1. Len(a) \in 1..Len(a) /\ Len(a) - 1 = Len(l) BY <1>1, <2>3
    <3>2. QtyUpTo(a, Len(a)) = QtyUpTo(a, Len(a) - 1) + a[Len(a)].qty BY <2>3, <3>1, QtySteps
    <3>3. a[Len(a)].qty = q BY <2>3 DEF x
    <3> QED BY <2>5, <3>1, <3>2, <3>3 DEF Qty
  <2>7. Cost(a) = Cost(l) + q * mark
    <3> DEFINE f == [j \in DOMAIN a |-> a[j].qty * a[j].price]
               g == [j \in DOMAIN l |-> l[j].qty * l[j].price]
    <3>1. \A j \in 1..Len(l) : f[j] = g[j] BY <1>1, <2>3, <2>4
    <3>2. \A j \in 1..Len(a) : f[j] \in Int
      <4> TAKE j \in 1..Len(a)
      <4>1. a[j] \in LotSet /\ f[j] = a[j].qty * a[j].price BY <2>3, <2>4
      <4> QED BY <4>1 DEF LotSet
    <3>3. f[Len(l) + 1] = q * mark
      <4>1. Len(l) + 1 \in DOMAIN a BY <1>1, <2>3, <2>4
      <4> QED BY <2>3, <4>1 DEF x
    <3>4. Cost(a) = SumFunctionOnSet(f, 1..Len(a)) /\ Cost(l) = SumFunctionOnSet(g, 1..Len(l))
      BY DEF Cost
    <3> HIDE DEF f, g
    <3>5. IsFiniteSet(1..Len(l)) BY <1>1, FS_Interval
    <3>6. 1..Len(a) = (1..Len(l)) \cup {Len(l) + 1} /\ Len(l) + 1 \notin 1..Len(l)
      BY <1>1, <2>3
    <3>7. SumFunctionOnSet(f, (1..Len(l)) \cup {Len(l) + 1})
            = SumFunctionOnSet(f, 1..Len(l)) + f[Len(l) + 1]
      <4>1. \A j \in (1..Len(l)) \cup {Len(l) + 1} : f[j] \in Int BY <3>2, <3>6
      <4> DEFINE S == 1..Len(l)
                 y == Len(l) + 1
      <4>2. IsFiniteSet(S) /\ y \notin S /\ \A j \in S \cup {y} : f[j] \in Int
        BY <3>5, <3>6, <4>1
      <4> HIDE DEF S, y
      <4>3. SumFunctionOnSet(f, S \cup {y}) = SumFunctionOnSet(f, S) + f[y] BY <4>2, SumAdd
      <4> QED BY <4>3 DEF S, y
    <3>8. SumFunctionOnSet(f, 1..Len(l)) = SumFunctionOnSet(g, 1..Len(l))
      BY <3>1, <3>5, SumSame
    <3> QED BY <3>3, <3>4, <3>6, <3>7, <3>8
  <2> QED BY <1>3, <2>1, <2>3, <2>6, <2>7
<1> QED BY <1>2, <1>3

-----------------------------------------------------------------------------
(* Orders and books of the backtest broker.                                *)

\* Why an order is refused, and what an order is.
Whys == {"none", "open", "spec", "position", "veto", "count", "halted", "cash", "expired"}
OrderSet ==
  [sym : Syms, side : {"BUY", "SELL"}, type : OrderTypes, qty : Nat,
   tif : {"GTC", "DAY", "GTD"}, till : Nat, exit : {"none", "risk", "partial"}, status : Statuses, why : Whys,
   asked : Nat, filled : Int, voided : Int, since : Days, until : Nat]

\* The types of the books.
BooksTyped ==
  /\ long \in [Syms -> Seq(LotSet)] /\ short \in [Syms -> Seq(LotSet)]
  /\ wealth \in Int /\ pnl \in Int /\ fees \in Int /\ dividends \in Nat /\ borrowed \in Nat
  /\ trade \in [Syms -> [qty : Int, opened : Nat]]

\* The universe is a sequence, so its symbols are finitely many.
LEMMA SymsAreFinite == IsFiniteSet(Syms)
<1>1. Len(Universe) \in Nat /\ DOMAIN Universe = 1..Len(Universe)
  BY BacktestAssumption
<1>2. IsFiniteSet(DOMAIN Universe) BY <1>1, FS_Interval
<1>3. Universe \in Surjection(DOMAIN Universe, Syms)
  BY BacktestAssumption DEF Surjection, Syms, Range
<1> QED BY <1>2, <1>3, FS_Surjection

\* Sums over the symbols whose lots change at one symbol.
LEMMA CostsChange ==
  ASSUME NEW f \in [Syms -> Seq(LotSet)], NEW s \in Syms, NEW l \in Seq(LotSet)
  PROVE  /\ SumFunctionOnSet([a \in Syms |-> Cost(f[a])], Syms) \in Int
         /\ SumFunctionOnSet([a \in Syms |-> Cost([f EXCEPT ![s] = l][a])], Syms)
              = SumFunctionOnSet([a \in Syms |-> Cost(f[a])], Syms) - Cost(f[s]) + Cost(l)
<1> DEFINE g == [a \in Syms |-> Cost(f[a])]
           h == [a \in Syms |-> Cost([f EXCEPT ![s] = l][a])]
<1>1. \A a \in Syms : f[a] \in Seq(LotSet) /\ [f EXCEPT ![s] = l][a] \in Seq(LotSet)
  OBVIOUS
<1>2. \A a \in Syms : g[a] \in Int /\ h[a] \in Int
  BY <1>1, CostOfLots
<1>3. (\A a \in Syms \ {s} : g[a] = h[a]) /\ g[s] = Cost(f[s]) /\ h[s] = Cost(l)
  OBVIOUS
<1> HIDE DEF g, h
<1>4. SumFunctionOnSet(g, Syms) \in Int BY <1>2, SymsAreFinite, SumType
<1>5. SumFunctionOnSet(h, Syms) = SumFunctionOnSet(g, Syms) - g[s] + h[s]
  BY <1>2, <1>3, SymsAreFinite, SumChange
<1> QED BY <1>3, <1>4, <1>5 DEF g, h

\* What the lots of all symbols cost is a number.
LEMMA CostsAreNat ==
  ASSUME NEW f \in [Syms -> Seq(LotSet)]
  PROVE  SumFunctionOnSet([a \in Syms |-> Cost(f[a])], Syms) \in Nat
<1> DEFINE g == [a \in Syms |-> Cost(f[a])]
<1>1. \A a \in Syms : f[a] \in Seq(LotSet) OBVIOUS
<1>2. \A a \in Syms : g[a] \in Nat BY <1>1, CostOfLots
<1> HIDE DEF g
<1>3. SumFunctionOnSet(g, Syms) \in Nat BY <1>2, SymsAreFinite, SumNat
<1> QED BY <1>3 DEF g

\* Dividends come in, and the fee for borrowed shares is not negative.
LEMMA DividendsAreNat ==
  ASSUME BooksTyped, NEW d \in Days, NEW bs \in BarSets
  PROVE  DividendsDue(d, bs) \in Nat
<1> DEFINE f == [s \in Syms |-> IF net(s) > 0 THEN net(s) * DividendOn[d][s] ELSE 0]
<1>1. bs \subseteq Syms /\ IsFiniteSet(bs) BY BacktestAssumption, SymsAreFinite, FS_Subset
<1>2. \A s \in Syms : net(s) \in Int /\ DividendOn[d][s] \in Nat
  <2> TAKE s \in Syms
  <2>1. long[s] \in Seq(LotSet) /\ short[s] \in Seq(LotSet) BY DEF BooksTyped
  <2>2. net(s) \in Int BY <2>1, QtyOfLots DEF net
  <2> QED BY <2>2, BacktestAssumption
<1>3. \A s \in bs : f[s] \in Nat
  <2> TAKE s \in bs
  <2>1. s \in Syms /\ net(s) \in Int /\ DividendOn[d][s] \in Nat BY <1>1, <1>2
  <2>2. ASSUME net(s) > 0 PROVE net(s) * DividendOn[d][s] \in Nat
    BY <2>1, <2>2
  <2> QED BY <2>1, <2>2
<1> HIDE DEF f
<1>4. SumFunctionOnSet(f, bs) \in Nat BY <1>1, <1>3, SumNat
<1> QED BY <1>4 DEF DividendsDue, f

LEMMA BorrowFeesAreNat ==
  ASSUME BooksTyped, NEW t \in Times
  PROVE  BorrowFee(t) \in Nat
<1> DEFINE c == SumFunctionOnSet([s \in Syms |-> Cost(short[s])], Syms)
<1>1. c \in Nat BY CostsAreNat DEF BooksTyped
<1>2. BorrowAt[t] \in Nat BY BacktestAssumption
<1> HIDE DEF c
<1>3. BorrowAt[t] * c \in Nat BY <1>1, <1>2
<1> QED BY <1>3 DEF BorrowFee, c

\* The lots a booking closes, those it adds to, and how much it closes.
Closing(s, side) == IF side = "BUY" THEN short[s] ELSE long[s]
Opening(s, side) == IF side = "BUY" THEN long[s] ELSE short[s]
Closed(s, side, q) == IF side = "BUY" /\ ~mode.short THEN 0 ELSE Least(Qty(Closing(s, side)), q)

\* What is left of the lots a booking closes, and what it opens.
LEMMA ClosedAndOpened ==
  ASSUME BooksTyped, TradeIsPosition, mode.short \in BOOLEAN, mark \in Nat,
         NEW s \in Syms, NEW side \in {"BUY", "SELL"}, NEW q \in Nat,
         side = "SELL" /\ ~mode.short => q <= net(s)
  PROVE  /\ Closing(s, side) \in Seq(LotSet) /\ Opening(s, side) \in Seq(LotSet)
         /\ Closed(s, side, q) \in Nat /\ q - Closed(s, side, q) \in Nat
         /\ Consumed(Closing(s, side), Closed(s, side, q)) \in Seq(LotSet)
         /\ Qty(Consumed(Closing(s, side), Closed(s, side, q)))
              = Qty(Closing(s, side)) - Closed(s, side, q)
         /\ Opening(s, side) \o Lots(q - Closed(s, side, q)) \in Seq(LotSet)
         /\ Qty(Opening(s, side) \o Lots(q - Closed(s, side, q)))
              = Qty(Opening(s, side)) + (q - Closed(s, side, q))
         /\ Cost(Opening(s, side) \o Lots(q - Closed(s, side, q)))
              = Cost(Opening(s, side)) + (q - Closed(s, side, q)) * mark
         /\ \/ Consumed(Closing(s, side), Closed(s, side, q)) = <<>>
            \/ Opening(s, side) \o Lots(q - Closed(s, side, q)) = <<>>
         /\ ~mode.short => IF side = "BUY" THEN Consumed(Closing(s, side), Closed(s, side, q)) = <<>>
                           ELSE Opening(s, side) \o Lots(q - Closed(s, side, q)) = <<>>
<1> DEFINE from == Closing(s, side)
           to == Opening(s, side)
           closed == Closed(s, side, q)
<1> USE DEF Closing, Opening, Closed
<1>1. from \in Seq(LotSet) /\ to \in Seq(LotSet) BY DEF BooksTyped
<1>2. Qty(from) \in Nat /\ (Qty(from) = 0 <=> from = <<>>) BY <1>1, QtyOfLots
<1>3. closed \in Nat /\ q - closed \in Nat /\ closed <= Qty(from) BY <1>2 DEF Least
<1>4. Consumed(from, closed) \in Seq(LotSet) /\ Qty(Consumed(from, closed)) = Qty(from) - closed
  BY <1>1, <1>3, ConsumedLots
<1>5. /\ to \o Lots(q - closed) \in Seq(LotSet)
      /\ Qty(to \o Lots(q - closed)) = Qty(to) + (q - closed)
      /\ Cost(to \o Lots(q - closed)) = Cost(to) + (q - closed) * mark
      /\ q - closed = 0 => to \o Lots(q - closed) = to
  BY <1>1, <1>3, AddedLots
<1>6. (long[s] = <<>> \/ short[s] = <<>>) /\ (~mode.short => short[s] = <<>>)
  BY DEF TradeIsPosition
<1>7. Qty(Consumed(from, closed)) = 0 => Consumed(from, closed) = <<>>
  BY <1>4, QtyOfLots
<1>8. CASE from = <<>>
  <2>1. Consumed(from, closed) = <<>> BY <1>2, <1>3, <1>4, <1>7, <1>8
  <2>2. ASSUME ~mode.short, side = "SELL" PROVE to \o Lots(q - closed) = <<>>
    <3>1. to = <<>> BY <1>6, <2>2
    <3>2. Qty(long[s]) = 0 /\ Qty(short[s]) = 0
      <4>1. long[s] = <<>> /\ short[s] = <<>> BY <1>6, <1>8, <2>2
      <4> QED BY <1>2, <1>8, <4>1
    <3>3. q = 0 BY <2>2, <3>2 DEF net
    <3>4. q - closed = 0 BY <1>3, <3>3
    <3> QED BY <1>5, <3>1, <3>4
  <2> QED BY <1>1, <1>3, <1>4, <1>5, <2>1, <2>2
<1>9. CASE from # <<>>
  <2>1. to = <<>> BY <1>6, <1>9
  <2>2. Qty(from) # 0 BY <1>2, <1>9
  <2>3. mode.short \/ side = "SELL" BY <1>6, <1>9
  <2>4. closed = Least(Qty(from), q) BY <2>3
  <2>5. CASE q <= Qty(from)
    <3>1. q - closed = 0 BY <1>2, <2>4, <2>5 DEF Least
    <3>2. to \o Lots(q - closed) = <<>> BY <1>5, <2>1, <3>1
    <3> QED BY <1>1, <1>3, <1>4, <1>5, <2>3, <3>2
  <2>6. CASE ~(q <= Qty(from))
    <3>1. closed = Qty(from) BY <1>2, <2>4, <2>6 DEF Least
    <3>2. Consumed(from, closed) = <<>> BY <1>2, <1>4, <1>7, <3>1
    <3>3. mode.short
      <4> SUFFICES ASSUME ~mode.short PROVE FALSE OBVIOUS
      <4>1. side = "SELL" /\ q <= net(s) BY <2>3
      <4>2. from = long[s] /\ short[s] = <<>> BY <1>6, <4>1
      <4>3. Qty(short[s]) = 0 BY <4>2, QtyOfLots DEF BooksTyped
      <4> QED BY <1>2, <2>6, <4>1, <4>2, <4>3 DEF net
    <3> QED BY <1>1, <1>3, <1>4, <1>5, <3>2, <3>3
  <2> QED BY <2>5, <2>6
<1> QED BY <1>8, <1>9

\* Booking a fill: lots, cash, profit and trade stay one story.
LEMMA BookingKeepsBooks ==
  ASSUME BooksTyped, TradeIsPosition, LotsBalance,
         mode.short \in BOOLEAN, mode' = mode, mark \in Nat, now \in Nat,
         NEW s \in Syms, NEW side \in {"BUY", "SELL"}, NEW q \in Nat,
         side = "SELL" /\ ~mode.short => q <= net(s),
         Books(s, side, q)
  PROVE  BooksTyped' /\ TradeIsPosition' /\ LotsBalance'
<1> DEFINE from == Closing(s, side)
           to == Opening(s, side)
           closed == Closed(s, side, q)
           rest == Consumed(from, closed)
           added == to \o Lots(q - closed)
           n == IF side = "BUY" THEN net(s) + q ELSE net(s) - q
<1>1. /\ from \in Seq(LotSet) /\ to \in Seq(LotSet) /\ closed \in Nat /\ q - closed \in Nat
      /\ rest \in Seq(LotSet)
      /\ Qty(rest) = Qty(from) - closed
      /\ added \in Seq(LotSet)
      /\ Qty(added) = Qty(to) + (q - closed)
      /\ Cost(added) = Cost(to) + (q - closed) * mark
      /\ rest = <<>> \/ added = <<>>
      /\ ~mode.short => IF side = "BUY" THEN rest = <<>> ELSE added = <<>>
  BY ClosedAndOpened
<1>2. /\ short' = [short EXCEPT ![s] = IF side = "BUY" THEN rest ELSE added]
      /\ long' = [long EXCEPT ![s] = IF side = "BUY" THEN added ELSE rest]
      /\ wealth' = IF side = "BUY" THEN wealth - q * mark - MinFee ELSE wealth + q * mark - MinFee
      /\ pnl' = pnl + (IF side = "BUY" THEN (Cost(from) - Cost(rest)) - closed * mark
                       ELSE closed * mark - (Cost(from) - Cost(rest)))
      /\ fees' = fees + MinFee
      /\ trade' = [trade EXCEPT ![s] = NextTrade(@, n)]
      /\ dividends' = dividends /\ borrowed' = borrowed
  <2>1. CASE side = "BUY"
    BY <2>1 DEF Books, Gain, Closing, Opening, Closed
  <2>2. CASE side # "BUY"
    <3>1. from = long[s] /\ to = short[s] /\ closed = Least(Qty(long[s]), q)
      BY <2>2 DEF Closing, Opening, Closed
    <3>2. /\ long' = [long EXCEPT ![s] = Consumed(long[s], Least(Qty(long[s]), q))]
          /\ short' = [short EXCEPT ![s] = short[s] \o Lots(q - Least(Qty(long[s]), q))]
          /\ wealth' = wealth + q * mark - MinFee
          /\ fees' = fees + MinFee
          /\ trade' = [trade EXCEPT ![s] = NextTrade(@, net(s) - q)]
          /\ dividends' = dividends /\ borrowed' = borrowed
      BY <2>2 DEF Books
    <3>3. pnl' = pnl + (Least(Qty(long[s]), q) * mark
                          - (Cost(long[s]) - Cost(Consumed(long[s], Least(Qty(long[s]), q)))))
      BY <2>2 DEF Books, Gain
    <3>4. /\ rest = Consumed(long[s], Least(Qty(long[s]), q))
          /\ added = short[s] \o Lots(q - Least(Qty(long[s]), q))
          /\ n = net(s) - q
      BY <2>2, <3>1
    <3> HIDE DEF rest, added, n, from, closed
    <3>5. /\ short' = [short EXCEPT ![s] = added] /\ long' = [long EXCEPT ![s] = rest]
          /\ trade' = [trade EXCEPT ![s] = NextTrade(@, n)]
          /\ pnl' = pnl + (closed * mark - (Cost(from) - Cost(rest)))
      BY <3>1, <3>2, <3>3, <3>4
    <3>6. short' = [short EXCEPT ![s] = IF side = "BUY" THEN rest ELSE added]
      BY <2>2, <3>5
    <3>7. long' = [long EXCEPT ![s] = IF side = "BUY" THEN added ELSE rest]
      BY <2>2, <3>5
    <3>8. wealth' = IF side = "BUY" THEN wealth - q * mark - MinFee ELSE wealth + q * mark - MinFee
      BY <2>2, <3>2
    <3>9. pnl' = pnl + (IF side = "BUY" THEN (Cost(from) - Cost(rest)) - closed * mark
                       ELSE closed * mark - (Cost(from) - Cost(rest)))
      BY <2>2, <3>5
    <3> QED BY <3>2, <3>5, <3>6, <3>7, <3>8, <3>9
  <2> QED BY <2>1, <2>2
<1> HIDE DEF from, to
<1>3. /\ Cost(from) \in Int /\ Cost(to) \in Int /\ Cost(rest) \in Int /\ Qty(from) \in Nat /\ Qty(to) \in Nat
      /\ Qty(long[s]) \in Nat /\ Qty(short[s]) \in Nat
  BY <1>1, CostOfLots, QtyOfLots DEF BooksTyped
<1>4. n \in Int BY <1>3 DEF n, net
<1>5. NextTrade(trade[s], n) \in [qty : Int, opened : Nat] /\ NextTrade(trade[s], n).qty = n
  <2>1. trade[s] \in [qty : Int, opened : Nat] BY DEF BooksTyped
  <2> QED BY <1>4, <2>1 DEF NextTrade, NoTrade
<1>6. q * mark \in Int /\ closed * mark \in Int /\ (q - closed) * mark = q * mark - closed * mark
  BY <1>1
<1>7. BooksTyped'
  <2>1. long' \in [Syms -> Seq(LotSet)] /\ short' \in [Syms -> Seq(LotSet)]
    BY <1>1, <1>2 DEF BooksTyped
  <2>2. wealth' \in Int /\ pnl' \in Int /\ fees' \in Int /\ dividends' \in Nat /\ borrowed' \in Nat
    <3>1. /\ wealth \in Int /\ pnl \in Int /\ fees \in Int /\ MinFee \in Int
          /\ dividends \in Nat /\ borrowed \in Nat
      BY BacktestAssumption DEF BooksTyped
    <3>2. CASE side = "BUY" BY <1>2, <1>3, <1>6, <3>1, <3>2
    <3>3. CASE side # "BUY" BY <1>2, <1>3, <1>6, <3>1, <3>3
    <3> QED BY <3>2, <3>3
  <2>3. trade' \in [Syms -> [qty : Int, opened : Nat]]
    BY <1>2, <1>5 DEF BooksTyped
  <2> QED BY <2>1, <2>2, <2>3 DEF BooksTyped
<1>8. TradeIsPosition'
  <2> SUFFICES ASSUME NEW a \in Syms
               PROVE  /\ long'[a] = <<>> \/ short'[a] = <<>>
                      /\ ~mode'.short => short'[a] = <<>>
                      /\ trade'[a].qty = Qty(long'[a]) - Qty(short'[a])
    BY DEF TradeIsPosition, net
  <2>1. CASE a # s
    <3>1. long'[a] = long[a] /\ short'[a] = short[a] /\ trade'[a] = trade[a]
      BY <1>2, <2>1 DEF BooksTyped
    <3> QED BY <3>1 DEF TradeIsPosition, net
  <2>2. CASE a = s
    <3>1. /\ short'[s] = IF side = "BUY" THEN rest ELSE added
          /\ long'[s] = IF side = "BUY" THEN added ELSE rest
          /\ trade'[s].qty = n
      BY <1>2, <1>5 DEF BooksTyped
    <3>2. n = Qty(long'[s]) - Qty(short'[s])
      <4>3. /\ closed \in Nat /\ Qty(rest) = Qty(from) - closed
            /\ Qty(added) = Qty(to) + (q - closed)
        BY <1>1
      <4>1. CASE side = "BUY"
        <5>1. n = Qty(to) - Qty(from) + q /\ long'[s] = added /\ short'[s] = rest
          BY <3>1, <4>1 DEF n, net, from, to, Closing, Opening
        <5>2. Qty(long'[s]) - Qty(short'[s]) = n
          BY <1>3, <4>3, <5>1
        <5> QED BY <5>2
      <4>2. CASE side # "BUY"
        <5>1. n = Qty(from) - Qty(to) - q /\ long'[s] = rest /\ short'[s] = added
          BY <3>1, <4>2 DEF n, net, from, to, Closing, Opening
        <5>2. Qty(long'[s]) - Qty(short'[s]) = n
          BY <1>3, <4>3, <5>1
        <5> QED BY <5>2
      <4> QED BY <4>1, <4>2
    <3> QED BY <1>1, <2>2, <3>1, <3>2
  <2> QED BY <2>1, <2>2
<1>9. LotsBalance'
  <2> DEFINE Sum(f) == SumFunctionOnSet([a \in Syms |-> Cost(f[a])], Syms)
  <2>1. wealth = Cash0 + pnl + Sum(short) - Sum(long) - fees + dividends - borrowed
    BY DEF LotsBalance
  <2>2. /\ Sum(short) \in Int /\ Sum(long) \in Int
        /\ Sum(short') = Sum(short) - Cost(short[s]) + Cost(IF side = "BUY" THEN rest ELSE added)
        /\ Sum(long') = Sum(long) - Cost(long[s]) + Cost(IF side = "BUY" THEN added ELSE rest)
    <3> DEFINE u == IF side = "BUY" THEN rest ELSE added
               v == IF side = "BUY" THEN added ELSE rest
    <3>1. u \in Seq(LotSet) /\ v \in Seq(LotSet) BY <1>1
    <3>2. short \in [Syms -> Seq(LotSet)] /\ long \in [Syms -> Seq(LotSet)] BY DEF BooksTyped
    <3>3. short' = [short EXCEPT ![s] = u] /\ long' = [long EXCEPT ![s] = v] BY <1>2
    <3> HIDE DEF u, v
    <3>4. Sum(short) \in Int /\ Sum(short') = Sum(short) - Cost(short[s]) + Cost(u)
      BY <3>1, <3>2, <3>3, CostsChange
    <3>5. Sum(long) \in Int /\ Sum(long') = Sum(long) - Cost(long[s]) + Cost(v)
      BY <3>1, <3>2, <3>3, CostsChange
    <3> QED BY <3>4, <3>5 DEF u, v
  <2> SUFFICES wealth' = Cash0 + pnl' + Sum(short') - Sum(long') - fees' + dividends' - borrowed'
    BY DEF LotsBalance
  <2> HIDE DEF Sum
  <2>3. /\ wealth \in Int /\ pnl \in Int /\ fees \in Int /\ Cash0 \in Int /\ MinFee \in Int
        /\ dividends \in Nat /\ borrowed \in Nat /\ dividends' = dividends /\ borrowed' = borrowed
    BY <1>2, BacktestAssumption DEF BooksTyped
  <2>4. Cost(added) = Cost(to) + (q * mark - closed * mark) BY <1>1, <1>6
  <2>5. CASE side = "BUY"
    <3>1. from = short[s] /\ to = long[s] BY <2>5 DEF from, to, Closing, Opening
    <3>2. /\ wealth' = wealth - q * mark - MinFee
          /\ pnl' = pnl + (Cost(from) - Cost(rest)) - closed * mark
          /\ fees' = fees + MinFee
          /\ Sum(short') = Sum(short) - Cost(from) + Cost(rest)
          /\ Sum(long') = Sum(long) - Cost(to) + (Cost(to) + (q * mark - closed * mark))
      BY <1>2, <1>3, <1>6, <2>2, <2>3, <2>4, <2>5, <3>1
    <3> QED BY <1>3, <1>6, <2>1, <2>2, <2>3, <3>2
  <2>6. CASE side # "BUY"
    <3>1. from = long[s] /\ to = short[s] BY <2>6 DEF from, to, Closing, Opening
    <3>2. /\ wealth' = wealth + q * mark - MinFee
          /\ pnl' = pnl + closed * mark - (Cost(from) - Cost(rest))
          /\ fees' = fees + MinFee
          /\ Sum(long') = Sum(long) - Cost(from) + Cost(rest)
          /\ Sum(short') = Sum(short) - Cost(to) + (Cost(to) + (q * mark - closed * mark))
      BY <1>2, <1>3, <1>6, <2>2, <2>3, <2>4, <2>6, <3>1
    <3> QED BY <1>3, <1>6, <2>1, <2>2, <2>3, <3>2
  <2> QED BY <2>5, <2>6
<1> QED BY <1>7, <1>8, <1>9

-----------------------------------------------------------------------------
(* The inductive invariant of the backtest broker.                         *)

\* Time and the place in the loop; the price is one of the time point.
Clock ==
  /\ mode \in Modes /\ now \in 0..Len(DayOf) /\ mark \in Nat
  /\ pc \in {"next", "match", "exits", "adjust", "strategy", "done"}
  /\ pc = "match" => now \in Times /\ mark \in PricesAt[now]
  /\ pc # "match" => matching = {}

\* The types of the orders and of the queue.
OrdersTyped == order \in Seq(OrderSet) /\ pending \subseteq DOMAIN order /\ matching \subseteq pending

\* The queue holds the open orders, which want something and were not refused.
QueueIsOpen ==
  \A i \in DOMAIN order :
    /\ i \in pending <=> order[i].status \in {"PENDING", "PARTIAL"}
    /\ i \in pending => order[i].why = "none" /\ order[i].qty > 0

\* The count is of the latest day that queued an order, and what is counted on the
\* present day is what was queued on it.
CountsToday ==
  /\ today \in [count : Nat, day : Days] /\ today.day <= day
  /\ accepted \in [Days -> Nat] /\ accepted[day] = OrdersToday
  /\ \A d \in Days : d > day => accepted[d] = 0

\* The orders that were refused, and the ledger of them.
RefusedOrders == {i \in DOMAIN order : order[i].why # "none"}

LedgerKept == ledger \in 0..MaxRecorded /\ overflow \in Nat /\ RefusalsAreRecorded

\* What holds of the queue, of the books, and the strengthening of both properties.
QueueInv ==
  /\ OrdersTyped /\ QueueIsOpen /\ QuantityIsKept /\ ExpiryIsKept
  /\ CountsToday /\ CountIsOfTheDay /\ LedgerKept /\ OneRiskExit

BrokerBooks == BooksTyped /\ TradeIsPosition /\ LotsBalance /\ CashIsBounded

BrokerInv == Clock /\ QueueInv /\ BrokerBooks

\* Days are numbers, the present one among them, and later points are on later days.
LEMMA DaysOfTime ==
  ASSUME Clock
  PROVE  /\ Days \subseteq Nat /\ day \in Days /\ now \in Nat
         /\ Len(DayOf) \in Nat /\ Times = 1..Len(DayOf)
         /\ now < Len(DayOf) => now + 1 \in Times /\ DayOf[now + 1] \in Days /\ day <= DayOf[now + 1]
<1>1. Len(DayOf) \in Nat /\ Times = 1..Len(DayOf) /\ \A t \in Times : DayOf[t] \in Nat \ {0}
  BY TimeAssumption DEF Times
<1>2. now \in Nat /\ now <= Len(DayOf) BY <1>1 DEF Clock
<1>3. Days \subseteq Nat /\ \A t \in Times : DayOf[t] \in Days BY <1>1 DEF Days
<1>4. now # 0 => now \in Times BY <1>1, <1>2
<1>5. day \in Days BY <1>3, <1>4 DEF day, Days
<1>6. ASSUME now < Len(DayOf)
      PROVE  now + 1 \in Times /\ DayOf[now + 1] \in Days /\ day <= DayOf[now + 1]
  <2>1. now + 1 \in Times BY <1>1, <1>2, <1>6
  <2>2. CASE now = 0
    <3>1. day = 0 BY <2>2 DEF day
    <3>2. DayOf[now + 1] \in Days /\ Days \subseteq Nat BY <1>3, <2>1
    <3>3. DayOf[now + 1] \in Nat BY <3>2
    <3>4. day <= DayOf[now + 1] BY <3>1, <3>3
    <3> QED BY <2>1, <3>2, <3>4
  <2>3. CASE now # 0
    <3>1. now \in Times /\ now <= now + 1 BY <1>2, <1>4, <2>3
    <3>2. DayOf[now] <= DayOf[now + 1] BY <2>1, <3>1, TimeAssumption
    <3> QED BY <1>3, <2>1, <2>3, <3>2 DEF day
  <2> QED BY <2>2, <2>3
<1> QED BY <1>1, <1>2, <1>3, <1>5, <1>6

\* What the ledger keeps and counts grows by what is recorded.
LEMMA LedgerGrows ==
  ASSUME ledger \in 0..MaxRecorded, overflow \in Nat, NEW n \in Nat, RecordsRejections(n)
  PROVE  ledger' \in 0..MaxRecorded /\ overflow' \in Nat /\ ledger' + overflow' = ledger + overflow + n
BY BacktestAssumption DEF RecordsRejections, Least

\* Orders are finitely many.
LEMMA RefusedAreFinite == ASSUME OrdersTyped PROVE IsFiniteSet(RefusedOrders)
<1>1. Len(order) \in Nat /\ DOMAIN order = 1..Len(order) BY DEF OrdersTyped
<1>2. IsFiniteSet(DOMAIN order) BY <1>1, FS_Interval
<1> QED BY <1>2, FS_Subset DEF RefusedOrders

\* One more order is refused.
LEMMA OneMoreRefused ==
  ASSUME OrdersTyped, LedgerKept, NEW i, i \notin RefusedOrders, RefusedOrders' = RefusedOrders \cup {i},
         RecordsRejections(1)
  PROVE  LedgerKept'
<1>1. Cardinality(RefusedOrders') = Cardinality(RefusedOrders) + 1
  BY RefusedAreFinite, FS_AddElement
<1>2. ledger + overflow = Cardinality(RefusedOrders) BY DEF LedgerKept, RefusalsAreRecorded, RefusedOrders
<1>3. ledger' \in 0..MaxRecorded /\ overflow' \in Nat /\ ledger' + overflow' = ledger + overflow + 1
  BY LedgerGrows DEF LedgerKept
<1>4. MaxRecorded' = MaxRecorded OBVIOUS
<1> QED BY <1>1, <1>2, <1>3, <1>4 DEF LedgerKept, RefusalsAreRecorded, RefusedOrders

\* No order is refused.
LEMMA NoneRefused ==
  ASSUME LedgerKept, RefusedOrders' = RefusedOrders, ledger' = ledger, overflow' = overflow
  PROVE  LedgerKept'
BY DEF LedgerKept, RefusalsAreRecorded, RefusedOrders

-----------------------------------------------------------------------------
(* Submitting an order.                                                     *)

\* The orders that are submitted.
NewOrders ==
  {o \in OrderSet : o.status = "PENDING" /\ o.why = "none" /\ o.qty > 0 /\ o.asked = o.qty
                    /\ o.filled = 0 /\ o.voided = 0 /\ o.until = 0}

\* What is queued, and what is refused.
Queued(o, x) ==
  /\ x.status = "PENDING" /\ x.why = "none" /\ x.until \in {0, now + Timeout}
  /\ pending' = pending \cup {Len(order) + 1}
  /\ OrdersToday < MaxCount
  /\ today' = [count |-> OrdersToday + 1, day |-> day]
  /\ accepted' = [accepted EXCEPT ![day] = @ + 1]
  /\ UNCHANGED <<ledger, overflow>>
TurnedDown(o, x) ==
  /\ x.status \in {"CANCELLED", "REJECTED"} /\ x.why \in Whys \ {"none"}
  /\ x.why = "count" => OrdersToday >= MaxCount
  /\ pending' = pending /\ RecordsRejections(1)
  /\ UNCHANGED <<today, accepted>>

\* A submission appends one order, which is queued and counted, or refused and
\* recorded.
LEMMA SubmitsOrder ==
  ASSUME Clock, CountsToday, NEW o \in NewOrders, NEW hook \in Hooks, Submits(o, hook)
  PROVE  \E x \in OrderSet :
           /\ order' = Append(order, x)
           /\ x.since = day /\ x.sym = o.sym /\ x.exit = o.exit /\ x.qty = o.qty /\ x.asked = o.qty
           /\ x.filled = 0 /\ x.voided = 0 /\ x.tif = o.tif /\ x.till = o.till
           /\ Queued(o, x) \/ TurnedDown(o, x)
<1> DEFINE why == Refusal(o, hook)
           x == [(IF why = "none" THEN Hooked(o, hook) ELSE Refused(o, why)) EXCEPT !.since = day]
<1>1. o \in OrderSet /\ o.status = "PENDING" /\ o.why = "none" /\ o.qty > 0 /\ o.asked = o.qty
      /\ o.filled = 0 /\ o.voided = 0 /\ o.until = 0
  BY DEF NewOrders
<1>2. order' = Append(order, x) BY DEF Submits
<1>3. day \in Days /\ now \in Nat BY DaysOfTime
<1>4. why \in Whys \ {"halted", "cash", "expired"}
      /\ (why = "count" => OrdersToday >= MaxCount) /\ (why = "none" => ~(OrdersToday >= MaxCount))
  BY DEF Refusal, Whys
<1> HIDE DEF why
<1>5. CASE why = "none"
  <2>1. x = [Hooked(o, hook) EXCEPT !.since = day] BY <1>5
  <2>2. now + Timeout \in Nat BY <1>3, TimeAssumption
  <2>3. /\ x \in OrderSet /\ x.since = day /\ x.sym = o.sym /\ x.exit = o.exit /\ x.qty = o.qty
        /\ x.asked = o.qty /\ x.filled = 0 /\ x.voided = 0 /\ x.tif = o.tif /\ x.till = o.till
        /\ x.status = "PENDING" /\ x.why = "none" /\ x.until \in {0, now + Timeout}
    <3> DEFINE ty == IF hook = "price" THEN "LIMIT" ELSE o.type
               un == IF mode.hooks /\ now > 0 THEN now + Timeout ELSE 0
    <3>1. x = [o EXCEPT !.type = ty, !.until = un, !.since = day]
      BY <1>1, <2>1 DEF Hooked, OrderSet
    <3>2. ty \in OrderTypes /\ un \in Nat /\ un \in {0, now + Timeout} BY <1>1, <2>2 DEF OrderSet, OrderTypes
    <3> HIDE DEF ty, un, x
    <3>3. x \in OrderSet BY <1>1, <1>3, <3>1, <3>2 DEF OrderSet
    <3> QED BY <1>1, <3>1, <3>2, <3>3 DEF OrderSet
  <2>4. OrdersToday < MaxCount
    <3>1. OrdersToday \in Nat BY DEF CountsToday, OrdersToday
    <3> QED BY <1>4, <1>5, <3>1, BacktestAssumption
  <2>5. Queued(o, x) BY <1>5, <2>3, <2>4 DEF Submits, Queued, why
  <2> HIDE DEF x
  <2> QED BY <1>2, <2>3, <2>5
<1>6. CASE why # "none"
  <2>1. x = [Refused(o, why) EXCEPT !.since = day] BY <1>6
  <2>2. /\ x \in OrderSet /\ x.since = day /\ x.sym = o.sym /\ x.exit = o.exit /\ x.qty = o.qty
        /\ x.asked = o.qty /\ x.filled = 0 /\ x.voided = 0 /\ x.tif = o.tif /\ x.till = o.till
        /\ x.status \in {"CANCELLED", "REJECTED"} /\ x.why = why
    BY <1>1, <1>3, <1>4, <2>1 DEF Refused, OrderSet, Whys, Statuses
  <2>3. why \in LedgerReasons BY <1>4, <1>6 DEF LedgerReasons, Whys
  <2>4. RecordsRejections(1) /\ pending' = pending /\ UNCHANGED <<today, accepted>>
    BY <1>6, <2>3 DEF Submits, why
  <2>5. TurnedDown(o, x) BY <1>4, <1>6, <2>2, <2>4 DEF TurnedDown
  <2> HIDE DEF x
  <2> QED BY <1>2, <2>2, <2>5
<1> QED BY <1>5, <1>6

\* A submission keeps the queue's invariant, if a risk exit is not on its way.
LEMMA SubmitKeepsQueue ==
  ASSUME Clock, QueueInv, NEW o \in NewOrders, NEW hook \in Hooks, Submits(o, hook),
         o.exit = "risk" => ~ExitPending(o.sym),
         UNCHANGED <<now, pc, matching>>
  PROVE  QueueInv'
<1>1. PICK x \in OrderSet :
        /\ order' = Append(order, x)
        /\ x.since = day /\ x.sym = o.sym /\ x.exit = o.exit /\ x.qty = o.qty /\ x.asked = o.qty
        /\ x.filled = 0 /\ x.voided = 0 /\ x.tif = o.tif /\ x.till = o.till
        /\ Queued(o, x) \/ TurnedDown(o, x)
  BY SubmitsOrder DEF QueueInv
<1> DEFINE n == Len(order) + 1
<1>2. /\ order' \in Seq(OrderSet) /\ Len(order) \in Nat /\ n \in Nat
      /\ DOMAIN order = 1..Len(order) /\ DOMAIN order' = (DOMAIN order) \cup {n} /\ n \notin DOMAIN order
      /\ order'[n] = x /\ \A i \in DOMAIN order : order'[i] = order[i]
  <2>1. order \in Seq(OrderSet) /\ Len(order) \in Nat /\ DOMAIN order = 1..Len(order)
    BY DEF QueueInv, OrdersTyped
  <2>2. Append(order, x) \in Seq(OrderSet) /\ Len(Append(order, x)) = n
        /\ Append(order, x)[n] = x /\ \A i \in 1..Len(order) : Append(order, x)[i] = order[i]
    BY <2>1
  <2>3. DOMAIN order' = 1..n BY <1>1, <2>2
  <2> QED BY <1>1, <2>1, <2>2, <2>3
<1>3. /\ pending \subseteq DOMAIN order /\ n \notin pending /\ matching \subseteq pending
      /\ pending' = pending \/ pending' = pending \cup {n}
      /\ n \in pending' <=> x.status \in {"PENDING", "PARTIAL"}
      /\ n \in pending' => x.why = "none" /\ x.until \in {0, now + Timeout}
  BY <1>1, <1>2 DEF QueueInv, OrdersTyped, Queued, TurnedDown
<1> HIDE DEF n
<1>4. OrdersTyped'
  <2>1. order' \in Seq(OrderSet) /\ pending' \subseteq DOMAIN order' /\ matching' \subseteq pending'
    BY <1>2, <1>3
  <2> QED BY <2>1 DEF OrdersTyped
<1>5. QueueIsOpen'
  <2> SUFFICES ASSUME NEW i \in DOMAIN order'
               PROVE  /\ i \in pending' <=> order'[i].status \in {"PENDING", "PARTIAL"}
                      /\ i \in pending' => order'[i].why = "none" /\ order'[i].qty > 0
    BY DEF QueueIsOpen
  <2>1. CASE i = n BY <1>1, <1>2, <1>3, <2>1 DEF NewOrders
  <2>2. CASE i # n
    <3>1. i \in DOMAIN order /\ order'[i] = order[i] /\ (i \in pending' <=> i \in pending)
      BY <1>2, <1>3, <2>2
    <3> QED BY <3>1 DEF QueueInv, QueueIsOpen
  <2> QED BY <2>1, <2>2
<1>6. QuantityIsKept'
  <2> SUFFICES ASSUME NEW i \in DOMAIN order'
               PROVE  /\ order'[i].asked = order'[i].filled + order'[i].voided + order'[i].qty
                      /\ FeesAreSmall => order'[i].filled <= order'[i].asked /\ order'[i].voided >= 0
    BY DEF QuantityIsKept, FeesAreSmall
  <2>1. CASE i = n
    <3>1. x.qty \in Nat BY DEF OrderSet
    <3> QED BY <1>1, <1>2, <2>1, <3>1
  <2>2. CASE i # n BY <1>2, <2>2 DEF QueueInv, QuantityIsKept
  <2> QED BY <2>1, <2>2
<1>7. day' = day BY DEF day
<1>8. ExpiryIsKept'
  <2> SUFFICES ASSUME pc' \in {"exits", "adjust", "strategy", "next"}, NEW i \in pending'
               PROVE  /\ order'[i].tif = "DAY" /\ order'[i].since # 0 => day' <= order'[i].since
                      /\ order'[i].tif = "GTD" /\ order'[i].till # 0 =>
                             day' <= order'[i].till \/ order'[i].since = day'
                      /\ order'[i].until # 0 => now' < order'[i].until
    BY DEF ExpiryIsKept
  <2>1. CASE i = n
    <3>1. now \in Nat /\ day \in Nat BY DaysOfTime
    <3>2. order'[i] = x /\ x.since = day /\ x.until \in {0, now + Timeout} BY <1>1, <1>2, <1>3, <2>1
    <3> QED BY <1>7, <3>1, <3>2, TimeAssumption
  <2>2. CASE i # n
    <3>1. i \in pending /\ order'[i] = order[i] BY <1>2, <1>3, <2>2
    <3>2. pc \in {"exits", "adjust", "strategy", "next"} OBVIOUS
    <3> QED BY <1>7, <3>1, <3>2 DEF QueueInv, ExpiryIsKept
  <2> QED BY <2>1, <2>2
<1>9. CountsToday' /\ CountIsOfTheDay'
  <2>1. day \in Days /\ Days \subseteq Nat BY DaysOfTime
  <2>2. CountsToday /\ CountIsOfTheDay /\ OrdersToday \in Nat
    BY DEF QueueInv, CountsToday, OrdersToday
  <2>3. CASE TurnedDown(o, x)
    <3>1. today' = today /\ accepted' = accepted BY <2>3 DEF TurnedDown
    <3>2. CountsToday' BY <1>7, <2>2, <3>1 DEF CountsToday, OrdersToday
    <3>3. ASSUME x.why = "count" PROVE accepted[day] = MaxCount
      <4>1. OrdersToday >= MaxCount BY <2>3, <3>3 DEF TurnedDown
      <4>2. accepted[day] = OrdersToday BY <2>2 DEF CountsToday
      <4>3. accepted[day] <= MaxCount BY <2>1, <2>2 DEF CountIsOfTheDay, CountsToday
      <4> QED BY <2>2, <4>1, <4>2, <4>3, BacktestAssumption
    <3>4. \A i \in DOMAIN order' : order'[i].why = "count" => accepted[order'[i].since] = MaxCount
      BY <1>1, <1>2, <2>2, <3>3 DEF CountIsOfTheDay
    <3> QED BY <2>2, <3>1, <3>2, <3>4 DEF CountIsOfTheDay
  <2>4. CASE Queued(o, x)
    <3>1. /\ today' = [count |-> OrdersToday + 1, day |-> day]
          /\ accepted' = [accepted EXCEPT ![day] = @ + 1]
          /\ OrdersToday < MaxCount /\ x.why = "none"
      BY <2>4 DEF Queued
    <3>2. accepted \in [Days -> Nat] /\ accepted[day] = OrdersToday
          /\ \A d \in Days : d > day => accepted[d] = 0
      BY <2>2 DEF CountsToday
    <3>3. accepted' \in [Days -> Nat] /\ accepted'[day] = OrdersToday + 1
          /\ \A d \in Days \ {day} : accepted'[d] = accepted[d]
      BY <2>1, <2>2, <3>1, <3>2
    <3>4. OrdersToday' = OrdersToday + 1 BY <1>7, <3>1 DEF OrdersToday
    <3>5. CountsToday'
      <4>1. today' \in [count : Nat, day : Days] /\ today'.day <= day'
        BY <1>7, <2>1, <2>2, <3>1
      <4>2. \A d \in Days : d > day' => accepted'[d] = 0 BY <1>7, <2>1, <3>2, <3>3
      <4> QED BY <1>7, <3>3, <3>4, <4>1, <4>2 DEF CountsToday
    <3>6. \A d \in Days : accepted'[d] <= MaxCount
      <4> TAKE d \in Days
      <4>1. CASE d = day BY <2>2, <3>1, <3>3, <4>1, BacktestAssumption
      <4>2. CASE d # day BY <2>2, <3>2, <3>3, <4>2 DEF CountIsOfTheDay
      <4> QED BY <4>1, <4>2
    <3>7. \A i \in DOMAIN order' : order'[i].why = "count" => accepted'[order'[i].since] = MaxCount
      <4> SUFFICES ASSUME NEW i \in DOMAIN order', order'[i].why = "count"
                   PROVE  accepted'[order'[i].since] = MaxCount
        OBVIOUS
      <4>1. i \in DOMAIN order /\ order'[i] = order[i] BY <1>2, <3>1
      <4>2. accepted[order[i].since] = MaxCount BY <2>2, <4>1 DEF CountIsOfTheDay
      <4>3. order[i].since \in Days
        <5>1. order[i] \in OrderSet BY <4>1 DEF QueueInv, OrdersTyped
        <5> QED BY <5>1 DEF OrderSet
      <4>4. order[i].since # day BY <2>2, <3>1, <3>2, <4>2, BacktestAssumption
      <4> QED BY <3>3, <4>1, <4>2, <4>3, <4>4
    <3>8. DOMAIN accepted' = Days BY <3>3
    <3> QED BY <3>5, <3>6, <3>7, <3>8 DEF CountIsOfTheDay
  <2> QED BY <1>1, <2>3, <2>4
<1>10. LedgerKept'
  <2>1. CASE TurnedDown(o, x)
    <3>1. RefusedOrders' = RefusedOrders \cup {n} /\ n \notin RefusedOrders
      BY <1>2, <2>1 DEF RefusedOrders, TurnedDown
    <3>2. RecordsRejections(1) BY <2>1 DEF TurnedDown
    <3> QED BY <3>1, <3>2, OneMoreRefused DEF QueueInv
  <2>2. CASE Queued(o, x)
    <3>1. RefusedOrders' = RefusedOrders
      BY <1>2, <2>2 DEF RefusedOrders, Queued
    <3> QED BY <2>2, <3>1, NoneRefused DEF QueueInv, Queued
  <2> QED BY <1>1, <2>1, <2>2
<1>11. OneRiskExit'
  <2> SUFFICES ASSUME NEW i \in pending', NEW j \in pending',
                      order'[i].exit = "risk", order'[j].exit = "risk", order'[i].sym = order'[j].sym
               PROVE  i = j
    BY DEF OneRiskExit
  <2>1. \A k \in pending' \ {n} : k \in pending /\ order'[k] = order[k] BY <1>2, <1>3
  <2>2. order'[n] = x /\ x.sym = o.sym /\ x.exit = o.exit BY <1>1, <1>2
  <2>3. CASE i = n \/ j = n
    <3> SUFFICES ASSUME i # j PROVE FALSE OBVIOUS
    <3>1. o.exit = "risk" BY <2>2, <2>3
    <3>2. ExitPending(o.sym) BY <2>1, <2>2, <2>3 DEF ExitPending
    <3> QED BY <3>1, <3>2
  <2>4. CASE i # n /\ j # n
    BY <2>1, <2>4 DEF QueueInv, OneRiskExit
  <2> QED BY <2>3, <2>4
<1> QED BY <1>4, <1>5, <1>6, <1>8, <1>9, <1>10, <1>11 DEF QueueInv

-----------------------------------------------------------------------------
(* Orders that are in the queue change.                                     *)

\* What may become of order i, and the queue with it.
Changed(i) ==
  LET o == order[i]  x == order'[i] IN
  /\ x.sym = o.sym /\ x.exit = o.exit /\ x.tif = o.tif /\ x.till = o.till /\ x.until = o.until
  /\ i \in pending' => i \in pending
  /\ i \in pending' <=> x.status \in {"PENDING", "PARTIAL"}
  /\ i \in pending' => x.why = "none" /\ x.qty > 0
  /\ x.asked = x.filled + x.voided + x.qty
  /\ FeesAreSmall => x.filled <= x.asked /\ x.voided >= 0
  /\ x.why = "count" => o.why = "count" /\ x.since = o.since
  /\ x.since # o.since => x.since = day

\* Changes of that kind keep the queue's invariant.
LEMMA ChangesKeepQueue ==
  ASSUME Clock, QueueInv, order' \in Seq(OrderSet), DOMAIN order' = DOMAIN order,
         \A i \in DOMAIN order : Changed(i),
         pending' \subseteq pending, matching' \subseteq pending',
         ExpiryIsKept', LedgerKept', UNCHANGED <<now, today, accepted>>
  PROVE  QueueInv'
<1>1. day' = day BY DEF day
<1>2. OrdersTyped' BY DEF OrdersTyped, QueueInv
<1>3. QueueIsOpen' BY DEF QueueIsOpen, Changed
<1>4. QuantityIsKept' BY DEF QuantityIsKept, Changed, FeesAreSmall
<1>5. CountsToday' BY <1>1 DEF CountsToday, QueueInv, OrdersToday
<1>6. CountIsOfTheDay'
  <2>1. \A i \in DOMAIN order :
          order'[i].why = "count" => order[i].why = "count" /\ order'[i].since = order[i].since
    BY DEF Changed
  <2> QED BY <2>1 DEF CountIsOfTheDay, QueueInv
<1>7. OneRiskExit'
  <2>1. \A i \in pending' : i \in pending /\ order'[i].exit = order[i].exit /\ order'[i].sym = order[i].sym
    BY DEF Changed, QueueInv, OrdersTyped
  <2> QED BY <2>1 DEF OneRiskExit, QueueInv
<1> QED BY <1>2, <1>3, <1>4, <1>5, <1>6, <1>7 DEF QueueInv

\* One order of the queue changes while it is matched.
LEMMA OneChanges ==
  ASSUME Clock, QueueInv, NEW i \in pending, NEW x \in OrderSet, order' = [order EXCEPT ![i] = x],
         pending' \in {pending, pending \ {i}}, matching' \subseteq pending', pc = "match", pc' = "match",
         x.sym = order[i].sym, x.exit = order[i].exit, x.tif = order[i].tif, x.till = order[i].till, x.until = order[i].until,
         x.since = order[i].since, x.why # "count",
         i \in pending' <=> x.status \in {"PENDING", "PARTIAL"},
         i \in pending' => x.why = "none" /\ x.qty > 0,
         x.asked = x.filled + x.voided + x.qty,
         FeesAreSmall => x.filled <= x.asked /\ x.voided >= 0,
         \/ x.why = "none" /\ UNCHANGED <<ledger, overflow>>
         \/ x.why # "none" /\ RecordsRejections(1),
         UNCHANGED <<now, today, accepted>>
  PROVE  QueueInv'
<1>1. order \in Seq(OrderSet) /\ pending \subseteq DOMAIN order /\ order[i].why = "none"
  BY DEF QueueInv, OrdersTyped, QueueIsOpen
<1>2. order' \in Seq(OrderSet) /\ DOMAIN order' = DOMAIN order /\ order'[i] = x
      /\ \A j \in DOMAIN order \ {i} : order'[j] = order[j]
  BY <1>1
<1>3. \A j \in DOMAIN order : Changed(j)
  <2> TAKE j \in DOMAIN order
  <2>1. CASE j = i BY <1>2, <2>1 DEF Changed
  <2>2. CASE j # i
    <3>1. order'[j] = order[j] /\ (j \in pending' <=> j \in pending) BY <1>2, <2>2
    <3>2. /\ j \in pending <=> order[j].status \in {"PENDING", "PARTIAL"}
          /\ j \in pending => order[j].why = "none" /\ order[j].qty > 0
          /\ order[j].asked = order[j].filled + order[j].voided + order[j].qty
          /\ FeesAreSmall => order[j].filled <= order[j].asked /\ order[j].voided >= 0
      BY DEF QueueInv, QueueIsOpen, QuantityIsKept
    <3> QED BY <3>1, <3>2 DEF Changed
  <2> QED BY <2>1, <2>2
<1>4. ExpiryIsKept' BY DEF ExpiryIsKept
<1>5. LedgerKept'
  <2>1. CASE x.why = "none"
    <3>1. RefusedOrders' = RefusedOrders BY <1>1, <1>2, <2>1 DEF RefusedOrders
    <3> QED BY <2>1, <3>1, NoneRefused DEF QueueInv
  <2>2. CASE x.why # "none"
    <3>1. RefusedOrders' = RefusedOrders \cup {i} /\ i \notin RefusedOrders
      BY <1>1, <1>2, <2>2 DEF RefusedOrders
    <3> QED BY <2>2, <3>1, OneMoreRefused DEF QueueInv
  <2> QED BY <2>1, <2>2
<1> QED BY <1>2, <1>3, <1>4, <1>5, ChangesKeepQueue

\* An order is rejected while it is matched.
LEMMA RejectsKeepsQueue ==
  ASSUME Clock, QueueInv, NEW i \in matching, NEW why \in {"halted", "cash", "position"},
         Matches(i), Rejects(i, why)
  PROVE  QueueInv'
<1> DEFINE x == Refused(order[i], why)
<1>1. order \in Seq(OrderSet) /\ i \in pending /\ i \in DOMAIN order /\ matching \subseteq pending
  BY DEF QueueInv, OrdersTyped
<1>2. order[i] \in OrderSet BY <1>1
<1>3. /\ x \in OrderSet /\ x.sym = order[i].sym /\ x.exit = order[i].exit /\ x.tif = order[i].tif
      /\ x.till = order[i].till /\ x.until = order[i].until /\ x.since = order[i].since /\ x.why = why /\ x.status = "REJECTED"
      /\ x.asked = order[i].asked /\ x.filled = order[i].filled /\ x.voided = order[i].voided
      /\ x.qty = order[i].qty
  BY <1>2 DEF Refused, OrderSet, Whys, Statuses
<1>4. order' = [order EXCEPT ![i] = x] /\ pending' = pending \ {i} /\ RecordsRejections(1)
      /\ UNCHANGED <<today, accepted>>
  BY DEF Rejects
<1>5. pc = "match" /\ pc' = "match" /\ matching' = matching \ {i} /\ now' = now
  BY DEF Matches
<1>6. order[i].asked = order[i].filled + order[i].voided + order[i].qty
      /\ (FeesAreSmall => order[i].filled <= order[i].asked /\ order[i].voided >= 0)
  BY <1>1 DEF QueueInv, QuantityIsKept
<1> HIDE DEF x
<1> QED BY <1>1, <1>3, <1>4, <1>5, <1>6, OneChanges

\* A fill of q shares, of c the bar allows.
LEMMA FillsKeepsQueue ==
  ASSUME Clock, QueueInv, NEW i \in matching, NEW c \in 1..order[i].qty, NEW q \in Nat \ {0},
         FeesAreSmall => q <= c,
         Matches(i), Fills(i, c, q)
  PROVE  QueueInv'
<1> DEFINE o == order[i]
           rest == o.qty - c
           x == [o EXCEPT !.qty = rest, !.filled = o.filled + q, !.voided = o.voided + c - q,
                          !.status = IF rest > 0 THEN "PARTIAL" ELSE "FILLED"]
<1>1. order \in Seq(OrderSet) /\ i \in pending /\ i \in DOMAIN order /\ matching \subseteq pending
  BY DEF QueueInv, OrdersTyped
<1>2. o \in OrderSet BY <1>1
<1>3. o.why = "none" /\ o.asked = o.filled + o.voided + o.qty
      /\ (FeesAreSmall => o.filled <= o.asked /\ o.voided >= 0)
  BY <1>1 DEF QueueInv, QueueIsOpen, QuantityIsKept
<1>4. o.qty \in Nat /\ o.filled \in Int /\ o.voided \in Int /\ o.asked \in Nat BY <1>2 DEF OrderSet
<1>5. order' = [order EXCEPT ![i] = x] /\ pending' = (IF rest > 0 THEN pending ELSE pending \ {i})
      /\ UNCHANGED <<today, accepted, ledger, overflow>>
  <2>1. order' = [order EXCEPT ![i] = x] BY DEF Fills
  <2>2. pending' = (IF rest > 0 THEN pending ELSE pending \ {i}) BY DEF Fills
  <2>3. UNCHANGED <<today, accepted, ledger, overflow>> BY DEF Fills
  <2> QED BY <2>1, <2>2, <2>3
<1>6. pc = "match" /\ pc' = "match" /\ matching' = matching \ {i} /\ now' = now
  BY DEF Matches
<1>7. rest \in Nat /\ o.filled + q \in Int /\ o.voided + c - q \in Int BY <1>4
<1>8. /\ x \in OrderSet /\ x.sym = o.sym /\ x.exit = o.exit /\ x.tif = o.tif /\ x.till = o.till
      /\ x.until = o.until /\ x.since = o.since /\ x.why = "none" /\ x.asked = o.asked
      /\ x.qty = rest /\ x.filled = o.filled + q /\ x.voided = o.voided + c - q
      /\ x.status = IF rest > 0 THEN "PARTIAL" ELSE "FILLED"
  <2> HIDE DEF rest
  <2> QED BY <1>2, <1>3, <1>7 DEF OrderSet, Statuses
<1>9. x.asked = x.filled + x.voided + x.qty BY <1>3, <1>4, <1>8
<1>10. FeesAreSmall => x.filled <= x.asked /\ x.voided >= 0
  <2> SUFFICES ASSUME FeesAreSmall PROVE x.filled <= x.asked /\ x.voided >= 0 OBVIOUS
  <2>1. q <= c /\ o.voided >= 0 BY <1>3
  <2> QED BY <1>3, <1>4, <1>7, <1>8, <1>9, <2>1
<1>11. i \in pending' <=> x.status \in {"PENDING", "PARTIAL"} BY <1>1, <1>5, <1>8
<1>12. i \in pending' => x.why = "none" /\ x.qty > 0 BY <1>1, <1>5, <1>8
<1>13. pending' \in {pending, pending \ {i}} /\ matching' \subseteq pending' BY <1>1, <1>5, <1>6
<1> HIDE DEF x, rest
<1> QED BY <1>1, <1>5, <1>6, <1>8, <1>9, <1>10, <1>11, <1>12, <1>13, OneChanges

-----------------------------------------------------------------------------
(* Matching.                                                                *)

\* Division leaves no more than it was given.
LEMMA Quotient ==
  ASSUME NEW a \in Int, NEW b \in Nat \ {0}
  PROVE  a \div b \in Int /\ (a \div b) * b <= a
OBVIOUS

\* What is bought is paid for, but for less than a fee, and is no more than asked
\* for when a share is worth its fee.
LEMMA AffordableIsPaid ==
  ASSUME wealth \in Int, mark \in Nat \ {0}, MinFee \in Nat, NEW c \in Nat \ {0}, Affordable(c) > 0
  PROVE  /\ Affordable(c) \in Nat \ {0}
         /\ wealth - Affordable(c) * mark - MinFee >= 0 \/ wealth - Affordable(c) * mark - MinFee > -MinFee
         /\ MinFee <= mark => Affordable(c) <= c
<1> DEFINE q == Affordable(c)
<1>1. CASE c * mark + MinFee <= wealth
  <2>1. q = c BY <1>1 DEF Affordable
  <2>2. c * mark \in Int OBVIOUS
  <2> HIDE DEF q
  <2>3. wealth - c * mark - MinFee >= 0 BY <1>1, <2>2
  <2> QED BY <2>1, <2>3 DEF q
<1>2. CASE ~(c * mark + MinFee <= wealth)
  <2>1. q = (wealth * 1000) \div (mark * 1005) BY <1>2 DEF Affordable
  <2>2. q \in Int /\ q * (mark * 1005) <= wealth * 1000
    <3>1. wealth * 1000 \in Int /\ mark * 1005 \in Nat \ {0} OBVIOUS
    <3> QED BY <2>1, <3>1, Quotient
  <2>3. q > 0 OBVIOUS
  <2> HIDE DEF q
  <2>4. q * mark \in Int /\ q * (mark * 1005) = (q * mark) * 1005 BY <2>2
  <2>5. q * mark > 0 BY <2>2, <2>3
  <2>6. q * mark < wealth BY <2>2, <2>4, <2>5
  <2>7. wealth - q * mark - MinFee > -MinFee BY <2>4, <2>6
  <2>8. ASSUME MinFee <= mark PROVE q <= c
    <3> SUFFICES ASSUME c + 1 <= q PROVE FALSE BY <2>2
    <3>1. c * mark \in Int /\ (c + 1) * mark = c * mark + mark OBVIOUS
    <3>2. (c + 1) * mark <= q * mark BY <2>2
    <3>3. wealth < (c + 1) * mark BY <1>2, <2>8, <3>1
    <3> QED BY <2>4, <2>6, <3>1, <3>2, <3>3
  <2>9. q \in Nat \ {0} BY <2>2, <2>3
  <2> QED BY <2>7, <2>8, <2>9 DEF q
<1> QED BY <1>1, <1>2

\* The ways in which order i is matched.
MatchStep(i) == NotFilled(i) \/ LimitHit(i) \/ FillBuy(i) \/ FillSell(i)

\* Matching an order: what is bought is paid for, what is sold is there.
LEMMA MatchKeepsInv == ASSUME BrokerInv, NEW i \in matching, MatchStep(i) PROVE BrokerInv'
<1>1. Clock /\ QueueInv /\ BooksTyped /\ TradeIsPosition /\ LotsBalance /\ CashIsBounded
  BY DEF BrokerInv, BrokerBooks
<1>2. Matches(i) BY DEF MatchStep, NotFilled, LimitHit, FillBuy, FillSell
<1>3. /\ pc = "match" /\ matching' = matching \ {i}
      /\ UNCHANGED <<mode, now, pc, mark>>
  BY <1>2 DEF Matches
<1>4. Clock' BY <1>1, <1>3 DEF Clock
<1>5. /\ order \in Seq(OrderSet) /\ i \in pending /\ i \in DOMAIN order /\ matching \subseteq pending
      /\ order[i] \in OrderSet /\ order[i].qty > 0
  BY <1>1 DEF QueueInv, OrdersTyped, QueueIsOpen
<1>6. order[i].sym \in Syms /\ order[i].side \in {"BUY", "SELL"} /\ order[i].qty \in Nat
  BY <1>5 DEF OrderSet
<1>7. mode.short \in BOOLEAN /\ now \in Nat /\ mark \in Nat \ {0} /\ wealth \in Int /\ MinFee \in Nat
      /\ (FeesAreSmall => MinFee <= mark)
  <2>1. mode \in Modes /\ now \in Times /\ mark \in PricesAt[now] BY <1>1, <1>3 DEF Clock
  <2>2. mark \in Nat \ {0} BY <2>1, TimeAssumption
  <2>3. mode.short \in BOOLEAN /\ MinFee \in Nat BY <2>1, BacktestAssumption
  <2>4. FeesAreSmall => MinFee <= mark BY <2>1 DEF FeesAreSmall
  <2> QED BY <1>1, <2>2, <2>3, <2>4, DaysOfTime DEF BooksTyped
<1>8. ASSUME UNCHANGED positions PROVE (BooksTyped /\ TradeIsPosition /\ LotsBalance /\ CashIsBounded)'
  BY <1>1, <1>3, <1>8
     DEF positions, BooksTyped, TradeIsPosition, net, LotsBalance, CashIsBounded, FeesAreSmall
<1>9. ASSUME NEW c \in 1..order[i].qty, NEW q \in Nat \ {0}, Fills(i, c, q), FeesAreSmall => q <= c,
             order[i].side = "SELL" /\ ~mode.short => q <= net(order[i].sym)
      PROVE  QueueInv' /\ BooksTyped' /\ TradeIsPosition' /\ LotsBalance'
  <2>1. QueueInv' BY <1>1, <1>2, <1>9, FillsKeepsQueue
  <2>2. Books(order[i].sym, order[i].side, q) BY <1>9 DEF Fills
  <2>3. BooksTyped' /\ TradeIsPosition' /\ LotsBalance'
    BY <1>1, <1>3, <1>6, <1>7, <1>9, <2>2, BookingKeepsBooks
  <2> QED BY <2>1, <2>3
<1>10. Allowed(i) \subseteq 1..order[i].qty BY <1>5, <1>6 DEF Allowed
<1>11. CASE NotFilled(i)
  <2>1. UNCHANGED <<queue, positions>> BY <1>11 DEF NotFilled
  <2>2. QueueInv'
    <3>1. UNCHANGED <<order, pending, today, ledger, overflow, accepted>> BY <2>1 DEF queue
    <3>2. \A j \in DOMAIN order : Changed(j)
      BY <1>1, <3>1 DEF QueueInv, QueueIsOpen, QuantityIsKept, Changed
    <3>3. ExpiryIsKept' BY <1>3 DEF ExpiryIsKept
    <3>4. LedgerKept' BY <1>1, <3>1 DEF QueueInv, LedgerKept, RefusalsAreRecorded
    <3>5. matching' \subseteq pending' BY <1>3, <1>5, <3>1
    <3> QED BY <1>1, <1>3, <1>5, <3>1, <3>2, <3>3, <3>4, <3>5, ChangesKeepQueue
  <2> QED BY <1>4, <1>8, <2>1, <2>2 DEF BrokerInv, BrokerBooks
<1>12. CASE LimitHit(i)
  <2>1. Rejects(i, "halted") BY <1>12 DEF LimitHit
  <2>2. QueueInv' BY <1>1, <1>2, <2>1, RejectsKeepsQueue
  <2> QED BY <1>4, <1>8, <2>1, <2>2 DEF BrokerInv, BrokerBooks, Rejects
<1>13. CASE FillBuy(i)
  <2>1. PICK c \in Allowed(i) : IF Affordable(c) <= 0 THEN Rejects(i, "cash") ELSE Fills(i, c, Affordable(c))
    BY <1>13 DEF FillBuy
  <2>2. c \in 1..order[i].qty /\ order[i].side = "BUY" BY <1>10, <1>13 DEF FillBuy
  <2>3. CASE Rejects(i, "cash")
    <3>1. QueueInv' BY <1>1, <1>2, <2>3, RejectsKeepsQueue
    <3> QED BY <1>4, <1>8, <2>3, <3>1 DEF BrokerInv, BrokerBooks, Rejects
  <2>4. CASE ~(Affordable(c) <= 0) /\ Fills(i, c, Affordable(c))
    <3> DEFINE q == Affordable(c)
    <3>1. c \in Nat \ {0} BY <1>6, <2>2
    <3>2. Affordable(c) \in Int
      <4>1. (wealth * 1000) \div (mark * 1005) \in Int
        <5>1. wealth * 1000 \in Int /\ mark * 1005 \in Nat \ {0} BY <1>7
        <5> QED BY <5>1, Quotient
      <4> QED BY <3>1, <4>1 DEF Affordable
    <3>3. Affordable(c) > 0 BY <2>4, <3>2
    <3>4. /\ q \in Nat \ {0}
          /\ wealth - q * mark - MinFee >= 0 \/ wealth - q * mark - MinFee > -MinFee
          /\ MinFee <= mark => q <= c
      BY <1>7, <3>1, <3>3, AffordableIsPaid
    <3> HIDE DEF q
    <3>5. QueueInv' /\ BooksTyped' /\ TradeIsPosition' /\ LotsBalance'
      BY <1>7, <1>9, <2>2, <2>4, <3>4 DEF q
    <3>6. wealth' = wealth - q * mark - MinFee /\ borrowed' = borrowed BY <2>2, <2>4 DEF Fills, Books, q
    <3>7. wealth \in Int /\ borrowed \in Nat /\ q * mark \in Int BY <1>1, <1>7, <3>4 DEF BooksTyped
    <3>8. wealth' + borrowed' >= 0 \/ wealth' + borrowed' > -MinFee BY <1>7, <3>4, <3>6, <3>7
    <3>9. CashIsBounded' BY <3>8 DEF CashIsBounded
    <3> QED BY <1>4, <3>5, <3>9 DEF BrokerInv, BrokerBooks
  <2> QED BY <2>1, <2>3, <2>4
<1>14. CASE FillSell(i)
  <2>1. PICK c \in Allowed(i) :
          IF ~mode.short /\ c > net(order[i].sym) THEN Rejects(i, "position") ELSE Fills(i, c, c)
    BY <1>14 DEF FillSell
  <2>2. c \in 1..order[i].qty /\ order[i].side = "SELL" BY <1>10, <1>14 DEF FillSell
  <2>3. CASE Rejects(i, "position")
    <3>1. QueueInv' BY <1>1, <1>2, <2>3, RejectsKeepsQueue
    <3> QED BY <1>4, <1>8, <2>3, <3>1 DEF BrokerInv, BrokerBooks, Rejects
  <2>4. CASE ~(~mode.short /\ c > net(order[i].sym)) /\ Fills(i, c, c)
    <3>1. c \in Nat \ {0} BY <1>6, <2>2
    <3>2. net(order[i].sym) \in Int BY <1>1, <1>6, QtyOfLots DEF BooksTyped, net
    <3>3. ~mode.short => c <= net(order[i].sym) BY <2>4, <3>1, <3>2
    <3>4. QueueInv' /\ BooksTyped' /\ TradeIsPosition' /\ LotsBalance'
      BY <1>9, <2>2, <2>4, <3>1, <3>3
    <3>5. wealth' = wealth + c * mark - MinFee /\ borrowed' = borrowed BY <2>2, <2>4 DEF Fills, Books
    <3>6. ASSUME FeesAreSmall PROVE wealth' + borrowed' >= 0 \/ wealth' + borrowed' > -MinFee
      <4>1. c * mark \in Int /\ c * mark >= mark BY <1>7, <3>1
      <4>2. wealth + borrowed >= 0 \/ wealth + borrowed > -MinFee BY <1>1, <3>6 DEF CashIsBounded
      <4>3. borrowed \in Nat BY <1>1 DEF BooksTyped
      <4> QED BY <1>7, <3>5, <3>6, <4>1, <4>2, <4>3
    <3>7. CashIsBounded' BY <3>6 DEF CashIsBounded, FeesAreSmall
    <3> QED BY <1>4, <3>4, <3>7 DEF BrokerInv, BrokerBooks
  <2> QED BY <2>1, <2>3, <2>4
<1> QED BY <1>11, <1>12, <1>13, <1>14 DEF MatchStep

-----------------------------------------------------------------------------
(* The other steps.                                                         *)

\* The books do not change, nor the time.
LEMMA BooksStay ==
  ASSUME BrokerBooks, UNCHANGED <<mode, long, short, wealth, pnl, fees, dividends, borrowed, trade>>
  PROVE  BrokerBooks'
BY DEF BrokerBooks, BooksTyped, TradeIsPosition, net, LotsBalance, CashIsBounded, FeesAreSmall

\* The next time point, on the same day or a later one.
LEMMA BarsKeepInv == ASSUME BrokerInv, NEW bs \in BarSets, NextBars(bs) PROVE BrokerInv'
<1>1. Clock /\ QueueInv /\ BrokerBooks BY DEF BrokerInv
<1>2. /\ pc = "next" /\ now < Len(DayOf) /\ now' = now + 1 /\ mark' \in PricesAt[now + 1]
      /\ matching' \subseteq pending /\ pc' = "match"
      /\ UNCHANGED <<mode, order, pending, today, ledger, overflow, accepted>>
      /\ UNCHANGED <<long, short, pnl, fees, trade>>
      /\ dividends' = dividends + DividendsDue(DayOf[now + 1], bs)
      /\ borrowed' = borrowed + BorrowFee(now + 1)
      /\ wealth' = wealth + DividendsDue(DayOf[now + 1], bs) - BorrowFee(now + 1)
  BY DEF NextBars, queue
<1>3. /\ Days \subseteq Nat /\ day \in Days /\ now \in Nat /\ now + 1 \in Times
      /\ DayOf[now + 1] \in Days /\ day <= DayOf[now + 1] /\ Len(DayOf) \in Nat /\ Times = 1..Len(DayOf)
  BY <1>1, <1>2, DaysOfTime
<1>4. day' = DayOf[now + 1] BY <1>2, <1>3 DEF day
<1>5. Clock'
  <2>1. mark' \in Nat BY <1>2, <1>3, TimeAssumption
  <2>2. now' \in 0..Len(DayOf) /\ now' \in Times /\ mark' \in PricesAt[now'] BY <1>2, <1>3
  <2>3. mode' \in Modes BY <1>1, <1>2 DEF Clock
  <2> QED BY <1>2, <2>1, <2>2, <2>3 DEF Clock
<1>6. OrdersTyped' /\ QueueIsOpen' /\ QuantityIsKept' /\ OneRiskExit'
  BY <1>1, <1>2 DEF QueueInv, OrdersTyped, QueueIsOpen, QuantityIsKept, FeesAreSmall, OneRiskExit
<1>7. ExpiryIsKept' BY <1>2 DEF ExpiryIsKept
<1>8. CountIsOfTheDay' /\ LedgerKept'
  BY <1>1, <1>2 DEF QueueInv, CountIsOfTheDay, LedgerKept, RefusalsAreRecorded
<1>9. CountsToday'
  <2>1. today \in [count : Nat, day : Days] /\ today.day <= day /\ accepted \in [Days -> Nat]
        /\ accepted[day] = OrdersToday /\ \A d \in Days : d > day => accepted[d] = 0
    BY <1>1 DEF QueueInv, CountsToday
  <2>2. today.day \in Nat /\ day \in Nat /\ day' \in Nat /\ day <= day' /\ day' \in Days
    BY <1>3, <1>4, <2>1
  <2>3. accepted[day'] = OrdersToday'
    <3>1. CASE day' = day BY <1>2, <2>1, <3>1 DEF OrdersToday
    <3>2. CASE day' # day
      <4>1. day' > day /\ today.day # day' BY <2>1, <2>2, <3>2
      <4> QED BY <1>2, <2>1, <2>2, <4>1 DEF OrdersToday
    <3> QED BY <3>1, <3>2
  <2>4. \A d \in Days : d > day' => accepted[d] = 0 BY <1>3, <2>1, <2>2
  <2>5. today.day <= day' BY <2>1, <2>2
  <2> QED BY <1>2, <2>1, <2>3, <2>4, <2>5 DEF CountsToday
<1>10. BrokerBooks'
  <2> DEFINE due == DividendsDue(DayOf[now + 1], bs)
             fee == BorrowFee(now + 1)
  <2>1. BooksTyped /\ TradeIsPosition /\ LotsBalance /\ CashIsBounded BY <1>1 DEF BrokerBooks
  <2>2. due \in Nat BY <1>3, <2>1, DividendsAreNat
  <2>3. fee \in Nat BY <1>3, <2>1, BorrowFeesAreNat
  <2>4. /\ dividends' = dividends + due /\ borrowed' = borrowed + fee /\ wealth' = wealth + due - fee
        /\ UNCHANGED <<mode, long, short, pnl, fees, trade>>
    BY <1>2
  <2> HIDE DEF due, fee
  <2>5. wealth \in Int /\ pnl \in Int /\ fees \in Int /\ dividends \in Nat /\ borrowed \in Nat
    BY <2>1 DEF BooksTyped
  <2>6. BooksTyped' BY <2>1, <2>2, <2>3, <2>4, <2>5 DEF BooksTyped
  <2>7. TradeIsPosition' BY <2>1, <2>4 DEF TradeIsPosition, net
  <2>8. LotsBalance'
    <3> DEFINE shorts == SumFunctionOnSet([s \in Syms |-> Cost(short[s])], Syms)
               longs == SumFunctionOnSet([s \in Syms |-> Cost(long[s])], Syms)
    <3>1. shorts \in Nat /\ longs \in Nat BY <2>1, CostsAreNat DEF BooksTyped
    <3>2. shorts' = shorts /\ longs' = longs BY <2>4
    <3>3. wealth = Cash0 + pnl + shorts - longs - fees + dividends - borrowed BY <2>1 DEF LotsBalance
    <3> HIDE DEF shorts, longs
    <3>4. Cash0 \in Int BY BacktestAssumption
    <3>5. wealth' = Cash0 + pnl' + shorts' - longs' - fees' + dividends' - borrowed'
      BY <2>2, <2>3, <2>4, <2>5, <3>1, <3>2, <3>3, <3>4
    <3> QED BY <3>5 DEF LotsBalance, shorts, longs
  <2>9. CashIsBounded'
    <3>1. wealth' + borrowed' = wealth + borrowed + due BY <2>2, <2>3, <2>4, <2>5
    <3>2. MinFee \in Nat BY BacktestAssumption
    <3> QED BY <2>1, <2>2, <2>5, <3>1, <3>2 DEF CashIsBounded, FeesAreSmall
  <2> QED BY <2>6, <2>7, <2>8, <2>9 DEF BrokerBooks
<1> QED BY <1>1, <1>2, <1>5, <1>6, <1>7, <1>8, <1>9, <1>10 DEF BrokerInv, QueueInv

\* The expired orders leave the queue, and are recorded.
LEMMA ExpireKeepsInv == ASSUME BrokerInv, Expire PROVE BrokerInv'
<1>1. Clock /\ QueueInv /\ BrokerBooks BY DEF BrokerInv
<1> DEFINE gone == {i \in pending : Expired(order[i])}
<1>2. /\ pc = "match" /\ matching = {} /\ pc' = "exits"
      /\ order' = [i \in DOMAIN order |->
                      IF i \in gone THEN Refused(order[i], "expired")
                      ELSE IF i \in pending /\ order[i].since = 0
                      THEN [order[i] EXCEPT !.since = day]
                      ELSE order[i]]
      /\ pending' = pending \ gone /\ RecordsRejections(Cardinality(gone))
      /\ UNCHANGED <<mode, now, mark, matching, today, accepted>>
      /\ UNCHANGED <<long, short, wealth, pnl, fees, dividends, borrowed, trade>>
  BY DEF Expire, positions
<1>3. /\ order \in Seq(OrderSet) /\ Len(order) \in Nat /\ DOMAIN order = 1..Len(order)
      /\ pending \subseteq DOMAIN order /\ \A i \in DOMAIN order : order[i] \in OrderSet
  BY <1>1 DEF QueueInv, OrdersTyped
<1>4. day \in Days /\ Days \subseteq Nat /\ now \in Nat /\ day' = day BY <1>1, <1>2, DaysOfTime DEF day
<1>5. gone \subseteq pending /\ DOMAIN order' = DOMAIN order BY <1>2
<1>6. ASSUME NEW i \in DOMAIN order
      PROVE  /\ order'[i] \in OrderSet /\ Changed(i) /\ (i \in gone => order'[i].why = "expired")
             /\ i \notin gone => order'[i].why = order[i].why /\ order'[i].tif = order[i].tif /\ order'[i].till = order[i].till
                                 /\ order'[i].until = order[i].until
                                 /\ order'[i].since \in {order[i].since, day}
  <2> DEFINE o == order[i]
  <2>1. o \in OrderSet BY <1>3
  <2>2. /\ o.asked = o.filled + o.voided + o.qty
        /\ FeesAreSmall => o.filled <= o.asked /\ o.voided >= 0
        /\ i \in pending <=> o.status \in {"PENDING", "PARTIAL"}
        /\ i \in pending => o.why = "none" /\ o.qty > 0
    BY <1>1 DEF QueueInv, QuantityIsKept, QueueIsOpen
  <2>3. CASE i \in gone
    <3>1. order'[i] = Refused(o, "expired") /\ i \notin pending' BY <1>2, <2>3
    <3>2. Refused(o, "expired") = [o EXCEPT !.status = "CANCELLED", !.why = "expired"] BY DEF Refused
    <3> HIDE DEF o, gone
    <3> DEFINE x == order'[i]
    <3>4. x = [o EXCEPT !.status = "CANCELLED", !.why = "expired"] BY <3>1, <3>2
    <3> HIDE DEF x
    <3>5. x \in OrderSet BY <2>1, <3>4 DEF OrderSet, Whys, Statuses
    <3>6. /\ x.why = "expired" /\ x.status = "CANCELLED" /\ x.sym = o.sym /\ x.exit = o.exit /\ x.tif = o.tif /\ x.till = o.till
          /\ x.until = o.until /\ x.since = o.since /\ x.asked = o.asked
          /\ x.filled = o.filled /\ x.voided = o.voided /\ x.qty = o.qty
      BY <2>1, <3>4 DEF OrderSet
    <3>3. /\ order'[i] \in OrderSet /\ order'[i].why = "expired" /\ order'[i].status = "CANCELLED"
          /\ order'[i].sym = o.sym /\ order'[i].exit = o.exit /\ order'[i].tif = o.tif /\ order'[i].till = o.till
          /\ order'[i].until = o.until /\ order'[i].since = o.since /\ order'[i].asked = o.asked
          /\ order'[i].filled = o.filled /\ order'[i].voided = o.voided /\ order'[i].qty = o.qty
      BY <3>5, <3>6 DEF x
    <3> QED BY <2>2, <2>3, <3>1, <3>3 DEF Changed, o
  <2>4. CASE i \notin gone /\ i \in pending /\ o.since = 0
    <3>1. order'[i] = [o EXCEPT !.since = day] /\ i \in pending' BY <1>2, <2>4
    <3> HIDE DEF o, gone
    <3>3. /\ order'[i] \in OrderSet /\ order'[i].why = o.why /\ order'[i].status = o.status
          /\ order'[i].sym = o.sym /\ order'[i].exit = o.exit /\ order'[i].tif = o.tif /\ order'[i].till = o.till
          /\ order'[i].until = o.until /\ order'[i].since = day /\ order'[i].asked = o.asked
          /\ order'[i].filled = o.filled /\ order'[i].voided = o.voided /\ order'[i].qty = o.qty
      BY <1>4, <2>1, <3>1 DEF OrderSet
    <3> QED BY <2>2, <2>4, <3>1, <3>3 DEF Changed, o
  <2>5. CASE i \notin gone /\ ~(i \in pending /\ o.since = 0)
    <3>1. order'[i] = o BY <1>2, <2>5
    <3>2. i \in pending' <=> i \in pending BY <1>2, <2>5
    <3> QED BY <2>1, <2>2, <2>5, <3>1, <3>2 DEF Changed
  <2> QED BY <2>3, <2>4, <2>5
<1> HIDE DEF gone
<1>7. order' \in Seq(OrderSet)
  <2>1. order' = [i \in 1..Len(order) |-> order'[i]] BY <1>2, <1>3
  <2>2. \A i \in 1..Len(order) : order'[i] \in OrderSet BY <1>3, <1>6
  <2> QED BY <1>3, <2>1, <2>2
<1>8. ExpiryIsKept'
  <2> SUFFICES ASSUME NEW i \in pending'
               PROVE  /\ order'[i].tif = "DAY" /\ order'[i].since # 0 => day' <= order'[i].since
                      /\ order'[i].tif = "GTD" /\ order'[i].till # 0 =>
                             day' <= order'[i].till \/ order'[i].since = day'
                      /\ order'[i].until # 0 => now' < order'[i].until
    BY DEF ExpiryIsKept
  <2>1. i \in DOMAIN order /\ i \notin gone /\ ~Expired(order[i]) BY <1>2, <1>3 DEF gone
  <2>2. order[i] \in OrderSet BY <1>3, <2>1
  <2>3. order[i].until \in Nat /\ order[i].since \in Nat /\ order[i].till \in Nat /\ day \in Nat
    BY <1>4, <2>2 DEF OrderSet
  <2>4. /\ order'[i].tif = order[i].tif /\ order'[i].till = order[i].till /\ order'[i].until = order[i].until
        /\ order'[i].since \in {order[i].since, day}
    BY <1>6, <2>1
  <2>5. /\ order[i].until # 0 => now < order[i].until
        /\ order[i].tif = "DAY" /\ order[i].since # 0 => day <= order[i].since
        /\ order[i].tif = "GTD" /\ order[i].till # 0 => day <= order[i].till
    BY <1>4, <2>1, <2>3 DEF Expired
  <2> QED BY <1>2, <1>4, <2>4, <2>5
<1>9. LedgerKept'
  <2>1. IsFiniteSet(DOMAIN order) BY <1>3, FS_Interval
  <2>2. IsFiniteSet(gone) /\ IsFiniteSet(RefusedOrders)
    BY <1>1, <1>3, <1>5, <2>1, FS_Subset, RefusedAreFinite DEF QueueInv
  <2>3. Cardinality(gone) \in Nat /\ Cardinality(RefusedOrders) \in Nat BY <2>2, FS_CardinalityType
  <2>4. gone \cap RefusedOrders = {}
    BY <1>1, <1>3, <1>5 DEF RefusedOrders, QueueInv, QueueIsOpen
  <2>5. RefusedOrders' = RefusedOrders \cup gone
    <3>1. \A i \in DOMAIN order : order'[i].why # "none" <=> (i \in gone \/ order[i].why # "none")
      BY <1>6
    <3> QED BY <1>3, <1>5, <3>1 DEF RefusedOrders
  <2>6. Cardinality(RefusedOrders') = Cardinality(RefusedOrders) + Cardinality(gone)
    <3>1. Cardinality(RefusedOrders \cap gone) = 0 BY <2>4, FS_EmptySet
    <3>2. Cardinality(RefusedOrders \cup gone)
            = Cardinality(RefusedOrders) + Cardinality(gone) - Cardinality(RefusedOrders \cap gone)
      BY <2>2, FS_Union
    <3> QED BY <2>3, <2>5, <3>1, <3>2
  <2>7. ledger \in 0..MaxRecorded /\ overflow \in Nat /\ ledger + overflow = Cardinality(RefusedOrders)
    BY <1>1 DEF QueueInv, LedgerKept, RefusalsAreRecorded, RefusedOrders
  <2>8. ledger' \in 0..MaxRecorded /\ overflow' \in Nat
        /\ ledger' + overflow' = ledger + overflow + Cardinality(gone)
    BY <1>2, <2>3, <2>7, LedgerGrows
  <2> QED BY <2>6, <2>7, <2>8 DEF LedgerKept, RefusalsAreRecorded, RefusedOrders
<1>10. QueueInv'
  <2>1. matching' \subseteq pending' /\ pending' \subseteq pending BY <1>2
  <2>2. \A i \in DOMAIN order : Changed(i) BY <1>6
  <2> QED BY <1>1, <1>2, <1>5, <1>7, <1>8, <1>9, <2>1, <2>2, ChangesKeepQueue
<1>11. Clock' BY <1>1, <1>2 DEF Clock
<1> QED BY <1>1, <1>2, <1>10, <1>11, BooksStay DEF BrokerInv

\* The end cancels the queue, without recording it.
LEMMA EndKeepsInv == ASSUME BrokerInv, End PROVE BrokerInv'
<1>1. Clock /\ QueueInv /\ BrokerBooks BY DEF BrokerInv
<1>2. /\ pc = "next" /\ pc' = "done" /\ matching = {} /\ pending' = {}
      /\ order' = [i \in DOMAIN order |-> IF i \in pending
                                          THEN [order[i] EXCEPT !.status = "CANCELLED"] ELSE order[i]]
      /\ UNCHANGED <<mode, now, mark, matching, today, ledger, overflow, accepted>>
      /\ UNCHANGED <<long, short, wealth, pnl, fees, dividends, borrowed, trade>>
  BY <1>1 DEF End, positions, Clock
<1>3. /\ order \in Seq(OrderSet) /\ Len(order) \in Nat /\ DOMAIN order = 1..Len(order)
      /\ \A i \in DOMAIN order : order[i] \in OrderSet
  BY <1>1 DEF QueueInv, OrdersTyped
<1>4. ASSUME NEW i \in DOMAIN order
      PROVE  order'[i] \in OrderSet /\ Changed(i) /\ order'[i].why = order[i].why
  <2> DEFINE o == order[i]
  <2>1. o \in OrderSet BY <1>3
  <2>2. /\ o.asked = o.filled + o.voided + o.qty
        /\ FeesAreSmall => o.filled <= o.asked /\ o.voided >= 0
        /\ i \in pending <=> o.status \in {"PENDING", "PARTIAL"}
    BY <1>1 DEF QueueInv, QuantityIsKept, QueueIsOpen
  <2>3. CASE i \in pending
    <3>1. order'[i] = [o EXCEPT !.status = "CANCELLED"] /\ i \notin pending' BY <1>2, <2>3
    <3> HIDE DEF o
    <3>2. /\ order'[i] \in OrderSet /\ order'[i].why = o.why /\ order'[i].status = "CANCELLED"
          /\ order'[i].sym = o.sym /\ order'[i].exit = o.exit /\ order'[i].tif = o.tif /\ order'[i].till = o.till
          /\ order'[i].until = o.until /\ order'[i].since = o.since /\ order'[i].asked = o.asked
          /\ order'[i].filled = o.filled /\ order'[i].voided = o.voided /\ order'[i].qty = o.qty
      BY <2>1, <3>1 DEF OrderSet, Statuses
    <3> QED BY <2>2, <3>1, <3>2 DEF Changed, o
  <2>4. CASE i \notin pending
    <3>1. order'[i] = o /\ i \notin pending' BY <1>2, <2>4
    <3> QED BY <2>1, <2>2, <2>4, <3>1 DEF Changed
  <2> QED BY <2>3, <2>4
<1>5. DOMAIN order' = DOMAIN order BY <1>2
<1>6. order' \in Seq(OrderSet)
  <2>1. order' = [i \in 1..Len(order) |-> order'[i]] BY <1>2, <1>3
  <2>2. \A i \in 1..Len(order) : order'[i] \in OrderSet BY <1>3, <1>4
  <2> QED BY <1>3, <2>1, <2>2
<1>7. ExpiryIsKept' BY <1>2 DEF ExpiryIsKept
<1>8. LedgerKept'
  <2>1. RefusedOrders' = RefusedOrders BY <1>4, <1>5 DEF RefusedOrders
  <2> QED BY <1>1, <1>2, <2>1, NoneRefused DEF QueueInv
<1>9. QueueInv'
  <2>1. matching' \subseteq pending' /\ pending' \subseteq pending BY <1>2
  <2>2. \A i \in DOMAIN order : Changed(i) BY <1>4
  <2> QED BY <1>1, <1>2, <1>5, <1>6, <1>7, <1>8, <2>1, <2>2, ChangesKeepQueue
<1>10. Clock' BY <1>1, <1>2 DEF Clock
<1> QED BY <1>1, <1>2, <1>9, <1>10, BooksStay DEF BrokerInv

\* Only the place in the loop changes.
TurnStep == ExitsDone \/ AdjustsDone \/ StrategyDone

LEMMA TurnKeepsInv ==
  ASSUME BrokerInv, TurnStep \/ UNCHANGED brokerVars
  PROVE  BrokerInv'
<1>1. Clock /\ QueueInv /\ BrokerBooks BY DEF BrokerInv
<1>2. /\ UNCHANGED <<mode, now, mark, matching, order, pending, today, ledger, overflow, accepted>>
      /\ UNCHANGED <<long, short, wealth, pnl, fees, dividends, borrowed, trade>>
      /\ pc' = pc \/ (pc \in {"exits", "adjust", "strategy"} /\ pc' \in {"adjust", "strategy", "next"})
  BY DEF TurnStep, ExitsDone, AdjustsDone, StrategyDone, brokerVars, queue, positions
<1>3. Clock' BY <1>1, <1>2 DEF Clock
<1>4. day' = day BY <1>2 DEF day
<1>5. ExpiryIsKept' BY <1>1, <1>2, <1>4 DEF QueueInv, ExpiryIsKept
<1>6. OrdersTyped' /\ QueueIsOpen' /\ QuantityIsKept' /\ OneRiskExit'
  BY <1>1, <1>2 DEF QueueInv, OrdersTyped, QueueIsOpen, QuantityIsKept, FeesAreSmall, OneRiskExit
<1>7. CountsToday' /\ CountIsOfTheDay' /\ LedgerKept'
  BY <1>1, <1>2, <1>4 DEF QueueInv, CountsToday, OrdersToday, CountIsOfTheDay, LedgerKept, RefusalsAreRecorded
<1> QED BY <1>1, <1>2, <1>3, <1>5, <1>6, <1>7, BooksStay DEF BrokerInv, QueueInv

\* The risk gate, the adjustment and the strategy order.
LEMMA OrdersKeepInv ==
  ASSUME BrokerInv, NEW s \in Syms, NEW side \in {"BUY", "SELL"}, NEW w, NEW hook \in Hooks,
         RiskExit(s, hook) \/ Adjust(s, side, 1, hook) \/ (w \in Wishes /\ Wants(w, hook))
  PROVE  BrokerInv'
<1>1. Clock /\ QueueInv /\ BrokerBooks BY DEF BrokerInv
<1>2. \A v \in Wish :
         \A e \in {"none", "risk", "partial"} :
           NewOrder(v, e) \in NewOrders /\ NewOrder(v, e).exit = e /\ NewOrder(v, e).sym = v.sym
  BY DEF Wish, NewOrder, NewOrders, OrderSet, Statuses, Whys, Days
<1>3. /\ UNCHANGED <<mode, now, pc, mark, matching>>
      /\ UNCHANGED <<long, short, wealth, pnl, fees, dividends, borrowed, trade>>
  BY DEF RiskExit, Adjust, Wants, positions
<1>4. QueueInv'
  <2>1. CASE RiskExit(s, hook)
    <3> DEFINE v == Market(s, Against(s), Size(trade[s].qty))
    <3>1. trade[s].qty \in Int /\ trade[s].qty # 0 BY <1>1, <2>1 DEF BrokerBooks, BooksTyped, RiskExit, Looked
    <3>2. Size(trade[s].qty) \in Nat \ {0} BY <3>1 DEF Size
    <3>3. v \in Wish
          /\ v.sym = s
      BY <3>2 DEF Wish, Market, Against, OrderTypes
    <3>4. NewOrder(v, "risk") \in NewOrders /\ NewOrder(v, "risk").sym = s BY <1>2, <3>3
    <3>5. Submits(NewOrder(v, "risk"), hook) /\ ~ExitPending(s) BY <2>1 DEF RiskExit, Looked
    <3> QED BY <1>1, <1>3, <3>4, <3>5, SubmitKeepsQueue
  <2>2. CASE Adjust(s, side, 1, hook)
    <3> DEFINE v == Market(s, side, 1)
               e == IF side = Along(s) THEN "none" ELSE "partial"
    <3>1. v \in Wish
      BY DEF Wish, Market, OrderTypes
    <3>2. NewOrder(v, e) \in NewOrders /\ NewOrder(v, e).exit # "risk" BY <1>2, <3>1
    <3>3. Submits(NewOrder(v, e), hook) BY <2>2 DEF Adjust
    <3> HIDE DEF v, e
    <3> QED BY <1>1, <1>3, <3>2, <3>3, SubmitKeepsQueue
  <2>3. CASE w \in Wishes /\ Wants(w, hook)
    <3>1. w \in Wish
      BY <2>3, BacktestAssumption
    <3>2. NewOrder(w, "none") \in NewOrders /\ NewOrder(w, "none").exit # "risk" BY <1>2, <3>1
    <3>3. Submits(NewOrder(w, "none"), hook) BY <2>3 DEF Wants
    <3> QED BY <1>1, <1>3, <3>2, <3>3, SubmitKeepsQueue
  <2> QED BY <2>1, <2>2, <2>3
<1>5. Clock' BY <1>1, <1>3 DEF Clock
<1> QED BY <1>1, <1>3, <1>4, <1>5, BooksStay DEF BrokerInv

\* The invariant is inductive.
LEMMA StepsKeepInv == ASSUME BrokerInv, [BacktestNext]_brokerVars PROVE BrokerInv'
<1>1. ASSUME NEW bs \in BarSets, NextBars(bs) PROVE BrokerInv' BY <1>1, BarsKeepInv
<1>2. ASSUME NEW i \in matching, NotFilled(i) \/ LimitHit(i) \/ FillBuy(i) \/ FillSell(i) PROVE BrokerInv'
  BY <1>2, MatchKeepsInv DEF MatchStep
<1>3. CASE Expire BY <1>3, ExpireKeepsInv
<1>4. CASE End BY <1>4, EndKeepsInv
<1>5. CASE TurnStep \/ UNCHANGED brokerVars BY <1>5, TurnKeepsInv
<1>6. ASSUME NEW hook \in Hooks, NEW s \in Syms, RiskExit(s, hook) PROVE BrokerInv'
  BY <1>6, OrdersKeepInv
<1>7. ASSUME NEW hook \in Hooks, NEW s \in Syms, NEW side \in {"BUY", "SELL"}, Adjust(s, side, 1, hook)
      PROVE  BrokerInv'
  BY <1>7, OrdersKeepInv
<1>8. ASSUME NEW hook \in Hooks, NEW w \in Wishes, Wants(w, hook) PROVE BrokerInv'
  <2>1. w.sym \in Syms BY BacktestAssumption DEF Wish
  <2> QED BY <1>8, <2>1, OrdersKeepInv
<1> QED BY <1>1, <1>2, <1>3, <1>4, <1>5, <1>6, <1>7, <1>8 DEF BacktestNext, TurnStep

\* It holds before the first bar.
LEMMA InvHoldsAtFirst == BacktestInit => BrokerInv
<1> SUFFICES ASSUME BacktestInit PROVE BrokerInv OBVIOUS
<1>1. /\ mode \in Modes /\ now = 0 /\ pc = "strategy" /\ mark = 0
      /\ order = <<>> /\ pending = {} /\ matching = {}
      /\ long = [s \in Syms |-> <<>>] /\ short = [s \in Syms |-> <<>>] /\ trade = [s \in Syms |-> NoTrade]
      /\ wealth = Cash0 /\ pnl = 0 /\ fees = 0 /\ dividends = 0 /\ borrowed = 0 /\ today = [count |-> 0, day |-> 0]
      /\ ledger = 0 /\ overflow = 0 /\ accepted = [d \in Days |-> 0]
  BY DEF BacktestInit
<1>2. DOMAIN order = {} /\ order \in Seq(OrderSet) BY <1>1
<1>3. Clock
  <2>1. Len(DayOf) \in Nat BY TimeAssumption
  <2> QED BY <1>1, <2>1 DEF Clock
<1>4. QueueInv
  <2>1. OrdersTyped /\ QueueIsOpen /\ QuantityIsKept /\ ExpiryIsKept /\ OneRiskExit
    BY <1>1, <1>2 DEF OrdersTyped, QueueIsOpen, QuantityIsKept, ExpiryIsKept, OneRiskExit
  <2>2. day = 0 /\ 0 \in Days BY <1>1 DEF day, Days
  <2>3. CountsToday BY <1>1, <2>2 DEF CountsToday, OrdersToday
  <2>4. CountIsOfTheDay BY <1>1, <1>2, BacktestAssumption DEF CountIsOfTheDay
  <2>5. LedgerKept
    <3>1. RefusedOrders = {} BY <1>2 DEF RefusedOrders
    <3>2. Cardinality(RefusedOrders) = 0 BY <3>1, FS_EmptySet
    <3> QED BY <1>1, <3>2, BacktestAssumption DEF LedgerKept, RefusalsAreRecorded, RefusedOrders
  <2> QED BY <2>1, <2>3, <2>4, <2>5 DEF QueueInv
<1>5. BrokerBooks
  <2>1. <<>> \in Seq(LotSet) OBVIOUS
  <2>2. Qty(<<>>) = 0 /\ Cost(<<>>) = 0 BY <2>1, QtyOfLots, CostOfLots
  <2>3. BooksTyped BY <1>1, <2>1, BacktestAssumption DEF BooksTyped, NoTrade
  <2>4. TradeIsPosition BY <1>1, <2>2 DEF TradeIsPosition, net, NoTrade
  <2>5. LotsBalance
    <3> DEFINE f == [s \in Syms |-> Cost(long[s])]
    <3>1. \A s \in Syms : f[s] = 0 BY <1>1, <2>2
    <3>2. f = [s \in Syms |-> Cost(short[s])] BY <1>1
    <3> HIDE DEF f
    <3>3. SumFunctionOnSet(f, Syms) = 0
      <4>1. SumFunctionOnSet(f, Syms) = SumFunctionOnSet(f, {})
        <5>1. {} \in SUBSET Syms /\ (\A s \in Syms : f[s] \in Int) /\ (\A s \in Syms \ {} : f[s] = 0)
          BY <3>1
        <5> QED BY <5>1, SymsAreFinite, SumPart
      <4> QED BY <4>1, SumEmpty
    <3>4. Cash0 \in Int BY BacktestAssumption
    <3> QED BY <1>1, <3>2, <3>3, <3>4 DEF LotsBalance, f
  <2>6. CashIsBounded BY <1>1, BacktestAssumption DEF CashIsBounded
  <2> QED BY <2>3, <2>4, <2>5, <2>6 DEF BrokerBooks
<1> QED BY <1>3, <1>4, <1>5 DEF BrokerInv

\* No step touches an order that is not in the queue.
LEMMA ClosedStays ==
  ASSUME BrokerInv, [BacktestNext]_brokerVars, NEW n \in DOMAIN order, n \notin pending
  PROVE  order'[n] = order[n]
<1>1. Clock /\ QueueInv /\ BooksTyped BY DEF BrokerInv, BrokerBooks
<1>2. /\ order \in Seq(OrderSet) /\ matching \subseteq pending
      /\ DOMAIN order = 1..Len(order) /\ Len(order) \in Nat
  BY <1>1 DEF QueueInv, OrdersTyped
<1>3. ASSUME NEW i \in matching, NotFilled(i) \/ LimitHit(i) \/ FillBuy(i) \/ FillSell(i)
      PROVE  order'[n] = order[n]
  <2>1. i # n BY <1>2
  <2>2. order' = order \/ \E x : order' = [order EXCEPT ![i] = x]
    <3>1. CASE NotFilled(i) BY <3>1 DEF NotFilled, queue
    <3>2. CASE LimitHit(i) BY <3>2 DEF LimitHit, Rejects
    <3>3. CASE FillBuy(i) BY <3>3 DEF FillBuy, Rejects, Fills
    <3>4. CASE FillSell(i) BY <3>4 DEF FillSell, Rejects, Fills
    <3> QED BY <1>3, <3>1, <3>2, <3>3, <3>4
  <2> QED BY <2>1, <2>2
<1>4. ASSUME NEW o, NEW hook \in Hooks, Submits(o, hook) PROVE order'[n] = order[n]
  <2>1. \E x : order' = Append(order, x) BY <1>4 DEF Submits
  <2> QED BY <1>2, <2>1
<1>5. CASE Expire BY <1>5 DEF Expire
<1>6. CASE End BY <1>6 DEF End
<1>7. ASSUME NEW bs \in BarSets, NextBars(bs) PROVE order'[n] = order[n] BY <1>7 DEF NextBars, queue
<1>8. CASE ExitsDone \/ AdjustsDone \/ StrategyDone \/ UNCHANGED brokerVars
  BY <1>8 DEF ExitsDone, AdjustsDone, StrategyDone, brokerVars, queue
<1>9. ASSUME NEW hook \in Hooks, NEW s \in Syms, RiskExit(s, hook) PROVE order'[n] = order[n]
  BY <1>4, <1>9 DEF RiskExit
<1>10. ASSUME NEW hook \in Hooks, NEW s \in Syms, NEW side \in {"BUY", "SELL"}, Adjust(s, side, 1, hook)
       PROVE  order'[n] = order[n]
  BY <1>4, <1>10 DEF Adjust
<1>11. ASSUME NEW hook \in Hooks, NEW w \in Wishes, Wants(w, hook) PROVE order'[n] = order[n]
  BY <1>4, <1>11 DEF Wants
<1> QED BY <1>3, <1>5, <1>6, <1>7, <1>8, <1>9, <1>10, <1>11 DEF BacktestNext

\* It holds of every backtest.
LEMMA BrokerInvHolds == BacktestSpec => []BrokerInv
<1>1. BacktestInit => BrokerInv BY InvHoldsAtFirst
<1>2. BrokerInv /\ [BacktestNext]_brokerVars => BrokerInv' BY StepsKeepInv
<1> QED BY <1>1, <1>2, PTL DEF BacktestSpec

\* A backtest's orders are accounted for from request to end: each is filled, void,
\* waiting or refused, by number and by quantity, within its day's limit and its
\* time, and a closed one never trades again (broker.py, portfolio_engine.py).
THEOREM OrdersStayKept == BacktestSpec => OrdersAreKept
<1>1. BrokerInv => QuantityIsKept /\ ExpiryIsKept /\ CountIsOfTheDay /\ RefusalsAreRecorded
  BY DEF BrokerInv, QueueInv, LedgerKept
<1>2. BrokerInv /\ [BacktestNext]_brokerVars =>
        [\A i \in DOMAIN order :
           order[i].status \in {"FILLED", "CANCELLED", "REJECTED"} => order'[i] = order[i]]_brokerVars
  <2> SUFFICES ASSUME BrokerInv, [BacktestNext]_brokerVars, NEW i \in DOMAIN order,
                      order[i].status \in {"FILLED", "CANCELLED", "REJECTED"}
               PROVE  order'[i] = order[i]
    OBVIOUS
  <2>1. i \notin pending BY DEF BrokerInv, QueueInv, QueueIsOpen
  <2> QED BY <2>1, ClosedStays
<1> QED BY <1>1, <1>2, BrokerInvHolds, PTL DEF OrdersAreKept, ClosedIsClosed, BacktestSpec

\* Lots, cash, profit, fees and trade of a backtest tell one story, cash falls below
\* zero by less than a fee, and a position has one risk exit (broker.py, trade.py).
THEOREM BooksStayBalanced == BacktestSpec => []BooksBalance
<1>1. BrokerInv => BooksBalance
  <2> SUFFICES ASSUME BrokerInv PROVE BooksBalance OBVIOUS
  <2>1. Clock /\ QueueInv /\ BrokerBooks BY DEF BrokerInv
  <2>2. /\ \A i \in DOMAIN order : order[i].status \in Statuses /\ order[i].qty >= 0
        /\ pending \subseteq DOMAIN order /\ matching \subseteq pending
    <3>1. OrdersTyped BY <2>1 DEF QueueInv
    <3>2. \A i \in DOMAIN order : order[i] \in OrderSet BY <3>1 DEF OrdersTyped
    <3>3. \A t \in OrderSet : t.status \in Statuses /\ t.qty >= 0 BY DEF OrderSet
    <3>4. pending \subseteq DOMAIN order /\ matching \subseteq pending
      BY <3>1 DEF OrdersTyped
    <3> QED BY <3>2, <3>3, <3>4
  <2>3. pending = {i \in DOMAIN order : order[i].status \in {"PENDING", "PARTIAL"}}
    BY <2>1, <2>2 DEF QueueInv, QueueIsOpen
  <2>4. BrokerTypeOK BY <2>1, <2>2, <2>3 DEF BrokerTypeOK, Clock, QueueInv, LedgerKept
  <2> QED BY <2>1, <2>4 DEF BooksBalance, BrokerBooks, QueueInv
<1> QED BY <1>1, BrokerInvHolds, PTL
=============================================================================
