---------------------------- MODULE OrderManager ----------------------------
(***************************************************************************)
(* The order management system (oms/manager.py, class OrderManager) in     *)
(* front of one asynchronous broker gateway.                               *)
(*                                                                         *)
(* Every coroutine of the OMS runs on one asyncio event loop, so a piece   *)
(* of code without an await is one step, and each await of a gateway call  *)
(* is a point where the other coroutines run.  The coroutines are:         *)
(*   - submit_order, one per element of Ids;                               *)
(*   - cancel_order, at most one in flight per order;                      *)
(*   - _poll_loop / _sync_active_orders, a single task.                    *)
(* The broker, on the other side of the gateway, accepts, fills and closes *)
(* orders on its own, and its replies reach the OMS some time after they   *)
(* were computed: what an await returns may be stale.                      *)
(*                                                                         *)
(* Event publishing, audit and notifications do not read or write order    *)
(* state and are left out.  ProtectionManager.check_entry is a free choice *)
(* here (its own module says when it refuses).                             *)
(***************************************************************************)
EXTENDS Integers, FiniteSets
LOCAL INSTANCE FiniteSetsExt

CONSTANTS
  Ids,            \* order ids: one LiveOrder object per submit_order call
  Symbol,         \* [Ids -> symbols]
  Side,           \* [Ids -> {"BUY", "SELL"}]
  Qty,            \* [Ids -> Int], the qty the caller asks for
  MAX_ORDER_QTY,  \* the hard limit of _pre_trade_risk_check
  Gateway,        \* which gateway serves the market: "futu" or "alpaca"
  LongOnly,       \* TRUE iff the LongOnly control is installed
  MaxCount,       \* the limit of the installed MaxOrderCount control
  OnError,        \* on_error of the controls: "log" or "fail"
  DayEnds,        \* TRUE iff a closed order may leave the broker's order list
  None            \* no order / no reply

ASSUME SideAssumption == Side \in [Ids -> {"BUY", "SELL"}]
ASSUME QtyAssumption == Qty \in [Ids -> Int]
ASSUME GatewayAssumption == Gateway \in {"futu", "alpaca"}
ASSUME LimitAssumption == MaxCount \in Nat /\ MAX_ORDER_QTY \in Nat
ASSUME FlagAssumption == LongOnly \in BOOLEAN /\ DayEnds \in BOOLEAN
ASSUME OnErrorAssumption == OnError \in {"log", "fail"}
ASSUME NoneAssumption == None \notin Ids

VARIABLES
  \* the OMS
  orders,           \* ids recorded in self._orders
  status,           \* LiveOrder.status
  filled_qty,       \* LiveOrder.filled_qty
  broker_order_id,  \* TRUE iff LiveOrder.broker_order_id is set
  submit,           \* where each submit_order coroutine is
  cancel,           \* where each cancel_order coroutine is
  running,          \* self._running: the poll task is alive
  pollTodo,         \* rest of the poll round's snapshot of active orders
  pollCur,          \* the order whose get_order is awaited, or None
  pollReply,        \* the reply on its way to the poll task, or None
  \* the broker
  wire,             \* the submit request: "none", "sent", "ok", "err"
  state,            \* the broker's state of the order
  executed,         \* the quantity it has executed
  cancelling,       \* TRUE iff it has accepted a cancel request
  listed            \* TRUE iff the order is in its order list

omsVars == <<orders, status, filled_qty, broker_order_id>>
pollVars == <<running, pollTodo, pollCur, pollReply>>
brokerVars == <<wire, state, executed, cancelling, listed>>
vars == <<omsVars, submit, cancel, pollVars, brokerVars>>

-----------------------------------------------------------------------------
(* Types *)

\* LiveOrderStatus
Status == {"pending_submit", "submitted", "partial", "filled",
           "cancelled", "rejected", "expired"}

\* The statuses is_active accepts.
Active == {"pending_submit", "submitted", "partial"}

\* Broker states: an order is live until it is closed.
Live == {"working", "partial"}
Closed == {"filled", "cancelled", "rejected", "expired"}

\* LiveOrder.is_active
is_active(o) == status[o] \in Active

\* The statuses _apply_broker_update recognises (its status_map).
StatusMap == Status \ {"pending_submit"}

\* Status strings a gateway may put in its reply; "" when it says nothing.
RawStatus == StatusMap \union {"", "new", "partially_filled", "pending_cancel",
                                 "canceled"}

Replies == [status : RawStatus, filled_qty : Nat]

-----------------------------------------------------------------------------
(* Gateways: how a broker state is reported by get_order *)

\* _futu_row_to_dict with _FUTU_STATUS_MAP; a row that is being cancelled
\* (CANCELLING_PART / CANCELLING_ALL) reads "submitted".
futu_status(o) ==
  IF state[o] = "working" \/ (state[o] \in Live /\ cancelling[o])
  THEN "submitted" ELSE state[o]

\* _alpaca_order_to_dict hands out the broker's own status string.
alpaca_status(o) ==
  CASE state[o] \in Live /\ cancelling[o] -> "pending_cancel"
    [] state[o] = "working"   -> "new"
    [] state[o] = "partial"   -> "partially_filled"
    [] state[o] = "cancelled" -> "canceled"
    [] OTHER                  -> state[o]

\* Mutant: an order that closed early is reported without its executions.
GetOrderReplyDropsFills(o) ==
  [status |-> futu_status(o),
   filled_qty |-> IF state[o] \in {"cancelled", "expired"} THEN 0 ELSE executed[o]]

\* What get_order returns for an order the broker knows; FutuGateway answers
\* {} when its order list query is empty.
GetOrderReply(o) ==
  IF Gateway = "alpaca" THEN [status |-> alpaca_status(o), filled_qty |-> executed[o]]
  ELSE IF listed[o] THEN [status |-> futu_status(o), filled_qty |-> executed[o]]
  ELSE [status |-> "", filled_qty |-> 0]

-----------------------------------------------------------------------------
(* The checks of submit_order *)

\* _pre_trade_risk_check
RiskViolation(o) == Qty[o] <= 0 \/ Qty[o] > MAX_ORDER_QTY

Signed(o, n) == IF Side[o] = "BUY" THEN n ELSE -n

\* _net_position: the filled quantities of the recorded orders of a symbol.
net_position(sym) ==
  MapThenSumSet(LAMBDA o : Signed(o, filled_qty[o]),
                {o \in orders : Symbol[o] = sym})

\* _orders_today: every recorded order counts, refused ones included.
orders_today == Cardinality(orders)

\* run_controls over the installed MaxOrderCount and LongOnly.
ControlViolation(o) ==
  \/ orders_today >= MaxCount
  \/ LongOnly /\ net_position(Symbol[o]) + Signed(o, Qty[o]) < 0
-----------------------------------------------------------------------------
Init ==
  /\ orders = {}
  /\ status = [o \in Ids |-> "pending_submit"]
  /\ filled_qty = [o \in Ids |-> 0]
  /\ broker_order_id = [o \in Ids |-> FALSE]
  /\ submit = [o \in Ids |-> "new"]
  /\ cancel = [o \in Ids |-> "none"]
  /\ running = TRUE
  /\ pollTodo = {}
  /\ pollCur = None
  /\ pollReply = None
  /\ wire = [o \in Ids |-> "none"]
  /\ state = [o \in Ids |-> "none"]
  /\ executed = [o \in Ids |-> 0]
  /\ cancelling = [o \in Ids |-> FALSE]
  /\ listed = [o \in Ids |-> TRUE]

-----------------------------------------------------------------------------
(* submit_order *)

\* RiskViolationError, TradingControlViolationError (on_error "fail") or,
\* once the checks pass, a gateway that is missing or not connected: the
\* call raises and leaves no record of the order.
SubmitRaises(o) ==
  /\ submit[o] = "new"
  /\ RiskViolation(o) \/ (ControlViolation(o) => OnError = "fail")
  /\ submit' = [submit EXCEPT ![o] = "raised"]
  /\ UNCHANGED <<omsVars, cancel, pollVars, brokerVars>>

\* The order is refused before it is sent, by a control whose on_error is
\* "log" (_reject_by_control) or, for a BUY, by a protection lock: it is
\* recorded as REJECTED.
SubmitRefused(o) ==
  /\ submit[o] = "new"
  /\ ~RiskViolation(o)
  /\ \/ ControlViolation(o) /\ OnError = "log"
     \/ ~ControlViolation(o) /\ Side[o] = "BUY"
  /\ submit' = [submit EXCEPT ![o] = "returned"]
  /\ status' = [status EXCEPT ![o] = "rejected"]
  /\ orders' = orders \union {o}
  /\ UNCHANGED <<filled_qty, broker_order_id, cancel, pollVars, brokerVars>>

\* All checks pass and submit_order awaits the gateway.  The order is not in
\* the order book yet: it is recorded when the await returns.
SubmitSends(o) ==
  /\ submit[o] = "new"
  /\ ~RiskViolation(o)
  /\ ~ControlViolation(o)
  /\ submit' = [submit EXCEPT ![o] = "placing"]
  /\ wire' = [wire EXCEPT ![o] = "sent"]
  /\ UNCHANGED <<omsVars, cancel, pollVars, state, executed, cancelling, listed>>

\* The gateway returns the broker's order id.
SubmitReturns(o) ==
  /\ submit[o] = "placing"
  /\ wire[o] = "ok"
  /\ submit' = [submit EXCEPT ![o] = "returned"]
  /\ broker_order_id' = [broker_order_id EXCEPT ![o] = TRUE]
  /\ status' = [status EXCEPT ![o] =
                  IF @ \in {"filled", "partial"} THEN @ ELSE "submitted"]
  /\ orders' = orders \union {o}
  /\ UNCHANGED <<filled_qty, cancel, pollVars, brokerVars>>

\* The gateway raises: the order is recorded as REJECTED, without broker id.
SubmitFails(o) ==
  /\ submit[o] = "placing"
  /\ wire[o] = "err"
  /\ submit' = [submit EXCEPT ![o] = "returned"]
  /\ status' = [status EXCEPT ![o] = "rejected"]
  /\ orders' = orders \union {o}
  /\ UNCHANGED <<filled_qty, broker_order_id, cancel, pollVars, brokerVars>>

\* The task that awaits submit_order is cancelled (AlgoExecutor.cancel_algo,
\* StrategyEngine.stop_strategy): CancelledError is no Exception, so nothing
\* is recorded, while the request goes on in the gateway's thread.
SubmitCancelled(o) ==
  /\ submit[o] = "placing"
  /\ submit' = [submit EXCEPT ![o] = "cancelled"]
  /\ UNCHANGED <<omsVars, cancel, pollVars, brokerVars>>

-----------------------------------------------------------------------------
(* cancel_order.  The calls that raise ValueError (unknown order, order not *)
(* active, no broker id) change nothing and are not actions.                *)

CancelSends(o) ==
  /\ o \in orders
  /\ is_active(o)
  /\ broker_order_id[o]
  /\ cancel[o] = "none"
  /\ cancel' = [cancel EXCEPT ![o] = "sent"]
  /\ UNCHANGED <<omsVars, submit, pollVars, brokerVars>>

\* The gateway returns: the order is CANCELLED, whatever happened to it
\* during the await.
CancelReturns(o) ==
  /\ cancel[o] = "ok"
  /\ cancel' = [cancel EXCEPT ![o] = "none"]
  /\ status' = [status EXCEPT ![o] = "cancelled"]
  /\ UNCHANGED <<orders, filled_qty, broker_order_id, submit, pollVars, brokerVars>>

\* Mutant: the gateway's exception is swallowed and the order marked.
CancelRaisesSwallowed(o) ==
  /\ cancel[o] = "err"
  /\ cancel' = [cancel EXCEPT ![o] = "none"]
  /\ status' = [status EXCEPT ![o] = "cancelled"]
  /\ UNCHANGED <<orders, filled_qty, broker_order_id, submit, pollVars, brokerVars>>

CancelRaises(o) ==
  /\ cancel[o] = "err"
  /\ cancel' = [cancel EXCEPT ![o] = "none"]
  /\ UNCHANGED <<omsVars, submit, pollVars, brokerVars>>

-----------------------------------------------------------------------------
(* _poll_loop and _sync_active_orders *)

\* Mutant: partly filled orders are no longer polled.
SnapshotSubmitted == {o \in orders : status[o] \in {"pending_submit", "submitted"}}

\* The orders a poll round will ask about.
Snapshot == {o \in orders : is_active(o)}

PollIdle == pollTodo = {} /\ pollCur = None

\* The sleep ends and a round starts with the orders active at that moment.
PollRound ==
  /\ running
  /\ PollIdle
  /\ Snapshot # {}
  /\ pollTodo' = Snapshot
  /\ UNCHANGED <<omsVars, submit, cancel, running, pollCur, pollReply, brokerVars>>

\* The round's next order: without a broker id it is skipped, otherwise
\* get_order is awaited.  Whether it is still active is not looked at again.
PollNext(o) ==
  /\ pollCur = None
  /\ o \in pollTodo
  /\ pollTodo' = pollTodo \ {o}
  /\ pollCur' = IF broker_order_id[o] THEN o ELSE None
  /\ UNCHANGED <<omsVars, submit, cancel, running, pollReply, brokerVars>>

\* The reply is consumed, with these effects on the order.
Applies(o, newFilled, newStatus) ==
  /\ pollCur = o
  /\ pollReply # None
  /\ filled_qty' = [filled_qty EXCEPT ![o] = newFilled]
  /\ status' = [status EXCEPT ![o] = newStatus]
  /\ pollCur' = None
  /\ pollReply' = None
  /\ UNCHANGED <<orders, broker_order_id, submit, cancel, running, pollTodo, brokerVars>>

\* The reply's status, or the order's own when the string is unknown.
MappedStatus(o) ==
  IF pollReply.status \in StatusMap THEN pollReply.status ELSE status[o]

\* Mutants: the raw status is stored as it comes; a partial fill counts as the
\* whole order; the quantity is read only from replies that announce a fill.
PollAppliesRaw(o) == Applies(o, pollReply.filled_qty, pollReply.status)

PollAppliesWhole(o) ==
  Applies(o, IF pollReply.status \in {"partial", "filled"} THEN Qty[o] ELSE pollReply.filled_qty,
          MappedStatus(o))

PollAppliesOnFill(o) ==
  Applies(o, IF pollReply.status \in {"partial", "filled"} THEN pollReply.filled_qty
             ELSE filled_qty[o],
          MappedStatus(o))

\* _apply_broker_update: quantity and status are overwritten with the reply;
\* an unknown status string leaves the status as it is.
PollApplies(o) == Applies(o, pollReply.filled_qty, MappedStatus(o))

\* get_order raises: the round goes on with the next order.
PollFails ==
  /\ pollCur # None
  /\ pollReply = None
  /\ pollCur' = None
  /\ UNCHANGED <<omsVars, submit, cancel, running, pollTodo, pollReply, brokerVars>>

\* stop(): the poll task is cancelled wherever it is.
Stop ==
  /\ running
  /\ running' = FALSE
  /\ pollTodo' = {}
  /\ pollCur' = None
  /\ pollReply' = None
  /\ UNCHANGED <<omsVars, submit, cancel, brokerVars>>

\* start()
Start ==
  /\ ~running
  /\ running' = TRUE
  /\ UNCHANGED <<omsVars, submit, cancel, pollTodo, pollCur, pollReply, brokerVars>>

\* The process dies and the application starts again: the order book is in
\* memory only, so every order of the old process is forgotten, and so are
\* its pending calls.  (The forgotten LiveOrder objects keep their last
\* values in the model; nothing reads them.)
Restart ==
  /\ orders' = {}
  /\ submit' = [o \in Ids |-> IF submit[o] = "new" THEN "new" ELSE "gone"]
  /\ cancel' = [o \in Ids |-> "none"]
  /\ running' = TRUE
  /\ pollTodo' = {}
  /\ pollCur' = None
  /\ pollReply' = None
  /\ UNCHANGED <<status, filled_qty, broker_order_id, brokerVars>>

-----------------------------------------------------------------------------
(* The broker behind the gateway *)

\* The submit request is accepted; the reply may get lost on its way back,
\* which the gateway reports as a failure.
BrokerAccepts(o) ==
  /\ wire[o] = "sent"
  /\ \E reply \in {"ok", "err"} : wire' = [wire EXCEPT ![o] = reply]
  /\ state' = [state EXCEPT ![o] = "working"]
  /\ UNCHANGED <<omsVars, submit, cancel, pollVars, executed, cancelling, listed>>

\* The submit request is refused, or never arrives.
BrokerRefuses(o) ==
  /\ wire[o] = "sent"
  /\ wire' = [wire EXCEPT ![o] = "err"]
  /\ UNCHANGED <<omsVars, submit, cancel, pollVars, state, executed, cancelling, listed>>

BrokerFills(o) ==
  /\ state[o] \in Live
  /\ \E n \in (executed[o] + 1) .. Qty[o] :
        /\ executed' = [executed EXCEPT ![o] = n]
        /\ state' = [state EXCEPT ![o] = IF n = Qty[o] THEN "filled" ELSE "partial"]
  /\ UNCHANGED <<omsVars, submit, cancel, pollVars, wire, cancelling, listed>>

\* The order ends unfilled or partly filled: it is cancelled, from here or in the
\* broker's own application, the day ends, or the exchange rejects what the
\* broker had accepted.
BrokerCloses(o) ==
  /\ state[o] \in Live
  /\ \E end \in {"cancelled", "expired", "rejected"} :
        /\ end = "rejected" => executed[o] = 0
        /\ state' = [state EXCEPT ![o] = end]
  /\ UNCHANGED <<omsVars, submit, cancel, pollVars, wire, executed, cancelling, listed>>

\* A cancel request is accepted: the broker will try to cancel the order,
\* which may still fill first.
BrokerAcceptsCancel(o) ==
  /\ cancel[o] = "sent"
  /\ state[o] \in Live
  /\ cancelling' = [cancelling EXCEPT ![o] = TRUE]
  /\ cancel' = [cancel EXCEPT ![o] = "ok"]
  /\ UNCHANGED <<omsVars, submit, pollVars, wire, state, executed, listed>>

\* A cancel request is refused (the order is closed) or lost.
BrokerRefusesCancel(o) ==
  /\ cancel[o] = "sent"
  /\ cancel' = [cancel EXCEPT ![o] = "err"]
  /\ UNCHANGED <<omsVars, submit, pollVars, brokerVars>>

\* The broker computes the answer to the outstanding get_order.
BrokerAnswers(o) ==
  /\ pollCur = o
  /\ pollReply = None
  /\ pollReply' = GetOrderReply(o)
  /\ UNCHANGED <<omsVars, submit, cancel, running, pollTodo, pollCur, brokerVars>>

\* A closed order drops out of the broker's list of the day's orders.
BrokerUnlists(o) ==
  /\ DayEnds
  /\ state[o] \in Closed
  /\ listed[o]
  /\ listed' = [listed EXCEPT ![o] = FALSE]
  /\ UNCHANGED <<omsVars, submit, cancel, pollVars, wire, state, executed, cancelling>>

-----------------------------------------------------------------------------
SubmitOrder(o) ==
  \/ SubmitRaises(o)
  \/ SubmitRefused(o)
  \/ SubmitSends(o)
  \/ SubmitReturns(o)
  \/ SubmitFails(o)
  \/ SubmitCancelled(o)

CancelOrder(o) ==
  \/ CancelSends(o)
  \/ CancelReturns(o)
  \/ CancelRaises(o)

Poll(o) ==
  \/ PollNext(o)
  \/ PollApplies(o)

Broker(o) ==
  \/ BrokerAccepts(o)
  \/ BrokerRefuses(o)
  \/ BrokerFills(o)
  \/ BrokerCloses(o)
  \/ BrokerAcceptsCancel(o)
  \/ BrokerRefusesCancel(o)
  \/ BrokerAnswers(o)
  \/ BrokerUnlists(o)

Lifecycle == Stop \/ Start \/ Restart

Next ==
  \/ \E o \in Ids : SubmitOrder(o) \/ CancelOrder(o) \/ Poll(o) \/ Broker(o)
  \/ PollRound
  \/ PollFails
  \/ Lifecycle

Spec == Init /\ [][Next]_vars

\* The event loop runs every ready task, so the poll task moves on; and a
\* broker that is asked about an order again and again answers at last.
\* Nothing is assumed of callers, of fills, or of Stop and Start.
Fairness ==
  /\ WF_vars(PollRound)
  /\ \A o \in Ids : WF_vars(PollNext(o)) /\ WF_vars(PollApplies(o))
  /\ WF_vars(PollFails \/ \E o \in Ids : BrokerAnswers(o))
  /\ \A o \in Ids : SF_vars(BrokerAnswers(o))

FairSpec == Spec /\ Fairness

-----------------------------------------------------------------------------
(* Properties *)

TypeOK ==
  /\ orders \subseteq Ids
  /\ status \in [Ids -> Status]
  /\ filled_qty \in [Ids -> Nat]
  /\ broker_order_id \in [Ids -> BOOLEAN]
  /\ submit \in [Ids -> {"new", "placing", "returned", "raised", "cancelled", "gone"}]
  /\ cancel \in [Ids -> {"none", "sent", "ok", "err"}]
  /\ running \in BOOLEAN
  /\ pollTodo \subseteq Ids
  /\ pollCur \in Ids \union {None}
  /\ pollReply \in Replies \union {None}
  /\ wire \in [Ids -> {"none", "sent", "ok", "err"}]
  /\ state \in [Ids -> Live \union Closed \union {"none"}]
  /\ executed \in [Ids -> Nat]
  /\ cancelling \in [Ids -> BOOLEAN]
  /\ listed \in [Ids -> BOOLEAN]

\* The OMS never reports more than the broker executed, and no order is
\* executed beyond its quantity: positions built from filled_qty
\* (_net_position) are backed by real executions, however stale the replies.
ReportedFillsAreReal ==
  \A o \in Ids : /\ filled_qty[o] <= executed[o]
                 /\ executed[o] > 0 => executed[o] <= Qty[o]

\* An order that is live at the broker, and whose submit_order returned the
\* broker's id, is still being polled (recorded and active), unless the broker
\* accepted a cancel for it: while the process lives, no other path drops a live
\* order.  A restart forgets them all: their submit is "gone".
NoLiveOrderForgotten ==
  \A o \in Ids :
    submit[o] = "returned" /\ wire[o] = "ok" /\ state[o] \in Live /\ ~cancelling[o]
      => o \in orders /\ is_active(o)

\* Once the OMS stops polling an order nobody cancelled, what it shows is the
\* broker's final word: the same status and the whole executed quantity.
\* Nothing would correct it later, since closed orders are never polled.
ClosedReportIsFinal ==
  \A o \in orders :
    broker_order_id[o] /\ ~is_active(o) /\ ~cancelling[o]
      => status[o] = state[o] /\ filled_qty[o] = executed[o]

\* An order the broker has closed does not stay active in the order book:
\* polling finds out, as long as the OMS runs, even when a reply that was
\* computed before a cancel reopened the order after it.
ActiveOrdersSettle ==
  \A o \in Ids :
    (o \in orders /\ is_active(o) /\ state[o] \in Closed)
      ~> (o \notin orders \/ ~is_active(o) \/ ~running)

\* The abstract ledger this module implements.
Ledger == INSTANCE OrderLedger WITH reported <- filled_qty

\* Every step of the OMS and of the broker is a step of the ledger or leaves
\* it alone (orders that stay in their broker's list).
LedgerSpec == Ledger!Spec
=============================================================================
