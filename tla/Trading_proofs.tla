--------------------------- MODULE Trading_proofs ---------------------------
(***************************************************************************)
(* Proofs about the order manager and the protections, for every set of    *)
(* orders, symbols and configurations, every quantity, lookback, stop      *)
(* duration and limit.                                                     *)
(*                                                                         *)
(* The order manager (OrderManager): none of the three safety properties   *)
(* is inductive.  That an old reply does no harm rests on what a reply may *)
(* say about an order while the broker goes on (ReplyInv), and that rests  *)
(* on which coroutine may be where (BookInv, CancelInv).                   *)
(*                                                                         *)
(* What check_entry answers is right (ProtectionManager): LocksHold speaks *)
(* of the moment after an answer.  What makes it hold is older: every lock *)
(* has a cause among the trades (Causes), a restart only forgets trades    *)
(* older than those the order book still has (BookHasLatest), so that      *)
(* renewing a lock never shortens it, and so what Redis has, or will have, *)
(* is in memory until it expires or is cleared (StoredInMemory).  S is a   *)
(* setting of the protections (Trading): the constants.                    *)
(***************************************************************************)
EXTENDS Trading, DataTheorems, TLAPS

-----------------------------------------------------------------------------
(* The inductive invariant *)

\* Where submit_order is, against the order book and the broker.
BookInv ==
  \A o \in Ids :
    /\ submit[o] = "new" => wire[o] = "none"
    /\ submit[o] \in {"new", "placing"} =>
         /\ o \notin orders
         /\ status[o] = "pending_submit"
         /\ ~broker_order_id[o]
    /\ broker_order_id[o] => wire[o] = "ok"
    /\ submit[o] = "returned" /\ wire[o] = "ok" => o \in orders /\ broker_order_id[o]
    /\ submit[o] = "returned" => wire[o] # "sent"

\* What the broker may have done, against the request it received.
BrokerInv ==
  \A o \in Ids :
    /\ wire[o] \in {"none", "sent"} => state[o] = "none"
    /\ wire[o] = "ok" => state[o] # "none"
    /\ executed[o] > 0 => executed[o] <= Qty[o]
    /\ state[o] = "none" => executed[o] = 0
    /\ ~DayEnds => listed[o]

\* A cancel request that was accepted leaves its mark at the broker.
CancelInv ==
  \A o \in Ids :
    /\ cancel[o] # "none" => o \in orders /\ broker_order_id[o]
    /\ cancel[o] = "ok" => cancelling[o]

\* The poll task: only recorded orders are asked about, once each, and those
\* that stopped being active since the snapshot were cancelled.
RoundInv ==
  /\ pollTodo \subseteq orders
  /\ pollCur # None => pollCur \in orders /\ broker_order_id[pollCur]
  /\ pollCur \notin pollTodo
  /\ pollReply # None => pollCur # None
  /\ \A o \in pollTodo \union {pollCur} :
        o # None => is_active(o) \/ cancelling[o] \/ ~broker_order_id[o]

\* However old the reply, its quantity was executed, and if it says the
\* order is closed then it is, with that quantity.
ReplyInv ==
  pollReply # None =>
    /\ pollReply.filled_qty <= executed[pollCur]
    /\ pollReply.status \in Closed =>
         /\ pollReply.status = state[pollCur]
         /\ pollReply.filled_qty = executed[pollCur]
    /\ ~DayEnds => filled_qty[pollCur] <= pollReply.filled_qty

IInv ==
  /\ TypeOK
  /\ BookInv
  /\ BrokerInv
  /\ CancelInv
  /\ RoundInv
  /\ ReplyInv
  /\ ReportedFillsAreReal
  /\ NoLiveOrderForgotten
  /\ ClosedReportIsFinal

-----------------------------------------------------------------------------
(* What a reply may say *)

\* A reply about an order the broker knows is well formed.
LEMMA ReplyType ==
  ASSUME TypeOK, NEW o \in Ids, state[o] # "none"
  PROVE  GetOrderReply(o) \in Replies
<1>1. executed[o] \in Nat /\ state[o] \in Live \union Closed
  BY DEF TypeOK
<1>2. futu_status(o) \in RawStatus /\ alpaca_status(o) \in RawStatus
  BY <1>1
     DEF futu_status, alpaca_status, RawStatus, StatusMap, Status, Live, Closed
<1>3. "" \in RawStatus
  BY DEF RawStatus
<1> QED
  BY <1>1, <1>2, <1>3 DEF GetOrderReply, Replies

\* A reply never exceeds the executed quantity; it calls an order closed only
\* if it is, and then with its final quantity; and it reports the executed
\* quantity unless the order has left the broker's list.
LEMMA ReplyTruth ==
  ASSUME TypeOK, NEW o \in Ids
  PROVE  /\ GetOrderReply(o).filled_qty <= executed[o]
         /\ GetOrderReply(o).status \in Closed =>
              /\ GetOrderReply(o).status = state[o]
              /\ GetOrderReply(o).filled_qty = executed[o]
         /\ listed[o] => GetOrderReply(o).filled_qty = executed[o]
<1>1. executed[o] \in Nat /\ state[o] \in Live \union Closed \union {"none"}
  BY DEF TypeOK
<1>2. futu_status(o) \in Closed => futu_status(o) = state[o]
  BY <1>1 DEF futu_status, Live, Closed
<1>3. alpaca_status(o) \in Closed => alpaca_status(o) = state[o]
  BY <1>1 DEF alpaca_status, Live, Closed
<1>4. CASE Gateway = "alpaca"
  BY <1>1, <1>3, <1>4 DEF GetOrderReply
<1>5. CASE Gateway # "alpaca" /\ listed[o]
  BY <1>1, <1>2, <1>5 DEF GetOrderReply
<1>6. CASE Gateway # "alpaca" /\ ~listed[o]
  <2>1. GetOrderReply(o).status = "" /\ GetOrderReply(o).filled_qty = 0
    BY <1>6 DEF GetOrderReply
  <2>2. 0 <= executed[o]
    BY <1>1
  <2> QED
    BY <1>6, <2>1, <2>2 DEF Closed
<1> QED
  BY <1>4, <1>5, <1>6

-----------------------------------------------------------------------------
(* Every step preserves the invariant: one lemma per part, one case per action *)
(* that touches the part's variables.                                          *)

\* Every variable keeps its type.  A reply is well formed because only orders
\* the broker knows are asked about.
LEMMA TypeOKStep ==
  ASSUME TypeOK, BookInv, BrokerInv, RoundInv, [Next]_vars
  PROVE  TypeOK'
<1>1. ASSUME NEW o \in Ids, SubmitRaises(o) PROVE TypeOK'
  BY <1>1 DEF SubmitRaises, TypeOK, omsVars, pollVars, brokerVars
<1>2. ASSUME NEW o \in Ids, SubmitRefused(o) PROVE TypeOK'
  BY <1>2 DEF SubmitRefused, TypeOK, Status, pollVars, brokerVars
<1>3. ASSUME NEW o \in Ids, SubmitSends(o) PROVE TypeOK'
  BY <1>3 DEF SubmitSends, TypeOK, omsVars, pollVars
<1>4. ASSUME NEW o \in Ids, SubmitReturns(o) PROVE TypeOK'
  BY <1>4 DEF SubmitReturns, TypeOK, Status, pollVars, brokerVars
<1>5. ASSUME NEW o \in Ids, SubmitFails(o) PROVE TypeOK'
  BY <1>5 DEF SubmitFails, TypeOK, Status, pollVars, brokerVars
<1>6. ASSUME NEW o \in Ids, SubmitCancelled(o) PROVE TypeOK'
  BY <1>6 DEF SubmitCancelled, TypeOK, omsVars, pollVars, brokerVars
<1>7. ASSUME NEW o \in Ids, CancelSends(o) PROVE TypeOK'
  BY <1>7 DEF CancelSends, TypeOK, omsVars, pollVars, brokerVars
<1>8. ASSUME NEW o \in Ids, CancelReturns(o) PROVE TypeOK'
  BY <1>8 DEF CancelReturns, TypeOK, Status, pollVars, brokerVars
<1>9. ASSUME NEW o \in Ids, CancelRaises(o) PROVE TypeOK'
  BY <1>9 DEF CancelRaises, TypeOK, omsVars, pollVars, brokerVars
<1>10. ASSUME NEW o \in Ids, PollNext(o) PROVE TypeOK'
  BY <1>10 DEF PollNext, TypeOK, omsVars, brokerVars
<1>11. ASSUME NEW o \in Ids, PollApplies(o) PROVE TypeOK'
  BY <1>11
     DEF PollApplies, Applies, MappedStatus, TypeOK, StatusMap, Replies,
         brokerVars
<1>12. ASSUME NEW o \in Ids, BrokerAccepts(o) PROVE TypeOK'
  <2>1. wire' \in [Ids -> {"none", "sent", "ok", "err"}]
    BY <1>12 DEF BrokerAccepts, TypeOK
  <2>2. state' \in [Ids -> Live \union Closed \union {"none"}]
    BY <1>12 DEF BrokerAccepts, TypeOK, Live
  <2> QED
    BY <1>12, <2>1, <2>2 DEF BrokerAccepts, TypeOK, omsVars, pollVars
<1>13. ASSUME NEW o \in Ids, BrokerRefuses(o) PROVE TypeOK'
  BY <1>13 DEF BrokerRefuses, TypeOK, omsVars, pollVars
<1>14. ASSUME NEW o \in Ids, BrokerFills(o) PROVE TypeOK'
  <2>1. PICK n \in (executed[o] + 1) .. Qty[o] :
          /\ executed' = [executed EXCEPT ![o] = n]
          /\ state' = [state EXCEPT ![o] = IF n = Qty[o] THEN "filled" ELSE "partial"]
    BY <1>14 DEF BrokerFills
  <2>2. n \in Nat
    BY QtyAssumption DEF TypeOK
  <2>3. /\ executed' \in [Ids -> Nat]
        /\ state' \in [Ids -> Live \union Closed \union {"none"}]
    BY <2>1, <2>2 DEF TypeOK, Live, Closed
  <2> QED
    BY <1>14, <2>3 DEF BrokerFills, TypeOK, omsVars, pollVars
<1>15. ASSUME NEW o \in Ids, BrokerCloses(o) PROVE TypeOK'
  <2>1. state' \in [Ids -> Live \union Closed \union {"none"}]
    BY <1>15 DEF BrokerCloses, TypeOK, Live, Closed
  <2> QED
    BY <1>15, <2>1 DEF BrokerCloses, TypeOK, omsVars, pollVars
<1>16. ASSUME NEW o \in Ids, BrokerAcceptsCancel(o) PROVE TypeOK'
  BY <1>16 DEF BrokerAcceptsCancel, TypeOK, omsVars, pollVars
<1>17. ASSUME NEW o \in Ids, BrokerRefusesCancel(o) PROVE TypeOK'
  BY <1>17 DEF BrokerRefusesCancel, TypeOK, omsVars, pollVars, brokerVars
<1>18. ASSUME NEW o \in Ids, BrokerAnswers(o) PROVE TypeOK'
  <2>1. state[o] # "none"
    BY <1>18, NoneAssumption DEF BrokerAnswers, RoundInv, BookInv, BrokerInv
  <2>2. pollReply' \in Replies
    BY <1>18, <2>1, ReplyType DEF BrokerAnswers
  <2> QED
    BY <1>18, <2>2 DEF BrokerAnswers, TypeOK, omsVars, brokerVars
<1>19. ASSUME NEW o \in Ids, BrokerUnlists(o) PROVE TypeOK'
  BY <1>19 DEF BrokerUnlists, TypeOK, omsVars, pollVars
<1>20. CASE PollRound
  BY <1>20 DEF PollRound, TypeOK, Snapshot, omsVars, brokerVars
<1>21. CASE PollFails
  BY <1>21 DEF PollFails, TypeOK, omsVars, brokerVars
<1>22. CASE Stop
  BY <1>22 DEF Stop, TypeOK, omsVars, brokerVars
<1>23. CASE Start
  BY <1>23 DEF Start, TypeOK, omsVars, brokerVars
<1>24. CASE Restart
  BY <1>24 DEF Restart, TypeOK, brokerVars
<1>25. CASE UNCHANGED vars
  BY <1>25 DEF TypeOK, vars, omsVars, pollVars, brokerVars
<1> QED
  BY <1>1, <1>2, <1>3, <1>4, <1>5, <1>6, <1>7, <1>8, <1>9, <1>10, <1>11,
     <1>12, <1>13, <1>14, <1>15, <1>16, <1>17, <1>18, <1>19, <1>20, <1>21,
     <1>22, <1>23, <1>24, <1>25
     DEF Next, SubmitOrder, CancelOrder, Poll, Broker, Lifecycle, vars, omsVars,
         pollVars, brokerVars

\* The order book keeps track of submit_order.
LEMMA BookStep ==
  ASSUME TypeOK, BookInv, CancelInv, RoundInv, [Next]_vars
  PROVE  BookInv'
<1>1. ASSUME NEW o \in Ids, SubmitRaises(o) PROVE BookInv'
  BY <1>1 DEF SubmitRaises, BookInv, omsVars, brokerVars
<1>2. ASSUME NEW o \in Ids, SubmitRefused(o) PROVE BookInv'
  BY <1>2 DEF SubmitRefused, TypeOK, BookInv, brokerVars
<1>3. ASSUME NEW o \in Ids, SubmitSends(o) PROVE BookInv'
  BY <1>3 DEF SubmitSends, TypeOK, BookInv, omsVars
<1>4. ASSUME NEW o \in Ids, SubmitReturns(o) PROVE BookInv'
  BY <1>4 DEF SubmitReturns, TypeOK, BookInv, brokerVars
<1>5. ASSUME NEW o \in Ids, SubmitFails(o) PROVE BookInv'
  BY <1>5 DEF SubmitFails, TypeOK, BookInv, brokerVars
<1>6. ASSUME NEW o \in Ids, SubmitCancelled(o) PROVE BookInv'
  BY <1>6 DEF SubmitCancelled, BookInv, omsVars, brokerVars
<1>7. ASSUME NEW o \in Ids, CancelReturns(o) PROVE BookInv'
  BY <1>7 DEF CancelReturns, BookInv, CancelInv, brokerVars
<1>8. ASSUME NEW o \in Ids, PollApplies(o) PROVE BookInv'
  BY <1>8 DEF PollApplies, Applies, MappedStatus, BookInv, RoundInv, brokerVars
<1>9. ASSUME NEW o \in Ids, BrokerAccepts(o) PROVE BookInv'
  BY <1>9 DEF BrokerAccepts, BookInv, omsVars
<1>10. ASSUME NEW o \in Ids, BrokerRefuses(o) PROVE BookInv'
  BY <1>10 DEF BrokerRefuses, BookInv, omsVars
<1>11. CASE Restart
  BY <1>11 DEF Restart, BookInv, brokerVars
<1>12. ASSUME NEW o \in Ids,
             CancelSends(o) \/ CancelRaises(o) \/ PollNext(o) \/
             BrokerFills(o) \/ BrokerCloses(o) \/ BrokerAcceptsCancel(o) \/
             BrokerRefusesCancel(o) \/ BrokerAnswers(o) \/ BrokerUnlists(o)
      PROVE  UNCHANGED <<submit, wire, orders, status, broker_order_id>>
  BY <1>12
     DEF CancelSends, CancelRaises, PollNext, BrokerFills, BrokerCloses,
         BrokerAcceptsCancel, BrokerRefusesCancel, BrokerAnswers,
         BrokerUnlists, brokerVars, omsVars, pollVars
<1>13. ASSUME PollRound \/ PollFails \/ Stop \/ Start
      PROVE  UNCHANGED <<submit, wire, orders, status, broker_order_id>>
  BY <1>13 DEF PollRound, PollFails, Stop, Start, brokerVars, omsVars
<1>14. CASE UNCHANGED <<submit, wire, orders, status, broker_order_id>>
  BY <1>14 DEF BookInv
<1> QED
  BY <1>1, <1>2, <1>3, <1>4, <1>5, <1>6, <1>7, <1>8, <1>9, <1>10, <1>11,
     <1>12, <1>13, <1>14
     DEF Next, SubmitOrder, CancelOrder, Poll, Broker, Lifecycle, vars, omsVars,
         pollVars, brokerVars

\* The broker acts on requests it received, within the order's quantity.
LEMMA BrokerStep ==
  ASSUME TypeOK, BookInv, BrokerInv, [Next]_vars
  PROVE  BrokerInv'
<1>1. ASSUME NEW o \in Ids, SubmitSends(o) PROVE BrokerInv'
  BY <1>1 DEF SubmitSends, BookInv, BrokerInv
<1>2. ASSUME NEW o \in Ids, BrokerAccepts(o) PROVE BrokerInv'
  BY <1>2 DEF BrokerAccepts, TypeOK, BrokerInv
<1>3. ASSUME NEW o \in Ids, BrokerRefuses(o) PROVE BrokerInv'
  BY <1>3 DEF BrokerRefuses, BrokerInv
<1>4. ASSUME NEW o \in Ids, BrokerFills(o) PROVE BrokerInv'
  BY <1>4 DEF BrokerFills, BrokerInv, Live
<1>5. ASSUME NEW o \in Ids, BrokerCloses(o) PROVE BrokerInv'
  BY <1>5 DEF BrokerCloses, BrokerInv, Live
<1>6. ASSUME NEW o \in Ids, BrokerUnlists(o) PROVE BrokerInv'
  BY <1>6 DEF BrokerUnlists, BrokerInv
<1>7. ASSUME NEW o \in Ids,
             SubmitRaises(o) \/ SubmitRefused(o) \/ SubmitReturns(o) \/
             SubmitFails(o) \/ SubmitCancelled(o) \/ CancelSends(o) \/
             CancelReturns(o) \/ CancelRaises(o) \/ PollNext(o) \/
             PollApplies(o) \/ BrokerAcceptsCancel(o) \/
             BrokerRefusesCancel(o) \/ BrokerAnswers(o)
      PROVE  UNCHANGED <<wire, state, executed, listed>>
  BY <1>7
     DEF SubmitRaises, SubmitRefused, SubmitReturns, SubmitFails,
         SubmitCancelled, CancelSends, CancelReturns, CancelRaises, PollNext,
         PollApplies, Applies, BrokerAcceptsCancel, BrokerRefusesCancel,
         BrokerAnswers, brokerVars, omsVars, pollVars
<1>8. ASSUME PollRound \/ PollFails \/ Stop \/ Start \/ Restart
      PROVE  UNCHANGED <<wire, state, executed, listed>>
  BY <1>8 DEF PollRound, PollFails, Stop, Start, Restart, brokerVars, omsVars
<1>9. CASE UNCHANGED <<wire, state, executed, listed>>
  BY <1>9 DEF BrokerInv
<1> QED
  BY <1>1, <1>2, <1>3, <1>4, <1>5, <1>6, <1>7, <1>8, <1>9
     DEF Next, SubmitOrder, CancelOrder, Poll, Broker, Lifecycle, vars, omsVars,
         pollVars, brokerVars

\* Only recorded orders with a broker id are cancelled.
LEMMA CancelStep ==
  ASSUME TypeOK, BookInv, CancelInv, [Next]_vars
  PROVE  CancelInv'
<1>1. ASSUME NEW o \in Ids, SubmitRefused(o) PROVE CancelInv'
  BY <1>1 DEF SubmitRefused, CancelInv, brokerVars
<1>2. ASSUME NEW o \in Ids, SubmitReturns(o) PROVE CancelInv'
  BY <1>2 DEF SubmitReturns, CancelInv, brokerVars
<1>3. ASSUME NEW o \in Ids, SubmitFails(o) PROVE CancelInv'
  BY <1>3 DEF SubmitFails, CancelInv, brokerVars
<1>4. ASSUME NEW o \in Ids, CancelSends(o) PROVE CancelInv'
  BY <1>4 DEF CancelSends, CancelInv, omsVars, brokerVars
<1>5. ASSUME NEW o \in Ids, CancelReturns(o) PROVE CancelInv'
  BY <1>5 DEF CancelReturns, CancelInv, brokerVars
<1>6. ASSUME NEW o \in Ids, CancelRaises(o) PROVE CancelInv'
  BY <1>6 DEF CancelRaises, CancelInv, omsVars, brokerVars
<1>7. ASSUME NEW o \in Ids, BrokerAcceptsCancel(o) PROVE CancelInv'
  BY <1>7 DEF BrokerAcceptsCancel, TypeOK, CancelInv, omsVars
<1>8. ASSUME NEW o \in Ids, BrokerRefusesCancel(o) PROVE CancelInv'
  BY <1>8 DEF BrokerRefusesCancel, CancelInv, omsVars, brokerVars
<1>9. CASE Restart
  BY <1>9 DEF Restart, CancelInv
<1>10. ASSUME NEW o \in Ids,
             SubmitRaises(o) \/ SubmitSends(o) \/ SubmitCancelled(o) \/
             PollNext(o) \/ PollApplies(o) \/ BrokerAccepts(o) \/
             BrokerRefuses(o) \/ BrokerFills(o) \/ BrokerCloses(o) \/
             BrokerAnswers(o) \/ BrokerUnlists(o)
      PROVE  UNCHANGED <<cancel, orders, broker_order_id, cancelling>>
  BY <1>10
     DEF SubmitRaises, SubmitSends, SubmitCancelled, PollNext, PollApplies, Applies,
         BrokerAccepts, BrokerRefuses, BrokerFills, BrokerCloses,
         BrokerAnswers, BrokerUnlists, brokerVars, omsVars, pollVars
<1>11. ASSUME PollRound \/ PollFails \/ Stop \/ Start
      PROVE  UNCHANGED <<cancel, orders, broker_order_id, cancelling>>
  BY <1>11 DEF PollRound, PollFails, Stop, Start, brokerVars, omsVars
<1>12. CASE UNCHANGED <<cancel, orders, broker_order_id, cancelling>>
  BY <1>12 DEF CancelInv
<1> QED
  BY <1>1, <1>2, <1>3, <1>4, <1>5, <1>6, <1>7, <1>8, <1>9, <1>10, <1>11,
     <1>12
     DEF Next, SubmitOrder, CancelOrder, Poll, Broker, Lifecycle, vars, omsVars,
         pollVars, brokerVars

\* An order whose poll is in flight was closed by nothing but a cancel.
LEMMA RoundStep ==
  ASSUME TypeOK, BookInv, CancelInv, RoundInv, [Next]_vars
  PROVE  RoundInv'
<1>1. ASSUME NEW o \in Ids, SubmitRefused(o) PROVE RoundInv'
  BY <1>1
     DEF SubmitRefused, BookInv, RoundInv, is_active, pollVars, brokerVars
<1>2. ASSUME NEW o \in Ids, SubmitReturns(o) PROVE RoundInv'
  BY <1>2
     DEF SubmitReturns, BookInv, RoundInv, is_active, pollVars, brokerVars
<1>3. ASSUME NEW o \in Ids, SubmitFails(o) PROVE RoundInv'
  BY <1>3 DEF SubmitFails, BookInv, RoundInv, is_active, pollVars, brokerVars
<1>4. ASSUME NEW o \in Ids, CancelReturns(o) PROVE RoundInv'
  BY <1>4
     DEF CancelReturns, CancelInv, RoundInv, is_active, pollVars, brokerVars
<1>5. ASSUME NEW o \in Ids, PollNext(o) PROVE RoundInv'
  BY <1>5 DEF PollNext, RoundInv, is_active, omsVars, brokerVars
<1>6. ASSUME NEW o \in Ids, PollApplies(o) PROVE RoundInv'
  BY <1>6, NoneAssumption
     DEF PollApplies, Applies, MappedStatus, TypeOK, RoundInv, is_active,
         brokerVars
<1>7. ASSUME NEW o \in Ids, BrokerAcceptsCancel(o) PROVE RoundInv'
  BY <1>7 DEF BrokerAcceptsCancel, RoundInv, is_active, omsVars, pollVars
<1>8. ASSUME NEW o \in Ids, BrokerAnswers(o) PROVE RoundInv'
  BY <1>8, NoneAssumption
     DEF BrokerAnswers, TypeOK, RoundInv, is_active, omsVars, brokerVars
<1>9. CASE PollRound
  BY <1>9, NoneAssumption
     DEF PollRound, PollIdle, Snapshot, TypeOK, RoundInv, is_active, omsVars, brokerVars
<1>10. CASE PollFails
  BY <1>10, NoneAssumption
     DEF PollFails, TypeOK, RoundInv, is_active, omsVars, brokerVars
<1>11. CASE Stop
  BY <1>11 DEF Stop, RoundInv
<1>12. CASE Restart
  BY <1>12 DEF Restart, RoundInv
<1>13. ASSUME NEW o \in Ids,
             SubmitRaises(o) \/ SubmitSends(o) \/ SubmitCancelled(o) \/
             CancelSends(o) \/ CancelRaises(o) \/ BrokerAccepts(o) \/
             BrokerRefuses(o) \/ BrokerFills(o) \/ BrokerCloses(o) \/
             BrokerRefusesCancel(o) \/ BrokerUnlists(o)
      PROVE  UNCHANGED <<pollTodo, orders, pollCur, broker_order_id, pollReply, status, cancelling>>
  BY <1>13
     DEF SubmitRaises, SubmitSends, SubmitCancelled, CancelSends,
         CancelRaises, BrokerAccepts, BrokerRefuses, BrokerFills,
         BrokerCloses, BrokerRefusesCancel, BrokerUnlists, brokerVars,
         omsVars, pollVars
<1>14. ASSUME Start
      PROVE  UNCHANGED <<pollTodo, orders, pollCur, broker_order_id, pollReply, status, cancelling>>
  BY <1>14 DEF Start, brokerVars, omsVars
<1>15. CASE UNCHANGED <<pollTodo, orders, pollCur, broker_order_id, pollReply, status, cancelling>>
  BY <1>15 DEF RoundInv, is_active
<1> QED
  BY <1>1, <1>2, <1>3, <1>4, <1>5, <1>6, <1>7, <1>8, <1>9, <1>10, <1>11,
     <1>12, <1>13, <1>14, <1>15
     DEF Next, SubmitOrder, CancelOrder, Poll, Broker, Lifecycle, vars, omsVars,
         pollVars, brokerVars

\* A reply stays true while it travels: the executed quantity only grows, and
\* a closed order stays as it is.
LEMMA ReplyStep ==
  ASSUME TypeOK, BookInv, BrokerInv,
         RoundInv, ReplyInv, ReportedFillsAreReal, [Next]_vars
  PROVE  ReplyInv'
<1>1. ASSUME NEW o \in Ids, PollNext(o) PROVE ReplyInv'
  BY <1>1 DEF PollNext, RoundInv, ReplyInv
<1>2. ASSUME NEW o \in Ids, PollApplies(o) PROVE ReplyInv'
  BY <1>2 DEF PollApplies, Applies, MappedStatus, ReplyInv
<1>3. ASSUME NEW o \in Ids, BrokerAccepts(o) PROVE ReplyInv'
  BY <1>3 DEF BrokerAccepts, BookInv, RoundInv, ReplyInv, omsVars, pollVars
<1>4. ASSUME NEW o \in Ids, BrokerFills(o) PROVE ReplyInv'
  <2>1. PICK n \in (executed[o] + 1) .. Qty[o] : executed' = [executed EXCEPT ![o] = n]
    BY <1>4 DEF BrokerFills
  <2>2. executed[o] <= n
    BY QtyAssumption DEF TypeOK
  <2>3. CASE pollCur # o
    BY <1>4, <2>1, <2>3
       DEF BrokerFills, TypeOK, RoundInv, ReplyInv, Live, Closed, omsVars, pollVars
  <2>4. CASE pollCur = o
    BY <1>4, <2>1, <2>2, <2>4, QtyAssumption
       DEF BrokerFills, TypeOK, RoundInv, ReplyInv, Replies, Live, Closed, omsVars, pollVars
  <2> QED
    BY <2>3, <2>4
<1>5. ASSUME NEW o \in Ids, BrokerCloses(o) PROVE ReplyInv'
  BY <1>5 DEF BrokerCloses, ReplyInv, Live, Closed, omsVars, pollVars
<1>6. ASSUME NEW o \in Ids, BrokerAnswers(o) PROVE ReplyInv'
  BY <1>6, ReplyTruth
     DEF BrokerAnswers, ReplyInv, RoundInv, BrokerInv, ReportedFillsAreReal, omsVars, brokerVars
<1>7. CASE PollFails
  BY <1>7 DEF PollFails, ReplyInv
<1>8. CASE Stop
  BY <1>8 DEF Stop, ReplyInv
<1>9. CASE Restart
  BY <1>9 DEF Restart, ReplyInv
<1>10. ASSUME NEW o \in Ids,
             SubmitRaises(o) \/ SubmitRefused(o) \/ SubmitSends(o) \/
             SubmitReturns(o) \/ SubmitFails(o) \/ SubmitCancelled(o) \/
             CancelSends(o) \/ CancelReturns(o) \/ CancelRaises(o) \/
             BrokerRefuses(o) \/ BrokerAcceptsCancel(o) \/
             BrokerRefusesCancel(o) \/ BrokerUnlists(o)
      PROVE  UNCHANGED <<pollReply, pollCur, executed, state, filled_qty>>
  BY <1>10
     DEF SubmitRaises, SubmitRefused, SubmitSends, SubmitReturns,
         SubmitFails, SubmitCancelled, CancelSends, CancelReturns,
         CancelRaises, BrokerRefuses, BrokerAcceptsCancel,
         BrokerRefusesCancel, BrokerUnlists, brokerVars, omsVars, pollVars
<1>11. ASSUME PollRound \/ Start
      PROVE  UNCHANGED <<pollReply, pollCur, executed, state, filled_qty>>
  BY <1>11 DEF PollRound, Start, brokerVars, omsVars
<1>12. CASE UNCHANGED <<pollReply, pollCur, executed, state, filled_qty>>
  BY <1>12 DEF ReplyInv
<1> QED
  BY <1>1, <1>2, <1>3, <1>4, <1>5, <1>6, <1>7, <1>8, <1>9, <1>10, <1>11,
     <1>12
     DEF Next, SubmitOrder, CancelOrder, Poll, Broker, Lifecycle, vars, omsVars,
         pollVars, brokerVars

\* Only applying a reply changes a reported quantity.
LEMMA ReportedFillsAreRealStep ==
  ASSUME TypeOK, BrokerInv,
         RoundInv, ReplyInv, ReportedFillsAreReal, [Next]_vars
  PROVE  ReportedFillsAreReal'
<1>1. ASSUME NEW o \in Ids, PollApplies(o) PROVE ReportedFillsAreReal'
  BY <1>1
     DEF PollApplies, Applies, MappedStatus, ReplyInv, ReportedFillsAreReal,
         brokerVars
<1>2. ASSUME NEW o \in Ids, BrokerFills(o) PROVE ReportedFillsAreReal'
  BY <1>2 DEF BrokerFills, TypeOK, ReportedFillsAreReal, omsVars
<1>3. ASSUME NEW o \in Ids,
             SubmitRaises(o) \/ SubmitRefused(o) \/ SubmitSends(o) \/
             SubmitReturns(o) \/ SubmitFails(o) \/ SubmitCancelled(o) \/
             CancelSends(o) \/ CancelReturns(o) \/ CancelRaises(o) \/
             PollNext(o) \/ BrokerAccepts(o) \/ BrokerRefuses(o) \/
             BrokerCloses(o) \/ BrokerAcceptsCancel(o) \/
             BrokerRefusesCancel(o) \/ BrokerAnswers(o) \/ BrokerUnlists(o)
      PROVE  UNCHANGED <<filled_qty, executed>>
  BY <1>3
     DEF SubmitRaises, SubmitRefused, SubmitSends, SubmitReturns,
         SubmitFails, SubmitCancelled, CancelSends, CancelReturns,
         CancelRaises, PollNext, BrokerAccepts, BrokerRefuses, BrokerCloses,
         BrokerAcceptsCancel, BrokerRefusesCancel, BrokerAnswers,
         BrokerUnlists, brokerVars, omsVars, pollVars
<1>4. ASSUME PollRound \/ PollFails \/ Stop \/ Start \/ Restart
      PROVE  UNCHANGED <<filled_qty, executed>>
  BY <1>4 DEF PollRound, PollFails, Stop, Start, Restart, brokerVars, omsVars
<1>5. CASE UNCHANGED <<filled_qty, executed>>
  BY <1>5 DEF ReportedFillsAreReal
<1> QED
  BY <1>1, <1>2, <1>3, <1>4, <1>5
     DEF Next, SubmitOrder, CancelOrder, Poll, Broker, Lifecycle, vars, omsVars,
         pollVars, brokerVars

\* An order is closed in the book by a true reply or by an accepted cancel.
LEMMA NoLiveOrderForgottenStep ==
  ASSUME TypeOK, BookInv, BrokerInv,
         CancelInv, RoundInv, ReplyInv, NoLiveOrderForgotten, [Next]_vars
  PROVE  NoLiveOrderForgotten'
<1>1. ASSUME NEW o \in Ids, SubmitRaises(o) PROVE NoLiveOrderForgotten'
  BY <1>1
     DEF SubmitRaises, NoLiveOrderForgotten, is_active, omsVars, brokerVars
<1>2. ASSUME NEW o \in Ids, SubmitRefused(o) PROVE NoLiveOrderForgotten'
  BY <1>2
     DEF SubmitRefused, BookInv, NoLiveOrderForgotten, is_active, brokerVars
<1>3. ASSUME NEW o \in Ids, SubmitSends(o) PROVE NoLiveOrderForgotten'
  BY <1>3 DEF SubmitSends, NoLiveOrderForgotten, is_active, omsVars
<1>4. ASSUME NEW o \in Ids, SubmitReturns(o) PROVE NoLiveOrderForgotten'
  BY <1>4
     DEF SubmitReturns, BookInv, NoLiveOrderForgotten, is_active, Active,
         brokerVars
<1>5. ASSUME NEW o \in Ids, SubmitFails(o) PROVE NoLiveOrderForgotten'
  BY <1>5 DEF SubmitFails, NoLiveOrderForgotten, is_active, brokerVars
<1>6. ASSUME NEW o \in Ids, SubmitCancelled(o) PROVE NoLiveOrderForgotten'
  BY <1>6
     DEF SubmitCancelled, NoLiveOrderForgotten, is_active, omsVars,
         brokerVars
<1>7. ASSUME NEW o \in Ids, CancelReturns(o) PROVE NoLiveOrderForgotten'
  BY <1>7
     DEF CancelReturns, CancelInv, NoLiveOrderForgotten, is_active,
         brokerVars
<1>8. ASSUME NEW o \in Ids, PollApplies(o) PROVE NoLiveOrderForgotten'
  BY <1>8
     DEF PollApplies, Applies, MappedStatus, ReplyInv, NoLiveOrderForgotten, is_active, Active,
         Status, StatusMap, Live, Closed, brokerVars
<1>9. ASSUME NEW o \in Ids, BrokerAccepts(o) PROVE NoLiveOrderForgotten'
  BY <1>9 DEF BrokerAccepts, BookInv, NoLiveOrderForgotten, is_active, omsVars
<1>10. ASSUME NEW o \in Ids, BrokerRefuses(o) PROVE NoLiveOrderForgotten'
  BY <1>10 DEF BrokerRefuses, NoLiveOrderForgotten, is_active, omsVars
<1>11. ASSUME NEW o \in Ids, BrokerFills(o) PROVE NoLiveOrderForgotten'
  BY <1>11 DEF BrokerFills, NoLiveOrderForgotten, is_active, omsVars
<1>12. ASSUME NEW o \in Ids, BrokerCloses(o) PROVE NoLiveOrderForgotten'
  BY <1>12 DEF BrokerCloses, NoLiveOrderForgotten, is_active, omsVars
<1>13. ASSUME NEW o \in Ids, BrokerAcceptsCancel(o) PROVE NoLiveOrderForgotten'
  BY <1>13 DEF BrokerAcceptsCancel, NoLiveOrderForgotten, is_active, omsVars
<1>14. CASE Restart
  BY <1>14 DEF Restart, NoLiveOrderForgotten
<1>15. ASSUME NEW o \in Ids,
             CancelSends(o) \/ CancelRaises(o) \/ PollNext(o) \/
             BrokerRefusesCancel(o) \/ BrokerAnswers(o) \/ BrokerUnlists(o)
      PROVE  UNCHANGED <<submit, wire, state, cancelling, orders, status>>
  BY <1>15
     DEF CancelSends, CancelRaises, PollNext, BrokerRefusesCancel,
         BrokerAnswers, BrokerUnlists, brokerVars, omsVars, pollVars
<1>16. ASSUME PollRound \/ PollFails \/ Stop \/ Start
      PROVE  UNCHANGED <<submit, wire, state, cancelling, orders, status>>
  BY <1>16 DEF PollRound, PollFails, Stop, Start, brokerVars, omsVars
<1>17. CASE UNCHANGED <<submit, wire, state, cancelling, orders, status>>
  BY <1>17 DEF NoLiveOrderForgotten, is_active
<1> QED
  BY <1>1, <1>2, <1>3, <1>4, <1>5, <1>6, <1>7, <1>8, <1>9, <1>10, <1>11,
     <1>12, <1>13, <1>14, <1>15, <1>16, <1>17
     DEF Next, SubmitOrder, CancelOrder, Poll, Broker, Lifecycle, vars, omsVars,
         pollVars, brokerVars

\* The reply that closes an order carries its final status and quantity.
LEMMA ClosedReportIsFinalStep ==
  ASSUME TypeOK, BookInv, BrokerInv,
         CancelInv, RoundInv, ReplyInv, ClosedReportIsFinal, [Next]_vars
  PROVE  ClosedReportIsFinal'
<1>1. ASSUME NEW o \in Ids, SubmitRefused(o) PROVE ClosedReportIsFinal'
  BY <1>1
     DEF SubmitRefused, BookInv, ClosedReportIsFinal, is_active, brokerVars
<1>2. ASSUME NEW o \in Ids, SubmitReturns(o) PROVE ClosedReportIsFinal'
  BY <1>2
     DEF SubmitReturns, BookInv, ClosedReportIsFinal, is_active, Active,
         brokerVars
<1>3. ASSUME NEW o \in Ids, SubmitFails(o) PROVE ClosedReportIsFinal'
  BY <1>3 DEF SubmitFails, BookInv, ClosedReportIsFinal, is_active, brokerVars
<1>4. ASSUME NEW o \in Ids, CancelReturns(o) PROVE ClosedReportIsFinal'
  BY <1>4
     DEF CancelReturns, CancelInv, ClosedReportIsFinal, is_active, brokerVars
<1>5. ASSUME NEW o \in Ids, PollApplies(o) PROVE ClosedReportIsFinal'
  BY <1>5
     DEF PollApplies, Applies, MappedStatus, TypeOK, RoundInv, ReplyInv, ClosedReportIsFinal,
         is_active, Active, Status, StatusMap, Closed, brokerVars
<1>6. ASSUME NEW o \in Ids, BrokerAccepts(o) PROVE ClosedReportIsFinal'
  BY <1>6 DEF BrokerAccepts, BookInv, ClosedReportIsFinal, is_active, omsVars
<1>7. ASSUME NEW o \in Ids, BrokerFills(o) PROVE ClosedReportIsFinal'
  BY <1>7
     DEF BrokerFills, TypeOK, ClosedReportIsFinal, is_active, Active, Status,
         Live, omsVars
<1>8. ASSUME NEW o \in Ids, BrokerCloses(o) PROVE ClosedReportIsFinal'
  BY <1>8
     DEF BrokerCloses, TypeOK, ClosedReportIsFinal, is_active, Active,
         Status, Live, omsVars
<1>9. ASSUME NEW o \in Ids, BrokerAcceptsCancel(o) PROVE ClosedReportIsFinal'
  BY <1>9 DEF BrokerAcceptsCancel, ClosedReportIsFinal, is_active, omsVars
<1>10. CASE Restart
  BY <1>10 DEF Restart, ClosedReportIsFinal
<1>11. ASSUME NEW o \in Ids,
             SubmitRaises(o) \/ SubmitSends(o) \/ SubmitCancelled(o) \/
             CancelSends(o) \/ CancelRaises(o) \/ PollNext(o) \/
             BrokerRefuses(o) \/ BrokerRefusesCancel(o) \/
             BrokerAnswers(o) \/ BrokerUnlists(o)
      PROVE  UNCHANGED <<orders, broker_order_id, status, cancelling, state, filled_qty, executed>>
  BY <1>11
     DEF SubmitRaises, SubmitSends, SubmitCancelled, CancelSends,
         CancelRaises, PollNext, BrokerRefuses, BrokerRefusesCancel,
         BrokerAnswers, BrokerUnlists, brokerVars, omsVars, pollVars
<1>12. ASSUME PollRound \/ PollFails \/ Stop \/ Start
      PROVE  UNCHANGED <<orders, broker_order_id, status, cancelling, state, filled_qty, executed>>
  BY <1>12 DEF PollRound, PollFails, Stop, Start, brokerVars, omsVars
<1>13. CASE UNCHANGED <<orders, broker_order_id, status, cancelling, state, filled_qty, executed>>
  BY <1>13 DEF ClosedReportIsFinal, is_active
<1> QED
  BY <1>1, <1>2, <1>3, <1>4, <1>5, <1>6, <1>7, <1>8, <1>9, <1>10, <1>11,
     <1>12, <1>13
     DEF Next, SubmitOrder, CancelOrder, Poll, Broker, Lifecycle, vars, omsVars,
         pollVars, brokerVars

-----------------------------------------------------------------------------
(* The theorems *)

\* The invariant holds at the start and is preserved by every step.
THEOREM Inductive == Spec => []IInv
<1>1. Init => IInv
  BY NoneAssumption
     DEF Init, IInv, TypeOK, BookInv, BrokerInv, CancelInv, RoundInv, ReplyInv,
         ReportedFillsAreReal, NoLiveOrderForgotten, ClosedReportIsFinal, Status, Live
<1>2. IInv /\ [Next]_vars => IInv'
  BY TypeOKStep, BookStep, BrokerStep, CancelStep, RoundStep, ReplyStep,
     ReportedFillsAreRealStep, NoLiveOrderForgottenStep, ClosedReportIsFinalStep
     DEF IInv
<1> QED
  BY <1>1, <1>2, PTL DEF Spec

\* Every variable keeps its type.
THEOREM TypeCorrect == Spec => []TypeOK
  BY Inductive, PTL DEF IInv

\* _apply_broker_update never reports a fill that did not happen, however old
\* the reply it applies and however often polling stops, starts or fails.
THEOREM FillsAreReal == Spec => []ReportedFillsAreReal
  BY Inductive, PTL DEF IInv

\* Neither a poll, a cancel nor their interleaving makes the OMS drop an order
\* that is live at the broker and that nobody cancelled.
THEOREM LiveOrdersAreKept == Spec => []NoLiveOrderForgotten
  BY Inductive, PTL DEF IInv

\* What the OMS shows of an order it no longer polls is the broker's last word.
THEOREM ClosedReportsAreFinal == Spec => []ClosedReportIsFinal
  BY Inductive, PTL DEF IInv

\* While orders stay in their broker's list (every Alpaca order, a Futu order
\* for its day), the OMS and the broker together implement the ledger: the
\* executed quantity only grows, up to the order's quantity, and the reported
\* one follows it without ever falling back or running ahead.
THEOREM ImplementsLedger == ASSUME ~DayEnds PROVE Spec => LedgerSpec
<1>1. Init => Ledger!Init
  BY DEF Init, Ledger!Init
<1>2. IInv /\ [Next]_vars => [Ledger!Next]_<<executed, filled_qty>>
  <2> SUFFICES ASSUME IInv, [Next]_vars
               PROVE  [Ledger!Next]_<<executed, filled_qty>>
    OBVIOUS
  <2>1. ASSUME NEW o \in Ids, BrokerFills(o) PROVE Ledger!Next
    BY <2>1 DEF BrokerFills, Ledger!Next, Ledger!Execute, omsVars
  <2>2. ASSUME NEW o \in Ids, PollApplies(o) PROVE Ledger!Next
    <3>1. pollReply.filled_qty \in filled_qty[o] .. executed[o]
      BY <2>2, NoneAssumption
         DEF PollApplies, Applies, MappedStatus, IInv, ReplyInv, TypeOK, Replies
    <3>2. /\ filled_qty' = [filled_qty EXCEPT ![o] = pollReply.filled_qty]
          /\ UNCHANGED executed
      BY <2>2 DEF PollApplies, Applies, MappedStatus, brokerVars
    <3> QED
      BY <3>1, <3>2 DEF Ledger!Next, Ledger!Report
  <2>3. ASSUME NEW o \in Ids, SubmitOrder(o) \/ CancelOrder(o) \/ PollNext(o)
        PROVE  UNCHANGED <<executed, filled_qty>>
    BY <2>3
       DEF SubmitOrder, SubmitRaises, SubmitRefused, SubmitSends, SubmitReturns,
         SubmitFails, SubmitCancelled, CancelOrder, CancelSends, CancelReturns,
         CancelRaises, PollNext, omsVars, brokerVars
  <2>4. ASSUME NEW o \in Ids,
               \/ BrokerAccepts(o) \/ BrokerRefuses(o) \/ BrokerCloses(o)
               \/ BrokerAcceptsCancel(o) \/ BrokerRefusesCancel(o)
               \/ BrokerAnswers(o) \/ BrokerUnlists(o)
        PROVE  UNCHANGED <<executed, filled_qty>>
    BY <2>4 DEF BrokerAccepts, BrokerRefuses, BrokerCloses, BrokerAcceptsCancel,
         BrokerRefusesCancel, BrokerAnswers, BrokerUnlists, omsVars, brokerVars
  <2>5. ASSUME PollRound \/ PollFails \/ Lifecycle
        PROVE  UNCHANGED <<executed, filled_qty>>
    BY <2>5
       DEF PollRound, PollFails, Lifecycle, Stop, Start, Restart, omsVars,
           brokerVars
  <2>6. CASE UNCHANGED vars
    BY <2>6 DEF vars, omsVars, brokerVars
  <2> QED
    BY <2>1, <2>2, <2>3, <2>4, <2>5, <2>6 DEF Next, Poll, Broker
<1> QED
  BY <1>1, <1>2, Inductive, PTL DEF Spec, LedgerSpec, Ledger!Spec

-----------------------------------------------------------------------------
(* The protections *)

\* The locks there are, in memory, in Redis and on their way there.
Known == locks \cup store \cup {w.lock : w \in writes}

\* The stop-loss exits of the trades T since a time.
Stops(T, since) == {t \in T : t.stop /\ t.close >= since}
StopsOf(T, sym, since) == {t \in T : t.stop /\ t.symbol = sym /\ t.close >= since}
\* How far back the guard looks for the exits of one symbol.
SymbolLookback(S) == Guard(S)!Max({S.lookback, S.guardStop})

\* A lock ends when its rule says: of the trades T, enough were known when it was
\* made or renewed, at the time given or before.
HasCause(S, T, time, l) ==
  /\ l.key[1] = "cooldown" =>
       \E t \in T, c \in S.configs : t.symbol = l.key[2] /\ l.until = t.close + c.stop
  /\ l.key[1] = "guard" =>
       /\ l.until <= time + S.guardStop
       /\ IF l.key[2] = Global
          THEN Cardinality(Stops(T, l.until - S.guardStop - S.lookback)) >= S.limit
          ELSE Cardinality(StopsOf(T, l.key[2], l.until - S.guardStop - SymbolLookback(S))) >= S.limit

Causes(S) == \A l \in Known : HasCause(S, closed, now, l)

\* The order book has the latest trades: a restart forgets older ones only.
BookHasLatest ==
  /\ \A t \in closed : t.close <= now
  /\ \A t \in closings, u \in closed \ closings : u.close <= t.close

\* A lock in Redis, or on its way there, is in memory, ending no sooner, until
\* it expires or an operator clears it.
InMemory(S, l) ==
  now < l.until =>
    \/ \E c \in cleared : Guard(S)!id(c) = Guard(S)!id(l)
    \/ \E m \in locks : Guard(S)!id(m) = Guard(S)!id(l) /\ l.until <= m.until

\* The cooldown's length is not changed.
OneStop(S) == \A c, d \in S.configs : c.stop = d.stop

StoredInMemory(S) ==
  OneStop(S) => /\ \A l \in store : InMemory(S, l)
                /\ \A w \in writes : w.op = "save" => InMemory(S, w.lock)

\* What holds of the answers of check_entry.
AnswersHold(S) ==
  /\ Guard(S)!NoEntryInCooldown /\ Guard(S)!RefusedForCause
  /\ 0 < S.profit => Guard(S)!GuardHolds
  /\ OneStop(S) => Guard(S)!StoredLocksHold

\* The strengthening of LocksHold.
GuardInv(S) ==
  /\ Guard(S)!TypeOK /\ IsFiniteSet(closed) /\ IsFiniteSet(locks) /\ IsFiniteSet(store)
  /\ BookHasLatest /\ Causes(S) /\ StoredInMemory(S) /\ AnswersHold(S)

-----------------------------------------------------------------------------
(* What the rules find.                                                     *)

\* An instance has copies of the library's operators.
LEMMA GuardCardinality == \A S, T : Guard(S)!Cardinality(T) = Cardinality(T)
BY DEF Guard!Cardinality, Cardinality

LEMMA GuardMax ==
  ASSUME NEW S, NEW T, IsFiniteSet(T), T \subseteq Int, T # {}
  PROVE  Guard(S)!Max(T) \in T /\ \A x \in T : x <= Guard(S)!Max(T)
<1>1. PICK m \in T : \A x \in T : x <= m
  BY LargestElement
<1>2. \A x \in T : m >= x
  BY <1>1
<1> QED BY <1>1, <1>2 DEF Guard!Max

\* What the state says of the present, and of the trades tr.
Present(S, tr) ==
  /\ IsSetting(S) /\ now \in 0 .. S.maxTime /\ guards \in S.configs
  /\ IsFiniteSet(tr) /\ tr \subseteq Guard(S)!Trade /\ \A t \in tr : t.close <= now

LEMMA PresentTypes ==
  ASSUME NEW CONSTANT S, NEW tr, Present(S, tr)
  PROVE  /\ now \in Nat /\ now <= S.maxTime
         /\ guards.stop \in Nat \ {0} /\ guards.active \in BOOLEAN
         /\ S.lookback \in Nat \ {0} /\ S.guardStop \in Nat \ {0} /\ S.limit \in Nat \ {0}
         /\ S.profit \in Int /\ S.maxTime \in Nat
         /\ \A t \in tr : t.close \in Nat /\ t.symbol \in S.symbols /\ t.stop \in BOOLEAN
BY DEF Present, IsSetting, Guard!Trade

LEMMA PairIsFinite == \A a, b : IsFiniteSet({a, b})
<1> TAKE a, b
<1>1. IsFiniteSet({a}) /\ IsFiniteSet({b})
  BY FS_Singleton
<1>2. IsFiniteSet({a} \cup {b})
  BY <1>1, FS_Union
<1>3. {a} \cup {b} = {a, b}
  OBVIOUS
<1> QED BY <1>2, <1>3

\* What a function gives for finitely many arguments is a finite set.
LEMMA ImageIsFinite ==
  ASSUME NEW T, IsFiniteSet(T), NEW f
  PROVE  IsFiniteSet({f[x] : x \in T})
<1> DEFINE image == {f[x] : x \in T}
           g == [x \in T |-> f[x]]
<1>1. g \in Surjection(T, image)
  <2>1. g \in [T -> image]
    OBVIOUS
  <2>2. ASSUME NEW y \in image PROVE \E x \in T : g[x] = y
    OBVIOUS
  <2> QED BY <2>1, <2>2 DEF Surjection
<1> HIDE DEF g, image
<1>2. IsFiniteSet(image)
  BY <1>1, FS_Surjection
<1> QED BY <1>2 DEF image

LEMMA ClosesAreFinite ==
  ASSUME NEW T, IsFiniteSet(T)
  PROVE  IsFiniteSet({t.close : t \in T})
<1> DEFINE f == [t \in T |-> t.close]
<1>1. IsFiniteSet({f[t] : t \in T})
  <2> HIDE DEF f
  <2> QED BY ImageIsFinite
<1>2. {f[t] : t \in T} = {t.close : t \in T}
  OBVIOUS
<1> QED BY <1>1, <1>2

LEMMA TwoMax ==
  ASSUME NEW CONSTANT S, NEW a \in Int, NEW b \in Int
  PROVE  /\ Guard(S)!Max({a, b}) \in Int
         /\ a <= Guard(S)!Max({a, b}) /\ b <= Guard(S)!Max({a, b})
<1>1. IsFiniteSet({a, b})
  BY PairIsFinite
<1> QED BY <1>1, GuardMax

LEMMA WidestIs ==
  ASSUME NEW CONSTANT S, NEW tr, Present(S, tr)
  PROVE  /\ Guard(S)!Widest \in Int /\ S.lookback <= Guard(S)!Widest
         /\ guards.stop <= Guard(S)!Widest /\ S.guardStop <= Guard(S)!Widest
<1> DEFINE four == {1, S.lookback, guards.stop, S.guardStop}
<1>1. four \subseteq Int /\ four # {}
  BY PresentTypes
<1>2. IsFiniteSet(four)
  <2>1. IsFiniteSet({1, S.lookback} \cup {guards.stop, S.guardStop})
    BY PairIsFinite, FS_Union
  <2>2. {1, S.lookback} \cup {guards.stop, S.guardStop} = four
    OBVIOUS
  <2> QED BY <2>1, <2>2
<1>3. Guard(S)!Widest = Guard(S)!Max(four)
  BY DEF Guard!Widest
<1> HIDE DEF four
<1>4. Guard(S)!Max(four) \in four /\ \A x \in four : x <= Guard(S)!Max(four)
  BY <1>1, <1>2, GuardMax
<1> QED BY <1>1, <1>3, <1>4 DEF four

\* The windows of the rules, over all trades.
LEMMA WindowsAre ==
  ASSUME NEW CONSTANT S, NEW tr, Present(S, tr)
  PROVE  /\ Guard(S)!Within(Guard(S)!Fetched(tr), S.lookback) = {t \in tr : t.close >= now - S.lookback}
         /\ \A sym, stop : stop \in {guards.stop, S.guardStop} =>
              Guard(S)!SymbolTrades(Guard(S)!Fetched(tr), sym, stop)
                = {t \in tr : t.symbol = sym /\ t.close >= now - Guard(S)!Max({S.lookback, stop})}
<1> DEFINE wide == Guard(S)!Widest
           seen == {t \in tr : t.close >= now - wide}
<1>1. /\ wide \in Int /\ S.lookback <= wide /\ guards.stop <= wide /\ S.guardStop <= wide
      /\ Guard(S)!Fetched(tr) = seen
  BY WidestIs DEF Guard!Fetched
<1>2. now \in Int /\ S.lookback \in Int /\ \A t \in tr : t.close \in Int
  BY PresentTypes
<1> HIDE DEF wide
<1>3. {t \in seen : t.close >= now - S.lookback} = {t \in tr : t.close >= now - S.lookback}
  BY <1>1, <1>2
<1>4. ASSUME NEW sym, NEW stop, stop \in {guards.stop, S.guardStop}
      PROVE  Guard(S)!SymbolTrades(Guard(S)!Fetched(tr), sym, stop)
                = {t \in tr : t.symbol = sym /\ t.close >= now - Guard(S)!Max({S.lookback, stop})}
  <2> DEFINE far == Guard(S)!Max({S.lookback, stop})
  <2>1. stop \in Int
    BY <1>4, PresentTypes
  <2>2. far \in Int /\ far <= wide
    <3>1. IsFiniteSet({S.lookback, stop})
      BY PairIsFinite
    <3>2. far \in {S.lookback, stop}
      BY <3>1, <2>1, <1>2, GuardMax
    <3> HIDE DEF far
    <3> QED BY <1>1, <1>2, <2>1, <3>2, <1>4
  <2>3. Guard(S)!SymbolTrades(seen, sym, stop)
          = {t \in {u \in seen : u.close >= now - far} : t.symbol = sym}
    BY DEF Guard!SymbolTrades, Guard!Within
  <2> HIDE DEF far
  <2>4. {t \in {u \in seen : u.close >= now - far} : t.symbol = sym}
          = {t \in tr : t.symbol = sym /\ t.close >= now - far}
    BY <1>1, <1>2, <2>2
  <2> QED BY <1>1, <2>3, <2>4 DEF far
<1> QED BY <1>1, <1>3, <1>4 DEF Guard!Within

LEMMA GuardResultIs ==
  ASSUME NEW CONSTANT S, IsSetting(S), NEW T, IsFiniteSet(T), NEW scope, 
         NEW r \in Guard(S)!GuardResult(T, scope)
  PROVE  /\ r.key = <<"guard", scope>> /\ r.until = now + S.guardStop
         /\ Cardinality({t \in T : t.stop}) >= S.limit
<1> DEFINE all == {t \in T : t.stop /\ 0 < S.profit}
<1>1. ~(Cardinality(all) < S.limit)
  BY GuardCardinality DEF Guard!GuardResult, Guard!Stoplosses
<1>2. r = [key |-> <<"guard", scope>>, until |-> now + S.guardStop]
  BY <1>1, GuardCardinality DEF Guard!GuardResult, Guard!Stoplosses
<1>3. Cardinality(all) <= Cardinality({t \in T : t.stop}) /\ Cardinality(all) \in Nat
      /\ Cardinality({t \in T : t.stop}) \in Nat
  <2>1. all \in SUBSET {t \in T : t.stop} /\ {t \in T : t.stop} \in SUBSET T
    OBVIOUS
  <2>2. IsFiniteSet({t \in T : t.stop})
    BY <2>1, FS_Subset
  <2> HIDE DEF all
  <2> QED BY <2>1, <2>2, FS_Subset, FS_CardinalityType
<1>4. S.limit \in Nat
  BY DEF IsSetting
<1> HIDE DEF all
<1> QED BY <1>1, <1>2, <1>3, <1>4

LEMMA CooldownResultIs ==
  ASSUME NEW CONSTANT S, NEW tr, Present(S, tr), NEW sym,
         NEW r \in Guard(S)!CooldownResult(
                    {t \in tr : t.symbol = sym
                                /\ t.close >= now - Guard(S)!Max({S.lookback, guards.stop})},
                    sym)
  PROVE  /\ r.key = <<"cooldown", sym>> /\ now < r.until
         /\ \E t \in tr : t.symbol = sym /\ r.until = t.close + guards.stop
                          /\ \A u \in tr :
                                u.symbol = sym /\ now - guards.stop <= u.close => u.close <= t.close
<1> DEFINE far == Guard(S)!Max({S.lookback, guards.stop})
           window == {t \in tr : t.symbol = sym /\ t.close >= now - far}
           recent == {t \in window : t.close >= now - guards.stop}
           closes == {t.close : t \in recent}
           last == Guard(S)!Max(closes)
<1>1. far \in Int /\ guards.stop <= far /\ guards.stop \in Nat /\ now \in Nat
      /\ \A t \in tr : t.close \in Int
  <2>1. /\ guards.stop \in Int /\ S.lookback \in Int /\ guards.stop \in Nat /\ now \in Nat
        /\ \A t \in tr : t.close \in Int
    BY PresentTypes
  <2> QED BY <2>1, TwoMax
<1>2. /\ recent # {} /\ now < last + guards.stop
      /\ r = [key |-> <<"cooldown", sym>>, until |-> last + guards.stop]
  <2> HIDE DEF far
  <2> DEFINE until == last + guards.stop
  <2>1. r \in IF recent = {} \/ until <= now THEN {}
              ELSE {[key |-> <<"cooldown", sym>>, until |-> until]}
    BY DEF Guard!CooldownResult, Guard!Within, far
  <2>2. recent # {} /\ ~(until <= now)
    <3> HIDE DEF recent, until
    <3> QED BY <2>1
  <2>3. until \in Int
    <3>1. closes \subseteq Int /\ closes # {}
      BY <1>1, <2>2
    <3>2. IsFiniteSet(recent)
      <4>1. recent \in SUBSET tr
        OBVIOUS
      <4> QED BY <4>1, FS_Subset DEF Present
    <3>3. IsFiniteSet(closes)
      <4> HIDE DEF recent
      <4> QED BY <3>2, ClosesAreFinite
    <3>4. last \in closes
      <4> HIDE DEF closes
      <4> QED BY <3>1, <3>3, GuardMax
    <3> QED BY <3>1, <3>4, <1>1
  <2> HIDE DEF recent, until
  <2>4. r = [key |-> <<"cooldown", sym>>, until |-> until] /\ now < until
    BY <2>1, <2>2, <2>3, <1>1
  <2> QED BY <2>2, <2>4 DEF until
<1>3. last \in closes /\ \A x \in closes : x <= last
  <2>1. recent \in SUBSET tr
    OBVIOUS
  <2>2. closes \subseteq Int /\ closes # {}
    BY <1>1, <1>2
  <2>5. IsFiniteSet(recent)
    <3> HIDE DEF recent
    <3> QED BY <2>1, FS_Subset DEF Present
  <2> HIDE DEF recent
  <2>3. IsFiniteSet(closes)
    BY <2>5, ClosesAreFinite
  <2> HIDE DEF closes
  <2> QED BY <2>2, <2>3, GuardMax
<1>4. PICK t \in recent : t.close = last
  BY <1>3
<1> HIDE DEF last, far
<1>5. ASSUME NEW u \in tr, u.symbol = sym, now - guards.stop <= u.close
      PROVE  u.close <= t.close
  <2>1. u.close \in Int
    BY <1>1
  <2>2. u \in window
    BY <1>1, <1>5, <2>1
  <2>3. u \in recent
    BY <1>1, <1>5, <2>1, <2>2
  <2>4. u.close \in closes
    BY <2>3
  <2> QED BY <1>3, <1>4, <2>4
<1>6. t \in tr /\ t.symbol = sym
  OBVIOUS
<1>7. r.key = <<"cooldown", sym>> /\ now < r.until /\ r.until = t.close + guards.stop
  BY <1>2, <1>4
<1> QED BY <1>5, <1>6, <1>7

\* An exit that is younger than the cooldown makes a result.
LEMMA CooldownFound ==
  ASSUME NEW CONSTANT S, NEW tr, Present(S, tr), NEW t \in tr, now < t.close + guards.stop
  PROVE  \E r \in Guard(S)!Results(Guard(S)!Fetched(tr)) : r.key = <<"cooldown", t.symbol>>
<1> DEFINE far == Guard(S)!Max({S.lookback, guards.stop})
           window == {u \in tr : u.symbol = t.symbol /\ u.close >= now - far}
           recent == {u \in window : u.close >= now - guards.stop}
           closes == {u.close : u \in recent}
           last == Guard(S)!Max(closes)
           until == last + guards.stop
           r == [key |-> <<"cooldown", t.symbol>>, until |-> until]
<1>1. /\ guards.stop \in Int /\ S.lookback \in Int /\ now \in Int /\ t.symbol \in S.symbols
      /\ \A u \in tr : u.close \in Int
  BY PresentTypes
<1>2. far \in Int /\ guards.stop <= far
  BY <1>1, TwoMax
<1> HIDE DEF far
<1>3. t \in recent
  <2>1. t.close \in Int /\ t.close >= now - guards.stop
    BY <1>1
  <2> QED BY <1>1, <1>2, <2>1
<1>4. closes \subseteq Int /\ t.close \in closes
  BY <1>1, <1>3
<1>5. IsFiniteSet(closes)
  <2>1. recent \in SUBSET tr
    OBVIOUS
  <2> HIDE DEF recent
  <2> QED BY <2>1, FS_Subset, ClosesAreFinite DEF Present
<1>6. last \in closes /\ t.close <= last
  <2> HIDE DEF closes
  <2> QED BY <1>4, <1>5, GuardMax
<1>7. now < until /\ ~(until <= now)
  <2> HIDE DEF last
  <2> QED BY <1>1, <1>4, <1>6
<1>8. Guard(S)!SymbolTrades(Guard(S)!Fetched(tr), t.symbol, guards.stop) = window
  BY WindowsAre DEF far
<1>9. r \in Guard(S)!CooldownResult(window, t.symbol)
  <2>1. recent # {}
    BY <1>3
  <2>2. Guard(S)!CooldownResult(window, t.symbol)
          = IF recent = {} \/ until <= now THEN {}
            ELSE {[key |-> <<"cooldown", t.symbol>>, until |-> until]}
    BY DEF Guard!CooldownResult, Guard!Within
  <2> HIDE DEF recent, until, window
  <2> QED BY <1>7, <2>1, <2>2
<1> HIDE DEF window, r
<1>10. r \in Guard(S)!Results(Guard(S)!Fetched(tr))
  BY <1>1, <1>8, <1>9 DEF Guard!Results
<1> QED BY <1>10 DEF r

\* So do enough stop-loss exits, where the guard counts them.
LEMMA GuardFound ==
  ASSUME NEW CONSTANT S, NEW tr, Present(S, tr), 0 < S.profit,
         Cardinality(Stops(tr, now - S.lookback)) >= S.limit
  PROVE  \E r \in Guard(S)!Results(Guard(S)!Fetched(tr)) :
           r.key = <<"guard", Global>> /\ r.until = now + S.guardStop
<1> DEFINE window == {t \in tr : t.close >= now - S.lookback}
           r == [key |-> <<"guard", Global>>, until |-> now + S.guardStop]
<1>1. Guard(S)!Stoplosses(window) = Stops(tr, now - S.lookback)
  BY DEF Guard!Stoplosses, Stops
<1>2. ~(Cardinality(Stops(tr, now - S.lookback)) < S.limit)
  <2>1. Stops(tr, now - S.lookback) \in SUBSET tr
    BY DEF Stops
  <2>2. Cardinality(Stops(tr, now - S.lookback)) \in Nat
    BY <2>1, FS_Subset, FS_CardinalityType DEF Present
  <2>3. S.limit \in Nat
    BY PresentTypes
  <2> QED BY <2>2, <2>3
<1>3. Guard(S)!Within(Guard(S)!Fetched(tr), S.lookback) = window
  BY WindowsAre
<1> HIDE DEF window
<1>4. r \in Guard(S)!GuardResult(window, Global)
  BY <1>1, <1>2, GuardCardinality DEF Guard!GuardResult
<1>5. r \in Guard(S)!Results(Guard(S)!Fetched(tr))
  BY <1>3, <1>4 DEF Guard!Results
<1> QED BY <1>5

\* What a result of the trades tr says, and why.
ResultIs(S, tr, r) ==
  /\ r.key \in Guard(S)!Keys /\ now < r.until /\ r.until \in Int
  /\ r.key[1] = "cooldown" =>
       \E t \in tr : t.symbol = r.key[2] /\ r.until = t.close + guards.stop
                     /\ \A u \in tr : u.symbol = t.symbol /\ now - guards.stop <= u.close
                                        => u.close <= t.close
  /\ r.key[1] = "guard" =>
       /\ r.until = now + S.guardStop
       /\ IF r.key[2] = Global
          THEN Cardinality(Stops(tr, now - S.lookback)) >= S.limit
          ELSE Cardinality(StopsOf(tr, r.key[2], now - SymbolLookback(S))) >= S.limit

LEMMA ResultsAre ==
  ASSUME NEW CONSTANT S, NEW tr, Present(S, tr),
         NEW r \in Guard(S)!Results(Guard(S)!Fetched(tr))
  PROVE  ResultIs(S, tr, r)
<1> DEFINE whole == {t \in tr : t.close >= now - S.lookback}
           Far(stop) == Guard(S)!Max({S.lookback, stop})
           Of(sym, stop) == {t \in tr : t.symbol = sym /\ t.close >= now - Far(stop)}
<1>1. /\ IsSetting(S) /\ IsFiniteSet(tr) /\ Global \notin S.symbols
      /\ guards.stop \in Nat \ {0} /\ S.guardStop \in Nat \ {0} /\ now \in Nat
      /\ \A t \in tr : t.close \in Nat
  BY PresentTypes DEF Present, IsSetting
<1>2. /\ Guard(S)!Within(Guard(S)!Fetched(tr), S.lookback) = whole
      /\ \A sym, stop : stop \in {guards.stop, S.guardStop} =>
              Guard(S)!SymbolTrades(Guard(S)!Fetched(tr), sym, stop) = Of(sym, stop)
  BY WindowsAre
<1> HIDE DEF Of, whole
<1>3. \/ r \in Guard(S)!GuardResult(whole, Global)
      \/ \E sym \in S.symbols : \/ r \in Guard(S)!GuardResult(Of(sym, S.guardStop), sym)
                                \/ r \in Guard(S)!CooldownResult(Of(sym, guards.stop), sym)
  BY <1>2 DEF Guard!Results
<1>4. CASE r \in Guard(S)!GuardResult(whole, Global)
  <2>1. IsFiniteSet(whole) /\ {t \in whole : t.stop} = Stops(tr, now - S.lookback)
    <3>1. whole \in SUBSET tr /\ {t \in whole : t.stop} = Stops(tr, now - S.lookback)
      BY DEF whole, Stops
    <3> QED BY <1>1, <3>1, FS_Subset
  <2>2. /\ r.key = <<"guard", Global>> /\ r.until = now + S.guardStop
        /\ Cardinality({t \in whole : t.stop}) >= S.limit
    BY <1>1, <1>4, <2>1, GuardResultIs
  <2>3. r.key \in Guard(S)!Keys /\ r.key[1] = "guard" /\ r.key[2] = Global
    BY <2>2 DEF Guard!Keys
  <2>4. now < r.until /\ r.until \in Int
    BY <1>1, <2>2
  <2> QED BY <2>1, <2>2, <2>3, <2>4 DEF ResultIs
<1>5. ASSUME NEW sym \in S.symbols, r \in Guard(S)!GuardResult(Of(sym, S.guardStop), sym)
      PROVE  ResultIs(S, tr, r)
  <2>1. /\ IsFiniteSet(Of(sym, S.guardStop))
        /\ {t \in Of(sym, S.guardStop) : t.stop} = StopsOf(tr, sym, now - SymbolLookback(S))
    <3>1. /\ Of(sym, S.guardStop) \in SUBSET tr
          /\ {t \in Of(sym, S.guardStop) : t.stop} = StopsOf(tr, sym, now - SymbolLookback(S))
      BY DEF Of, StopsOf, SymbolLookback
    <3> QED BY <1>1, <3>1, FS_Subset
  <2>2. /\ r.key = <<"guard", sym>> /\ r.until = now + S.guardStop
        /\ Cardinality({t \in Of(sym, S.guardStop) : t.stop}) >= S.limit
    BY <1>1, <1>5, <2>1, GuardResultIs
  <2>3. r.key \in Guard(S)!Keys /\ r.key[1] = "guard" /\ r.key[2] = sym /\ sym # Global
    BY <1>1, <2>2 DEF Guard!Keys
  <2>4. now < r.until /\ r.until \in Int
    BY <1>1, <2>2
  <2> QED BY <2>1, <2>2, <2>3, <2>4 DEF ResultIs
<1>6. ASSUME NEW sym \in S.symbols, r \in Guard(S)!CooldownResult(Of(sym, guards.stop), sym)
      PROVE  ResultIs(S, tr, r)
  <2>1. /\ r.key = <<"cooldown", sym>> /\ now < r.until
        /\ \E t \in tr : t.symbol = sym /\ r.until = t.close + guards.stop
                         /\ \A u \in tr : u.symbol = sym /\ now - guards.stop <= u.close => u.close <= t.close
    BY <1>6, CooldownResultIs DEF Of
  <2>2. r.key \in Guard(S)!Keys /\ r.key[1] = "cooldown" /\ r.key[2] = sym
    BY <2>1 DEF Guard!Keys
  <2>3. r.until \in Int
    BY <1>1, <2>1
  <2> QED BY <2>1, <2>2, <2>3 DEF ResultIs
<1> QED BY <1>3, <1>4, <1>5, <1>6

\* A rule has one result at most for what it locks.
LEMMA ResultsAreFinite ==
  ASSUME NEW CONSTANT S, NEW tr, Present(S, tr)
  PROVE  IsFiniteSet(Guard(S)!Results(Guard(S)!Fetched(tr)))
<1> DEFINE F == Guard(S)!Fetched(tr)
           each == [sym \in S.symbols |->
                     Guard(S)!GuardResult(Guard(S)!SymbolTrades(F, sym, S.guardStop), sym)
                      \union Guard(S)!CooldownResult(Guard(S)!SymbolTrades(F, sym, guards.stop), sym)]
           first == Guard(S)!GuardResult(Guard(S)!Within(F, S.lookback), Global)
<1>1. \A T, scope : /\ IsFiniteSet(Guard(S)!GuardResult(T, scope))
                   /\ IsFiniteSet(Guard(S)!CooldownResult(T, scope))
  BY FS_EmptySet, FS_Singleton DEF Guard!GuardResult, Guard!CooldownResult
<1>2. \A sym \in S.symbols : IsFiniteSet(each[sym])
  BY <1>1, FS_Union
<1>3. Guard(S)!Results(F) = first \cup UNION {each[sym] : sym \in S.symbols}
  BY DEF Guard!Results
<1> HIDE DEF each
<1>4. IsFiniteSet({each[sym] : sym \in S.symbols})
  BY ImageIsFinite DEF Present, IsSetting
<1>5. IsFiniteSet(UNION {each[sym] : sym \in S.symbols})
  BY <1>2, <1>4, FS_UNION
<1>6. IsFiniteSet(first)
  BY <1>1
<1> HIDE DEF F, first
<1>7. IsFiniteSet(Guard(S)!Results(F))
  BY <1>3, <1>5, <1>6, FS_Union
<1> QED BY <1>7 DEF F

-----------------------------------------------------------------------------
(* What evaluate does.                                                      *)

LEMMA LongestStopIs ==
  ASSUME NEW CONSTANT S, IsSetting(S)
  PROVE  /\ Guard(S)!LongestStop \in Nat /\ S.guardStop <= Guard(S)!LongestStop
         /\ \A c \in S.configs : c.stop <= Guard(S)!LongestStop
<1> DEFINE f == [c \in S.configs |-> c.stop]
           stops == {c.stop : c \in S.configs}
           all == {S.guardStop} \cup stops
<1>1. /\ IsFiniteSet(S.configs) /\ S.guardStop \in Nat
      /\ \A c \in S.configs : c.stop \in Nat
  BY DEF IsSetting
<1>2. {f[c] : c \in S.configs} = stops
  OBVIOUS
<1>3. IsFiniteSet({f[c] : c \in S.configs})
  <2> HIDE DEF f
  <2> QED BY <1>1, ImageIsFinite
<1>4. stops \subseteq Nat /\ \A c \in S.configs : c.stop \in stops
  BY <1>1
<1> HIDE DEF f, stops
<1>5. IsFiniteSet(all) /\ all \subseteq Int /\ all # {} /\ all \subseteq Nat
  <2>1. IsFiniteSet(stops)
    BY <1>2, <1>3
  <2>2. IsFiniteSet(all)
    BY <2>1, FS_AddElement
  <2>3. all \subseteq Nat /\ all # {}
    BY <1>1, <1>4
  <2>4. all \subseteq Int
    BY <2>3
  <2> QED BY <2>2, <2>3, <2>4
<1>6. Guard(S)!LongestStop = Guard(S)!Max(all)
  BY DEF Guard!LongestStop, stops
<1>7. S.guardStop \in all /\ \A c \in S.configs : c.stop \in all
  BY <1>4
<1> HIDE DEF all
<1>8. Guard(S)!Max(all) \in all /\ \A x \in all : x <= Guard(S)!Max(all)
  BY <1>5, GuardMax
<1> QED BY <1>5, <1>6, <1>7, <1>8

LEMMA NumbersAreFinite ==
  ASSUME NEW T, IsFiniteSet(T)
  PROVE  IsFiniteSet({l.n : l \in T})
<1> DEFINE f == [l \in T |-> l.n]
<1>1. IsFiniteSet({f[l] : l \in T})
  <2> HIDE DEF f
  <2> QED BY ImageIsFinite
<1>2. {f[l] : l \in T} = {l.n : l \in T}
  OBVIOUS
<1> QED BY <1>1, <1>2

\* The locks made or renewed.
LEMMA UpsertedIs ==
  ASSUME NEW CONSTANT S, NEW tr, Present(S, tr), NEW SS, SS \subseteq Guard(S)!Lock,
         made \in [Guard(S)!Keys -> Nat],
         NEW r \in Guard(S)!Results(Guard(S)!Fetched(tr))
  PROVE  /\ Guard(S)!Upserted(SS, r) \in Guard(S)!Lock
         /\ Guard(S)!Upserted(SS, r).key = r.key
         /\ Guard(S)!Upserted(SS, r).until = r.until
<1>1. ResultIs(S, tr, r)
  BY ResultsAre
<1>2. r.key \in Guard(S)!Keys /\ now < r.until /\ r.until \in Int /\ now \in Nat
  BY <1>1, PresentTypes DEF ResultIs
<1>3. r.until \in 1 .. S.maxTime + Guard(S)!LongestStop
  <2>1. /\ Guard(S)!LongestStop \in Nat /\ S.guardStop <= Guard(S)!LongestStop
        /\ guards.stop <= Guard(S)!LongestStop
        /\ now <= S.maxTime /\ S.maxTime \in Nat /\ S.guardStop \in Nat /\ guards.stop \in Nat
    BY LongestStopIs, PresentTypes DEF Present
  <2>2. CASE r.key[1] = "cooldown"
    <3>1. PICK t \in tr : r.until = t.close + guards.stop
      BY <1>1, <2>2 DEF ResultIs
    <3>2. t.close \in Nat /\ t.close <= now
      BY PresentTypes DEF Present
    <3> QED BY <1>2, <2>1, <3>1, <3>2
  <2>3. CASE r.key[1] = "guard"
    <3>1. r.until = now + S.guardStop
      BY <1>1, <2>3 DEF ResultIs
    <3> QED BY <1>2, <2>1, <3>1
  <2> QED BY <1>2, <2>2, <2>3 DEF Guard!Keys
<1>4. CASE \E l \in SS : l.key = r.key
  <2> DEFINE l == CHOOSE l \in SS : l.key = r.key
  <2>1. l \in SS /\ l.key = r.key
    BY <1>4
  <2>2. Guard(S)!Upserted(SS, r) = [l EXCEPT !.until = r.until]
    BY <1>4 DEF Guard!Upserted
  <2> HIDE DEF l
  <2> QED BY <1>3, <2>1, <2>2 DEF Guard!Lock
<1>5. CASE ~\E l \in SS : l.key = r.key
  <2>1. Guard(S)!Upserted(SS, r) = [key |-> r.key, n |-> made[r.key] + 1, until |-> r.until]
    BY <1>5 DEF Guard!Upserted
  <2>2. made[r.key] + 1 \in Nat \ {0}
    BY <1>2
  <2> QED BY <1>2, <1>3, <2>1, <2>2 DEF Guard!Lock
<1> QED BY <1>4, <1>5

\* The locks after an evaluation of the trades tr.
Upserts(S, tr, upserted) ==
  /\ upserted \subseteq Guard(S)!Lock /\ IsFiniteSet(upserted)
  /\ locks' = {l \in Guard(S)!Alive : Guard(S)!id(l) \notin {Guard(S)!id(u) : u \in upserted}}
                \cup upserted
  /\ made' \in [Guard(S)!Keys -> Nat]
  /\ writes' = writes \cup Guard(S)!Save(upserted) \cup Guard(S)!Delete(locks \ Guard(S)!Alive)
  /\ \A u \in upserted : ResultIs(S, tr, u)
  /\ guards.active =>
       \A r \in Guard(S)!Results(Guard(S)!Fetched(tr)) :
         \E u \in upserted : u.key = r.key /\ u.until = r.until /\ now < u.until

LEMMA Evaluation ==
  ASSUME NEW CONSTANT S, NEW tr, Present(S, tr), Guard(S)!Evaluates(tr),
         locks \subseteq Guard(S)!Lock, made \in [Guard(S)!Keys -> Nat]
  PROVE  \E upserted : Upserts(S, tr, upserted)
<1> DEFINE all == Guard(S)!Results(Guard(S)!Fetched(tr))
           results == IF guards.active THEN all ELSE {}
<1>1. PICK SS \in Guard(S)!Standing :
        LET upserted == {Guard(S)!Upserted(SS, r) : r \in results}
            ids == {Guard(S)!id(l) : l \in upserted}
        IN /\ locks' = {l \in Guard(S)!Alive : Guard(S)!id(l) \notin ids} \union upserted
           /\ made' = [k \in Guard(S)!Keys |->
                         Guard(S)!Max({made[k]} \union {l.n : l \in {u \in upserted : u.key = k}})]
           /\ writes' = writes \union Guard(S)!Save(upserted) \union Guard(S)!Delete(locks \ Guard(S)!Alive)
  BY DEF Guard!Evaluates
<1> DEFINE upserted == {Guard(S)!Upserted(SS, r) : r \in results}
<1>2. SS \subseteq Guard(S)!Lock
  BY DEF Guard!Standing, Guard!Alive
<1>3. \A r \in all : /\ Guard(S)!Upserted(SS, r) \in Guard(S)!Lock
                     /\ Guard(S)!Upserted(SS, r).key = r.key
                     /\ Guard(S)!Upserted(SS, r).until = r.until
  BY <1>2, UpsertedIs
<1>4. \A r \in all : ResultIs(S, tr, r)
  BY ResultsAre
<1>5. IsFiniteSet(results)
  BY ResultsAreFinite, FS_EmptySet
<1> HIDE DEF all
<1>6. IsFiniteSet(upserted)
  <2> DEFINE f == [r \in results |-> Guard(S)!Upserted(SS, r)]
  <2>1. {f[r] : r \in results} = upserted
    OBVIOUS
  <2>2. IsFiniteSet({f[r] : r \in results})
    <3> HIDE DEF f, results
    <3> QED BY <1>5, ImageIsFinite
  <2> QED BY <2>1, <2>2
<1>7. upserted \subseteq Guard(S)!Lock
  BY <1>3
<1>8. \A u \in upserted : ResultIs(S, tr, u)
  BY <1>3, <1>4 DEF ResultIs
<1>9. guards.active => \A r \in all : Guard(S)!Upserted(SS, r) \in upserted /\ now < r.until
  BY <1>4 DEF ResultIs
<1> HIDE DEF upserted
<1>10. made' \in [Guard(S)!Keys -> Nat]
  <2> DEFINE NumbersOf(k) == {l.n : l \in {u \in upserted : u.key = k}}
  <2>1. ASSUME NEW k \in Guard(S)!Keys
        PROVE  Guard(S)!Max({made[k]} \cup NumbersOf(k)) \in Nat
    <3>1. NumbersOf(k) \subseteq Nat /\ made[k] \in Nat
      BY <1>7 DEF Guard!Lock
    <3>2. {u \in upserted : u.key = k} \in SUBSET upserted
      OBVIOUS
    <3>3. IsFiniteSet({u \in upserted : u.key = k})
      BY <1>6, <3>2, FS_Subset
    <3>4. IsFiniteSet(NumbersOf(k))
      BY <3>3, NumbersAreFinite
    <3> HIDE DEF NumbersOf
    <3> DEFINE T == {made[k]} \cup NumbersOf(k)
    <3>5. T \subseteq Int /\ T # {} /\ IsFiniteSet(T) /\ T \subseteq Nat
      BY <3>1, <3>4, FS_AddElement
    <3> HIDE DEF T
    <3>6. Guard(S)!Max(T) \in Nat
      BY <3>5, GuardMax
    <3> QED BY <3>6 DEF T
  <2>2. made' = [k \in Guard(S)!Keys |-> Guard(S)!Max({made[k]} \union NumbersOf(k))]
    BY <1>1 DEF upserted
  <2> HIDE DEF NumbersOf
  <2> QED BY <2>1, <2>2
<1>11. /\ locks' = {l \in Guard(S)!Alive : Guard(S)!id(l) \notin {Guard(S)!id(u) : u \in upserted}}
                     \cup upserted
       /\ writes' = writes \cup Guard(S)!Save(upserted) \cup Guard(S)!Delete(locks \ Guard(S)!Alive)
  BY <1>1 DEF upserted
<1>12. Upserts(S, tr, upserted)
  BY <1>3, <1>6, <1>7, <1>8, <1>9, <1>10, <1>11 DEF Upserts, all
<1> QED BY <1>12

-----------------------------------------------------------------------------
(* Causes and locks after an evaluation.                                    *)

\* More trades, or a later time, leave a cause a cause.
LEMMA CauseStays ==
  ASSUME NEW CONSTANT S, NEW T, NEW U, T \subseteq U, IsFiniteSet(U), NEW a \in Int, NEW b \in Int,
         a <= b, NEW l, l.until \in Int, S.guardStop \in Int, S.limit \in Int, HasCause(S, T, a, l)
  PROVE  HasCause(S, U, b, l)
<1>1. ASSUME NEW since
      PROVE  /\ Cardinality(Stops(T, since)) <= Cardinality(Stops(U, since))
             /\ Cardinality(Stops(T, since)) \in Int /\ Cardinality(Stops(U, since)) \in Int
  <2>1. Stops(T, since) \in SUBSET Stops(U, since) /\ Stops(U, since) \in SUBSET U
    BY DEF Stops
  <2> QED BY <2>1, FS_Subset, FS_CardinalityType
<1>2. ASSUME NEW since, NEW sym
      PROVE  /\ Cardinality(StopsOf(T, sym, since)) <= Cardinality(StopsOf(U, sym, since))
             /\ Cardinality(StopsOf(T, sym, since)) \in Int /\ Cardinality(StopsOf(U, sym, since)) \in Int
  <2>1. StopsOf(T, sym, since) \in SUBSET StopsOf(U, sym, since) /\ StopsOf(U, sym, since) \in SUBSET U
    BY DEF StopsOf
  <2> QED BY <2>1, FS_Subset, FS_CardinalityType
<1> QED BY <1>1, <1>2 DEF HasCause

\* A result is a cause of the lock made or renewed for it.
LEMMA ResultIsCause ==
  ASSUME NEW CONSTANT S, NEW tr, Present(S, tr), NEW l, ResultIs(S, tr, l)
  PROVE  HasCause(S, tr, now, l)
<1>1. guards \in S.configs /\ now \in Int /\ S.guardStop \in Int
  BY PresentTypes DEF Present
<1>2. l.key[1] = "guard" => l.until - S.guardStop = now /\ l.until <= now + S.guardStop
  BY <1>1 DEF ResultIs
<1> QED BY <1>1, <1>2 DEF ResultIs, HasCause

\* A lock that is renewed does not end sooner than it did.
LEMMA RenewedEndsNoSooner ==
  ASSUME NEW CONSTANT S, NEW tr, Present(S, tr), OneStop(S), NEW T, tr \subseteq T,
         \A t \in T : t.close \in Int,
         \A t \in tr, u \in T \ tr : u.close <= t.close,
         NEW u, ResultIs(S, tr, u), NEW m, m.key = u.key, HasCause(S, T, now, m), now < m.until
  PROVE  m.until <= u.until
<1>1. guards \in S.configs /\ now \in Int /\ S.guardStop \in Int /\ guards.stop \in Int
  BY PresentTypes DEF Present
<1>2. CASE u.key[1] = "guard"
  BY <1>1, <1>2 DEF ResultIs, HasCause
<1>3. CASE u.key[1] = "cooldown"
  <2>1. PICK s \in T, c \in S.configs : s.symbol = m.key[2] /\ m.until = s.close + c.stop
    BY <1>3 DEF HasCause
  <2>2. PICK t \in tr : /\ t.symbol = u.key[2] /\ u.until = t.close + guards.stop
                        /\ \A v \in tr : v.symbol = t.symbol /\ now - guards.stop <= v.close
                                           => v.close <= t.close
    BY <1>3 DEF ResultIs
  <2>3. c.stop = guards.stop
    BY <1>1 DEF OneStop
  <2>4. s.close \in Int /\ t.close \in Int
    OBVIOUS
  <2>5. s.close <= t.close
    <3>1. CASE s \in tr
      <4>1. now - guards.stop <= s.close
        BY <1>1, <2>1, <2>3, <2>4
      <4> QED BY <2>1, <2>2, <3>1, <4>1
    <3>2. CASE s \notin tr
      BY <3>2
    <3> QED BY <3>1, <3>2
  <2> QED BY <1>1, <2>1, <2>2, <2>3, <2>4, <2>5
<1>4. u.key[1] \in {"guard", "cooldown"}
  BY DEF ResultIs, Guard!Keys
<1> QED BY <1>2, <1>3, <1>4

WriteTypes(S) == [op : {"save", "delete"}, lock : Guard(S)!Lock]

LEMMA InvTypes ==
  ASSUME NEW CONSTANT S, IsSetting(S), GuardInv(S)
  PROVE  /\ now \in 0 .. S.maxTime /\ now \in Int /\ S.guardStop \in Int /\ S.limit \in Int
         /\ guards \in S.configs
         /\ closings \subseteq closed /\ closed \subseteq Guard(S)!Trade /\ IsFiniteSet(closed)
         /\ \A t \in closed : t.close \in Int
         /\ locks \subseteq Guard(S)!Lock /\ store \subseteq Guard(S)!Lock
         /\ cleared \subseteq Guard(S)!Lock /\ writes \subseteq WriteTypes(S)
         /\ made \in [Guard(S)!Keys -> Nat]
         /\ \A l \in Guard(S)!Lock : l.until \in Int
         /\ \A l \in Known : l \in Guard(S)!Lock
BY DEF GuardInv, Guard!TypeOK, IsSetting, Guard!Trade, Guard!Lock, Known, WriteTypes

\* After an evaluation, locks have causes, and what is stored is in memory.
LEMMA Renewal ==
  ASSUME NEW CONSTANT S, IsSetting(S), GuardInv(S), NEW tr, tr = closings',
         tr \subseteq closed', closed \subseteq closed', closed' \subseteq Guard(S)!Trade,
         IsFiniteSet(closed'), BookHasLatest', UNCHANGED <<now, guards, store, cleared>>,
         Guard(S)!Evaluates(tr)
  PROVE  /\ Present(S, tr) /\ \E upserted : Upserts(S, tr, upserted)
         /\ made' \in [Guard(S)!Keys -> Nat]
         /\ locks' \subseteq Guard(S)!Lock /\ IsFiniteSet(locks') /\ writes' \subseteq WriteTypes(S)
         /\ Causes(S)' /\ StoredInMemory(S)'
<1>1. Present(S, tr)
  <2>1. \A t \in tr : t.close <= now
    BY DEF BookHasLatest
  <2>2. IsFiniteSet(tr)
    BY FS_Subset
  <2> QED BY <2>1, <2>2, InvTypes DEF Present
<1>2. PICK upserted : Upserts(S, tr, upserted)
  BY <1>1, InvTypes, Evaluation
<1>3. /\ upserted \subseteq Guard(S)!Lock /\ IsFiniteSet(upserted)
      /\ made' \in [Guard(S)!Keys -> Nat]
      /\ locks' = {l \in Guard(S)!Alive : Guard(S)!id(l) \notin {Guard(S)!id(u) : u \in upserted}}
                    \cup upserted
      /\ writes' = writes \cup Guard(S)!Save(upserted) \cup Guard(S)!Delete(locks \ Guard(S)!Alive)
      /\ \A u \in upserted : ResultIs(S, tr, u)
  BY <1>2 DEF Upserts
<1>4. /\ Guard(S)!Alive = {l \in locks : now < l.until}
      /\ locks \subseteq Guard(S)!Lock /\ \A l \in Guard(S)!Lock : l.until \in Int
      /\ writes \subseteq WriteTypes(S) /\ now \in Int
  <2>1. /\ locks \subseteq Guard(S)!Lock /\ \A l \in Guard(S)!Lock : l.until \in Int
        /\ writes \subseteq WriteTypes(S) /\ now \in Int
    BY InvTypes
  <2> QED BY <2>1 DEF Guard!Alive, Guard!is_active
<1>5. locks' \subseteq locks \cup upserted
  BY <1>3, <1>4
<1>6. locks' \subseteq Guard(S)!Lock /\ IsFiniteSet(locks')
  <2>1. IsFiniteSet(locks \cup upserted)
    BY <1>3, FS_Union DEF GuardInv
  <2> QED BY <1>3, <1>4, <1>5, <2>1, FS_Subset
<1>7. /\ Guard(S)!Save(upserted) \subseteq WriteTypes(S)
      /\ Guard(S)!Delete(locks \ Guard(S)!Alive) \subseteq WriteTypes(S)
      /\ \A w \in Guard(S)!Save(upserted) : w.lock \in upserted
      /\ \A w \in Guard(S)!Delete(locks \ Guard(S)!Alive) : w.lock \in locks /\ w.op = "delete"
  BY <1>3, <1>4 DEF Guard!Save, Guard!Delete, WriteTypes
<1>8. writes' \subseteq WriteTypes(S)
  BY <1>3, <1>4, <1>7
<1>9. ASSUME NEW l \in Guard(S)!Lock, HasCause(S, closed, now, l) \/ HasCause(S, tr, now, l)
      PROVE  HasCause(S, closed', now, l)
  <2>1. S.guardStop \in Int /\ S.limit \in Int /\ l.until \in Int
    BY InvTypes
  <2> QED BY <1>4, <1>9, <2>1, CauseStays
<1>10. \A l \in upserted : HasCause(S, closed', now, l)
  BY <1>1, <1>3, <1>9, ResultIsCause
<1>11. \A l \in Known : HasCause(S, closed', now, l) /\ l \in Guard(S)!Lock
  BY <1>9, InvTypes DEF GuardInv, Causes
<1>12. Known' \subseteq Known \cup upserted
  <2>1. store' = store
    OBVIOUS
  <2>2. \A w \in writes' : w.lock \in Known \cup upserted
    BY <1>3, <1>7 DEF Known
  <2> QED BY <1>5, <2>1, <2>2 DEF Known
<1>13. Causes(S)'
  <2>1. \A l \in Known' : HasCause(S, closed', now, l)
    BY <1>10, <1>11, <1>12
  <2> QED BY <2>1 DEF Causes, HasCause
<1>14. ASSUME OneStop(S), NEW l \in Guard(S)!Lock, InMemory(S, l)
       PROVE  InMemory(S, l)'
  <2>1. SUFFICES ASSUME now < l.until, NEW m \in locks, Guard(S)!id(m) = Guard(S)!id(l),
                        l.until <= m.until
                 PROVE  \E k \in locks' : Guard(S)!id(k) = Guard(S)!id(l) /\ l.until <= k.until
    BY <1>14 DEF InMemory
  <2>2. m.until \in Int /\ l.until \in Int
    BY <1>4
  <2>3. m \in Guard(S)!Alive
    BY <1>4, <2>1, <2>2
  <2>4. CASE Guard(S)!id(m) \notin {Guard(S)!id(u) : u \in upserted}
    BY <1>3, <2>1, <2>3, <2>4
  <2>5. CASE \E u \in upserted : Guard(S)!id(u) = Guard(S)!id(m)
    <3>1. PICK u \in upserted : Guard(S)!id(u) = Guard(S)!id(m)
      BY <2>5
    <3>2. u.key = m.key /\ u.until \in Int
      BY <1>3, <1>4, <3>1 DEF Guard!id
    <3>3. HasCause(S, closed', now, m) /\ ResultIs(S, tr, u) /\ now < m.until
      BY <1>3, <1>11, <1>4, <2>3 DEF Known
    <3>4. \A t \in closed' : t.close \in Int
      BY DEF Guard!Trade
    <3>5. \A t \in tr, v \in closed' \ tr : v.close <= t.close
      BY DEF BookHasLatest
    <3>6. m.until <= u.until
      BY <1>1, <1>14, <3>2, <3>3, <3>4, <3>5, RenewedEndsNoSooner
    <3>7. u \in locks' /\ l.until <= u.until
      BY <1>3, <2>1, <2>2, <3>2, <3>6
    <3> QED BY <2>1, <3>1, <3>7
  <2> QED BY <2>4, <2>5
<1>15. ASSUME OneStop(S), NEW u \in upserted PROVE InMemory(S, u)'
  BY <1>3, <1>4, <1>15 DEF InMemory
<1>16. StoredInMemory(S)'
  <2>1. SUFFICES ASSUME OneStop(S)
                 PROVE  /\ \A l \in store : InMemory(S, l)'
                        /\ \A w \in writes' : w.op = "save" => InMemory(S, w.lock)'
    BY DEF StoredInMemory, OneStop
  <2>2. /\ \A l \in store : InMemory(S, l) /\ l \in Guard(S)!Lock
        /\ \A w \in writes : w.lock \in Guard(S)!Lock /\ (w.op = "save" => InMemory(S, w.lock))
    BY <2>1, InvTypes DEF GuardInv, StoredInMemory, WriteTypes
  <2>3. \A l \in store : InMemory(S, l)'
    BY <1>14, <2>1, <2>2
  <2>4. ASSUME NEW w \in writes', w.op = "save" PROVE InMemory(S, w.lock)'
    <3>1. CASE w \in writes
      BY <1>14, <2>1, <2>2, <2>4, <3>1
    <3>2. CASE w \in Guard(S)!Save(upserted)
      BY <1>7, <1>15, <2>1, <3>2
    <3> QED BY <1>3, <1>7, <2>4, <3>1, <3>2
  <2> QED BY <2>3, <2>4
<1> QED BY <1>1, <1>2, <1>3, <1>6, <1>8, <1>13, <1>16

-----------------------------------------------------------------------------
(* One step.                                                                *)

LEMMA NoAnswer ==
  ASSUME NEW CONSTANT S, decision' = {}
  PROVE  AnswersHold(S)'
BY DEF AnswersHold, Guard!NoEntryInCooldown, Guard!RefusedForCause, Guard!GuardHolds,
       Guard!StoredLocksHold, Guard!Allowed, Guard!Refused

LEMMA CausesStay ==
  ASSUME NEW CONSTANT S, IsSetting(S), GuardInv(S), Known' \subseteq Known, closed \subseteq closed',
         IsFiniteSet(closed'), now' \in Int, now <= now'
  PROVE  Causes(S)'
<1>1. ASSUME NEW l \in Known PROVE HasCause(S, closed', now', l)
  <2>1. HasCause(S, closed, now, l)
    BY DEF GuardInv, Causes
  <2>2. now \in Int /\ S.guardStop \in Int /\ S.limit \in Int /\ l.until \in Int
    BY InvTypes
  <2> QED BY <2>1, <2>2, CauseStays
<1>2. \A l \in Known' : HasCause(S, closed', now', l)
  BY <1>1
<1> QED BY <1>2 DEF Causes, HasCause

LEMMA TickHolds ==
  ASSUME NEW CONSTANT S, IsSetting(S), GuardInv(S), Guard(S)!Tick
  PROVE  GuardInv(S)'
<1>1. /\ now' = now + 1 /\ now < S.maxTime /\ decision' = {} /\ now \in Int /\ now' \in 0 .. S.maxTime
      /\ UNCHANGED <<closings, locks, made, writes, store, guards, saved, put, closed, cleared, reboots>>
      /\ now <= now' /\ now' \in Int
  <2>1. now \in 0 .. S.maxTime
    BY InvTypes
  <2> QED BY <2>1 DEF Guard!Tick, Guard!lockVars, Guard!configVars, Guard!history, IsSetting
<1>2. Guard(S)!TypeOK' /\ IsFiniteSet(closed)' /\ IsFiniteSet(locks)' /\ IsFiniteSet(store)'
  BY <1>1 DEF GuardInv, Guard!TypeOK, Guard!Trade
<1>3. BookHasLatest'
  <2>1. \A t \in closed : t.close \in Int
    BY InvTypes
  <2> QED BY <1>1, <2>1 DEF GuardInv, BookHasLatest
<1>4. Causes(S)'
  BY <1>1, <1>2, CausesStay DEF Known
<1>5. StoredInMemory(S)'
  <2>1. ASSUME NEW l \in Guard(S)!Lock, InMemory(S, l) PROVE InMemory(S, l)'
    <3>1. l.until \in Int
      BY InvTypes
    <3> QED BY <1>1, <2>1, <3>1 DEF InMemory, Guard!id
  <2>2. /\ \A l \in store : l \in Guard(S)!Lock /\ l \in store'
        /\ \A w \in writes : w.lock \in Guard(S)!Lock
    BY <1>1, InvTypes DEF WriteTypes
  <2> QED BY <1>1, <2>1, <2>2 DEF GuardInv, StoredInMemory, OneStop
<1> QED BY <1>1, <1>2, <1>3, <1>4, <1>5, NoAnswer DEF GuardInv

LEMMA CloseTradeHolds ==
  ASSUME NEW CONSTANT S, IsSetting(S), GuardInv(S), NEW sym \in S.symbols, Guard(S)!CloseTrade(sym)
  PROVE  GuardInv(S)'
<1>1. PICK stop \in BOOLEAN :
        LET t == [symbol |-> sym, close |-> now, stop |-> stop, n |-> Guard(S)!Cardinality(closed)]
        IN /\ closings' = closings \union {t}
           /\ closed' = closed \union {t}
           /\ Guard(S)!Evaluates(closings') \/ UNCHANGED <<locks, made, writes>>
  BY DEF Guard!CloseTrade, Guard!lockVars
<1> DEFINE t == [symbol |-> sym, close |-> now, stop |-> stop, n |-> Cardinality(closed)]
<1>2. /\ closings' = closings \union {t} /\ closed' = closed \union {t}
      /\ Guard(S)!Evaluates(closings') \/ UNCHANGED <<locks, made, writes>>
  BY <1>1, GuardCardinality
<1>3. /\ Cardinality(closed) < S.maxTrades /\ decision' = {}
      /\ UNCHANGED <<now, store, guards, saved, put, cleared, reboots>>
  BY GuardCardinality DEF Guard!CloseTrade, Guard!configVars
<1>4. now \in 0 .. S.maxTime /\ now \in Int /\ IsFiniteSet(closed) /\ closed \subseteq Guard(S)!Trade
      /\ closings \subseteq closed /\ \A u \in closed : u.close \in Int
  BY InvTypes
<1>5. t \in Guard(S)!Trade
  <2>1. Cardinality(closed) \in Nat /\ S.maxTrades \in Nat
    BY <1>4, FS_CardinalityType DEF IsSetting
  <2>2. Cardinality(closed) \in 0 .. S.maxTrades
    BY <1>3, <2>1
  <2> QED BY <1>4, <2>2 DEF Guard!Trade
<1>6. t.close = now
  OBVIOUS
<1> HIDE DEF t
<1>7. /\ closed' \subseteq Guard(S)!Trade /\ IsFiniteSet(closed') /\ closings' \subseteq closed'
      /\ closed \subseteq closed'
  BY <1>2, <1>4, <1>5, FS_AddElement
<1>8. BookHasLatest'
  <2>1. \A u \in closed' : u.close <= now
    BY <1>2, <1>4, <1>6 DEF GuardInv, BookHasLatest
  <2>2. ASSUME NEW u \in closings', NEW v \in closed' \ closings' PROVE v.close <= u.close
    <3>1. v \in closed \ closings
      BY <1>2
    <3>2. v.close <= now
      BY <2>1
    <3> QED BY <1>2, <1>6, <3>1, <3>2 DEF GuardInv, BookHasLatest
  <2> QED BY <1>3, <2>1, <2>2 DEF BookHasLatest
<1>9. /\ made' \in [Guard(S)!Keys -> Nat]
      /\ locks' \subseteq Guard(S)!Lock /\ IsFiniteSet(locks') /\ writes' \subseteq WriteTypes(S)
      /\ Causes(S)' /\ StoredInMemory(S)'
  <2>1. CASE Guard(S)!Evaluates(closings')
    <3>1. PICK tr : tr = closings'
      OBVIOUS
    <3>2. Guard(S)!Evaluates(tr)
      BY <2>1, <3>1
    <3> QED BY <1>3, <1>7, <1>8, <3>1, <3>2, Renewal
  <2>2. CASE UNCHANGED <<locks, made, writes>>
    <3>1. Known' = Known
      BY <1>3, <2>2 DEF Known
    <3>2. Causes(S)'
      BY <1>3, <1>4, <1>7, <3>1, CausesStay
    <3>3. StoredInMemory(S)'
      BY <1>3, <2>2 DEF GuardInv, StoredInMemory, OneStop, InMemory, Guard!id
    <3> QED BY <2>2, <3>2, <3>3, InvTypes DEF GuardInv
  <2> QED BY <1>2, <2>1, <2>2
<1>10. Guard(S)!TypeOK'
  BY <1>3, <1>7, <1>9 DEF GuardInv, Guard!TypeOK, WriteTypes, Guard!Trade
<1>11. IsFiniteSet(store')
  BY <1>3 DEF GuardInv
<1> QED BY <1>3, <1>7, <1>8, <1>9, <1>10, <1>11, NoAnswer DEF GuardInv

LEMMA OtherFillHolds ==
  ASSUME NEW CONSTANT S, IsSetting(S), GuardInv(S), Guard(S)!OtherFill
  PROVE  GuardInv(S)'
<1>1. /\ Guard(S)!Evaluates(closings) /\ decision' = {}
      /\ UNCHANGED <<now, closings, store, guards, saved, put, closed, cleared, reboots>>
  BY DEF Guard!OtherFill, Guard!configVars, Guard!history
<1>2. BookHasLatest' /\ IsFiniteSet(store')
  BY <1>1 DEF GuardInv, BookHasLatest
<1>3. /\ made' \in [Guard(S)!Keys -> Nat]
      /\ locks' \subseteq Guard(S)!Lock /\ IsFiniteSet(locks') /\ writes' \subseteq WriteTypes(S)
      /\ Causes(S)' /\ StoredInMemory(S)'
  <2>1. PICK tr : tr = closings
    OBVIOUS
  <2>2. Guard(S)!Evaluates(tr)
    BY <1>1, <2>1
  <2> QED BY <1>1, <1>2, <2>1, <2>2, InvTypes, Renewal
<1>4. Guard(S)!TypeOK'
  BY <1>1, <1>3 DEF GuardInv, Guard!TypeOK, WriteTypes, Guard!Trade
<1> QED BY <1>1, <1>2, <1>3, <1>4, NoAnswer DEF GuardInv

\* Fewer locks, each that is gone expired or cleared: nothing is forgotten.
LEMMA FewerLocks ==
  ASSUME NEW CONSTANT S, IsSetting(S), GuardInv(S), locks' \subseteq locks,
         cleared \subseteq cleared', cleared' \subseteq Guard(S)!Lock,
         \A l \in locks \ locks' : ~(now < l.until) \/ l \in cleared',
         writes' \subseteq writes \cup Guard(S)!Delete(locks),
         UNCHANGED <<now, closings, made, store, guards, saved, put, closed, reboots>>,
         decision' = {}
  PROVE  GuardInv(S)'
<1>1. /\ Guard(S)!Delete(locks) \subseteq WriteTypes(S)
      /\ \A w \in Guard(S)!Delete(locks) : w.lock \in locks /\ w.op = "delete"
  BY InvTypes DEF Guard!Delete, WriteTypes
<1>2. Guard(S)!TypeOK'
  <2>1. writes' \subseteq WriteTypes(S) /\ locks' \subseteq Guard(S)!Lock
    BY <1>1, InvTypes
  <2> QED BY <2>1 DEF GuardInv, Guard!TypeOK, WriteTypes, Guard!Trade
<1>3. IsFiniteSet(closed)' /\ IsFiniteSet(locks)' /\ IsFiniteSet(store)' /\ BookHasLatest'
  BY FS_Subset DEF GuardInv, BookHasLatest
<1>4. Causes(S)'
  <2>1. Known' \subseteq Known
    BY <1>1 DEF Known
  <2>2. now \in Int
    BY InvTypes
  <2> QED BY <1>3, <2>1, <2>2, CausesStay
<1>5. StoredInMemory(S)'
  <2>1. ASSUME NEW l \in Guard(S)!Lock, InMemory(S, l) PROVE InMemory(S, l)'
    <3>1. SUFFICES ASSUME now < l.until, NEW m \in locks, Guard(S)!id(m) = Guard(S)!id(l),
                          l.until <= m.until
                   PROVE  \/ \E c \in cleared' : Guard(S)!id(c) = Guard(S)!id(l)
                          \/ \E k \in locks' : Guard(S)!id(k) = Guard(S)!id(l) /\ l.until <= k.until
      BY <2>1 DEF InMemory, Guard!id
    <3>2. now \in Int /\ l.until \in Int /\ m.until \in Int
      BY InvTypes
    <3> QED BY <3>1, <3>2
  <2>2. /\ \A l \in store : l \in Guard(S)!Lock
        /\ \A w \in writes : w.lock \in Guard(S)!Lock
    BY InvTypes DEF WriteTypes
  <2> QED BY <1>1, <2>1, <2>2 DEF GuardInv, StoredInMemory, OneStop
<1> QED BY <1>2, <1>3, <1>4, <1>5, NoAnswer DEF GuardInv

LEMMA ListLocksHolds ==
  ASSUME NEW CONSTANT S, IsSetting(S), GuardInv(S), Guard(S)!ListLocks
  PROVE  GuardInv(S)'
<1>1. /\ locks' = Guard(S)!Alive /\ decision' = {}
      /\ writes' = writes \union Guard(S)!Delete(locks \ Guard(S)!Alive)
      /\ UNCHANGED <<now, closings, made, store, guards, saved, put, closed, cleared, reboots>>
  BY DEF Guard!ListLocks, Guard!configVars, Guard!history
<1>2. Guard(S)!Delete(locks \ Guard(S)!Alive) \subseteq Guard(S)!Delete(locks)
  BY DEF Guard!Delete
<1>3. /\ locks' \subseteq locks
      /\ \A l \in locks \ locks' : ~(now < l.until)
  <2>1. \A l \in locks : l.until \in Int /\ now \in Int
    BY InvTypes
  <2> QED BY <1>1, <2>1 DEF Guard!Alive, Guard!is_active
<1> QED BY <1>1, <1>2, <1>3, InvTypes, FewerLocks

LEMMA ClearLockHolds ==
  ASSUME NEW CONSTANT S, IsSetting(S), GuardInv(S), NEW l \in locks, Guard(S)!ClearLock(l)
  PROVE  GuardInv(S)'
<1>1. /\ locks' = locks \ {l} /\ decision' = {} /\ cleared' = cleared \union {l}
      /\ writes' = writes \union Guard(S)!Delete({l})
      /\ UNCHANGED <<now, closings, made, store, guards, saved, put, closed, reboots>>
  BY DEF Guard!ClearLock, Guard!configVars, Guard!history
<1>2. Guard(S)!Delete({l}) \subseteq Guard(S)!Delete(locks)
  BY DEF Guard!Delete
<1>3. cleared' \subseteq Guard(S)!Lock /\ \A k \in locks \ locks' : k \in cleared'
  BY <1>1, InvTypes
<1> QED BY <1>1, <1>2, <1>3, FewerLocks

\* A write lands or is lost.
LEMMA WriteHolds ==
  ASSUME NEW CONSTANT S, IsSetting(S), GuardInv(S), NEW w \in writes,
         Guard(S)!WriteLands(w) \/ Guard(S)!WriteFails(w)
  PROVE  GuardInv(S)'
<1>1. /\ writes' = writes \ {w} /\ decision' = {}
      /\ store' \subseteq store \cup (IF w.op = "save" THEN {w.lock} ELSE {})
      /\ UNCHANGED <<now, closings, locks, made, guards, saved, put, closed, cleared, reboots>>
  BY DEF Guard!WriteLands, Guard!WriteFails, Guard!configVars, Guard!history
<1>2. w.lock \in Guard(S)!Lock /\ store \subseteq Guard(S)!Lock
  BY InvTypes DEF WriteTypes
<1>3. Guard(S)!TypeOK'
  BY <1>1, <1>2 DEF GuardInv, Guard!TypeOK, Guard!Trade
<1>4. IsFiniteSet(closed)' /\ IsFiniteSet(locks)' /\ IsFiniteSet(store)' /\ BookHasLatest'
  <2>1. IsFiniteSet(store \cup {w.lock}) /\ store' \in SUBSET (store \cup {w.lock})
    BY <1>1, FS_AddElement DEF GuardInv
  <2>2. IsFiniteSet(store')
    BY <2>1, FS_Subset
  <2> QED BY <1>1, <2>2 DEF GuardInv, BookHasLatest
<1>5. Causes(S)'
  <2>1. Known' \subseteq Known
    BY <1>1 DEF Known
  <2>2. now \in Int
    BY InvTypes
  <2> QED BY <1>1, <1>4, <2>1, <2>2, CausesStay
<1>6. StoredInMemory(S)'
  <2>1. \A l : InMemory(S, l) => InMemory(S, l)'
    BY <1>1 DEF InMemory, Guard!id
  <2>2. OneStop(S) => \A l \in store' : InMemory(S, l)
    BY <1>1 DEF GuardInv, StoredInMemory
  <2> QED BY <1>1, <2>1, <2>2 DEF GuardInv, StoredInMemory, OneStop
<1> QED BY <1>1, <1>3, <1>4, <1>5, <1>6, NoAnswer DEF GuardInv

\* A request for a configuration, and its failure.
LEMMA PutHolds ==
  ASSUME NEW CONSTANT S, IsSetting(S), GuardInv(S), NEW p \in S.puts,
         \/ Guard(S)!PutStarts(p) \/ Guard(S)!PutStores(p)
         \/ Guard(S)!PutApplies(p) \/ Guard(S)!PutFails(p)
  PROVE  GuardInv(S)'
<1>1. /\ decision' = {}
      /\ UNCHANGED <<now, closings, locks, made, writes, store, closed, cleared, reboots>>
  BY DEF Guard!PutStarts, Guard!PutStores, Guard!PutApplies, Guard!PutFails, Guard!lockVars,
         Guard!configVars, Guard!history
<1>2. /\ guards' \in S.configs /\ saved' \in S.configs
      /\ put' \in [S.puts -> [pc : {"idle", "hset", "incr", "failed"}, body : S.configs]]
  <2>1. /\ guards \in S.configs /\ saved \in S.configs
        /\ put \in [S.puts -> [pc : {"idle", "hset", "incr", "failed"}, body : S.configs]]
    BY DEF GuardInv, Guard!TypeOK
  <2>2. CASE Guard(S)!PutStarts(p)
    BY <2>1, <2>2 DEF Guard!PutStarts
  <2>3. CASE Guard(S)!PutStores(p)
    BY <2>1, <2>3 DEF Guard!PutStores
  <2>4. CASE Guard(S)!PutApplies(p)
    BY <2>1, <2>4 DEF Guard!PutApplies
  <2>5. CASE Guard(S)!PutFails(p)
    BY <2>1, <2>5 DEF Guard!PutFails
  <2> QED BY <2>2, <2>3, <2>4, <2>5
<1>3. Guard(S)!TypeOK'
  BY <1>1, <1>2 DEF GuardInv, Guard!TypeOK, Guard!Trade
<1>4. IsFiniteSet(closed)' /\ IsFiniteSet(locks)' /\ IsFiniteSet(store)' /\ BookHasLatest'
  BY <1>1 DEF GuardInv, BookHasLatest
<1>5. Causes(S)'
  BY <1>1 DEF GuardInv, Causes, Known, HasCause
<1>6. StoredInMemory(S)'
  BY <1>1 DEF GuardInv, StoredInMemory, OneStop, InMemory, Guard!id
<1> QED BY <1>1, <1>3, <1>4, <1>5, <1>6, NoAnswer DEF GuardInv

LEMMA RestartHolds ==
  ASSUME NEW CONSTANT S, IsSetting(S), GuardInv(S), Guard(S)!Restart
  PROVE  GuardInv(S)'
<1>1. /\ closings' = {} /\ guards' = saved /\ writes' = {} /\ decision' = {}
      /\ locks' = {l \in store : now < l.until} /\ reboots < S.maxRestarts /\ reboots' = reboots + 1
      /\ put' = [p \in S.puts |-> [put[p] EXCEPT !.pc = "idle"]]
      /\ UNCHANGED <<now, made, store, saved, closed, cleared>>
  <2>1. \A l \in store : l.until \in Int /\ now \in Int
    BY InvTypes
  <2> QED BY <2>1 DEF Guard!Restart, Guard!is_active
<1>2. Guard(S)!TypeOK'
  <2>1. put' \in [S.puts -> [pc : {"idle", "hset", "incr", "failed"}, body : S.configs]]
    BY <1>1 DEF GuardInv, Guard!TypeOK
  <2>2. reboots' \in 0 .. S.maxRestarts
    BY <1>1 DEF GuardInv, Guard!TypeOK, IsSetting
  <2>3. locks' \subseteq Guard(S)!Lock
    BY <1>1, InvTypes
  <2> QED BY <1>1, <2>1, <2>2, <2>3 DEF GuardInv, Guard!TypeOK, Guard!Trade
<1>3. IsFiniteSet(closed)' /\ IsFiniteSet(locks)' /\ IsFiniteSet(store)' /\ BookHasLatest'
  <2>1. locks' \in SUBSET store
    BY <1>1
  <2> QED BY <1>1, <2>1, FS_Subset DEF GuardInv, BookHasLatest
<1>4. Causes(S)'
  <2>1. Known' \subseteq Known
    BY <1>1 DEF Known
  <2>2. now \in Int
    BY InvTypes
  <2> QED BY <1>1, <1>3, <2>1, <2>2, CausesStay
<1>5. StoredInMemory(S)'
  <2>1. \A l \in store : l.until \in Int
    BY InvTypes
  <2> QED BY <1>1, <2>1 DEF StoredInMemory, InMemory
<1> QED BY <1>1, <1>2, <1>3, <1>4, <1>5, NoAnswer DEF GuardInv

-----------------------------------------------------------------------------
(* check_entry.                                                             *)

\* What RefusedForCause says of a symbol, of the trades T at a time.
Refusable(S, T, time, sym) ==
  \/ \E t \in T, c \in S.configs : t.symbol = sym /\ t.close + c.stop > time
  \/ Cardinality({t \in T : t.stop /\ t.close > time - S.guardStop - S.lookback}) >= S.limit
  \/ Cardinality({t \in T : t.stop /\ t.symbol = sym /\ t.close > time - S.guardStop - SymbolLookback(S)})
       >= S.limit

LEMMA LocksHaveReason ==
  ASSUME NEW CONSTANT S, IsSetting(S), NEW T, IsFiniteSet(T), T \subseteq Guard(S)!Trade,
         NEW time \in Int, NEW l \in Guard(S)!Lock, HasCause(S, T, time, l), time < l.until,
         NEW sym, l.key[2] \in {Global, sym}
  PROVE  Refusable(S, T, time, sym)
<1>1. /\ S.guardStop \in Int /\ S.lookback \in Int /\ S.limit \in Int /\ l.until \in Int
      /\ \A t \in T : t.close \in Int
      /\ SymbolLookback(S) \in Int
  <2>1. S.guardStop \in Int /\ S.lookback \in Int /\ S.limit \in Int /\ l.until \in Int
    BY DEF IsSetting, Guard!Lock
  <2>2. \A t \in T : t.close \in Int
    BY DEF Guard!Trade
  <2> QED BY <2>1, <2>2, TwoMax DEF SymbolLookback
<1>2. l.key \in {<<"guard", Global>>} \cup ({"guard", "cooldown"} \X S.symbols)
      /\ Global \notin S.symbols
  BY DEF Guard!Lock, Guard!Keys, IsSetting
<1>3. CASE l.key[1] = "cooldown"
  <2>1. l.key[2] = sym
    BY <1>2, <1>3
  <2>2. PICK t \in T, c \in S.configs : t.symbol = sym /\ l.until = t.close + c.stop
    BY <1>3, <2>1 DEF HasCause
  <2> QED BY <1>1, <2>2 DEF Refusable
<1>4. CASE l.key[1] = "guard" /\ l.key[2] = Global
  <2> DEFINE early == Stops(T, l.until - S.guardStop - S.lookback)
             late == {t \in T : t.stop /\ t.close > time - S.guardStop - S.lookback}
  <2>1. Cardinality(early) >= S.limit
    BY <1>4 DEF HasCause
  <2>2. early \in SUBSET late /\ late \in SUBSET T
    BY <1>1 DEF Stops
  <2>3. Cardinality(late) >= S.limit
    <3> HIDE DEF early, late
    <3>1. /\ Cardinality(early) <= Cardinality(late)
          /\ Cardinality(early) \in Int /\ Cardinality(late) \in Int
      BY <2>2, FS_Subset, FS_CardinalityType
    <3> QED BY <1>1, <2>1, <3>1
  <2> QED BY <2>3 DEF Refusable
<1>5. CASE l.key[1] = "guard" /\ l.key[2] # Global
  <2> DEFINE far == SymbolLookback(S)
             early == StopsOf(T, sym, l.until - S.guardStop - far)
             late == {t \in T : t.stop /\ t.symbol = sym /\ t.close > time - S.guardStop - far}
  <2>1. Cardinality(early) >= S.limit
    BY <1>5 DEF HasCause
  <2>2. early \in SUBSET late /\ late \in SUBSET T
    BY <1>1 DEF StopsOf
  <2>3. Cardinality(late) >= S.limit
    <3> HIDE DEF early, late
    <3>1. /\ Cardinality(early) <= Cardinality(late)
          /\ Cardinality(early) \in Int /\ Cardinality(late) \in Int
      BY <2>2, FS_Subset, FS_CardinalityType
    <3> QED BY <1>1, <2>1, <3>1
  <2> QED BY <2>3 DEF Refusable
<1> QED BY <1>2, <1>3, <1>4, <1>5

\* An answer that refuses has a reason.
LEMMA RefusalHolds ==
  ASSUME NEW CONSTANT S, NEW sym, UNCHANGED <<now, closed>>,
         \A s : [symbol |-> s, ok |-> FALSE] \in decision' => Refusable(S, closed, now, s)
  PROVE  Guard(S)!RefusedForCause'
<1>1. \A T : Guard(S)!Cardinality(T) = Cardinality(T)
  BY GuardCardinality
<1> QED BY <1>1 DEF Guard!RefusedForCause, Guard!Refused, Refusable, SymbolLookback

LEMMA CheckEntryHolds ==
  ASSUME NEW CONSTANT S, IsSetting(S), GuardInv(S), NEW sym \in S.symbols, Guard(S)!CheckEntry(sym)
  PROVE  GuardInv(S)'
<1>1. UNCHANGED <<now, closings, store, guards, saved, put, closed, cleared, reboots>>
  BY DEF Guard!CheckEntry, Guard!configVars, Guard!history
<1>2. /\ now \in Int /\ guards.active \in BOOLEAN /\ IsFiniteSet(closed)
      /\ closed \subseteq Guard(S)!Trade /\ locks \subseteq Guard(S)!Lock
      /\ closings \subseteq closed /\ \A l \in Guard(S)!Lock : l.until \in Int
  <2>1. guards.active \in BOOLEAN
    BY InvTypes DEF IsSetting
  <2> QED BY <2>1, InvTypes
<1>3. BookHasLatest' /\ IsFiniteSet(store') /\ IsFiniteSet(closed')
  BY <1>1 DEF GuardInv, BookHasLatest
<1>4. ASSUME NEW L, L \subseteq Guard(S)!Lock, Guard(S)!Refuses(sym, L),
             \A l \in L : HasCause(S, closed, now, l)
      PROVE  Refusable(S, closed, now, sym)
  <2>1. PICK l \in L : l.key[2] \in {Global, sym} /\ now < l.until
    BY <1>2, <1>4 DEF Guard!Refuses, Guard!Covers, Guard!is_active
  <2> QED BY <1>2, <1>4, <2>1, LocksHaveReason
<1>5. CASE guards.active /\ ~Guard(S)!Refuses(sym, locks)
  <2>1. PICK tr : tr = closings
    OBVIOUS
  <2>2. /\ Guard(S)!Evaluates(tr)
        /\ decision' = {[symbol |-> sym, ok |-> ~Guard(S)!Refuses(sym, locks')]}
    BY <1>5, <2>1 DEF Guard!CheckEntry
  <2>3. /\ Present(S, tr) /\ \E upserted : Upserts(S, tr, upserted)
        /\ made' \in [Guard(S)!Keys -> Nat]
        /\ locks' \subseteq Guard(S)!Lock /\ IsFiniteSet(locks') /\ writes' \subseteq WriteTypes(S)
        /\ Causes(S)' /\ StoredInMemory(S)'
    BY <1>1, <1>2, <1>3, <2>1, <2>2, Renewal
  <2>4. Guard(S)!TypeOK'
    <3>1. decision' \subseteq [symbol : S.symbols, ok : BOOLEAN]
      BY <2>2
    <3> QED BY <1>1, <2>3, <3>1 DEF GuardInv, Guard!TypeOK, WriteTypes, Guard!Trade
  <2>5. \A l \in locks' : HasCause(S, closed, now, l)
    BY <1>1, <2>3 DEF Causes, Known, HasCause
  <2>6. Guard(S)!RefusedForCause'
    <3>1. ASSUME NEW s, [symbol |-> s, ok |-> FALSE] \in decision'
          PROVE  s = sym /\ Guard(S)!Refuses(sym, locks')
      BY <2>2, <3>1
    <3> QED BY <1>1, <1>4, <2>3, <2>5, <3>1, RefusalHolds
  <2>7. PICK upserted : Upserts(S, tr, upserted)
    BY <2>3
  <2>8. upserted \subseteq locks' /\ upserted \subseteq Guard(S)!Lock
    BY <2>7 DEF Upserts
  <2>9. ASSUME NEW s \in S.symbols, Guard(S)!Allowed(s)'
        PROVE  s = sym /\ ~\E l \in locks' : l.key[2] \in {Global, sym} /\ now < l.until
    <3>1. [symbol |-> s, ok |-> TRUE] \in decision'
      BY <2>9 DEF Guard!Allowed
    <3>2. s = sym /\ ~Guard(S)!Refuses(sym, locks')
      BY <2>2, <3>1
    <3> QED BY <1>2, <2>3, <3>2 DEF Guard!Refuses, Guard!Covers, Guard!is_active
  <2>10. Guard(S)!NoEntryInCooldown'
    <3>1. SUFFICES ASSUME NEW s \in S.symbols, Guard(S)!Allowed(s)', NEW t \in closings,
                          t.symbol = s, ~(t.close + guards.stop <= now)
                   PROVE  FALSE
      BY <1>1 DEF Guard!NoEntryInCooldown
    <3>2. now < t.close + guards.stop /\ t \in tr
      BY <2>1, <2>3, <3>1, PresentTypes
    <3>3. PICK r \in Guard(S)!Results(Guard(S)!Fetched(tr)) : r.key = <<"cooldown", s>>
      BY <2>3, <3>1, <3>2, CooldownFound
    <3>4. PICK u \in upserted : u.key = <<"cooldown", s>> /\ now < u.until
      BY <1>5, <2>7, <3>3 DEF Upserts
    <3> QED BY <2>8, <2>9, <3>1, <3>4
  <2>11. ASSUME 0 < S.profit PROVE Guard(S)!GuardHolds'
    <3>1. SUFFICES ASSUME NEW s \in S.symbols, Guard(S)!Allowed(s)'
                   PROVE  Cardinality(Stops(closings, now - S.lookback)) < S.limit
      BY <1>1, GuardCardinality DEF Guard!GuardHolds, Stops
    <3>2. SUFFICES ASSUME ~(Cardinality(Stops(closings, now - S.lookback)) < S.limit)
                   PROVE  FALSE
      OBVIOUS
    <3>3. Cardinality(Stops(tr, now - S.lookback)) >= S.limit
      <4>1. Stops(tr, now - S.lookback) \in SUBSET tr
        BY DEF Stops
      <4>2. Cardinality(Stops(tr, now - S.lookback)) \in Nat /\ S.limit \in Nat
        BY <2>3, <4>1, FS_Subset, FS_CardinalityType, PresentTypes DEF Present
      <4> QED BY <2>1, <3>2, <4>2
    <3>4. PICK r \in Guard(S)!Results(Guard(S)!Fetched(tr)) : r.key = <<"guard", Global>>
      BY <2>3, <2>11, <3>3, GuardFound
    <3>5. PICK u \in upserted : u.key = <<"guard", Global>> /\ now < u.until
      BY <1>5, <2>7, <3>4 DEF Upserts
    <3> QED BY <2>8, <2>9, <3>1, <3>5
  <2>12. ASSUME OneStop(S) PROVE Guard(S)!StoredLocksHold'
    <3>1. SUFFICES ASSUME NEW s \in S.symbols, Guard(S)!Allowed(s)', NEW l \in store,
                          l.key[2] \in {Global, s}, now < l.until
                   PROVE  \E c \in cleared : Guard(S)!id(c) = Guard(S)!id(l)
      <4>1. \A l \in store : l.until \in Int
        BY InvTypes
      <4> QED BY <1>1, <1>2, <4>1 DEF Guard!StoredLocksHold, Guard!Covers, Guard!is_active, Guard!id
    <3>2. \A m \in locks' : Guard(S)!id(m) = Guard(S)!id(l) => m.key = l.key
      BY DEF Guard!id
    <3>3. \A m \in locks' : m.until \in Int /\ l.until \in Int
      BY <1>2, <2>3, InvTypes
    <3>4. InMemory(S, l)'
      BY <1>1, <2>3, <2>12 DEF StoredInMemory, OneStop
    <3>5. \/ \E c \in cleared : Guard(S)!id(c) = Guard(S)!id(l)
          \/ \E m \in locks' : Guard(S)!id(m) = Guard(S)!id(l) /\ l.until <= m.until
      BY <1>1, <3>1, <3>4 DEF InMemory, Guard!id
    <3> QED BY <1>2, <2>9, <3>1, <3>2, <3>3, <3>5
  <2>13. AnswersHold(S)'
    BY <2>6, <2>10, <2>11, <2>12 DEF AnswersHold, OneStop
  <2> QED BY <1>3, <2>3, <2>4, <2>13 DEF GuardInv
<1>6. CASE ~(guards.active /\ ~Guard(S)!Refuses(sym, locks))
  <2>1. /\ decision' = {[symbol |-> sym, ok |-> ~guards.active]}
        /\ UNCHANGED <<locks, made, writes>>
    BY <1>6 DEF Guard!CheckEntry, Guard!lockVars
  <2>2. Guard(S)!TypeOK'
    <3>1. decision' \subseteq [symbol : S.symbols, ok : BOOLEAN]
      BY <1>2, <2>1
    <3> QED BY <1>1, <2>1, <3>1 DEF GuardInv, Guard!TypeOK, Guard!Trade
  <2>3. Causes(S)' /\ StoredInMemory(S)' /\ IsFiniteSet(locks')
    BY <1>1, <2>1 DEF GuardInv, Causes, Known, HasCause, StoredInMemory, OneStop, InMemory, Guard!id
  <2>4. Guard(S)!RefusedForCause'
    <3>1. ASSUME NEW s, [symbol |-> s, ok |-> FALSE] \in decision'
          PROVE  s = sym /\ Guard(S)!Refuses(sym, locks)
      BY <1>2, <1>6, <2>1, <3>1
    <3>2. \A l \in locks : HasCause(S, closed, now, l)
      BY DEF GuardInv, Causes, Known
    <3> QED BY <1>1, <1>2, <1>4, <3>1, <3>2, RefusalHolds
  <2>5. \A s : ~Guard(S)!Allowed(s)'
    BY <1>1, <1>2, <2>1 DEF Guard!Allowed
  <2>6. AnswersHold(S)'
    BY <2>4, <2>5 DEF AnswersHold, Guard!NoEntryInCooldown, Guard!GuardHolds, Guard!StoredLocksHold
  <2> QED BY <1>3, <2>2, <2>3, <2>6 DEF GuardInv
<1> QED BY <1>5, <1>6

-----------------------------------------------------------------------------
(* Every step.                                                              *)

LEMMA GuardInit ==
  ASSUME NEW CONSTANT S, IsSetting(S), Guard(S)!Init
  PROVE  GuardInv(S)
<1>1. /\ now = 0 /\ closings = {} /\ guards = S.initial /\ locks = {} /\ writes = {} /\ store = {}
      /\ made = [k \in Guard(S)!Keys |-> 0] /\ saved = S.initial /\ decision = {} /\ closed = {}
      /\ cleared = {} /\ reboots = 0
      /\ put = [p \in S.puts |-> [pc |-> "idle", body |-> S.initial]]
  BY DEF Guard!Init
<1>2. Guard(S)!TypeOK
  BY <1>1 DEF Guard!TypeOK, IsSetting
<1>3. IsFiniteSet(closed) /\ IsFiniteSet(locks) /\ IsFiniteSet(store)
  BY <1>1, FS_EmptySet
<1>4. BookHasLatest /\ Causes(S) /\ StoredInMemory(S)
  BY <1>1 DEF BookHasLatest, Causes, Known, StoredInMemory
<1>5. AnswersHold(S)
  BY <1>1 DEF AnswersHold, Guard!NoEntryInCooldown, Guard!RefusedForCause, Guard!GuardHolds,
              Guard!StoredLocksHold, Guard!Allowed, Guard!Refused
<1> QED BY <1>2, <1>3, <1>4, <1>5 DEF GuardInv

LEMMA GuardStep ==
  ASSUME NEW CONSTANT S, IsSetting(S), GuardInv(S), Guard(S)!Next
  PROVE  GuardInv(S)'
<1>1. CASE Guard(S)!Tick
  BY <1>1, TickHolds
<1>2. ASSUME NEW sym \in S.symbols, Guard(S)!CloseTrade(sym) PROVE GuardInv(S)'
  BY <1>2, CloseTradeHolds
<1>3. ASSUME NEW sym \in S.symbols, Guard(S)!CheckEntry(sym) PROVE GuardInv(S)'
  BY <1>3, CheckEntryHolds
<1>4. CASE Guard(S)!OtherFill
  BY <1>4, OtherFillHolds
<1>5. CASE Guard(S)!ListLocks
  BY <1>5, ListLocksHolds
<1>6. ASSUME NEW l \in locks, Guard(S)!ClearLock(l) PROVE GuardInv(S)'
  BY <1>6, ClearLockHolds
<1>7. ASSUME NEW w \in writes, Guard(S)!WriteLands(w) \/ Guard(S)!WriteFails(w) PROVE GuardInv(S)'
  BY <1>7, WriteHolds
<1>8. ASSUME NEW p \in S.puts,
             \/ Guard(S)!PutStarts(p) \/ Guard(S)!PutStores(p)
             \/ Guard(S)!PutApplies(p) \/ Guard(S)!PutFails(p)
      PROVE  GuardInv(S)'
  BY <1>8, PutHolds
<1>9. CASE Guard(S)!Restart
  BY <1>9, RestartHolds
<1> QED BY <1>1, <1>2, <1>3, <1>4, <1>5, <1>6, <1>7, <1>8, <1>9 DEF Guard!Next

LEMMA GuardStutters ==
  ASSUME NEW CONSTANT S, GuardInv(S), UNCHANGED guardVars
  PROVE  GuardInv(S)'
<1>1. UNCHANGED <<now, closings, guards, locks, made, writes, store, saved, put, decision, closed,
                  cleared, reboots>>
  BY DEF guardVars
<1>2. Guard(S)!TypeOK' /\ BookHasLatest'
  BY <1>1 DEF GuardInv, Guard!TypeOK, Guard!Trade, BookHasLatest
<1>3. Causes(S)' /\ StoredInMemory(S)'
  BY <1>1 DEF GuardInv, Causes, Known, HasCause, StoredInMemory, OneStop, InMemory, Guard!id
<1>4. AnswersHold(S)'
  <2>1. /\ Guard(S)!NoEntryInCooldown' <=> Guard(S)!NoEntryInCooldown
        /\ Guard(S)!RefusedForCause' <=> Guard(S)!RefusedForCause
    BY <1>1 DEF Guard!NoEntryInCooldown, Guard!RefusedForCause, Guard!Allowed, Guard!Refused
  <2>2. /\ Guard(S)!GuardHolds' <=> Guard(S)!GuardHolds
        /\ Guard(S)!StoredLocksHold' <=> Guard(S)!StoredLocksHold
    BY <1>1 DEF Guard!GuardHolds, Guard!StoredLocksHold, Guard!Allowed, Guard!Covers,
                Guard!is_active, Guard!id
  <2> QED BY <2>1, <2>2 DEF GuardInv, AnswersHold, OneStop
<1> QED BY <1>1, <1>2, <1>3, <1>4 DEF GuardInv

LEMMA GuardInvIsEnough ==
  ASSUME NEW CONSTANT S, GuardInv(S)
  PROVE  Guard(S)!LocksHold
BY DEF GuardInv, AnswersHold, OneStop, Guard!LocksHold

\* check_entry, in both settings: entries are refused while an exit of the symbol
\* is younger than the cooldown, where the guard counts enough stop-loss exits, and
\* while a lock that reached Redis has not expired, and for such a cause only
\* (ProtectionManager).
THEOREM LocksStayHeld == TradingSpec => []LocksHold
<1> DEFINE Inv == IF side = "restart" THEN GuardInv(Restarted) ELSE GuardInv(Running)
<1>1. TradingInit => Inv
  BY SettingAssumption, GuardInit DEF TradingInit
<1>2. ASSUME Inv, [TradingNext]_<<side, guardVars, streamVars, vars>> PROVE Inv'
  <2>1. CASE side' = side /\ UNCHANGED guardVars
    <3>1. CASE side = "restart"
      BY <1>2, <2>1, <3>1, GuardStutters
    <3>2. CASE side # "restart"
      BY <1>2, <2>1, <3>2, GuardStutters
    <3> QED BY <3>1, <3>2
  <2>2. CASE side = "live" /\ side' = side /\ Guard(Running)!Next
    BY <1>2, <2>2, SettingAssumption, GuardStep
  <2>3. CASE side = "restart" /\ side' = side /\ Guard(Restarted)!Next
    BY <1>2, <2>3, SettingAssumption, GuardStep
  <2> QED BY <1>2, <2>1, <2>2, <2>3 DEF TradingNext
<1>3. Inv => LocksHold
  BY GuardInvIsEnough DEF LocksHold
<1> QED BY <1>1, <1>2, <1>3, PTL DEF TradingSpec
=============================================================================
