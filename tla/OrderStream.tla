----------------------------- MODULE OrderStream -----------------------------
(***************************************************************************)
(* What a browser sees of the orders: the OMS publishes an event when a    *)
(* status changes (oms/manager.py), an event is an entry of a Redis        *)
(* stream, and each websocket connection (api/v1/endpoints/stream.py) has  *)
(* a task that follows the stream and one that sends the orders of the     *)
(* book every few seconds.                                                 *)
(*                                                                         *)
(* An order is a number, later ones being larger; its versions are what    *)
(* to_dict shows of it, one after the other.                               *)
(***************************************************************************)
EXTENDS Integers, Sequences, SequencesExt

CONSTANTS
  Orders,       \* a set of naturals
  LastVersion,  \* the last version of each order
  Count,        \* entries per read (10)
  Limit,        \* orders per round of snapshots (50)
  None

VARIABLES
  book,         \* the version of each order in the book, 0 before it is recorded
  tasks,        \* publications on their way: [order, nth, shows], shows 0 as long as
                \* the task has not looked at the order
  stream,       \* orders:events
  open,         \* is the client connected?
  lastId,       \* of _consume_redis; None is "$"
  from,         \* the position its read waits behind, None while it does not read
  batch,        \* positions that were read and not sent yet
  round,        \* orders of the snapshot round that were not sent yet
  view          \* the version the client shows of each order, 0 for none

vars == <<book, tasks, stream, open, lastId, from, batch, round, view>>
serverVars == <<book, tasks, stream>>
readVars == <<lastId, from, batch>>
clientVars == <<open, readVars, round, view>>

Recorded == {o \in Orders : book[o] > 0}
\* list_orders: the newest orders, up to the limit.
Listed == {o \in Recorded : Cardinality({p \in Recorded : p > o}) < Limit}

Init ==
  /\ book = [o \in Orders |-> 0] /\ tasks = {} /\ stream = <<>>
  /\ open = FALSE
  /\ lastId = None /\ from = None /\ batch = <<>> /\ round = <<>>
  /\ view = [o \in Orders |-> 0]

-----------------------------------------------------------------------------
(* The order manager. *)

\* A change that is published: by submit_order and cancel_order, which build the entry
\* at once, or by a poll, whose task looks at the order when it starts.
Publishes(o) ==
  /\ book[o] < LastVersion[o]
  /\ book' = [book EXCEPT ![o] = @ + 1]
  /\ \E seen \in {book'[o]} \cup (IF book[o] > 0 THEN {0} ELSE {}) :
       tasks' = tasks \cup {[order |-> o, nth |-> book'[o], shows |-> seen]}
  /\ UNCHANGED <<stream, clientVars>>

\* A poll that finds more filled and the same status publishes nothing.
Fills(o) ==
  /\ book[o] \in 1 .. LastVersion[o] - 1
  /\ book' = [book EXCEPT ![o] = @ + 1]
  /\ UNCHANGED <<tasks, stream, clientVars>>

TaskStarts(t) ==
  /\ t \in tasks /\ t.shows = 0
  /\ tasks' = (tasks \ {t}) \cup {[t EXCEPT !.shows = book[t.order]]}
  /\ UNCHANGED <<book, stream, clientVars>>

\* XADD lands, in whichever order the connections deliver it, or fails silently.
EventLands(t) ==
  /\ t \in tasks /\ t.shows # 0
  /\ tasks' = tasks \ {t}
  /\ stream' = Append(stream, [order |-> t.order, shows |-> t.shows])
  /\ UNCHANGED <<book, clientVars>>

EventFails(t) ==
  /\ t \in tasks /\ t.shows # 0
  /\ tasks' = tasks \ {t}
  /\ UNCHANGED <<book, stream, clientVars>>

-----------------------------------------------------------------------------
(* The connection. *)

Connects ==
  /\ ~open /\ open' = TRUE
  /\ view' = [o \in Orders |-> 0]
  /\ UNCHANGED <<serverVars, readVars, round>>

\* The client leaves, or sends a text, which receive_text takes for the same: the
\* tasks of the connection are cancelled.
Leaves ==
  /\ open /\ open' = FALSE
  /\ lastId' = None /\ from' = None /\ batch' = <<>> /\ round' = <<>>
  /\ UNCHANGED <<serverVars, view>>

\* XREAD; "$" means the end of the stream at this moment.
ReadStarts ==
  /\ open /\ from = None /\ batch = <<>>
  /\ from' = IF lastId = None THEN Len(stream) ELSE lastId
  /\ UNCHANGED <<serverVars, open, lastId, batch, round, view>>

ReadReturns ==
  /\ from # None /\ Len(stream) > from
  /\ batch' = [i \in 1 .. Min({Len(stream) - from, Count}) |-> from + i]
  /\ from' = None
  /\ UNCHANGED <<serverVars, open, lastId, round, view>>

\* Nothing came in time, or Redis failed.
ReadEnds ==
  /\ from # None /\ from' = None
  /\ UNCHANGED <<serverVars, open, lastId, batch, round, view>>

SendsEvent ==
  /\ batch # <<>>
  /\ LET e == stream[Head(batch)] IN view' = [view EXCEPT ![e.order] = e.shows]
  /\ lastId' = Head(batch) /\ batch' = Tail(batch)
  /\ UNCHANGED <<serverVars, open, from, round>>

ListsOrders ==
  /\ open /\ round = <<>>
  /\ round' = SetToSortSeq(Listed, >)
  /\ UNCHANGED <<serverVars, open, readVars, view>>

\* Mutant: orders are polled as long as the stream has given nothing only, as the
\* comment of _fallback_poll has it.
PollsWithoutStream == lastId = None /\ ListsOrders
\* _fallback_poll, which runs whether or not Redis is there: lists the orders once
\* and sends each as it is when its turn comes.
PollStarts == ListsOrders

PollSends ==
  /\ round # <<>>
  /\ view' = [view EXCEPT ![Head(round)] = book[Head(round)]]
  /\ round' = Tail(round)
  /\ UNCHANGED <<serverVars, open, readVars>>

Next ==
  \/ \E o \in Orders : Publishes(o) \/ Fills(o)
  \/ \E t \in tasks : TaskStarts(t) \/ EventLands(t) \/ EventFails(t)
  \/ Connects \/ Leaves
  \/ ReadStarts \/ ReadReturns \/ ReadEnds \/ SendsEvent
  \/ PollStarts \/ PollSends

\* The sleep of five seconds ends, and a message is sent or fails with the connection.
Fairness == WF_vars(PollStarts \/ PollSends)

Spec == Init /\ [][Next]_vars /\ Fairness

-----------------------------------------------------------------------------
(* Properties. *)

\* Once a connection has received an event, it receives the events of the stream one by
\* one: none twice and none left out, over reads that find nothing, fail, or find more
\* than they take (stream.py:164-180).
EventsInOrder ==
  [][batch' # batch /\ batch # <<>> /\ open' /\ lastId # None => lastId' = lastId + 1]_vars

\* A client that stays connected shows every order as it is in the book in the end,
\* whatever became of the events: lost before the first read or for good, swapped,
\* sent later than a newer snapshot, or never published.  Orders beyond the limit of
\* the snapshots are excepted (stream.py:195-207).
ClientsCatchUp ==
  /\ EventsInOrder
  /\ \A o \in Orders : <>[]open => <>[](o \in Listed => view[o] = book[o])
=============================================================================
