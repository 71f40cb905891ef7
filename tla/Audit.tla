-------------------------------- MODULE Audit --------------------------------
(***************************************************************************)
(* The audit trail (core/audit.py): every action is written to a Redis     *)
(* stream and to a Postgres table, one after the other; failures are       *)
(* counted and never reach the caller.  After Threshold failures in a row  *)
(* the table is left alone for a while.  The counters are shared by the    *)
(* calls of a process.                                                     *)
(***************************************************************************)
EXTENDS Integers, FiniteSets

CONSTANTS
  Calls,
  Threshold, Cooldown,  \* _PG_BREAKER_THRESHOLD (3), _PG_BREAKER_COOLDOWN_S (60)
  MaxTime,              \* bounds the model
  None

VARIABLES
  pc,           \* "idle", "redis", "postgres", "done", or "cut" by a cancellation
  stream, table,        \* calls with an entry in audit:log, with a row in audit_log
  counts,       \* _FAILURE_COUNTS
  failures,     \* _pg_consecutive_failures
  retryAfter,   \* _pg_retry_after; None is 0.0
  now,
  lastFailure,  \* when a write to the table failed the last time (history)
  unjust        \* was the table left alone without a failure in the cooldown? (history)

vars == <<pc, stream, table, counts, failures, retryAfter, now, lastFailure, unjust>>
breakerVars == <<failures, retryAfter>>
historyVars == <<now, lastFailure, unjust>>

Init ==
  /\ pc = [c \in Calls |-> "idle"] /\ stream = {} /\ table = {}
  /\ counts = [redis |-> 0, postgres |-> 0, skipped |-> 0]
  /\ failures = 0 /\ retryAfter = None
  /\ now = 0 /\ lastFailure = None /\ unjust = FALSE

\* audit_log, up to the await of XADD.
Begins(c) ==
  /\ pc[c] = "idle" /\ pc' = [pc EXCEPT ![c] = "redis"]
  /\ UNCHANGED <<stream, table, counts, breakerVars, historyVars>>

\* Mutant: an open breaker stays open.
BreakerLatched == retryAfter # None
\* _pg_breaker_open
BreakerOpen == retryAfter # None /\ now < retryAfter

\* _write_postgres as far as its first await, counts being those after Redis: with an
\* open breaker the row is skipped; one whose time is over is closed first.
ToPostgres(c, counted) ==
  IF BreakerOpen
  THEN /\ pc' = [pc EXCEPT ![c] = "done"]
       /\ counts' = [counted EXCEPT !.skipped = @ + 1]
       /\ unjust' = (unjust \/ lastFailure = None \/ now >= lastFailure + Cooldown)
       /\ UNCHANGED <<breakerVars, now, lastFailure>>
  ELSE /\ pc' = [pc EXCEPT ![c] = "postgres"]
       /\ counts' = counted
       /\ IF retryAfter = None THEN UNCHANGED breakerVars
          ELSE retryAfter' = None /\ failures' = 0
       /\ UNCHANGED historyVars

RedisWrites(c) ==
  /\ pc[c] = "redis" /\ stream' = stream \cup {c}
  /\ ToPostgres(c, counts)
  /\ UNCHANGED table

\* There is no client, or XADD fails, after it has landed maybe.
RedisFails(c) ==
  /\ pc[c] = "redis" /\ stream' \in {stream, stream \cup {c}}
  /\ ToPostgres(c, [counts EXCEPT !.redis = @ + 1])
  /\ UNCHANGED table

PostgresWrites(c) ==
  /\ pc[c] = "postgres" /\ table' = table \cup {c}
  /\ pc' = [pc EXCEPT ![c] = "done"]
  /\ failures' = 0 /\ retryAfter' = None
  /\ UNCHANGED <<stream, counts, historyVars>>

\* _record_failure and _pg_breaker_record_failure
PostgresFails(c) ==
  /\ pc[c] = "postgres" /\ table' \in {table, table \cup {c}}
  /\ pc' = [pc EXCEPT ![c] = "done"]
  /\ counts' = [counts EXCEPT !.postgres = @ + 1]
  /\ failures' = failures + 1
  /\ retryAfter' = IF failures' >= Threshold /\ retryAfter = None
                   THEN now + Cooldown ELSE retryAfter
  /\ lastFailure' = now
  /\ UNCHANGED <<stream, now, unjust>>

\* The task that waits for the call is cancelled (an algo's task, for one): a
\* CancelledError is not an Exception, and nothing is counted.
Cancelled(c) ==
  /\ \/ /\ pc[c] = "redis" /\ stream' \in {stream, stream \cup {c}} /\ UNCHANGED table
     \/ /\ pc[c] = "postgres" /\ table' \in {table, table \cup {c}} /\ UNCHANGED stream
  /\ pc' = [pc EXCEPT ![c] = "cut"]
  /\ UNCHANGED <<counts, breakerVars, historyVars>>

Tick ==
  /\ now < MaxTime /\ now' = now + 1
  /\ UNCHANGED <<pc, stream, table, counts, breakerVars, lastFailure, unjust>>

Next ==
  \/ Tick
  \/ \E c \in Calls :
       \/ Begins(c) \/ RedisWrites(c) \/ RedisFails(c)
       \/ PostgresWrites(c) \/ PostgresFails(c) \/ Cancelled(c)

Spec == Init /\ [][Next]_vars

-----------------------------------------------------------------------------
Ended == {c \in Calls : pc[c] = "done"}

\* What is missing from the stream or the table was counted, unless the caller was
\* cancelled, and the table is left alone only within a cooldown of a failure, however
\* the calls, their late answers and the breaker interleave (core/audit.py:146-224).
AuditIsAccounted ==
  /\ Cardinality(Ended \ stream) <= counts.redis
  /\ Cardinality(Ended \ table) <= counts.postgres + counts.skipped
  /\ ~unjust
=============================================================================
