------------------------------- MODULE Inbox -------------------------------
(***************************************************************************)
(* The notification inbox in Redis: a record per notification and a        *)
(* timeline, written together; the oldest are removed above the capacity.  *)
(* Events are recorded by whichever process dispatches them; readers mark, *)
(* delete and clear.  Notification n is the n-th by its time.              *)
(***************************************************************************)
EXTENDS Integers, FiniteSets, FiniteSetsExt

CONSTANTS
    N,            \* notifications 1..N
    Capacity,     \* MAX_NOTIFICATIONS
    Marks, MarkAlls, Deletes, Clears,   \* requests of readers
    None

VARIABLES
    record,       \* record[n]: "unread", "read" or None
    timeline,     \* the ids of the ZSET
    writer,       \* writer[n]: where the process is that records n
    excess,       \* excess[n]: the overflow it has counted
    pc,           \* of each request of a reader
    target,       \* target[r]: the ids the request has read
    listed,       \* listed[r]: what the timeline held then
    raced,        \* history: removed between the read and the write of a mark
    crowded       \* history: something was written or removed during a removal

vars == <<record, timeline, writer, excess, pc, target, listed, raced, crowded>>

Events == 1..N
Readers == Marks \cup MarkAlls \cup Deletes \cup Clears
Trimming == {n \in Events : writer[n] \in {"count", "range", "trim"}}

Init ==
    /\ record = [n \in Events |-> None] /\ timeline = {}
    /\ writer = [n \in Events |-> "idle"] /\ excess = [n \in Events |-> {}]
    /\ pc = [r \in Readers |-> "idle"] /\ target = [r \in Readers |-> {}]
    /\ listed = [r \in Readers |-> {}]
    /\ raced = {} /\ crowded = FALSE

Marking(n) == \E r \in Marks \cup MarkAlls : pc[r] = "set" /\ n \in target[r]
Gone(ids) == raced' = raced \cup {n \in ids : Marking(n)}

-----------------------------------------------------------------------------
(* record_notification_sync.                                                *)

Records(n) ==
    /\ writer[n] = "idle" /\ \A m \in 1..(n - 1) : writer[m] # "idle"
    /\ record' = [record EXCEPT ![n] = "unread"]
    /\ timeline' = timeline \cup {n}
    /\ writer' = [writer EXCEPT ![n] = "count"]
    /\ crowded' = (crowded \/ Trimming # {})
    /\ UNCHANGED <<excess, pc, target, listed, raced>>

Overflow == Cardinality(timeline) - Capacity

Oldest(k) == {n \in timeline : Cardinality({m \in timeline : m < n}) < k}

Counts(n) ==
    /\ writer[n] = "count"
    /\ writer' = [writer EXCEPT ![n] = IF Overflow > 0 THEN "range" ELSE "done"]
    /\ excess' = [excess EXCEPT ![n] = IF Overflow > 0 THEN 1..Overflow ELSE {}]
    /\ UNCHANGED <<record, timeline, pc, target, listed, raced, crowded>>

Ranges(n) ==
    /\ writer[n] = "range"
    /\ excess' = [excess EXCEPT ![n] = Oldest(Cardinality(excess[n]))]
    /\ writer' = [writer EXCEPT ![n] = "trim"]
    /\ UNCHANGED <<record, timeline, pc, target, listed, raced, crowded>>

Trims(n) ==
    /\ writer[n] = "trim"
    /\ record' = [m \in Events |-> IF m \in excess[n] THEN None ELSE record[m]]
    /\ timeline' = timeline \ excess[n]
    /\ writer' = [writer EXCEPT ![n] = "done"]
    /\ Gone(excess[n])
    /\ excess' = [excess EXCEPT ![n] = {}]
    /\ UNCHANGED <<pc, target, listed, crowded>>

\* A command fails or the process ends: dispatch_event goes on without it.
WriterFails(n) ==
    /\ writer[n] \in {"count", "range", "trim"}
    /\ writer' = [writer EXCEPT ![n] = "failed"]
    /\ UNCHANGED <<record, timeline, excess, pc, target, listed, raced, crowded>>

-----------------------------------------------------------------------------
(* The requests of readers.                                                 *)

\* mark_read: a record that is not there is not found.
MarkReads(r) ==
    /\ r \in Marks /\ pc[r] = "idle"
    /\ \E n \in Events :
         /\ target' = [target EXCEPT ![r] = {n}]
         /\ pc' = [pc EXCEPT ![r] = IF record[n] = None THEN "done" ELSE "set"]
    /\ UNCHANGED <<record, timeline, writer, excess, listed, raced, crowded>>

\* mark_all_read, clear_all: the ids of the timeline first.
Lists(r) ==
    /\ r \in MarkAlls \cup Clears /\ pc[r] = "idle"
    /\ listed' = [listed EXCEPT ![r] = timeline]
    /\ target' = [target EXCEPT ![r] = timeline]
    /\ pc' = [pc EXCEPT ![r] = IF r \in Clears THEN "remove" ELSE "get"]
    /\ UNCHANGED <<record, timeline, writer, excess, raced, crowded>>

Unread(r) == {n \in target[r] : record[n] = "unread"}

MarkAllReads(r) ==
    /\ r \in MarkAlls /\ pc[r] = "get"
    /\ target' = [target EXCEPT ![r] = Unread(r)]
    /\ pc' = [pc EXCEPT ![r] = "set"]
    /\ UNCHANGED <<record, timeline, writer, excess, listed, raced, crowded>>

\* The records are written, there or not; the timeline is left.
Marked(r) ==
    /\ pc[r] = "set"
    /\ record' = [n \in Events |-> IF n \in target[r] THEN "read" ELSE record[n]]
    /\ pc' = [pc EXCEPT ![r] = "done"] /\ target' = [target EXCEPT ![r] = {}]
    /\ UNCHANGED <<timeline, writer, excess, listed, raced, crowded>>

\* delete_notification.
Removes(r) ==
    /\ r \in Deletes /\ pc[r] = "idle"
    /\ \E n \in Events :
         /\ record' = [record EXCEPT ![n] = None]
         /\ timeline' = timeline \ {n}
         /\ Gone({n})
    /\ pc' = [pc EXCEPT ![r] = "done"]
    /\ crowded' = (crowded \/ Trimming # {})
    /\ UNCHANGED <<writer, excess, target, listed>>

\* Mutant: whatever is in the timeline by now is cleared.
ClearedAll(r) == timeline

Cleared(r) == target[r]

ClearsAll(r) ==
    /\ r \in Clears /\ pc[r] = "remove"
    /\ record' = [n \in Events |-> IF n \in Cleared(r) THEN None ELSE record[n]]
    /\ timeline' = timeline \ Cleared(r)
    /\ Gone(Cleared(r))
    /\ pc' = [pc EXCEPT ![r] = "done"]
    /\ crowded' = (crowded \/ Trimming # {})
    /\ UNCHANGED <<writer, excess, target, listed>>

Next ==
    \/ \E n \in Events :
         Records(n) \/ Counts(n) \/ Ranges(n) \/ Trims(n) \/ WriterFails(n)
    \/ \E r \in Readers :
         MarkReads(r) \/ Lists(r) \/ MarkAllReads(r) \/ Marked(r) \/ Removes(r) \/ ClearsAll(r)

Spec == Init /\ [][Next]_vars

-----------------------------------------------------------------------------
(* Properties.                                                              *)

TypeOK ==
    /\ record \in [Events -> {"unread", "read", None}] /\ timeline \subseteq Events
    /\ writer \in [Events -> {"idle", "count", "range", "trim", "done", "failed"}]
    /\ excess \in [Events -> SUBSET Events]
    /\ pc \in [Readers -> {"idle", "get", "set", "remove", "done"}]
    /\ target \in [Readers -> SUBSET Events]

\* A record outside the timeline, which nothing lists and no removal reaches, comes
\* from a mark that was written after the notification had been removed.
StrayRecordsNeedRace ==
    /\ \A n \in timeline : record[n] # None
    /\ \A n \in Events : record[n] # None /\ n \notin timeline => n \in raced

\* The timeline exceeds the capacity only by what is being removed or could not be.
InboxIsBounded ==
    Cardinality(timeline) <=
        Capacity + Cardinality(Trimming) + Cardinality({n \in Events : writer[n] = "failed"})

\* A removal for the capacity takes older notifications before newer ones, and goes
\* below the capacity only when others wrote or removed meanwhile.
OldestGoFirst ==
    [][\A n \in Events : Trims(n) =>
          crowded \/ /\ Cardinality(timeline') >= Capacity
                     /\ \A k \in timeline \ timeline', l \in timeline' : k < l]_vars

\* A notification recorded after a reader asked to clear the inbox survives it.
ClearSparesTheNew ==
    [][\A r \in Clears : ClearsAll(r) => timeline \ timeline' \subseteq listed[r]]_vars

\* The inbox under concurrent writers and readers: it is bounded, the oldest go
\* first, clearing spares what came later, and a record outside the timeline has
\* one race as its only cause (inbox.py:105, :143).
InboxIsOrdered ==
    /\ [](TypeOK /\ StrayRecordsNeedRace /\ InboxIsBounded)
    /\ OldestGoFirst /\ ClearSparesTheNew
=============================================================================
