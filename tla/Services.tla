------------------------------ MODULE Services ------------------------------
(***************************************************************************)
(* The services beside the order path: market data (DataService), its      *)
(* sources (SourceRegistry), the reconciliation (Reconcile), the quota of  *)
(* LLM calls (LLMQuota), the configuration and the inbox of notifications  *)
(* (NotifyConfig, Inbox), the audit trail (Audit).  Each behaviour is one  *)
(* of the chosen side; the others stay as they were.                       *)
(***************************************************************************)
EXTENDS LLMQuota, Sequences

CONSTANTS
    Sides,                                      \* the sides to check
    N, Fetches, Downloads, Wants, MaxDeletes,   \* see DataService
    Markets, Gets, Puts, Market, MaxRestarts,   \* see SourceRegistry
    Ids, Qty, Sym, Side, Checks, MaxOutside,    \* see Reconcile
    Changes, Secret, Api, Worker, MaxFaults,    \* see NotifyConfig
    EventCount, Capacity, Marks, MarkAlls, Deletes, Clears,   \* see Inbox
    Entries, Threshold, Cooldown, MaxTime,      \* see Audit
    None, Missing, Default, Empty

ASSUME DataAssumption ==
    /\ N \in Nat /\ MaxDeletes \in Nat /\ None \notin Fetches
    /\ Wants \in [Fetches -> (1..N) \X (1..N)] /\ \A c \in Fetches : Wants[c][1] <= Wants[c][2]

ASSUME SourceAssumption ==
    /\ Market \in [Puts -> Markets] /\ MaxRestarts \in Nat
    /\ Missing \notin [Markets -> Puts \cup {Default}] /\ Default \notin Puts

ASSUME ReconAssumption ==
    /\ IsFiniteSet(Ids) /\ Qty \in [Ids -> Nat] /\ Side \in [Ids -> {-1, 1}]

ASSUME NoticeAssumption ==
    /\ IsFiniteSet(Changes)
    /\ Missing \notin Nat
    /\ Missing \notin [by : Changes \cup {Default}, secret : {Secret[p] : p \in Changes} \cup {Empty}]

ASSUME InboxAssumption ==
    EventCount \in Nat /\ Capacity \in Nat /\ None \notin {"unread", "read"}

ASSUME AuditAssumption == IsFiniteSet(Entries) /\ Cooldown \in Nat /\ None \notin Int

VARIABLES
    side,
    archive, cache, lock, dataPc, coverage, archived, gaps, direct, got, fetched,
    unsaved, existing, answer, deletes, gone, served, starved,
    config, sources, sourcePc, reply, payload, latest, missed, stale, lost, failed, restarts,
    executed, reported, booked, outside, trades, ends, checkPc, by, local, count,
    diffs, result, told, broken, behind, moved,
    stored, version, notifyPc, value, cached, known, asked, overlapped, unannounced,
    unseen, defaulted, faults,
    notification, timeline, writer, excess, inboxPc, target, listed, raced, crowded,
    auditPc, trail, rows, misses, failures, retryAfter, clock, lastFailure, unjust

Data == INSTANCE DataService WITH Calls <- Fetches, pc <- dataPc
Source == INSTANCE SourceRegistry WITH stored <- sources, pc <- sourcePc
Recon == INSTANCE Reconcile WITH restarts <- ends, pc <- checkPc, failed <- broken
Notify == INSTANCE NotifyConfig
    WITH Puts <- Changes, pc <- notifyPc, payload <- value, blind <- unseen
Box == INSTANCE Inbox WITH N <- EventCount, record <- notification, pc <- inboxPc
Trail == INSTANCE Audit
    WITH Calls <- Entries, pc <- auditPc, stream <- trail, table <- rows, counts <- misses,
         now <- clock

dataVars ==
    <<archive, cache, lock, dataPc, coverage, archived, gaps, direct, got, fetched,
      unsaved, existing, answer, deletes, gone, served, starved>>
sourceVars ==
    <<config, sources, sourcePc, reply, payload, latest, missed, stale, lost, failed, restarts>>
reconVars ==
    <<executed, reported, booked, outside, trades, ends, checkPc, by, local, count,
      diffs, result, told, broken, behind, moved>>
notifyVars ==
    <<stored, version, notifyPc, value, cached, known, asked, overlapped, unannounced,
      unseen, defaulted, faults>>
boxVars ==
    <<notification, timeline, writer, excess, inboxPc, target, listed, raced, crowded>>
trailVars ==
    <<auditPc, trail, rows, misses, failures, retryAfter, clock, lastFailure, unjust>>

ServicesInit ==
    /\ side \in Sides
    /\ Init /\ Data!Init /\ Source!Init /\ Recon!Init /\ Notify!Init /\ Box!Init
    /\ Trail!Init

ServicesNext ==
    \/ /\ side = "quota" /\ Next
       /\ UNCHANGED <<side, dataVars, sourceVars, reconVars, notifyVars, boxVars, trailVars>>
    \/ /\ side = "data" /\ Data!Next
       /\ UNCHANGED <<side, vars, sourceVars, reconVars, notifyVars, boxVars, trailVars>>
    \/ /\ side = "source" /\ Source!Next
       /\ UNCHANGED <<side, vars, dataVars, reconVars, notifyVars, boxVars, trailVars>>
    \/ /\ side = "recon" /\ Recon!Next
       /\ UNCHANGED <<side, vars, dataVars, sourceVars, notifyVars, boxVars, trailVars>>
    \/ /\ side = "notify" /\ Notify!Next
       /\ UNCHANGED <<side, vars, dataVars, sourceVars, reconVars, boxVars, trailVars>>
    \/ /\ side = "box" /\ Box!Next
       /\ UNCHANGED <<side, vars, dataVars, sourceVars, reconVars, notifyVars, trailVars>>
    \/ /\ side = "audit" /\ Trail!Next
       /\ UNCHANGED <<side, vars, dataVars, sourceVars, reconVars, notifyVars, boxVars>>

ServicesSpec ==
    /\ ServicesInit
    /\ [][ServicesNext]_<<side, vars, dataVars, sourceVars, reconVars, notifyVars, boxVars,
                           trailVars>>

\* See DataService: the archive keeps what it was given.
ArchiveIsKept == Data!ArchiveIsKept
\* See DataService: what is archived is real (it is not).
ArchiveIsReal == Data!ArchiveIsReal
\* See SourceRegistry: a stored setting is kept and served.
SettingsAreStored == Source!SettingsAreStored
\* See Reconcile: what a reconciliation reports is true.
ReportsAreTrue == Recon!ReportsAreTrue
\* See NotifyConfig: secrets are kept, copies are current.
NoticesAreConfigured == Notify!NoticesAreConfigured
\* See Inbox: the inbox is bounded and loses nothing new.
InboxIsOrdered == Box!InboxIsOrdered
\* See Audit: what is not in the audit trail was counted.
AuditIsAccounted == Trail!AuditIsAccounted
=============================================================================
