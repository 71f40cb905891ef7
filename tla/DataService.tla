---------------------------- MODULE DataService ----------------------------
(***************************************************************************)
(* Daily bars of one symbol on their way through DataService: the archive  *)
(* (a file, written under a file lock and replaced atomically), the        *)
(* database cache, the chain of sources and the demo feed behind them.     *)
(* get_bars is called by requests and by scheduled tasks, download_archive *)
(* by Celery workers, and delete_archive unlinks the file.  Calls run in   *)
(* several processes: reading the file's coverage, reading its bars, and   *)
(* merging under the lock are steps of their own.                          *)
(***************************************************************************)
EXTENDS Integers, Sequences, FiniteSets, FiniteSetsExt, Functions

CONSTANTS
    N,           \* the days are 1..N
    Calls,       \* calls of get_bars and of _archive_one
    Downloads,   \* those of _archive_one
    Wants,       \* Wants[c]: <<start, end>>, the days c asks for
    None,
    MaxDeletes   \* bound: calls of delete_archive

VARIABLES
    archive,     \* the file: a bar for each day it has
    cache,       \* the table bars of the database
    lock,        \* who holds the file lock
    pc,          \* where a call is
    coverage,    \* coverage[c]: first and last archived day as c read them
    archived,    \* archived[c]: the archived bars in c's range as c read them
    gaps,        \* gaps[c]: what is left to fetch
    direct,      \* direct[c]: the archive could not be read
    got,         \* got[c]: the bars of the gap that was fetched last
    fetched,     \* fetched[c]: all bars c has fetched
    unsaved,     \* unsaved[c]: bars c has put into its database session
    existing,    \* existing[c]: the file's bars as c read them under the lock
    answer,      \* answer[c]: what c returned
    deletes,     \* number of delete_archive calls
    gone,        \* history: deleted days that no source has sent since
    served,      \* history: days for which the cache has served demo bars
    starved      \* history: calls in which even the demo feed had nothing

files == <<archive, lock, existing, deletes, gone>>
mine  == <<coverage, archived, direct>>
vars  == <<files, cache, pc, mine, gaps, got, fetched, unsaved, answer, served, starved>>

Days == 1..N

\* Bars: a function from days to where the bar comes from.
Bars == UNION {[D -> {"real", "demo"}] : D \in SUBSET Days}
NoBars == <<>>
All(kind, D) == [d \in D |-> kind]

\* b on top of a.
Over(b, a) == [d \in DOMAIN a \cup DOMAIN b |-> IF d \in DOMAIN b THEN b[d] ELSE a[d]]
In(b, r) == Restrict(b, {d \in DOMAIN b : r[1] <= d /\ d <= r[2]})

Coverage(b) == IF b = NoBars THEN <<>> ELSE <<Min(DOMAIN b), Max(DOMAIN b)>>

\* Only the two ends count: what lies between first and last archived day is
\* taken to be there.
boundary_gaps(cov, r) ==
    IF cov = <<>> THEN <<r>>
    ELSE (IF r[1] < cov[1] THEN <<<<r[1], Min({cov[1] - 1, r[2]})>>>> ELSE <<>>)
         \o (IF r[2] > cov[2] THEN <<<<Max({cov[2] + 1, r[1]}), r[2]>>>> ELSE <<>>)

Init ==
    /\ archive = NoBars /\ cache = NoBars /\ lock = None
    /\ pc = [c \in Calls |-> "idle"]
    /\ coverage = [c \in Calls |-> <<>>]
    /\ gaps = [c \in Calls |-> <<>>]
    /\ direct = [c \in Calls |-> FALSE]
    /\ \E none \in {[c \in Calls |-> NoBars]} :
         /\ archived = none /\ got = none /\ fetched = none
         /\ unsaved = none /\ existing = none /\ answer = none
    /\ deletes = 0 /\ gone = {} /\ served = {} /\ starved = {}

-----------------------------------------------------------------------------
(* Reading the archive.                                                     *)

Begin(c) ==
    /\ pc[c] = "idle"
    /\ gaps' = [gaps EXCEPT ![c] = IF c \in Downloads THEN <<Wants[c]>> ELSE <<>>]
    /\ pc' = [pc EXCEPT ![c] = IF c \in Downloads THEN "fetch" ELSE "coverage"]
    /\ UNCHANGED <<files, cache, coverage, archived, direct, got, fetched, unsaved, answer, served, starved>>

ReadCoverage(c) ==
    /\ pc[c] = "coverage"
    /\ coverage' = [coverage EXCEPT ![c] = Coverage(archive)]
    /\ pc' = [pc EXCEPT ![c] = "read"]
    /\ UNCHANGED <<files, cache, archived, direct, gaps, got, fetched, unsaved, answer, served, starved>>

\* An answer, and the end of the session with it.  Who called may still fail,
\* and the session is rolled back.
Answers(c, bars) ==
    /\ answer' = [answer EXCEPT ![c] = bars]
    /\ pc' = [pc EXCEPT ![c] = "done"]
    /\ cache' \in {Over(unsaved'[c], cache), cache}

\* Bars that are archived, and nothing missing at either end: an answer.
ReadBars(c) ==
    /\ pc[c] = "read"
    /\ LET bars == IF coverage[c] = <<>> THEN NoBars ELSE In(archive, Wants[c])
           missing == boundary_gaps(coverage[c], Wants[c])
       IN /\ archived' = [archived EXCEPT ![c] = bars]
          /\ gaps' = [gaps EXCEPT ![c] = missing]
          /\ UNCHANGED unsaved
          /\ IF missing = <<>> THEN Answers(c, bars)
             ELSE pc' = [pc EXCEPT ![c] = "fetch"] /\ UNCHANGED <<cache, answer>>
    /\ UNCHANGED <<files, coverage, direct, got, fetched, served, starved>>

\* ArchiveError: the whole range is fetched, and the archive left alone.
ReadFails(c) ==
    /\ pc[c] \in {"coverage", "read"}
    /\ direct' = [direct EXCEPT ![c] = TRUE]
    /\ gaps' = [gaps EXCEPT ![c] = <<Wants[c]>>]
    /\ pc' = [pc EXCEPT ![c] = "fetch"]
    /\ UNCHANGED <<files, cache, coverage, archived, got, fetched, unsaved, answer, served, starved>>

-----------------------------------------------------------------------------
(* fetch_direct: the cache, the sources, the demo feed.                     *)

Gap(c) == Head(gaps[c])
use_cache(c) == c \notin Downloads
Cached(c) == In(Over(unsaved[c], cache), Gap(c))

\* Half of the days will do.
CacheHit(c) ==
    /\ use_cache(c) /\ Cached(c) # NoBars
    /\ 2 * Cardinality(DOMAIN Cached(c)) >= Gap(c)[2] - Gap(c)[1] + 1

\* Synthetic bars are not written to the archive.
Archives(c, bars, synthetic) == bars # NoBars /\ ~synthetic /\ ~direct[c]

\* _merge_bars; a download returns what it has fetched.
Merged(c, more) == In(Over(more, archived[c]), Wants[c])

\* fetch_direct has returned: on to the archive, to the next gap, or out.
Fetched(c, bars, synthetic) ==
    /\ got' = [got EXCEPT ![c] = bars]
    /\ fetched' = [fetched EXCEPT ![c] = Over(bars, @)]
    /\ UNCHANGED <<files, mine>>
    /\ IF Archives(c, bars, synthetic)
       THEN pc' = [pc EXCEPT ![c] = "locking"] /\ UNCHANGED <<gaps, cache, answer>>
       ELSE /\ gaps' = [gaps EXCEPT ![c] = Tail(@)]
            /\ IF gaps'[c] = <<>> THEN Answers(c, Merged(c, fetched'[c]))
               ELSE UNCHANGED <<pc, cache, answer>>

FromCache(c) ==
    /\ pc[c] = "fetch" /\ CacheHit(c)
    /\ UNCHANGED <<unsaved, starved>>
    /\ served' = served \cup {d \in DOMAIN Cached(c) : Cached(c)[d] = "demo"}
    /\ Fetched(c, Cached(c), FALSE)

\* What was fetched is saved in the cache, wherever it comes from.
Saves(c, bars) ==
    unsaved' = IF use_cache(c) THEN [unsaved EXCEPT ![c] = Over(bars, @)] ELSE unsaved

\* Some source of the chain has bars for the gap, some of them at least.
FromSource(c) ==
    /\ pc[c] = "fetch" /\ ~CacheHit(c)
    /\ \E D \in (SUBSET (Gap(c)[1]..Gap(c)[2])) \ {{}} :
         /\ Saves(c, All("real", D))
         /\ Fetched(c, All("real", D), FALSE)
    /\ UNCHANGED <<served, starved>>

\* None has: the demo feed makes them up.
FromDemo(c) ==
    /\ pc[c] = "fetch" /\ ~CacheHit(c)
    /\ Saves(c, All("demo", Gap(c)[1]..Gap(c)[2]))
    /\ Fetched(c, All("demo", Gap(c)[1]..Gap(c)[2]), TRUE)
    /\ UNCHANGED <<served, starved>>

FromNowhere(c) ==
    /\ pc[c] = "fetch" /\ ~CacheHit(c)
    /\ starved' = starved \cup {c}
    /\ UNCHANGED <<unsaved, served>>
    /\ Fetched(c, NoBars, FALSE)

-----------------------------------------------------------------------------
(* FileArchiveBase.write.                                                   *)

\* Mutant: merging without the lock.
LockFreeAlways == TRUE

LockFree == lock = None

Locks(c) ==
    /\ pc[c] = "locking" /\ LockFree
    /\ lock' = c
    /\ existing' = [existing EXCEPT ![c] = archive]
    /\ pc' = [pc EXCEPT ![c] = "merging"]
    /\ UNCHANGED <<archive, deletes, gone, cache, mine, gaps, got, fetched, unsaved, answer, served, starved>>

Written(c) == got[c]

Unlocks(c) ==
    /\ lock' = None
    /\ gaps' = [gaps EXCEPT ![c] = Tail(@)]
    /\ UNCHANGED <<existing, deletes, mine, got, fetched, unsaved, served, starved>>
    /\ IF gaps'[c] = <<>> THEN Answers(c, Merged(c, fetched[c]))
       ELSE pc' = [pc EXCEPT ![c] = "fetch"] /\ UNCHANGED <<cache, answer>>

\* What the file has stays as it is; the merged file replaces it.
Replaces(c) ==
    /\ pc[c] = "merging"
    /\ LET merged == Over(existing[c], Written(c)) IN
         /\ archive' = IF merged = existing[c] THEN archive ELSE merged
         /\ gone' = gone \ DOMAIN got[c]
    /\ Unlocks(c)

\* ArchiveError: a request goes on, a download gives up.
WriteFails(c) ==
    /\ pc[c] = "merging"
    /\ UNCHANGED <<archive, gone>>
    /\ Unlocks(c)

\* The process ends: the lock with it, and the file is the old or the new one.  (A
\* process that ends anywhere else is one that takes no more steps.)
Crash(c) ==
    /\ pc[c] = "merging"
    /\ pc' = [pc EXCEPT ![c] = "crashed"]
    /\ lock' = IF lock = c THEN None ELSE lock
    /\ UNCHANGED <<archive, existing, deletes, gone, cache, mine, gaps, got, fetched, unsaved, answer,
                   served, starved>>

\* delete does not ask for the lock: a merge that is under way brings back what
\* it has read.
Delete ==
    /\ deletes < MaxDeletes /\ archive # NoBars
    /\ archive' = NoBars
    /\ deletes' = deletes + 1
    /\ gone' = (gone \cup DOMAIN archive) \
                 UNION {DOMAIN existing[c] : c \in {x \in Calls : pc[x] = "merging"}}
    /\ UNCHANGED <<lock, existing, cache, pc, mine, gaps, got, fetched, unsaved, answer, served, starved>>

-----------------------------------------------------------------------------
Step(c) ==
    \/ ReadCoverage(c) \/ ReadBars(c) \/ ReadFails(c)
    \/ FromCache(c) \/ FromSource(c) \/ FromDemo(c) \/ FromNowhere(c)
    \/ Replaces(c) \/ WriteFails(c)

Next == (\E c \in Calls : Begin(c) \/ Step(c) \/ Locks(c) \/ Crash(c)) \/ Delete

Spec == Init /\ [][Next]_vars

-----------------------------------------------------------------------------
(* Properties.                                                              *)

TypeOK ==
    /\ {archive, cache} \subseteq Bars /\ lock \in Calls \cup {None}
    /\ pc \in [Calls -> {"idle", "coverage", "read", "fetch", "locking", "merging", "done", "crashed"}]
    /\ \A c \in Calls :
         /\ {archived[c], got[c], fetched[c], unsaved[c], existing[c], answer[c]} \subseteq Bars
         /\ pc[c] \in {"fetch", "locking", "merging"} => gaps[c] # <<>> /\ Gap(c)[1] <= Gap(c)[2]
    /\ deletes \in 0..MaxDeletes

\* Writers of several processes lose none of each other's bars, and replace none:
\* what is archived stays, until the archive is deleted.
ArchiveKeepsBars ==
    [][deletes' = deletes =>
         \A d \in DOMAIN archive : d \in DOMAIN archive' /\ archive'[d] = archive[d]]_vars

\* What was deleted stays deleted until a source or the cache has sent it again;
\* a merge that was under way at the time is the exception.
DeletedStaysGone == DOMAIN archive \cap gone = {}

\* Made-up bars reach the archive in one way only: through the cache, which
\* takes them in and does not know them from real ones.
DemoNeedsCache == \A d \in DOMAIN archive : archive[d] = "demo" => d \in served

\* A request that got its answer has every bar that was archived in its range,
\* and is empty only if even the demo feed failed or its range lies in a hole of
\* the archive.
AnswersAreWhole ==
    \A c \in Calls \ Downloads : pc[c] = "done" =>
        /\ ~direct[c] => DOMAIN archived[c] \subseteq DOMAIN answer[c]
        /\ answer[c] = NoBars =>
             \/ c \in starved
             \/ coverage[c] # <<>> /\ coverage[c][1] <= Wants[c][1] /\ Wants[c][2] <= coverage[c][2]

\* What service.py says of both stores: made-up bars are kept out of them.
ArchiveIsReal == \A d \in DOMAIN archive : archive[d] = "real"

\* The archive keeps what it was given: bars leave by a delete only, what was
\* deleted comes back from a source only, demo bars need a cache they came through,
\* and an answer has every bar it could have (file_store.py:116, data/service.py).
ArchiveIsKept ==
    /\ [](TypeOK /\ DeletedStaysGone /\ DemoNeedsCache /\ AnswersAreWhole)
    /\ ArchiveKeepsBars
=============================================================================
