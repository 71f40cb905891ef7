--------------------------- MODULE SourceRegistry ---------------------------
(***************************************************************************)
(* The configuration of the data sources: one entry per market, in the     *)
(* memory of the API process and, all markets in one value, in Redis.      *)
(* Requests that show it (GET /data-sources/config) load it again, those   *)
(* that change it (PUT) load, set one market and save everything.  What an *)
(* entry says (order, disabled, pinned) is left out: an entry is the PUT   *)
(* that made it, or Default.                                               *)
(***************************************************************************)
EXTENDS Naturals

CONSTANTS
    Markets,
    Gets, Puts,   \* requests
    Market,       \* Market[p]: the market that PUT p is about
    Default, Missing,
    MaxRestarts   \* bound

VARIABLES
    config,       \* DataSourceRegistry._config
    stored,       \* the value in Redis
    pc,           \* where a request is
    reply,        \* reply[r]: the answer of Redis on its way to r
    payload,      \* payload[p]: what p saves
    latest,       \* history: the PUT of each market that was stored last
    missed,       \* history: missed[r]: markets saved since r read, by others
    stale,        \* history: markets of which memory has not what was set last
    lost,         \* history: markets saved over by a PUT that had missed them
    failed,       \* history: PUTs whose save failed
    restarts      \* number of restarts

requests == <<pc, reply, payload, missed>>
vars == <<config, stored, requests, latest, stale, lost, failed, restarts>>

Requests == Gets \cup Puts
Defaults == [m \in Markets |-> Default]
UnderWay == {r \in Requests : pc[r] \in {"loading", "loaded", "saving"}}
Unsaved == {p \in Puts : pc[p] = "saving"}

Init ==
    /\ config = Defaults /\ stored = Missing
    /\ pc = [r \in Requests |-> "idle"]
    /\ reply = [r \in Requests |-> Missing]
    /\ payload = [p \in Puts |-> Defaults]
    /\ latest = Defaults /\ failed = {}
    /\ missed = [r \in Requests |-> {}] /\ stale = {} /\ lost = {}
    /\ restarts = 0

Begin(r) ==
    /\ pc[r] = "idle"
    /\ pc' = [pc EXCEPT ![r] = "loading"]
    /\ UNCHANGED <<config, stored, reply, payload, missed, latest, stale, lost, failed, restarts>>

\* Redis answers, or the command fails, which reads like nothing stored.
Reads(r) ==
    /\ pc[r] = "loading"
    /\ \E value \in {stored, Missing} : reply' = [reply EXCEPT ![r] = value]
    /\ pc' = [pc EXCEPT ![r] = "loaded"]
    /\ UNCHANGED <<config, stored, payload, missed, latest, stale, lost, failed, restarts>>

\* load_config: nothing stored leaves the configuration as it is.
Loaded(r) == IF reply[r] = Missing THEN config ELSE reply[r]

\* What memory has not of what was set, when r has loaded: what was saved since r
\* read, and what is being saved.
Outdated(r) ==
    IF reply[r] = Missing THEN stale ELSE missed[r] \cup {Market[p] : p \in Unsaved}

Shows(g) ==
    /\ g \in Gets /\ pc[g] = "loaded"
    /\ config' = Loaded(g)
    /\ stale' = Outdated(g)
    /\ pc' = [pc EXCEPT ![g] = "done"]
    /\ UNCHANGED <<stored, reply, payload, missed, latest, lost, failed, restarts>>

\* Mutant: what is saved is what was loaded.
SavesLoaded(p) == Loaded(p)

Saves(p) == [Loaded(p) EXCEPT ![Market[p]] = p]

\* set_market_config, and save_config up to its await.
Sets(p) ==
    /\ p \in Puts /\ pc[p] = "loaded"
    /\ config' = [Loaded(p) EXCEPT ![Market[p]] = p]
    /\ payload' = [payload EXCEPT ![p] = Saves(p)]
    /\ missed' = [missed EXCEPT ![p] = (IF reply[p] = Missing THEN stale ELSE @) \ {Market[p]}]
    /\ stale' = Outdated(p) \ {Market[p]}
    /\ pc' = [pc EXCEPT ![p] = "saving"]
    /\ UNCHANGED <<stored, reply, latest, lost, failed, restarts>>

SaveLands(p) ==
    /\ p \in Puts /\ pc[p] = "saving"
    /\ stored' = payload[p]
    /\ latest' = [latest EXCEPT ![Market[p]] = p]
    /\ missed' = [r \in Requests |-> IF r # p /\ pc[r] \in {"loaded", "saving"}
                                     THEN missed[r] \cup {Market[p]} ELSE missed[r]]
    /\ lost' = (lost \cup missed[p]) \ {Market[p]}
    /\ stale' = stale \cup (missed[p] \cap {Market[p]})
    /\ pc' = [pc EXCEPT ![p] = "done"]
    /\ UNCHANGED <<config, reply, payload, failed, restarts>>

\* A save that fails is logged; the request succeeds.
SaveFails(p) ==
    /\ p \in Puts /\ pc[p] = "saving"
    /\ failed' = failed \cup {p}
    /\ pc' = [pc EXCEPT ![p] = "done"]
    /\ UNCHANGED <<config, stored, reply, payload, missed, latest, stale, lost, restarts>>

\* The process ends with its requests; the next one loads at its start, unless
\* Redis cannot be read.
Restart ==
    /\ restarts < MaxRestarts /\ restarts' = restarts + 1
    /\ \E value \in {stored, Missing} :
         /\ config' = IF value = Missing THEN Defaults ELSE value
         /\ stale' = IF value = stored THEN {} ELSE Markets
    /\ pc' = [r \in Requests |-> IF r \in UnderWay THEN "done" ELSE pc[r]]
    /\ failed' = failed \cup (UnderWay \cap Puts)
    /\ UNCHANGED <<stored, reply, payload, missed, latest, lost>>

Next ==
    \/ \E r \in Requests : Begin(r) \/ Reads(r) \/ Shows(r)
    \/ \E p \in Puts : Sets(p) \/ SaveLands(p) \/ SaveFails(p)
    \/ Restart

Spec == Init /\ [][Next]_vars

-----------------------------------------------------------------------------
(* Properties.                                                              *)

TypeOK ==
    /\ config \in [Markets -> Puts \cup {Default}]
    /\ stored \in [Markets -> Puts \cup {Default}] \cup {Missing}
    /\ pc \in [Requests -> {"idle", "loading", "loaded", "saving", "done"}]
    /\ failed \subseteq Puts /\ restarts \in 0..MaxRestarts
    /\ missed \in [Requests -> SUBSET Markets] /\ stale \subseteq Markets /\ lost \subseteq Markets

\* What is stored for a market is what was last set and stored for it, unless a
\* PUT for another market missed that save: it had read before it, or could not
\* read and took what memory had.  A setting whose own save is late or has failed
\* may be stored with another.
StoredSettingsKept ==
    \A m \in Markets \ lost : stored # Missing =>
        stored[m] = latest[m] \/ stored[m] \in failed \cup Unsaved

\* When no request is under way, the process serves for a market what is stored,
\* unless it was lost, memory was loaded with what had been read before the last
\* save or could not be loaded at the start, or a save failed.
MemoryIsStored ==
    UnderWay = {} /\ stored # Missing =>
        \A m \in Markets \ (lost \cup stale) :
            config[m] = stored[m] \/ config[m] \in failed \/ stored[m] \in failed

\* A stored setting survives every request but a PUT for another market that had
\* read, or could not read, before it was saved, and the process serves what is
\* stored (source_registry.py:155).
SettingsAreStored == TypeOK /\ StoredSettingsKept /\ MemoryIsStored
=============================================================================
