---------------------------- MODULE NotifyConfig ----------------------------
(***************************************************************************)
(* The notification settings: one value in Redis with a version, written   *)
(* by PUT requests of the API process, and the copy each process keeps to  *)
(* send by.  A setting is the PUT that made it and the secret of its       *)
(* channel; a PUT without a secret keeps the one that is stored.           *)
(***************************************************************************)
EXTENDS Integers, FiniteSets

CONSTANTS
    Puts, Secret,     \* requests; Secret[p]: the secret p brings, or Empty
    Api, Worker,      \* the processes that send
    Empty, Default,   \* no secret; the settings nobody has made
    Missing,          \* nothing cached
    MaxFaults         \* bound

VARIABLES
    stored, version,  \* notify:config and notify:config:version
    pc, payload,      \* of each PUT
    cached, known,    \* of each process: _cached_config, _cached_version
    asked,            \* asked[q]: the version a send of q has read, or Missing
    overlapped,       \* history: two PUTs were under way at once
    unannounced,      \* history: a value was stored and its version not raised
    blind,            \* history: PUTs that did not see what was stored
    defaulted,        \* history: processes that cached the default on an error
    faults

redis == <<stored, version>>
puts == <<pc, payload, overlapped, unannounced, blind>>
caches == <<cached, known, asked, defaulted>>
vars == <<redis, puts, caches, faults>>

Processes == {Api, Worker}
DefaultConfig == [by |-> Default, secret |-> Empty]
Configs == [by : Puts \cup {Default}, secret : {Secret[p] : p \in Puts} \cup {Empty}]
UnderWay == {p \in Puts : pc[p] \in {"load", "hset", "incr", "set"}}

Init ==
    /\ stored = DefaultConfig /\ version = 0
    /\ pc = [p \in Puts |-> "idle"] /\ payload = [p \in Puts |-> DefaultConfig]
    /\ cached = [q \in Processes |-> Missing] /\ known = [q \in Processes |-> Missing]
    /\ asked = [q \in Processes |-> Missing]
    /\ overlapped = FALSE /\ unannounced = FALSE /\ blind = {} /\ defaulted = {}
    /\ faults = 0

Faulty == faults < MaxFaults /\ faults' = faults + 1

-----------------------------------------------------------------------------
(* PUT /notify/config.                                                      *)

Begin(p) ==
    /\ pc[p] = "idle"
    /\ pc' = [pc EXCEPT ![p] = "load"]
    /\ overlapped' = (overlapped \/ UnderWay # {})
    /\ UNCHANGED <<redis, payload, unannounced, blind, caches, faults>>

\* Mutant: what is sent is what is stored.
MergedNot(p, old) == [by |-> p, secret |-> Secret[p]]

\* merge_secrets.
Merged(p, old) == [by |-> p, secret |-> IF Secret[p] = Empty THEN old.secret ELSE Secret[p]]

\* load_config; an error reads like the default.
Loads(p) ==
    /\ pc[p] = "load"
    /\ pc' = [pc EXCEPT ![p] = "hset"]
    /\ \/ /\ payload' = [payload EXCEPT ![p] = Merged(p, stored)]
          /\ UNCHANGED <<blind, faults>>
       \/ /\ Faulty /\ blind' = blind \cup {p}
          /\ payload' = [payload EXCEPT ![p] = Merged(p, DefaultConfig)]
    /\ UNCHANGED <<redis, overlapped, unannounced, caches>>

Stores(p) ==
    /\ pc[p] = "hset"
    /\ stored' = payload[p]
    /\ pc' = [pc EXCEPT ![p] = "incr"]
    /\ UNCHANGED <<version, payload, overlapped, unannounced, blind, caches, faults>>

Raised == version + 1

Announces(p) ==
    /\ pc[p] = "incr"
    /\ version' = Raised
    /\ pc' = [pc EXCEPT ![p] = "set"]
    /\ UNCHANGED <<stored, payload, overlapped, unannounced, blind, caches, faults>>

\* set_active_config: the copy of this process, but not its version.
Activates(p) ==
    /\ pc[p] = "set"
    /\ cached' = [cached EXCEPT ![Api] = payload[p]]
    /\ pc' = [pc EXCEPT ![p] = "done"]
    /\ UNCHANGED <<redis, payload, overlapped, unannounced, blind, known, asked, defaulted, faults>>

\* Redis fails the request.
PutFails(p) ==
    /\ pc[p] \in {"hset", "incr"} /\ Faulty
    /\ pc' = [pc EXCEPT ![p] = "done"]
    /\ unannounced' = (unannounced \/ pc[p] = "incr")
    /\ UNCHANGED <<redis, payload, overlapped, blind, caches>>

-----------------------------------------------------------------------------
(* get_notify_config of a process that sends; it does not await, but what   *)
(* others have asked of Redis goes on.                                      *)

Asks(q) ==
    /\ asked[q] = Missing
    /\ asked' = [asked EXCEPT ![q] = version]
    /\ UNCHANGED <<redis, puts, cached, known, defaulted, faults>>

Fresh(q) == cached[q] # Missing /\ known[q] = asked[q]

Uses(q) ==
    /\ asked[q] # Missing /\ Fresh(q)
    /\ asked' = [asked EXCEPT ![q] = Missing]
    /\ UNCHANGED <<redis, puts, cached, known, defaulted, faults>>

\* An error here is cached as the default, under the version that was read.
Reloads(q) ==
    /\ asked[q] # Missing /\ ~Fresh(q)
    /\ \/ /\ cached' = [cached EXCEPT ![q] = stored]
          /\ defaulted' = defaulted \ {q} /\ UNCHANGED faults
       \/ /\ Faulty /\ cached' = [cached EXCEPT ![q] = DefaultConfig]
          /\ defaulted' = defaulted \cup {q}
    /\ known' = [known EXCEPT ![q] = asked[q]]
    /\ asked' = [asked EXCEPT ![q] = Missing]
    /\ UNCHANGED <<redis, puts>>

\* Either process starts again; the API takes its requests with it.
Restarts(q) ==
    /\ Faulty
    /\ cached' = [cached EXCEPT ![q] = Missing] /\ known' = [known EXCEPT ![q] = Missing]
    /\ asked' = [asked EXCEPT ![q] = Missing] /\ defaulted' = defaulted \ {q}
    /\ IF q = Api
       THEN /\ unannounced' = (unannounced \/ \E p \in Puts : pc[p] = "incr")
            /\ pc' = [p \in Puts |-> IF p \in UnderWay THEN "done" ELSE pc[p]]
       ELSE UNCHANGED <<unannounced, pc>>
    /\ UNCHANGED <<redis, payload, overlapped, blind>>

\* While the API process is in get_notify_config, its requests stand still, but
\* for the commands they have sent.
Next ==
    \/ \E p \in Puts :
         \/ asked[Api] = Missing /\ (Begin(p) \/ Activates(p))
         \/ Loads(p) \/ Stores(p) \/ Announces(p) \/ PutFails(p)
    \/ \E q \in Processes : Asks(q) \/ Uses(q) \/ Reloads(q) \/ Restarts(q)

Spec == Init /\ [][Next]_vars

-----------------------------------------------------------------------------
(* Properties.                                                              *)

TypeOK ==
    /\ stored \in Configs /\ version \in 0..Cardinality(Puts)
    /\ pc \in [Puts -> {"idle", "load", "hset", "incr", "set", "done"}]
    /\ payload \in [Puts -> Configs]
    /\ cached \in [Processes -> Configs \cup {Missing}]
    /\ known \in [Processes -> Nat \cup {Missing}]

\* A secret that was stored is not lost by a later PUT without one, unless PUTs
\* overlapped or that PUT could not read what was stored.
SecretsAreKept ==
    [][stored.secret # Empty /\ stored'.secret = Empty =>
         overlapped \/ stored'.by \in blind]_vars

\* With no PUT under way, what a process would use without another look is what is
\* stored, unless a PUT ended between its two commands or the process could not
\* read it; the API also keeps an older value when PUTs overlapped.
CopiesAreCurrent ==
    \A q \in Processes :
        UnderWay = {} /\ cached[q] # Missing /\ known[q] = version =>
            \/ cached[q] = stored
            \/ unannounced \/ q \in defaulted
            \/ q = Api /\ overlapped

\* The settings of the notifications: a secret survives the requests that bring
\* none, but for PUTs that overlap or cannot read it; and a process that is up to
\* date has what is stored, unless a PUT ended before it announced it, the process
\* could not read it or, in the API, PUTs overlapped (notify/store.py,
\* dispatcher.py:58).
NoticesAreConfigured == [](TypeOK /\ CopiesAreCurrent) /\ SecretsAreKept
=============================================================================
