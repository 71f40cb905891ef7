------------------------------ MODULE Rotation ------------------------------
(***************************************************************************)
(* The rotation of a portfolio by scores (engine/portfolio/                *)
(* topk_dropout.py): at each rebalancing date the TopK best scored symbols *)
(* are sought, at most n_drop of the worst are given up, and none before   *)
(* it was held for hold_thresh dates.  The scores of a date are a ranking  *)
(* of the symbols that have one; equal scores may come in any order.       *)
(***************************************************************************)
EXTENDS Integers, FiniteSets, FiniteSetsExt, Functions

CONSTANTS
  RotationSymbols,
  Configs,     \* records: topk, n_drop, hold_thresh, method_sell, method_buy
  MaxDays      \* bound on the count of a holding; no config asks for more

ASSUME RotationAssumption ==
  /\ IsFiniteSet(RotationSymbols) /\ MaxDays \in Nat \ {0}
  /\ \A c \in Configs :
       /\ c.topk \in Nat \ {0} /\ c.n_drop \in Nat /\ c.hold_thresh \in 0 .. MaxDays
       /\ c.method_sell \in {"bottom", "random"} /\ c.method_buy \in {"top", "random"}

VARIABLES
  cfg,
  held,        \* held_days of the holdings
  ranking      \* symbol -> its rank by the scores of the last date, 1 for the best

rotationVars == <<cfg, held, ranking>>

Holdings == DOMAIN held
Rankings == UNION {Bijection(S, 1 .. Cardinality(S)) : S \in (SUBSET RotationSymbols) \ {{}}}

RotationInit == cfg \in Configs /\ held = <<>> /\ ranking = <<>>

\* The n of the pool that are ranked first, and last; all of it if it has no n.
BestOf(pool, r, n) == {s \in pool : Cardinality({x \in pool : r[x] < r[s]}) < n}
WorstOf(pool, r, n) == {s \in pool : Cardinality({x \in pool : r[s] < r[x]}) < n}

\* _sample: any n of the pool, or all of it.
Samples(pool, n) == IF n >= Cardinality(pool) THEN {pool} ELSE kSubset(n, pool)

\* What is drawn from, and the candidates to buy.
Pool(last, r) == BestOf(DOMAIN r, r, cfg.topk) \ last
Todays(last, r) ==
  LET wanted == Max({cfg.n_drop + cfg.topk - Cardinality(last), 0})
  IN IF cfg.method_buy = "random" THEN Samples(Pool(last, r), wanted)
     ELSE {BestOf(DOMAIN r \ last, r, wanted)}

MaxDrop(last, today) ==
  IF Cardinality(last) >= cfg.topk THEN Min({cfg.n_drop, Cardinality(today)}) ELSE cfg.n_drop

Compared(last, today) == last \cup today

\* Mutant: the holding period is not looked at.
SeasonedAlways(last) == last

Seasoned(last) == {s \in last : held[s] >= cfg.hold_thresh}

\* The sets of symbols that may be given up.
Sells(last, today, r) ==
  LET n == MaxDrop(last, today)
  IN IF cfg.method_sell = "random" THEN Samples(Seasoned(last), n)
     ELSE {Seasoned(last) \cap WorstOf(Compared(last, today), r, n)}

\* The sets that may be bought: the first of the candidates, which are in no
\* order if some of the pool were drawn.
Buys(last, today, sell, r) ==
  LET n == Max({Cardinality(sell) + cfg.topk - Cardinality(last), 0})
  IN IF cfg.method_buy = "random" /\ today # Pool(last, r)
     THEN Samples(today, n) ELSE {BestOf(today, r, n)}

\* _advance_holding_days: a new holding has been through its first date.
Advanced(new, buy) ==
  [s \in new |-> IF s \in buy THEN 1 ELSE Min({held[s] + 1, MaxDays})]

\* _decide_holdings, on a date with the scores r.
Rebalance(r) ==
  LET last == Holdings \cap DOMAIN r
  IN \E today \in Todays(last, r) : \E sell \in Sells(last, today, r) :
       \E buy \in Buys(last, today, sell, r) : held' = Advanced((last \ sell) \cup buy, buy)

\* A date without any score changes nothing.
RotationNext ==
  \E r \in Rankings : Rebalance(r) /\ ranking' = r /\ UNCHANGED cfg

RotationSpec == RotationInit /\ [][RotationNext]_rotationVars

-----------------------------------------------------------------------------
(* Properties *)

\* What a date dropped of its own accord: a symbol without a score is lost anyway.
Dropped == {s \in Holdings \ DOMAIN held' : s \in DOMAIN ranking'}
Gained == DOMAIN held' \ Holdings
Lost == Holdings \ DOMAIN ranking'
WasFull == Lost = {} /\ Cardinality(Holdings) = cfg.topk

\* Never more than topk symbols are held.
RotationTypeOK ==
  /\ cfg \in Configs
  /\ Holdings \subseteq RotationSymbols /\ Cardinality(Holdings) <= cfg.topk
  /\ \A s \in Holdings : held[s] \in 1 .. MaxDays
  /\ ranking \in Rankings \cup {<<>>}

\* A holding is kept for hold_thresh dates, as long as it has a score.
HoldingPeriodIsKept ==
  [][\A s \in Dropped : held[s] >= cfg.hold_thresh]_rotationVars

\* What is given up for something else is no better than what it is given up
\* for, whichever symbols are too young to be sold.  Only a full portfolio
\* is sure of it: one with a gap may sell a symbol and buy a worse one.
SwapsImprove ==
  [][WasFull /\ cfg.method_sell = "bottom" /\ cfg.method_buy = "top" =>
       \A s \in Dropped, b \in Gained : ranking'[b] < ranking'[s]]_rotationVars

\* A full portfolio stays full: nothing is sold that cannot be replaced.
FullStaysFull ==
  [][WasFull => Cardinality(DOMAIN held') = cfg.topk]_rotationVars

\* A rotation of the portfolio: a holding is kept for its time, what is bought is no
\* worse than what is given up, and a full portfolio stays full (topk_dropout.py).
RotationIsOrderly == []RotationTypeOK /\ HoldingPeriodIsKept /\ SwapsImprove /\ FullStaysFull
=============================================================================
