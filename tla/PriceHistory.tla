---------------------------- MODULE PriceHistory ----------------------------
(***************************************************************************)
(* The price histories that backtests run on.  Adjusted prices and         *)
(* dividends (data/adjustments.py, engine/backtest/engine.py): the closes  *)
(* of a symbol are scaled by the factors of its corporate actions, and the *)
(* dividends are credited while the bars are run through; factors are      *)
(* fractions.  One series from the contracts of a future                   *)
(* (data/continuous_futures.py): a bar is [open, close]; the other prices  *)
(* of a bar are shifted with it.                                           *)
(***************************************************************************)
EXTENDS Integers, Sequences, FiniteSets, FiniteSetsExt, Functions

CONSTANTS
  LastHistoryDay,    \* days are 1 .. LastHistoryDay, a day without bars is no session
  HistoryPrices,
  Actions,        \* records: ex (a day), kind ("split" or "dividend"), amount
  MaxActions,     \* bound on the actions of a symbol
  BarsPerDay,
  Candidates,     \* the bars a contract may have, sequences of them
  MaxContracts    \* bound on the contracts

ASSUME HistoryAssumption ==
  /\ LastHistoryDay \in Nat /\ HistoryPrices \subseteq Nat \ {0}
  /\ Actions \subseteq [ex : Nat, kind : {"split", "dividend"}, amount : Nat \ {0}]
  /\ MaxActions \in Nat /\ BarsPerDay \in Nat \ {0}
  /\ Candidates \subseteq Seq([open : Int, close : Int]) /\ MaxContracts \in Nat

VARIABLES
  close,          \* session -> its close, the one of its last bar
  actions,
  factor,         \* session -> <<numerator, denominator>>
  today, bar,     \* the session and the bar the backtest is at, 0 before it
  qty,            \* the shares held
  opened,         \* day -> the shares held when it began, of a day without bars too
  credited,       \* day -> the shares a dividend of the day was credited for
  contracts,      \* their bars, the earliest contract first; one may have none
  method,         \* "raw" or "back_adjust"
  series          \* the segments of the series, <<>> before it is made

adjustVars == <<close, actions, factor, today, bar, qty, opened, credited>>
futuresVars == <<contracts, method, series>>

HistoryDays == 1 .. LastHistoryDay
Sessions == DOMAIN close

Histories == UNION {[S -> HistoryPrices] : S \in (SUBSET HistoryDays) \ {{}}}
ActionSets == {S \in SUBSET Actions : IsFiniteSet(S) /\ Cardinality(S) <= MaxActions}

AdjustInit ==
  /\ close \in Histories /\ actions \in ActionSets
  /\ factor = <<>>
  /\ today = 0 /\ bar = 0 /\ qty = 0
  /\ opened = [d \in HistoryDays |-> 0] /\ credited = [d \in HistoryDays |-> 0]

-----------------------------------------------------------------------------
(* Factors *)

\* Mutant: the price of the ex date itself.
CloseAt(ex) ==
  LET until == {d \in Sessions : d <= ex}
  IN IF until = {} THEN 0 ELSE close[Max(until)]

\* _close_before: of the last session before the ex date, 0 for none.
CloseBefore(ex) ==
  LET before == {d \in Sessions : d < ex}
  IN IF before = {} THEN 0 ELSE close[Max(before)]

\* _action_price_ratio; <<1, 1>> where the code leaves the prices alone.
Ratio(a) ==
  IF a.kind = "split" THEN <<1, a.amount>>
  ELSE LET before == CloseBefore(a.ex)
       IN IF before - a.amount > 0 THEN <<before - a.amount, before>> ELSE <<1, 1>>

\* The actions that scale a session.
Scaled(d) == {a \in actions : d < a.ex}

Product(f, S) == FoldFunctionOnSet(LAMBDA x, y : x * y, 1, f, S)

\* The factor of a session: the product of the ratios of what scales it.
FactorOf(d) ==
  <<Product([a \in actions |-> Ratio(a)[1]], Scaled(d)),
    Product([a \in actions |-> Ratio(a)[2]], Scaled(d))>>

\* _apply_price_adjustments
Adjust ==
  /\ factor = <<>>
  /\ factor' = [d \in Sessions |-> FactorOf(d)]
  /\ UNCHANGED <<close, actions, today, bar, qty, opened, credited>>

-----------------------------------------------------------------------------
(* The backtest *)

Pays(d) == \E a \in actions : a.kind = "dividend" /\ a.ex = d

\* _credit_dividends, at each bar and before its matching.
Credited(d, before, after) == IF Pays(d) THEN before ELSE 0

\* The next bar, after whose matching n shares are held.
NextBar(n) ==
  LET left == {d \in Sessions : d > today}
      newDay == today = 0 \/ bar = BarsPerDay
      d == IF newDay THEN Min(left) ELSE today
  IN /\ factor # <<>>
     /\ newDay => left # {}
     /\ today' = d
     /\ bar' = IF newDay THEN 1 ELSE bar + 1
     /\ opened' = [e \in HistoryDays |-> IF today < e /\ e <= d THEN qty ELSE opened[e]]
     /\ credited' = [credited EXCEPT ![d] = @ + Credited(d, qty, n)]
     /\ qty' = n
     /\ UNCHANGED <<close, actions, factor>>

AdjustNext == Adjust \/ \E n \in {0, 1} : NextBar(n)

AdjustSpec == AdjustInit /\ [][AdjustNext]_adjustVars

-----------------------------------------------------------------------------
(* Properties *)

AdjustTypeOK ==
  /\ Sessions \subseteq HistoryDays /\ actions \subseteq Actions
  /\ DOMAIN factor \in {{}, Sessions}
  /\ today \in HistoryDays \cup {0} /\ bar \in 0 .. BarsPerDay /\ qty \in {0, 1}

Neighbours(d, e) == d \in Sessions /\ e \in Sessions /\ d < e /\ Sessions \cap (d + 1 .. e - 1) = {}
Between(d, e) == {a \in actions : d < a.ex /\ a.ex <= e}

\* What a holder of the share gained from session d to e, as a fraction.
Growth(d, e) ==
  IF Between(d, e) = {} THEN <<close[e], close[d]>>
  ELSE LET a == CHOOSE a \in Between(d, e) : TRUE
       IN IF a.kind = "split" THEN <<close[e] * a.amount, close[d]>>
          ELSE <<close[e], close[d] - a.amount>>

\* Adjusted prices change from one session to the next by what a holder
\* gained, whatever other actions lie before or after and however many days
\* without a bar are in between.  (More than one action at once, or a dividend
\* of the whole price, have no such meaning.)
ReturnsAreKept ==
  factor # <<>> =>
    \A d, e \in Sessions :
      /\ Neighbours(d, e) /\ Cardinality(Between(d, e)) <= 1
      /\ \A a \in Between(d, e) : a.kind = "dividend" => a.amount < close[d]
      => close[e] * factor[e][1] * factor[d][2] * Growth(d, e)[2]
           = close[d] * factor[d][1] * factor[e][2] * Growth(d, e)[1]

\* The last price is the real one, as long as no action is known that comes
\* after the last bar: the factors of a backtest that ends in the past are
\* built from the actions up to now.
LatestIsReal ==
  factor # <<>> /\ (\A a \in actions : a.ex <= Max(Sessions)) =>
    factor[Max(Sessions)][1] = factor[Max(Sessions)][2]

\* On daily bars, a dividend whose ex date has a bar is credited for the shares that
\* were held when the date began, and once; on other days nothing is credited.  A
\* dividend whose ex date has no bar is therefore lost.
DividendPaidOnce ==
  \A d \in HistoryDays : credited[d] = IF Pays(d) /\ d \in Sessions THEN opened[d] ELSE 0

\* "The amount per share": a share held when the ex date began gets it once.  The
\* code credits at each bar of the date.
HolderPaidOnce ==
  \A d \in HistoryDays : opened[d] > 0 => credited[d] <= opened[d]

\* Adjusted prices change as a holding's worth does, and end at the real price.
AdjustmentsAreConsistent == AdjustTypeOK /\ ReturnsAreKept /\ LatestIsReal

-----------------------------------------------------------------------------
(* Continuous futures *)

FuturesInit ==
  /\ \E n \in 0 .. MaxContracts : contracts \in [1 .. n -> Candidates]
  /\ method \in {"raw", "back_adjust"}
  /\ series = <<>>

\* _normalized_segments: the contracts that have bars, in their order.
Traded == {i \in DOMAIN contracts : contracts[i] # <<>>}
Nth(k) == CHOOSE i \in Traded : Cardinality({j \in Traded : j <= i}) = k
Segments == [k \in 1 .. Cardinality(Traded) |-> contracts[Nth(k)]]

LastOf(seg) == seg[Len(seg)]

\* From the last bar of a contract to the first of the next.
Gap(segs, k) == segs[k + 1][1].open - LastOf(segs[k]).close

\* _cumulative_offsets: the gaps from a contract on.
Offset(segs, k) ==
  SumFunctionOnSet([j \in 1 .. Len(segs) - 1 |-> Gap(segs, j)], k .. Len(segs) - 1)

\* _shift
Shift(b, n) == [open |-> b.open + n, close |-> b.close + n]

\* stitch_continuous
Stitched ==
  IF method = "raw" \/ Len(Segments) = 1 THEN Segments
  ELSE [k \in DOMAIN Segments |->
          [i \in DOMAIN Segments[k] |-> Shift(Segments[k][i], Offset(Segments, k))]]

Stitch ==
  /\ series = <<>> /\ Segments # <<>>
  /\ series' = Stitched
  /\ UNCHANGED <<contracts, method>>

FuturesSpec == FuturesInit /\ [][Stitch]_futuresVars

-----------------------------------------------------------------------------
(* Properties *)

FuturesTypeOK ==
  /\ Len(contracts) <= MaxContracts
  /\ \A i \in DOMAIN contracts : contracts[i] \in Candidates
  /\ method \in {"raw", "back_adjust"}
  /\ Len(series) \in {0, Len(Segments)}

\* A back-adjusted series has no jump where the contract changes, contracts
\* without a bar left out; and the contract that is traded now keeps its prices.
NoJumpAtChange ==
  series # <<>> /\ method = "back_adjust" =>
    /\ \A k \in 1 .. Len(series) - 1 : LastOf(series[k]).close = series[k + 1][1].open
    /\ LastOf(series) = LastOf(Segments)

\* Within a contract every difference of prices stays what it was: a contract
\* is shifted as a whole, and a raw series not at all.
DifferencesAreKept ==
  series # <<>> =>
    \A k \in DOMAIN series : \A i, j \in DOMAIN series[k] :
      /\ series[k][i].close - series[k][j].open = Segments[k][i].close - Segments[k][j].open
      /\ method = "raw" => series[k][i] = Segments[k][i]

\* A continuous series changes as its contracts do, and not where they change.
SeriesIsConsistent == FuturesTypeOK /\ NoJumpAtChange /\ DifferencesAreKept

\* Histories show the worth of a holding over splits and dividends and over a change of
\* contracts; and on daily bars a dividend with a bar on its ex date is paid once (one
\* without is lost: the code only asks at bars).
HistoryIsConsistent == AdjustmentsAreConsistent /\ DividendPaidOnce /\ SeriesIsConsistent
=============================================================================
