---------------------------- MODULE SampleSplits ----------------------------
(***************************************************************************)
(* How a history is cut into what a search or a training may see and what  *)
(* judges it: split_by_is_end of the factor loop (quant/lab/               *)
(* sample_split.py), split_train_holdout of the retraining                 *)
(* (quant/retrain.py), the windows of a walk-forward analysis              *)
(* (engine/backtest/walkforward.py).  A row is <<instrument, day>>; its    *)
(* label is the return to the bar `period` bars later of that instrument,  *)
(* so that a label reads a price of another day.                           *)
(***************************************************************************)
EXTENDS Integers, FiniteSets, FiniteSetsExt

CONSTANTS
  Instruments,
  LastSampleDay,     \* days are 1 .. LastSampleDay
  Periods,           \* the forward periods
  Ratios,            \* holdout ratios, in tenths
  Windows,           \* [n, train, test, mode] of walk-forward analyses
  MinWindow          \* _MIN_WINDOW_BARS

ASSUME SplitAssumption ==
  /\ LastSampleDay \in Nat /\ Periods \subseteq Nat \ {0} /\ Ratios \subseteq Nat
  /\ Windows \subseteq [n : Nat, train : Nat, test : Nat, mode : {"rolling", "anchored"}]
  /\ MinWindow \in Nat \ {0}

VARIABLES
  days,      \* instrument -> its days with a bar
  period,
  split      \* what was cut: the kind of cut and its parts

splitVars == <<days, period, split>>

SampleDays == 1 .. LastSampleDay
None == [by |-> "none"]

SplitInit ==
  /\ days \in [Instruments -> SUBSET SampleDays]
  /\ period \in Periods
  /\ split = None

Rows == {r \in Instruments \X SampleDays : r[2] \in days[r[1]]}
After(i, d) == {e \in days[i] : e > d}

\* attach_forward_label: the day whose price the label of a row reads, 0 when
\* the instrument has no such bar and the label is missing.
LabelDay(i, d) ==
  IF Cardinality(After(i, d)) < period THEN 0
  ELSE CHOOSE e \in After(i, d) : Cardinality({x \in After(i, d) : x <= e}) = period

-----------------------------------------------------------------------------
(* Cut at the end of the sample *)

\* Mutant: the embargo counts days of the calendar, not bars of the instrument.
EmbargoedDays(rows, end) == {r \in rows : r[2] <= end - period}

\* _embargo: every instrument gives up its last `period` rows.
Embargoed(rows, end) ==
  {r \in rows : Cardinality({x \in rows : x[1] = r[1] /\ x[2] > r[2]}) >= period}

IsEndSplit(end) ==
  LET within == {r \in Rows : r[2] <= end}
      labels == Embargoed(within, end)
  IN /\ split = None
     /\ split' = IF labels = {} THEN [by |-> "refused"]
                 ELSE [by |-> "is_end", end |-> end, features |-> within,
                       train |-> labels, test |-> Rows \ within]
     /\ UNCHANGED <<days, period>>

-----------------------------------------------------------------------------
(* Cut by a share of the dates *)

\* round() of Python: to the nearest, an exact half to the even one.
Rounded(n, tenths) ==
  LET down == (n * tenths) \div 10
      rest == (n * tenths) % 10
  IN IF rest > 5 \/ (rest = 5 /\ down % 2 = 1) THEN down + 1 ELSE down

\* The dates of the training, those of the holdout being the last ones.
TrainDates(dates, tenths) ==
  LET holdout == Max({1, Rounded(Cardinality(dates), tenths)})
  IN {d \in dates : Cardinality({e \in dates : e > d}) >= holdout}

\* Rows without a label are left out before the cut.
HoldoutSplit(tenths) ==
  LET rows == {r \in Rows : LabelDay(r[1], r[2]) # 0}
      dates == {r[2] : r \in rows}
      early == {r \in rows : r[2] \in TrainDates(dates, tenths)}
  IN /\ split = None
     /\ split' = IF Cardinality(dates) < 2 \/ early = {} THEN [by |-> "refused"]
                 ELSE [by |-> "holdout", tenths |-> tenths, train |-> early,
                       test |-> rows \ early]
     /\ UNCHANGED <<days, period>>

-----------------------------------------------------------------------------
(* Walk-forward *)

\* Where the k-th test window begins.
Step(w, k) == w.train + k * w.test

\* _slice_windows: the windows as half-open intervals [train_lo, train_hi, test_hi].
Slices(w) ==
  {[train_lo |-> IF w.mode = "anchored" THEN 0 ELSE Step(w, k) - w.train,
    train_hi |-> Step(w, k), test_hi |-> Step(w, k) + w.test] :
     k \in {k \in 0 .. w.n : Step(w, k) + w.test <= w.n}}

\* run_walk_forward; what the windows are evaluated to is left out.
WalkForward(w) ==
  /\ split = None
  /\ split' = IF w.n < w.train + w.test \/ Min({w.train, w.test}) < MinWindow
              THEN [by |-> "refused"]
              ELSE [by |-> "windows", of |-> w, all |-> Slices(w)]
  /\ UNCHANGED <<days, period>>

SplitNext ==
  \/ \E end \in SampleDays : IsEndSplit(end)
  \/ \E tenths \in Ratios : HoldoutSplit(tenths)
  \/ \E w \in Windows : WalkForward(w)

SplitSpec == SplitInit /\ [][SplitNext]_splitVars

-----------------------------------------------------------------------------
(* Properties *)

SplitTypeOK ==
  /\ days \in [Instruments -> SUBSET SampleDays] /\ period \in Periods
  /\ split.by \in {"none", "refused", "is_end", "holdout", "windows"}
  /\ split.by \in {"is_end", "holdout"} => split.train \cup split.test \subseteq Rows

\* What a search is given is blind to the out-of-sample part: every label of
\* its rows is known and reads a price of the sample, however the instrument's
\* bars are spread over the days.  And no row with such a label is lost, so
\* that the sample is as long as it can be.
LabelsStayInside ==
  split.by = "is_end" =>
    split.train = {r \in Rows : LabelDay(r[1], r[2]) \in 1 .. split.end}

\* The holdout is later than the training: no date is on both sides, no row is
\* on neither, each side has a date, and the holdout has the share asked for,
\* to the nearest date.
HoldoutIsLater ==
  split.by = "holdout" =>
    LET dates(rows) == {r[2] : r \in rows}
        all == Cardinality(dates(split.train) \cup dates(split.test))
        late == Cardinality(dates(split.test))
    IN /\ \A r \in split.train, s \in split.test : r[2] < s[2]
       /\ split.train \cup split.test = {r \in Rows : LabelDay(r[1], r[2]) # 0}
       /\ late >= 1
       /\ late > 1 => 2 * late * 10 - 2 * all * split.tenths \in -10 .. 10

\* The training of a retraining may read prices of its holdout, since there
\* is no embargo; but only through the last `period` rows of an instrument.
LeaksAreBounded ==
  split.by = "holdout" =>
    LET cut == Min({r[2] : r \in split.test})
    IN \A i \in Instruments :
         Cardinality({r \in split.train : r[1] = i /\ LabelDay(i, r[2]) >= cut}) <= period

\* The test windows follow each other without a gap or an overlap from the
\* first training on, what is left at the end is shorter than one of them,
\* and each window is trained on what comes right before its test.
WindowsTile ==
  split.by = "windows" =>
    LET w == split.of
        tested == UNION {s.train_hi .. s.test_hi - 1 : s \in split.all}
    IN /\ \E end \in w.n - w.test + 1 .. w.n : tested = w.train .. end - 1
       /\ Cardinality(tested) = w.test * Cardinality(split.all)
       /\ \A s \in split.all :
            /\ s.train_lo >= 0 /\ s.train_hi - s.train_lo >= w.train
            /\ w.mode = "rolling" => s.train_hi - s.train_lo = w.train
            /\ w.mode = "anchored" => s.train_lo = 0

\* Training and test are apart: labels stay inside their sample, the holdout is
\* later, what leaks into it is bounded by the label's period, and the tests of a
\* walk-forward analysis tile the bars.
SamplesAreApart ==
  /\ SplitTypeOK
  /\ LabelsStayInside /\ HoldoutIsLater
  /\ LeaksAreBounded /\ WindowsTile
=============================================================================
