---------------------------- MODULE WalkForward ----------------------------
(***************************************************************************)
(* engine/walkforward.py: windows of bars rolled over an index of times,   *)
(* a backtest per test window, one stitched curve; and the splitter of     *)
(* engine/sweep.py, which hands its windows to the backtester as dates.    *)
(*                                                                         *)
(*   plan    the index (times, not always evenly spaced, may repeat), the  *)
(*           configured windows, in bars or in time, and the day's length  *)
(*   wf      phase, folds, one result per fold run, the stitched curve,    *)
(*           the slices the sweep tests                                    *)
(* A fold's return is a power of two; equity within a fold is left out.    *)
(***************************************************************************)
EXTENDS Integers, Sequences, FiniteSets

CONSTANTS
    MaxBarsWF,      \* bound: length of the index
    MaxGap,         \* bound: time from one bar to the next
    MaxWindow,      \* bound: train, test and step
    DayLengths      \* times in a day: 1 for daily candles

ASSUME WalkForwardAssumption ==
    /\ MaxBarsWF \in Nat /\ MaxGap \in Nat /\ MaxWindow \in Nat
    /\ DayLengths \subseteq Nat \ {0}

VARIABLES plan, wf

foldVars == <<plan, wf>>

Time(i) == plan.index[i + 1]      \* positions count from 0, as in the code

----------------------------------------------------------------------------
(* Windows in bars.                                                        *)

Gaps == [i \in 1 .. Len(plan.index) - 1 |-> plan.index[i + 1] - plan.index[i]]

\* The k-th smallest gap.
KthGap(k) ==
    CHOOSE g \in {Gaps[i] : i \in DOMAIN Gaps} :
        /\ Cardinality({i \in DOMAIN Gaps : Gaps[i] < g}) < k
        /\ Cardinality({i \in DOMAIN Gaps : Gaps[i] <= g}) >= k

\* Twice the median of the gaps.
Twice == KthGap((Len(Gaps) + 1) \div 2) + KthGap(Len(Gaps) \div 2 + 1)

ToBars(value, twice) == IF plan.unit = "bars" THEN value ELSE (2 * value) \div twice

Timed == plan.unit = "time"

Train == ToBars(plan.train, Twice)
Test == ToBars(plan.test, Twice)
StepOf == ToBars(IF plan.step = 0 THEN plan.test ELSE plan.step, Twice)

\* A window in time that is shorter than the median gap, or a median of 0.
Convertible == Timed => Twice > 0 /\ Train > 0 /\ Test > 0 /\ StepOf > 0

----------------------------------------------------------------------------
(* Folds.                                                                  *)

\* Mutant: a window that fits exactly is not counted.
ExpectedFoldsStrict(n, train, test, step) ==
    IF n <= train + test THEN 0 ELSE 1 + (n - (train + test) - 1) \div step

ExpectedFolds(n, train, test, step) ==
    IF n < train + test THEN 0 ELSE 1 + (n - (train + test)) \div step

\* The k-th fold, in positions.
Fold(k, train, test, step) ==
    LET last == train + test + step * k - 1
        first == last - test + 1
    IN  [trainStart |-> IF plan.mode = "rolling" THEN first - train ELSE 0, trainEnd |-> first - 1,
         testStart |-> first, testEnd |-> last]

Leaks(fold) == Time(fold.testStart) <= Time(fold.trainEnd)

Generated(train, test, step) ==
    [k \in 1 .. ExpectedFolds(Len(plan.index), train, test, step) |-> Fold(k - 1, train, test, step)]

\* One fold is a backtest, not a walk-forward; no times may leak.
Sound(folds, train, test, step) ==
    /\ step <= train + test /\ Len(folds) > 1
    /\ \A k \in DOMAIN folds : ~Leaks(folds[k])

Generate ==
    /\ wf.phase = "start"
    /\ IF ~Convertible THEN wf' = [wf EXCEPT !.phase = "failed"]
       ELSE \E train \in {Train}, test \in {Test}, step \in {StepOf} :
            \E folds \in {Generated(train, test, step)} :
                wf' = IF Sound(folds, train, test, step)
                      THEN [wf EXCEPT !.phase = "folds", !.folds = folds] ELSE [wf EXCEPT !.phase = "failed"]
    /\ UNCHANGED plan

----------------------------------------------------------------------------
(* Execution.                                                              *)

\* data.loc[test_start : test_end]: by time, both ends included.
Slice(first, last) == {i \in 0 .. Len(plan.index) - 1 : Time(first) <= Time(i) /\ Time(i) <= Time(last)}

\* A run halted by a risk limit leaves the first bar and the starting cash.
Result(fold, gain, breach) ==
    [rows |-> IF breach THEN {fold.testStart} ELSE Slice(fold.testStart, fold.testEnd),
     gain |-> IF breach THEN 0 ELSE gain, breach |-> breach]

RunFold ==
    /\ wf.phase = "folds" /\ Len(wf.results) < Len(wf.folds)
    /\ \E gain \in {0, 1}, breach \in BOOLEAN :
        /\ breach => gain = 0
        /\ wf' = [wf EXCEPT !.results = Append(@, Result(wf.folds[Len(@) + 1], gain, breach))]
    /\ UNCHANGED plan

\* Capital before the k-th result, as a power of two.
Capital(results, k) == Cardinality({j \in 1 .. k - 1 : results[j].gain = 1})

\* Mutant: every fold begins with the initial capital.
StitchedFlat(results) ==
    [k \in DOMAIN results |-> [rows |-> results[k].rows, from |-> 0]]

\* Fold by fold, its rows in the order of the index.
Stitched(results) ==
    [k \in DOMAIN results |-> [rows |-> results[k].rows, from |-> Capital(results, k)]]

\* stitch_equity and the report
Finish ==
    /\ wf.phase = "folds" /\ Len(wf.results) = Len(wf.folds)
    /\ wf' = [wf EXCEPT !.phase = "done", !.curve = Stitched(wf.results)]
    /\ UNCHANGED plan

----------------------------------------------------------------------------
(* The sweep, whose windows are in bars.                                   *)

Windows(n, train, test, step) ==
    {<<i, i + test - 1>> : i \in {j \in train .. n - test : (j - train) % step = 0}}

\* start and end become the midnights of their days.
DateSlice(w) ==
    {i \in 0 .. Len(plan.index) - 1 :
        /\ (Time(w[1]) \div plan.day) * plan.day <= Time(i)
        /\ Time(i) <= (Time(w[2]) \div plan.day) * plan.day}

Sweep ==
    /\ wf.phase = "start" /\ plan.unit = "bars"
    /\ \E step \in {IF plan.step = 0 THEN plan.test ELSE plan.step} :
        wf' = [wf EXCEPT !.phase = "swept",
                         !.tested = [w \in Windows(Len(plan.index), plan.train, plan.test, step) |-> DateSlice(w)]]
    /\ UNCHANGED plan

----------------------------------------------------------------------------
\* The times of the bars: they never fall, and may repeat or skip.
Times ==
    {times \in UNION {[1 .. n -> 0 .. MaxGap * (n - 1)] : n \in 2 .. MaxBarsWF} :
        times[1] = 0 /\ \A i \in 1 .. Len(times) - 1 : times[i + 1] - times[i] \in 0 .. MaxGap}

FoldInit ==
    /\ \E index \in Times, train, test \in 1 .. MaxWindow, step \in 0 .. MaxWindow,
          mode \in {"rolling", "anchored"}, unit \in {"bars", "time"}, day \in DayLengths :
        plan = [index |-> index, train |-> train, test |-> test, step |-> step,
                mode |-> mode, unit |-> unit, day |-> day]
    /\ wf = [phase |-> "start", folds |-> <<>>, results |-> <<>>, curve |-> <<>>, tested |-> <<>>]

FoldNext == Generate \/ RunFold \/ Finish \/ Sweep

FoldSpec == FoldInit /\ [][FoldNext]_foldVars

----------------------------------------------------------------------------
(* Properties.                                                             *)

Planned == wf.phase \in {"folds", "done"}
Overlapping == Planned /\ StepOf < Test

\* The folds are exactly the windows the sweep's splitter finds, in order,
\* and no further one fits the data.
SplittersAgree ==
    Planned =>
        /\ {<<wf.folds[k].testStart, wf.folds[k].testEnd>> : k \in DOMAIN wf.folds} =
                Windows(Len(plan.index), Train, Test, StepOf)
        /\ wf.folds[Len(wf.folds)].testEnd + StepOf >= Len(plan.index)

\* No fold tests a bar that its own training has seen, nor, unless windows
\* were configured to overlap, one that another fold tests, whatever times
\* the index repeats or skips.
TestedOnce ==
    \A k \in DOMAIN wf.results :
        /\ \A i \in wf.results[k].rows : i > wf.folds[k].trainEnd
        /\ ~Overlapping => \A j \in DOMAIN wf.results : j # k =>
                wf.results[j].rows \cap wf.results[k].rows = {}

\* The curve only moves forward, and every fold starts with the capital the
\* one before it ended with.
CurveContinues ==
    wf.phase = "done" /\ ~Overlapping =>
        /\ \A k, l \in DOMAIN wf.curve : k < l =>
                \A i \in wf.curve[k].rows, j \in wf.curve[l].rows : i < j
        /\ \A k \in DOMAIN wf.curve :
                wf.curve[k].from = IF k = 1 THEN 0 ELSE wf.curve[k - 1].from + wf.results[k - 1].gain

\* The stitched curve is out of sample and one account: no bar of it was trained
\* on or counted twice, and no capital appears or is lost between folds.
HonestCurve == TestedOnce /\ CurveContinues

\* On daily candles the sweep tests the bars of its windows and no others.
DailySlicesExact ==
    wf.phase = "swept" /\ plan.day = 1 =>
        \A w \in DOMAIN wf.tested : wf.tested[w] = Slice(w[1], w[2])

\* A sweep validates on the very windows of a walk-forward.
SweepAgrees == SplittersAgree /\ DailySlicesExact
=============================================================================
