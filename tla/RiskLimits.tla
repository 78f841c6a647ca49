---------------------------- MODULE RiskLimits ----------------------------
(***************************************************************************)
(* risk/limits.py: the state a caller keeps per bar and the gates on it.   *)
(* Losses are limited in percent, compared without rounding; 0 stands for  *)
(* None, and -1 where a number of positions is limited.                    *)
(***************************************************************************)
EXTENDS Integers

CONSTANTS
    DayLength,      \* bars in a day
    Offset          \* local time minus UTC, in bars

ASSUME DayAssumption == DayLength \in Nat \ {0} /\ Offset \in 0 .. DayLength

\* The local day of bar ts.
NormalizeDay(ts) == (ts + Offset) \div DayLength

InitState(equity, ts) ==
    [peak |-> equity, start |-> equity, day |-> NormalizeDay(ts), open |-> 0]

\* Mutant: the day begins with the last equity of the day before.
UpdateStateStale(state, equity, ts, open) ==
    [peak |-> IF equity > state.peak THEN equity ELSE state.peak,
     start |-> state.start, day |-> NormalizeDay(ts), open |-> open]

UpdateState(state, equity, ts, open) ==
    [peak |-> IF equity > state.peak THEN equity ELSE state.peak,
     start |-> IF NormalizeDay(ts) # state.day THEN equity ELSE state.start,
     day |-> NormalizeDay(ts), open |-> open]

\* The loss from a reference has reached the limit; a reference that is not
\* positive is no reference.
Lost(reference, equity, limit) ==
    limit # 0 /\ reference > 0 /\ 100 * (reference - equity) >= limit * reference

CheckDrawdown(state, equity, limits) == Lost(state.peak, equity, limits.drawdown)
CheckDailyLoss(state, equity, limits) == Lost(state.start, equity, limits.daily)
CheckPositions(state, limits) == limits.positions >= 0 /\ state.open > limits.positions

\* The first limit that is broken.
CheckAll(state, equity, limits) ==
    IF CheckDrawdown(state, equity, limits) THEN "max_drawdown"
    ELSE IF CheckDailyLoss(state, equity, limits) THEN "daily_loss"
    ELSE IF CheckPositions(state, limits) THEN "max_positions" ELSE "none"
============================================================================
