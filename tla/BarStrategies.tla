--------------------------- MODULE BarStrategies ---------------------------
(***************************************************************************)
(* The strategies of algo_bot/strategies behind StrategyBase.on_bar: what  *)
(* each remembers from bar to bar and the signal it answers.               *)
(* Indicators are facts of the bar b (a set-up and its side, a counter     *)
(* dot, a quiet oscillator, the bands, a cross); prices are small integers *)
(* and 0 stands for None, which `or` treats alike.                         *)
(***************************************************************************)
EXTENDS Integers

CONSTANTS
    Cooldown,       \* cooldown_bars of the pullback strategy
    StaleBars,      \* its stale_max_bars
    ArmBars,        \* arm_expiry_bars of the mean reversion
    BuyEvery        \* buy_every_n_bars of the DCA

ASSUME TimersAssumption ==
    /\ Cooldown \in Nat /\ StaleBars \in Nat \ {0} /\ ArmBars \in Nat \ {0} /\ BuyEvery \in Nat \ {0}

Dir(side) == CASE side = "long" -> 1 [] side = "short" -> -1 [] OTHER -> 0
Sides == {"long", "short"}

\* What a strategy remembers, and what it is born with.
Fresh == [side |-> "flat", entry |-> 0, sl |-> 0, tp |-> 0, trail |-> 0, bars |-> 0,
          cooldown |-> 0, armed |-> "flat", left |-> 0, count |-> 0]

Signal(action, side, sl, tp, size) ==
    [action |-> action, side |-> side, sl |-> sl, tp |-> tp, size |-> size]
Hold == Signal("hold", "flat", 0, 0, 0)
Answer(s, signal) == [memory |-> s, signal |-> signal]

\* The stop that is closer to the price; none yet is as far as can be.
Tighter(side, a, x) ==
    IF x = 0 THEN a ELSE IF a = 0 \/ Dir(side) * (x - a) > 0 THEN x ELSE a

\* tp_has_priority: which of two levels touched by one bar counts.
TpFirst(kind) == kind # "reversion"

\* Both levels, or neither, are watched.
SameBarHit(side, sl, tp, b, tpFirst) ==
    LET far == IF side = "long" THEN b.h ELSE b.l
        near == IF side = "long" THEN b.l ELSE b.h
        won == Dir(side) * (far - tp) >= 0
        lost == Dir(side) * (sl - near) >= 0
    IN  IF sl = 0 \/ tp = 0 THEN "none"
        ELSE IF won /\ (tpFirst \/ ~lost) THEN "tp"
        ELSE IF lost THEN "sl" ELSE "none"

----------------------------------------------------------------------------
(* bghtrend_pullback.  Its stop lies Risk from the entry, its target 1.5   *)
(* times as far, and it trails one step behind the close.                  *)

Risk == 2
Reward == 3
Step == 1

Reset(s) == [s EXCEPT !.side = "flat", !.entry = 0, !.sl = 0, !.tp = 0, !.trail = 0, !.bars = 0]

Trailed(s, b) ==
    LET trail == Tighter(s.side, s.trail, b.c - Dir(s.side) * Step)
    IN  [s EXCEPT !.trail = trail, !.sl = Tighter(s.side, s.sl, trail)]

InProfit(s, b) == Dir(s.side) * (b.c - s.entry) > 0

\* Mutant: the position is not forgotten when it went stale.
PullbackHeldForever(s, b) ==
    LET hit == SameBarHit(s.side, s.sl, s.tp, b, TpFirst("pullback"))
        out == Signal("exit", s.side, 0, 0, 0)
    IN  CASE hit = "tp" -> Answer(Reset(s), out)
          [] hit = "sl" -> Answer([Reset(s) EXCEPT !.cooldown = Cooldown], out)
          [] hit = "none" /\ InProfit(s, b) /\ b.dot -> Answer(Reset(s), out)
          [] hit = "none" /\ ~(InProfit(s, b) /\ b.dot) /\ s.bars + 1 >= StaleBars /\ b.quiet -> Answer(s, out)
          [] OTHER -> Answer([s EXCEPT !.bars = @ + 1], Signal("hold", s.side, s.sl, s.tp, 0))

PullbackHeld(s, b) ==
    LET hit == SameBarHit(s.side, s.sl, s.tp, b, TpFirst("pullback"))
        out == Signal("exit", s.side, 0, 0, 0)
        stale == s.bars + 1 >= StaleBars /\ b.quiet
    IN  CASE hit = "tp" -> Answer(Reset(s), out)
          [] hit = "sl" -> Answer([Reset(s) EXCEPT !.cooldown = Cooldown], out)
          [] hit = "none" /\ ((InProfit(s, b) /\ b.dot) \/ stale) -> Answer(Reset(s), out)
          [] OTHER -> Answer([s EXCEPT !.bars = @ + 1], Signal("hold", s.side, s.sl, s.tp, 0))

\* A position is remembered with its levels.
Held(s, side, entry, sl, tp, trail) ==
    [s EXCEPT !.side = side, !.entry = entry, !.sl = sl, !.tp = tp, !.trail = trail, !.bars = 0]

\* The levels of an entry; the strategy itself starts with the closer stop.
PullbackEntry(s, b) ==
    LET sl == b.c - Dir(b.setup) * Risk
        tp == b.c + Dir(b.setup) * Reward
        trail == b.c - Dir(b.setup) * Step
        held == Held(s, b.setup, b.c, Tighter(b.setup, sl, trail), tp, trail)
    IN  IF b.setup \in Sides THEN Answer(held, Signal("enter", b.setup, sl, tp, 0)) ELSE Answer(s, Hold)

Pullback(s, b) ==
    IF s.cooldown > 0 THEN Answer([s EXCEPT !.cooldown = @ - 1], Hold)
    ELSE IF s.side # "flat" THEN PullbackHeld(Trailed(s, b), b)
    ELSE PullbackEntry(s, b)

----------------------------------------------------------------------------
(* mean_reversion_bb_stoch: touch a band, react within ArmBars, leave at   *)
(* the opposite band of the day or at a fixed stop.                        *)

\* Either level alone is watched.
HitExit(side, sl, tp, b) ==
    IF tp # 0 /\ sl # 0 THEN SameBarHit(side, sl, tp, b, TpFirst("reversion"))
    ELSE IF tp # 0 /\ Dir(side) * ((IF side = "long" THEN b.h ELSE b.l) - tp) >= 0 THEN "tp"
    ELSE IF sl # 0 /\ Dir(side) * (sl - (IF side = "long" THEN b.l ELSE b.h)) >= 0 THEN "sl"
    ELSE "none"

Opposite(side, b) == IF side = "long" THEN b.upper ELSE b.lower

ReversionHeld(s, b) ==
    IF HitExit(s.side, s.sl, s.tp, b) # "none"
    THEN Answer(Reset(s), Signal("exit", s.side, 0, 0, 0))
    ELSE Answer(s, Signal("hold", s.side, s.sl, s.tp, 0))

\* A body away from the band that was touched.
Reacted(side, b) == Dir(side) * (b.c - b.o) > 0

\* The armed side is entered and no longer armed.
Entered(s, entry, sl, tp) ==
    [s EXCEPT !.side = s.armed, !.entry = entry, !.sl = sl, !.tp = tp, !.armed = "flat", !.left = 0]

ReversionEntry(s, b) ==
    LET sl == b.c - Dir(s.armed) * Risk
        tp == Opposite(s.armed, b)
    IN  Answer(Entered(s, b.c, sl, tp), Signal("enter", s.armed, sl, tp, 0))

Aged(s) == [s EXCEPT !.left = @ - 1, !.armed = IF s.left - 1 <= 0 THEN "flat" ELSE @]

\* The oscillator is extreme on the side it names, or not asked.  A bar that
\* may arm both sides arms none.
Gated(side, b) == b.gate \in {side, "both"}

Touched(s, b) ==
    LET long == b.l <= b.lower /\ Gated("long", b)
        short == b.h >= b.upper /\ Gated("short", b)
    IN  IF long = short THEN s
        ELSE [s EXCEPT !.armed = IF long THEN "long" ELSE "short", !.left = ArmBars]

Reversion(s, b) ==
    CASE s.side # "flat" -> ReversionHeld([s EXCEPT !.tp = Opposite(s.side, b)], b)
      [] s.side = "flat" /\ s.armed # "flat" ->
            IF Reacted(s.armed, b) THEN ReversionEntry(s, b) ELSE Answer(Aged(s), Hold)
      [] OTHER -> Answer(Touched(s, b), Hold)

----------------------------------------------------------------------------
(* The strategies without a memory of their position.                      *)

\* simple_momentum with side = "both": an entry comes before an exit, and the
\* conditions of an exit are those of the opposite entry.
Momentum(s, b) == Answer(s, IF b.cross \in Sides THEN Signal("enter", b.cross, 0, 0, 0) ELSE Hold)

\* buy_and_hold, from its second bar
BuyAndHold(s) ==
    IF s.count = 1 THEN Answer(s, Hold)
    ELSE Answer([s EXCEPT !.count = 1], Signal("enter", "long", 0, 0, 0))

\* dca_btc; its index of fear is loaded by init(), which no engine calls.
Dca(s) ==
    Answer([s EXCEPT !.count = (@ + 1) % BuyEvery],
           IF s.count = 0 THEN Signal("enter", "long", 0, 0, 1) ELSE Hold)

\* A scripted strategy, as the Tier-1 fixture: any signal, one whole unit.
Scripted(s, b) == Answer(s, IF b.does = "hold" THEN Hold ELSE Signal(b.does, b.to, 0, 0, 1))

OnBar(kind, s, b) ==
    CASE kind = "pullback" -> Pullback(s, b)
      [] kind = "reversion" -> Reversion(s, b)
      [] kind = "momentum" -> Momentum(s, b)
      [] kind = "buy_and_hold" -> BuyAndHold(s)
      [] kind = "dca" -> Dca(s)
      [] OTHER -> Scripted(s, b)
============================================================================
