--------------------------- MODULE SignalEvaluator --------------------------
(***************************************************************************)
(* The signals of mastermind (signals.py): evaluate_bar turns a closed bar *)
(* and the signal memory into facts, under guards the reducer hands in.    *)
(* Here the reducer is what those guards see of it: the stage of a setup,  *)
(* recovery, and whether the add-on opportunity is used up; Mastermind     *)
(* models the rest of it.  Of the last two bars the memory keeps only the  *)
(* previous one is read; trigger ids are new with every bar, a bar that is *)
(* delivered again never gets here.                                        *)
(***************************************************************************)
EXTENDS Integers

CONSTANTS
    H1Bars,                 \* bound: bars that may close
    ArmExpiry,              \* arm_expiry_bars
    Oversold, Overbought,   \* stoch_oversold, stoch_overbought
    MaxH1Bars               \* bound: bars of a behaviour

ASSUME SignalAssumption ==
    /\ ArmExpiry \in Nat \ {0} /\ MaxH1Bars \in Nat
    /\ \A b \in H1Bars : b.low > 0 /\ b.lower < b.upper

VARIABLES
    rules,          \* addon_trigger_policy, require_reclaim, a marking time frame
    memory,         \* SignalMemory
    life,           \* the reducer: stage, side, reaction bar, ...
    fact,           \* what the last bar answered
    count           \* history: eligible bars since arming, add-on opportunities used

signalVars == <<rules, memory, life, fact, count>>

None4 == <<>>
NoFact == [reaction |-> "none", addon |-> None4, target |-> 0]
Unarmed == [armed |-> "none", left |-> 0]
FlatLife == [stage |-> "flat", side |-> "none", reaction |-> None4, consumed |-> FALSE,
             recovering |-> FALSE]

Body(side, b) == IF side = "long" THEN b.close > b.open ELSE b.close < b.open

ReactionOk(side, b) ==
    /\ Body(side, b)
    /\ rules.reclaim => IF side = "long" THEN b.close > b.lower ELSE b.close < b.upper

StochCross(side, prev, b) ==
    /\ prev # None4
    /\ IF side = "long"
       THEN prev.k <= prev.d /\ b.k > b.d /\ b.k < Oversold /\ b.d < Oversold
       ELSE prev.k >= prev.d /\ b.k < b.d /\ b.k > Overbought /\ b.d > Overbought

\* _choose_trigger: in a tie the candle wins, except where both are asked for.
ChooseTrigger(candle, stoch) ==
    IF rules.policy = "CANDLE_AND_STOCH"
    THEN IF candle /\ stoch THEN "CANDLE_AND_STOCH" ELSE "none"
    ELSE IF candle /\ rules.policy # "STOCH_CROSS" THEN "CONFIRMING_CANDLE"
    ELSE IF stoch /\ rules.policy # "CONFIRMING_CANDLE" THEN "STOCH_CROSS" ELSE "none"

Extreme(side, a, b) ==
    IF side = "long" THEN (IF a.low < b.low THEN a.low ELSE b.low)
    ELSE (IF a.high > b.high THEN a.high ELSE b.high)

\* The stop of a candle pair, of the last two bars, or the farther one of both.
StructuralStop(side, kind, reaction, prev, b) ==
    LET candle == Extreme(side, reaction, b)
        stoch == Extreme(side, prev, b)
    IN  IF prev = None4 \/ kind = "CONFIRMING_CANDLE" THEN candle
        ELSE IF kind = "STOCH_CROSS" THEN stoch
        ELSE IF (candle < stoch) = (side = "long") THEN candle ELSE stoch

\* One side is touched and not the other.
Touch(b) ==
    CASE b.low <= b.lower /\ b.high < b.upper -> "long"
      [] b.high >= b.upper /\ b.low > b.lower -> "short"
      [] OTHER -> "none"

Arm(side) == [armed |-> side, left |-> IF side = "none" THEN 0 ELSE ArmExpiry]

Eligible == life.stage = "flat" /\ ~life.recovering
Observable == life.stage = "base" /\ ~life.recovering

\* Bars are compared by their close times.
After4(b) == life.reaction # None4 /\ b.at > life.reaction.at

----------------------------------------------------------------------------
CheckedLate(b) == After4(b) /\ Observable  \* mutant: checked when an add-on could be sent

\* The bar after the reaction bar is the only one to confirm, observed or not.
Checked4(b) == After4(b)

AddonFact(b) ==
    LET candle == Checked4(b) /\ ~memory.checked /\ Body(life.side, b)
        kind == ChooseTrigger(candle, StochCross(life.side, memory.previous, b))
    IN  IF Observable /\ ~life.consumed /\ kind # "none"
        THEN [kind |-> kind, at |-> b.at, reaction |-> life.reaction.at, close |-> b.close,
              stop |-> StructuralStop(life.side, kind, life.reaction, memory.previous, b)]
        ELSE None4

Expired(left) == IF left - 1 <= 0 THEN Unarmed ELSE [memory.arm EXCEPT !.left = left - 1]

\* Armed and reaction, or one bar less to wait; disarmed bars may arm.
ArmAfter(b) ==
    IF ~Eligible THEN memory.arm
    ELSE IF memory.arm.armed = "none" THEN IF rules.marking THEN memory.arm ELSE Arm(Touch(b))
    ELSE IF ReactionOk(memory.arm.armed, b) THEN Unarmed
    ELSE Expired(memory.arm.left)

Reacts(b) == Eligible /\ memory.arm.armed # "none" /\ ReactionOk(memory.arm.armed, b)

\* The live target of an exposed setup is the opposite band.
Target4(b) == IF life.stage \notin {"base", "busy"} THEN 0 ELSE IF life.side = "long" THEN b.upper ELSE b.lower

EvaluateBar(b) ==
    /\ fact' = [reaction |-> IF Reacts(b) THEN memory.arm.armed ELSE "none",
                addon |-> AddonFact(b), target |-> Target4(b)]
    /\ memory' = [arm |-> ArmAfter(b), previous |-> b,
                  checked |-> IF Reacts(b) THEN FALSE ELSE memory.checked \/ Checked4(b)]

\* validate_structural_stop, without the distance cap.
StopValid(side, stop, price) == IF side = "long" THEN stop < price ELSE stop > price

----------------------------------------------------------------------------
(* The reducer around it.                                                  *)

\* _create_base_setup, which a missing equity or the minimum may reject.
CreateBaseSetup(b) ==
    \/ life' = [life EXCEPT !.stage = "pending", !.side = fact'.reaction,
                            !.reaction = b, !.consumed = FALSE]
    \/ UNCHANGED life

\* _consume_addon_fact: submitted, or turned down in scout mode, by its stop or its size.
ConsumeAddonFact ==
    \/ /\ StopValid(life.side, fact'.addon.stop, fact'.addon.close)
       /\ life' = [life EXCEPT !.stage = "busy", !.consumed = TRUE]
    \/ life' = [life EXCEPT !.consumed = @ \/ rules.policy # "STOCH_CROSS"]

BarCloses(bar) ==
    LET at == IF memory.previous = None4 THEN 1 ELSE memory.previous.at + 1
        b == [at |-> at, open |-> bar.open, high |-> bar.high, low |-> bar.low, close |-> bar.close,
              lower |-> bar.lower, upper |-> bar.upper, k |-> bar.k, d |-> bar.d]
    IN  /\ at <= MaxH1Bars
        /\ EvaluateBar(b)
        /\ IF fact'.reaction # "none" THEN CreateBaseSetup(b)
           ELSE IF fact'.addon # None4 THEN ConsumeAddonFact
           ELSE UNCHANGED life
        /\ count' = [waited |-> IF memory.arm.armed = "none" THEN 0
                               ELSE IF Eligible THEN count.waited + 1 ELSE count.waited,
                     used |-> IF fact'.reaction # "none" THEN 0
                              ELSE IF fact'.addon # None4 THEN count.used + 1 ELSE count.used]
        /\ UNCHANGED rules

\* _on_marking_bar: a finer bar touches a band of the last closed one.
MarkingBar(side) ==
    /\ rules.marking /\ Eligible /\ memory.arm.armed = "none" /\ memory.previous # None4
    /\ memory' = [memory EXCEPT !.arm = Arm(side)]
    /\ count' = [count EXCEPT !.waited = 0]
    /\ UNCHANGED <<rules, life, fact>>

BaseFilled ==
    /\ life.stage = "pending" /\ life' = [life EXCEPT !.stage = "base"]
    /\ UNCHANGED <<rules, memory, fact, count>>

\* The base entry ends unfilled, or the setup is closed.
SetupEnds ==
    /\ life.stage # "flat"
    /\ life' = [FlatLife EXCEPT !.recovering = life.recovering]
    /\ UNCHANGED <<rules, memory, fact, count>>

ReopensAlways == TRUE                      \* mutant: whatever the policy

Reopens == rules.policy = "STOCH_CROSS"

\* The add-on entry ends unfilled; only a later stochastic cross is another opportunity.
AddonDead ==
    /\ life.stage = "busy"
    /\ life' = [life EXCEPT !.stage = "base", !.consumed = @ /\ ~Reopens]
    /\ UNCHANGED <<rules, memory, fact, count>>

\* A timeout or a restart begins recovery, a reconciliation ends it.
Recovery ==
    /\ life' = [life EXCEPT !.recovering = ~@]
    /\ UNCHANGED <<rules, memory, fact, count>>

SignalInit ==
    /\ \E policy \in {"CONFIRMING_CANDLE", "STOCH_CROSS", "FIRST_OF_CANDLE_OR_STOCH", "CANDLE_AND_STOCH"},
          reclaim \in BOOLEAN, marking \in BOOLEAN :
           rules = [policy |-> policy, reclaim |-> reclaim, marking |-> marking]
    /\ memory = [arm |-> Unarmed, previous |-> None4, checked |-> FALSE]
    /\ life = FlatLife /\ fact = NoFact
    /\ count = [waited |-> 0, used |-> 0]

SignalNext ==
    \/ \E bar \in H1Bars : BarCloses(bar)
    \/ \E side \in {"long", "short"} : MarkingBar(side)
    \/ BaseFilled \/ SetupEnds \/ AddonDead \/ Recovery

SignalSpec == SignalInit /\ [][SignalNext]_signalVars

----------------------------------------------------------------------------
(* A candle confirms a base entry on the bar right after its reaction bar  *)
(* or never: not after recovery, a late fill or a rejected add-on.         *)
ConfirmsNextBarOnly ==
    fact.addon # None4 /\ fact.addon.kind # "STOCH_CROSS" =>
        fact.addon.at = fact.addon.reaction + 1

(* A touched band is reacted to within arm_expiry_bars evaluated bars,     *)
(* however often recovery interrupts the wait.                             *)
ArmExpires == fact.reaction # "none" => count.waited <= ArmExpiry

(* Each step of the signal is answered in its time or not at all.          *)
AnswersInTime == ConfirmsNextBarOnly /\ ArmExpires

(* A setup offers one add-on opportunity, whatever becomes of it, unless   *)
(* the policy is the stochastic cross, which may come again.               *)
OneOpportunity == rules.policy # "STOCH_CROSS" => count.used <= 1

=============================================================================
