--------------------------- MODULE StrategyProofs ---------------------------
(***************************************************************************)
(* What is promised about signals and the engines that act on them, for    *)
(* all prices, settings and lengths of a run.                              *)
(*                                                                         *)
(* The signal evaluator.  Its memory says less than the promises need:     *)
(* SignalInv adds what ties it to the past.                                *)
(*   ArmAged      what is left of the wait and what has passed make up     *)
(*                arm_expiry_bars;                                         *)
(*   CheckDue     while the confirming candle is not checked, the reaction *)
(*                bar is the bar before the next;                          *)
(*   UsedUp       an opportunity that was offered is marked as consumed    *)
(*                for as long as the setup lives.                          *)
(*                                                                         *)
(* One strategy on two engines.  BarTypes types a run; beside it:          *)
(*   KnowsInv     the strategy, the wrapper and the order that waits agree *)
(*                on the side, and the wrapper's stop is no closer than    *)
(*                the strategy's;                                          *)
(*   ParityInv    in every phase of a bar the native engine is where the   *)
(*                backtester is, or one answer behind;                     *)
(*   HaltInv      the state of the limits holds the highest equity of the  *)
(*                run and the first of the day, and no bar before the last *)
(*                has broken a limit.                                      *)
(***************************************************************************)
EXTENDS BarEngines, SignalEvaluator, TLAPS

(***************************************************************************)
(* The signal evaluator.                                                   *)
(***************************************************************************)

MemoryOK ==
    /\ memory = [arm |-> memory.arm, previous |-> memory.previous, checked |-> memory.checked]
    /\ memory.arm = [armed |-> memory.arm.armed, left |-> memory.arm.left]
    /\ memory.arm.left \in Nat /\ memory.checked \in BOOLEAN
    /\ memory.previous # None4 => memory.previous.at \in Nat

LifeOK ==
    /\ life = [stage |-> life.stage, side |-> life.side, reaction |-> life.reaction,
               consumed |-> life.consumed, recovering |-> life.recovering]
    /\ life.consumed \in BOOLEAN /\ life.recovering \in BOOLEAN
    /\ life.reaction # None4 => life.reaction.at \in Nat
    /\ life.stage = "flat" => life.reaction = None4

CountOK ==
    /\ count = [waited |-> count.waited, used |-> count.used]
    /\ count.waited \in Nat /\ count.used \in Nat

ArmAged ==
    memory.arm.armed # "none" =>
        memory.arm.left >= 1 /\ count.waited + memory.arm.left = ArmExpiry

CheckDue ==
    life.reaction # None4 /\ ~memory.checked =>
        memory.previous # None4 /\ memory.previous.at = life.reaction.at

UsedUp ==
    rules.policy # "STOCH_CROSS" /\ life.stage # "flat" /\ count.used >= 1 => life.consumed

SignalInv ==
    /\ MemoryOK /\ LifeOK /\ CountOK
    /\ ArmAged /\ ArmExpires
    /\ CheckDue /\ ConfirmsNextBarOnly
    /\ UsedUp /\ OneOpportunity

----------------------------------------------------------------------------
(* What one bar does.                                                      *)

\* The bar as the evaluator sees it: the next in time.
Stamped(bar) ==
    [at |-> IF memory.previous = None4 THEN 1 ELSE memory.previous.at + 1,
     open |-> bar.open, high |-> bar.high, low |-> bar.low, close |-> bar.close,
     lower |-> bar.lower, upper |-> bar.upper, k |-> bar.k, d |-> bar.d]

LEMMA BarParts ==
    ASSUME NEW bar, BarCloses(bar)
    PROVE  /\ EvaluateBar(Stamped(bar))
           /\ IF fact'.reaction # "none" THEN CreateBaseSetup(Stamped(bar))
              ELSE IF fact'.addon # None4 THEN ConsumeAddonFact
              ELSE UNCHANGED life
           /\ count' = [waited |-> IF memory.arm.armed = "none" THEN 0
                                   ELSE IF Eligible THEN count.waited + 1 ELSE count.waited,
                        used |-> IF fact'.reaction # "none" THEN 0
                                 ELSE IF fact'.addon # None4 THEN count.used + 1 ELSE count.used]
           /\ UNCHANGED rules
  BY DEF BarCloses, Stamped

\* A candle fact is had only from the bar that is due.
LEMMA FactNeedsDue ==
    ASSUME NEW b, AddonFact(b) # None4, AddonFact(b).kind # "STOCH_CROSS"
    PROVE  /\ life.reaction # None4 /\ ~memory.checked
           /\ AddonFact(b).at = b.at /\ AddonFact(b).reaction = life.reaction.at
  BY DEF AddonFact, ChooseTrigger, Checked4, After4

\* An add-on is offered only to a setup with a base that has not had one.
LEMMA FactNeedsOpportunity ==
    ASSUME NEW b, AddonFact(b) # None4
    PROVE  life.stage = "base" /\ ~life.consumed
  BY DEF AddonFact, Observable

\* How the wait goes on: armed before or after, what is left and what has
\* passed still make up the expiry.
Waited == IF memory.arm.armed = "none" THEN 0 ELSE IF Eligible THEN count.waited + 1 ELSE count.waited

LEMMA ArmStep ==
    ASSUME NEW b, MemoryOK, ArmAged, CountOK
    PROVE  /\ ArmAfter(b) = [armed |-> ArmAfter(b).armed, left |-> ArmAfter(b).left]
           /\ ArmAfter(b).left \in Nat
           /\ ArmAfter(b).armed # "none" => ArmAfter(b).left >= 1 /\ Waited + ArmAfter(b).left = ArmExpiry
<1>1. CASE memory.arm.armed = "none"
  <2>1. ArmAfter(b) \in {memory.arm, Arm(Touch(b))}
    BY <1>1 DEF ArmAfter
  <2>2. CASE ArmAfter(b) = memory.arm
    BY <1>1, <2>2 DEF MemoryOK
  <2>3. CASE ArmAfter(b) = Arm(Touch(b))
    BY <1>1, <2>3, SignalAssumption DEF Arm, Waited
  <2>4. QED
    BY <2>1, <2>2, <2>3
<1>2. CASE memory.arm.armed # "none" /\ ~Eligible
  BY <1>2 DEF ArmAfter, MemoryOK, ArmAged, Waited
<1>3. CASE memory.arm.armed # "none" /\ Eligible
  <2>1. ArmAfter(b) \in {Unarmed, Expired(memory.arm.left)}
    BY <1>3 DEF ArmAfter
  <2>2. CASE ArmAfter(b) = Unarmed
    BY <2>2 DEF Unarmed
  <2>3. CASE ArmAfter(b) = Expired(memory.arm.left) /\ memory.arm.left - 1 <= 0
    BY <2>3 DEF Expired, Unarmed
  <2>4. CASE ArmAfter(b) = Expired(memory.arm.left) /\ ~(memory.arm.left - 1 <= 0)
    <3>1. ArmAfter(b) = [memory.arm EXCEPT !.left = memory.arm.left - 1]
      BY <2>4 DEF Expired
    <3>2. ArmAfter(b) = [armed |-> memory.arm.armed, left |-> memory.arm.left - 1]
      BY <3>1 DEF MemoryOK
    <3>3. Waited = count.waited + 1
      BY <1>3 DEF Waited
    <3>4. QED
      BY <1>3, <2>4, <3>2, <3>3 DEF MemoryOK, ArmAged, CountOK
  <2>5. QED
    BY <2>1, <2>2, <2>3, <2>4
<1>4. QED
  BY <1>1, <1>2, <1>3

\* A bar of its own time keeps the invariant.
LEMMA BarKeeps ==
    ASSUME SignalInv, NEW bar, BarCloses(bar)
    PROVE  SignalInv'
<1> DEFINE b == Stamped(bar)
<1>1. /\ fact' = [reaction |-> IF Reacts(b) THEN memory.arm.armed ELSE "none",
                  addon |-> AddonFact(b), target |-> Target4(b)]
      /\ memory' = [arm |-> ArmAfter(b), previous |-> b,
                    checked |-> IF Reacts(b) THEN FALSE ELSE memory.checked \/ Checked4(b)]
  BY BarParts DEF EvaluateBar
<1>2. /\ IF fact'.reaction # "none" THEN CreateBaseSetup(b)
         ELSE IF fact'.addon # None4 THEN ConsumeAddonFact
         ELSE UNCHANGED life
      /\ count' = [waited |-> Waited,
                   used |-> IF fact'.reaction # "none" THEN 0
                            ELSE IF fact'.addon # None4 THEN count.used + 1 ELSE count.used]
      /\ rules' = rules
  BY BarParts DEF Waited
<1>3. fact'.reaction # "none" <=> Reacts(b)
  BY <1>1 DEF Reacts
<1>4. fact'.addon = AddonFact(b)
  BY <1>1
<1>5. b.at \in Nat /\ (memory.previous # None4 => b.at = memory.previous.at + 1)
  BY DEF SignalInv, MemoryOK, Stamped
<1> HIDE DEF b
<1>6. MemoryOK'
  <2>1. (memory.checked \/ Checked4(b)) \in BOOLEAN
    BY DEF Checked4, After4, SignalInv, MemoryOK
  <2>2. memory'.checked \in BOOLEAN
    BY <1>1, <2>1
  <2>3. /\ memory'.arm = ArmAfter(b) /\ memory'.previous = b
        /\ memory' = [arm |-> memory'.arm, previous |-> memory'.previous, checked |-> memory'.checked]
    BY <1>1
  <2>4. /\ ArmAfter(b) = [armed |-> ArmAfter(b).armed, left |-> ArmAfter(b).left]
        /\ ArmAfter(b).left \in Nat
    BY ArmStep DEF SignalInv
  <2>5. QED
    BY <1>5, <2>2, <2>3, <2>4 DEF MemoryOK
<1>7. LifeOK'
  <2>1. CASE UNCHANGED life
    BY <2>1 DEF SignalInv, LifeOK
  <2>2. CASE CreateBaseSetup(b)
    BY <2>1, <2>2, <1>5 DEF CreateBaseSetup, SignalInv, LifeOK
  <2>3. CASE ConsumeAddonFact
    BY <2>3 DEF ConsumeAddonFact, SignalInv, LifeOK
  <2>4. QED
    BY <1>2, <2>1, <2>2, <2>3
<1>8. CountOK'
  BY <1>2 DEF SignalInv, CountOK, Waited
<1>9. ArmAged'
  BY <1>1, <1>2, ArmStep DEF SignalInv, ArmAged
<1>10. ArmExpires'
  <2> SUFFICES ASSUME Reacts(b) PROVE Waited <= ArmExpiry
    BY <1>2, <1>3 DEF ArmExpires
  <2>1. memory.arm.armed # "none" /\ Waited = count.waited + 1
    BY DEF Reacts, Waited
  <2>2. QED
    BY <2>1, SignalAssumption DEF SignalInv, ArmAged, MemoryOK, CountOK
<1>11. CheckDue'
  <2> SUFFICES ASSUME life'.reaction # None4, ~memory'.checked
               PROVE  memory'.previous # None4 /\ memory'.previous.at = life'.reaction.at
    BY DEF CheckDue
  <2>1. CASE life'.reaction = b
    BY <2>1, <1>1
  <2>2. CASE life'.reaction = life.reaction
    <3>1. ~Reacts(b) \/ Reacts(b)
      OBVIOUS
    <3>2. CASE ~Reacts(b)
      \* A setup that lives was due before, so this bar has checked it.
      <4>1. ~memory.checked /\ ~Checked4(b)
        BY <3>2, <1>1
      <4>2. life.reaction # None4 /\ b.at > life.reaction.at
        BY <2>2, <4>1, <1>5 DEF SignalInv, CheckDue, LifeOK
      <4>3. QED
        BY <4>1, <4>2 DEF Checked4, After4
    <3>3. CASE Reacts(b)
      \* Only a flat machine reacts.
      <4>1. life.stage = "flat"
        BY <3>3 DEF Reacts, Eligible
      <4>2. QED
        BY <4>1, <2>2 DEF SignalInv, LifeOK
    <3>4. QED
      BY <3>2, <3>3
  <2>3. life'.reaction \in {b, life.reaction}
    <3>1. CASE UNCHANGED life
      BY <3>1
    <3>2. CASE CreateBaseSetup(b)
      BY <3>1, <3>2 DEF CreateBaseSetup, SignalInv, LifeOK
    <3>3. CASE ConsumeAddonFact
      BY <3>3 DEF ConsumeAddonFact, SignalInv, LifeOK
    <3>4. QED
      BY <1>2, <3>1, <3>2, <3>3
  <2>4. QED
    BY <2>1, <2>2, <2>3
<1>12. ConfirmsNextBarOnly'
  <2> SUFFICES ASSUME AddonFact(b) # None4, AddonFact(b).kind # "STOCH_CROSS"
               PROVE  AddonFact(b).at = AddonFact(b).reaction + 1
    BY <1>4 DEF ConfirmsNextBarOnly
  <2>1. /\ life.reaction # None4 /\ ~memory.checked
        /\ AddonFact(b).at = b.at /\ AddonFact(b).reaction = life.reaction.at
    BY FactNeedsDue
  <2>2. QED
    BY <2>1, <1>5 DEF SignalInv, CheckDue
<1>13. UsedUp' /\ OneOpportunity'
  <2>1. CASE fact'.reaction # "none"
    BY <2>1, <1>2 DEF UsedUp, OneOpportunity
  <2>2. CASE fact'.reaction = "none" /\ fact'.addon = None4
    BY <2>2, <1>2 DEF SignalInv, UsedUp, OneOpportunity, CountOK
  <2>3. CASE fact'.reaction = "none" /\ fact'.addon # None4
    <3>1. life.stage = "base" /\ ~life.consumed
      BY <2>3, <1>4, FactNeedsOpportunity
    <3>2. ConsumeAddonFact /\ count'.used = count.used + 1
      BY <2>3, <1>2
    <3>3. rules.policy # "STOCH_CROSS" => life'.consumed
      BY <3>2 DEF ConsumeAddonFact, SignalInv, LifeOK
    <3>4. rules.policy # "STOCH_CROSS" => count.used = 0
      BY <3>1 DEF SignalInv, UsedUp, CountOK
    <3>5. QED
      BY <1>2, <3>2, <3>3, <3>4 DEF UsedUp, OneOpportunity
  <2>4. QED
    BY <2>1, <2>2, <2>3
<1>14. QED
  BY <1>6, <1>7, <1>8, <1>9, <1>10, <1>11, <1>12, <1>13 DEF SignalInv

\* What happens between two bars does not touch what the last one answered.
LEMMA BetweenBarsKeeps ==
    ASSUME SignalInv,
           (\E side \in {"long", "short"} : MarkingBar(side))
               \/ BaseFilled \/ SetupEnds \/ AddonDead \/ Recovery
    PROVE  SignalInv'
<1>1. ASSUME NEW side \in {"long", "short"}, MarkingBar(side) PROVE SignalInv'
  <2>1. /\ memory' = [arm |-> [armed |-> side, left |-> ArmExpiry],
                      previous |-> memory.previous, checked |-> memory.checked]
        /\ count' = [waited |-> 0, used |-> count.used]
        /\ UNCHANGED <<rules, life, fact>>
    BY <1>1 DEF MarkingBar, Arm, SignalInv, MemoryOK, CountOK
  <2>2. MemoryOK' /\ LifeOK' /\ CountOK' /\ ArmAged'
    BY <2>1, SignalAssumption DEF SignalInv, MemoryOK, LifeOK, CountOK, ArmAged
  <2>3. ArmExpires' /\ CheckDue' /\ ConfirmsNextBarOnly' /\ UsedUp' /\ OneOpportunity'
    BY <2>1, SignalAssumption
       DEF SignalInv, ArmExpires, CheckDue, ConfirmsNextBarOnly, UsedUp, OneOpportunity
  <2>4. QED
    BY <2>2, <2>3 DEF SignalInv
<1>2. ASSUME BaseFilled \/ SetupEnds \/ AddonDead \/ Recovery PROVE SignalInv'
  <2>1. UNCHANGED <<rules, memory, fact, count>>
    BY <1>2 DEF BaseFilled, SetupEnds, AddonDead, Recovery
  <2>2. LifeOK'
    BY <1>2 DEF BaseFilled, SetupEnds, AddonDead, Recovery, FlatLife, SignalInv, LifeOK
  <2>3. CheckDue' /\ UsedUp'
    <3>1. CASE BaseFilled
      BY <3>1, <2>1 DEF BaseFilled, SignalInv, LifeOK, CheckDue, UsedUp
    <3>2. CASE SetupEnds
      BY <3>2, <2>1 DEF SetupEnds, FlatLife, CheckDue, UsedUp
    <3>3. CASE AddonDead
      BY <3>3, <2>1 DEF AddonDead, Reopens, SignalInv, LifeOK, CheckDue, UsedUp
    <3>4. CASE Recovery
      BY <3>4, <2>1 DEF Recovery, SignalInv, LifeOK, CheckDue, UsedUp
    <3>5. QED
      BY <1>2, <3>1, <3>2, <3>3, <3>4
  <2>4. MemoryOK' /\ CountOK' /\ ArmAged' /\ ArmExpires' /\ ConfirmsNextBarOnly' /\ OneOpportunity'
    BY <2>1 DEF SignalInv, MemoryOK, CountOK, ArmAged, ArmExpires, ConfirmsNextBarOnly, OneOpportunity
  <2>5. QED
    BY <2>2, <2>3, <2>4 DEF SignalInv
<1>3. QED
  BY <1>1, <1>2

(* The invariant of the signal evaluator and the reducer's guards on it.   *)
THEOREM SignalInvariant == SignalSpec => []SignalInv
<1>1. SignalInit => SignalInv
  BY DEF SignalInit, SignalInv, MemoryOK, LifeOK, CountOK, ArmAged, ArmExpires, CheckDue,
         ConfirmsNextBarOnly, UsedUp, OneOpportunity, Unarmed, FlatLife, NoFact
<1>2. SignalInv /\ [SignalNext]_signalVars => SignalInv'
  <2> SUFFICES ASSUME SignalInv, [SignalNext]_signalVars PROVE SignalInv'
    OBVIOUS
  <2>1. CASE \E bar \in H1Bars : BarCloses(bar)
    BY <2>1, BarKeeps
  <2>2. CASE \/ \E side \in {"long", "short"} : MarkingBar(side)
             \/ BaseFilled \/ SetupEnds \/ AddonDead \/ Recovery
    BY <2>2, BetweenBarsKeeps
  <2>3. CASE UNCHANGED signalVars
    BY <2>3 DEF signalVars, SignalInv, MemoryOK, LifeOK, CountOK, ArmAged, ArmExpires, CheckDue,
                ConfirmsNextBarOnly, UsedUp, OneOpportunity
  <2>4. QED
    BY <2>1, <2>2, <2>3 DEF SignalNext
<1>3. QED
  BY <1>1, <1>2, PTL DEF SignalSpec

(* An entry is confirmed by the bar right after its reaction bar and by no *)
(* other, and the reaction comes within arm_expiry_bars evaluated bars of  *)
(* the touch, for all bars, thresholds, expiries and orders of fills,      *)
(* recoveries and endings.                                                 *)
THEOREM SignalsInTime == SignalSpec => []AnswersInTime
<1>1. SignalInv => AnswersInTime
  BY DEF SignalInv, AnswersInTime
<1>2. QED
  BY <1>1, SignalInvariant, PTL

(* Under every policy but the stochastic cross a setup offers one add-on.  *)
THEOREM OffersOnce == SignalSpec => []OneOpportunity
<1>1. SignalInv => OneOpportunity
  BY DEF SignalInv
<1>2. QED
  BY <1>1, SignalInvariant, PTL

(***************************************************************************)
(* One strategy on two engines.                                            *)
(***************************************************************************)

\* Where a position may be.
Places == {"flat", "long", "short"}

\* Prices of a bar are positive where a level is taken from them.
Bars ==
    [o : Int, h : Int, l : Int, c : Int, setup : Places, dot : BOOLEAN, quiet : BOOLEAN,
     gate : {"long", "short", "both"}, lower : Int, upper : Int,
     cross : {"none", "long", "short"}, does : {"hold", "enter", "exit"}, to : Sides]
Priced(b) == b.o >= LowPrice /\ b.c >= LowPrice /\ b.lower > 0 /\ b.upper > 0

\* What a strategy remembers, says and orders; what the wrapper and the limits keep.
Memories ==
    [side : Places, entry : Int, sl : Int, tp : Int, trail : Int, bars : Int,
     cooldown : Int, armed : Places, left : Int, count : Int]
Signals ==
    [action : {"hold", "enter", "exit"}, side : Places, sl : Int, tp : Int, size : Int]
Orders == [does : {"enter", "exit"}, side : Places, size : Int, price : Int]
Wraps == [side : Places, sl : Int, tp : Int]
Risks == [peak : Int, start : Int, day : Int, open : {0, 1}]
Breaches == {"none", "max_drawdown", "daily_loss", "max_positions"}
Limits == [drawdown : {0, 30}, daily : {0, 20}, positions : {-1, 0}]

\* The parts of a run.
Markets == [n : Nat, bar : Bars, phase : {"bar", "legacy", "native", "done"}]
Setups == [kind : Kinds, onClose : BOOLEAN, pyramid : BOOLEAN, limits : Limits]
Natives == [algo : Memories, pos : Int, cursor : Int, status : {"running", "refused"}]

\* The run on the backtester; its report is written once and never read.
LegacyOK(a) ==
    /\ {"algo", "cash", "pos", "order", "dropped", "wrap", "risk", "breach", "report"} \subseteq DOMAIN a
    /\ a.algo \in Memories /\ a.cash \in Int /\ a.pos \in Int /\ a.order \in Orders \cup {NoOrder}
    /\ a.order # NoOrder => a.order.price >= LowPrice
    /\ a.dropped \in BOOLEAN /\ a.wrap \in Wraps /\ a.risk \in Risks \cup {NoOrder} /\ a.breach \in Breaches

\* A strategy in a position has its levels.
Knowing == {"pullback", "reversion"}
Sound(kind, s) ==
    /\ s.trail >= 0
    /\ s.side # "flat" => s.sl > 0 /\ s.tp > 0 /\ (kind = "pullback" => s.cooldown <= 0)

\* What main accepts.
SetupInv ==
    /\ setup \in Setups
    /\ setup.pyramid => setup.kind = "dca"
    /\ setup.limits # NoLimits => setup.kind \in {"scripted", "buy_and_hold"}

BarTypes ==
    /\ market \in Markets /\ Priced(market.bar) /\ market.bar.c \in LowPrice .. TopPrice
    /\ SetupInv /\ LegacyOK(legacy) /\ native \in Natives /\ past.equity \in Seq(Int)
    /\ setup.kind \in Knowing => Sound(setup.kind, legacy.algo) /\ Sound(setup.kind, native.algo)
    /\ market.phase = "legacy" => legacy.order = NoOrder

\* An order is something, and so is the state of the limits.
LEMMA Something ==
    /\ \A o \in Orders : o # NoOrder
    /\ \A r \in Risks : r # NoOrder
<1>1. \A o \in Orders : o # NoOrder
  <2> SUFFICES ASSUME NEW o \in Orders, o = NoOrder PROVE FALSE
    OBVIOUS
  <2>1. "does" \in DOMAIN o
    BY DEF Orders
  <2>2. DOMAIN NoOrder = {}
    BY DEF NoOrder
  <2> QED
    BY <2>1, <2>2
<1>2. \A r \in Risks : r # NoOrder
  <2> SUFFICES ASSUME NEW r \in Risks, r = NoOrder PROVE FALSE
    OBVIOUS
  <2>1. "peak" \in DOMAIN r
    BY DEF Risks
  <2>2. DOMAIN NoOrder = {}
    BY DEF NoOrder
  <2> QED
    BY <2>1, <2>2
<1> QED
  BY <1>1, <1>2

----------------------------------------------------------------------------
(* The bars.                                                               *)

\* A bar of nothing but a close.
LEMMA PastIs ==
    ASSUME EnginesAssumption, NEW c \in LowPrice .. TopPrice
    PROVE  Past(c) \in Bars /\ Priced(Past(c)) /\ Past(c).c = c
<1>1. LowPrice \in Int /\ c >= LowPrice /\ c > 1 /\ c \in Int
  BY DEF EnginesAssumption, Reward
<1> QED
  BY <1>1 DEF Past, Plain, Bars, Priced, Places, Sides

\* What the market may bring.
LEMMA BarIs ==
    ASSUME EnginesAssumption, NEW kind \in Kinds, NEW prev \in LowPrice .. TopPrice,
           NEW bar \in BarsFor(kind, prev)
    PROVE  bar \in Bars /\ Priced(bar) /\ bar.c \in LowPrice .. TopPrice /\ bar.o = prev
<1>1. prev \in Int /\ prev >= LowPrice /\ LowPrice > 3 /\ LowPrice \in Int /\ TopPrice \in Int
  BY DEF EnginesAssumption, Reward
<1> DEFINE Good(x) == x \in Bars /\ Priced(x) /\ x.c \in LowPrice .. TopPrice /\ x.o = prev
<1>2. \A x \in Shaped(prev) \cup Bare(prev) : Good(x)
  <2>1. ASSUME NEW c \in Closes(prev), NEW h \in Int, NEW l \in Int
        PROVE  Good(Plain(prev, h, l, c))
    BY <1>1 DEF Closes, Plain, Bars, Priced, Places, Sides
  <2>2. \A c \in Closes(prev) : Higher(prev, c) \in Int /\ Lower(prev, c) \in Int /\ c \in Int
    BY <1>1 DEF Closes, Higher, Lower
  <2>3. \A c \in Closes(prev), up, down \in 0 .. 1 :
            Good(Plain(prev, Higher(prev, c) + up, Lower(prev, c) - down, c))
    BY <2>1, <2>2
  <2>4. \A c \in Closes(prev) : Good(Plain(prev, Higher(prev, c), Lower(prev, c), c))
    BY <2>1, <2>2
  <2> HIDE DEF Good
  <2> QED
    BY <2>3, <2>4 DEF Shaped, Bare
<1>3. ASSUME NEW x, Good(x)
      PROVE  /\ \A side \in Places, dot \in BOOLEAN, quiet \in BOOLEAN :
                Good(Marked(x, side, dot, quiet))
             /\ \A i \in 0 .. 1, j \in 0 .. 1, gate \in {"long", "short", "both"} :
                Good(Banded(x, i, j, gate))
             /\ \A y \in {"none", "long", "short"} : Good(Crossed(x, y))
             /\ \A y \in {"hold", "enter", "exit"}, side \in Sides : Good(Told(x, y, side))
  <2>1. ASSUME NEW side \in Places, NEW dot \in BOOLEAN, NEW quiet \in BOOLEAN
        PROVE  Good(Marked(x, side, dot, quiet))
    BY <1>3 DEF Bars, Priced, Marked, Crossed, Told
  <2>2. ASSUME NEW lo \in Int, NEW hi \in Int, lo > 0, hi > 0, NEW gate \in {"long", "short", "both"}
        PROVE  Good([x EXCEPT !.lower = lo, !.upper = hi, !.gate = gate])
    BY <1>3, <2>2 DEF Bars, Priced
  <2>3. \A i \in 0 .. 1, j \in 0 .. 1, gate \in {"long", "short", "both"} :
            Good(Banded(x, i, j, gate))
    <3>1. x.c \in Int /\ x.c > 3
      BY <1>1, <1>3 DEF Bars
    <3> HIDE DEF Good
    <3>2. \A i \in 0 .. 1, j \in 0 .. 1 : x.c - i \in Int /\ x.c + j \in Int /\ x.c - i > 0 /\ x.c + j > 0
      BY <3>1
    <3> QED
      BY <2>2, <3>2 DEF Banded
  <2>4. ASSUME NEW y \in {"none", "long", "short"}
        PROVE  Good(Crossed(x, y))
    BY <1>3 DEF Bars, Priced, Marked, Crossed, Told
  <2>5. ASSUME NEW y \in {"hold", "enter", "exit"}, NEW side \in Sides
        PROVE  Good(Told(x, y, side))
    BY <1>3 DEF Bars, Priced, Marked, Crossed, Told
  <2> HIDE DEF Good
  <2> QED
    BY <2>1, <2>3, <2>4, <2>5
<1> HIDE DEF Good
<1>4. Good(bar)
  <2>1. CASE kind = "pullback"
    <3>1. bar \in PullbackBars(prev)
      BY <2>1 DEF BarsFor
    <3>2. PICK x \in Shaped(prev), side \in {"flat", "long", "short"}, dot \in BOOLEAN, quiet \in BOOLEAN :
            bar = Marked(x, side, dot, quiet)
      BY <3>1 DEF PullbackBars
    <3>3. Good(x)
      BY <1>2
    <3> QED
      BY <1>3, <3>2, <3>3 DEF Places
  <2>2. CASE kind = "reversion"
    <3>1. bar \in ReversionBars(prev)
      BY <2>2 DEF BarsFor
    <3>2. PICK x \in Shaped(prev), i \in 0 .. 1, j \in 0 .. 1, gate \in {"long", "short", "both"} :
            bar = Banded(x, i, j, gate)
      BY <3>1 DEF ReversionBars
    <3>3. Good(x)
      BY <1>2
    <3> QED
      BY <1>3, <3>2, <3>3
  <2>3. CASE kind = "momentum"
    <3>1. bar \in MomentumBars(prev)
      BY <2>3 DEF BarsFor
    <3>2. PICK x \in Bare(prev), y \in {"none", "long", "short"} : bar = Crossed(x, y)
      BY <3>1 DEF MomentumBars
    <3>3. Good(x)
      BY <1>2
    <3> QED
      BY <1>3, <3>2, <3>3
  <2>4. CASE kind = "scripted"
    <3>1. bar \in ScriptedBars(prev)
      BY <2>4 DEF BarsFor
    <3>2. PICK x \in Bare(prev), y \in {"hold", "enter", "exit"}, side \in Sides :
            bar = Told(x, y, side)
      BY <3>1 DEF ScriptedBars
    <3>3. Good(x)
      BY <1>2
    <3> QED
      BY <1>3, <3>2, <3>3
  <2>5. CASE kind \notin {"pullback", "reversion", "momentum", "scripted"}
    <3>1. BarsFor(kind, prev) = Bare(prev)
      BY <2>5 DEF BarsFor
    <3> QED
      BY <1>2, <3>1
  <2> QED
    BY <2>1, <2>2, <2>3, <2>4, <2>5
<1> QED
  BY <1>4 DEF Good

----------------------------------------------------------------------------
(* The strategies.                                                         *)

\* What an answer is made of.
LEMMA AnswerIs ==
    ASSUME NEW s, NEW x
    PROVE  Answer(s, x).memory = s /\ Answer(s, x).signal = x
BY DEF Answer

\* A signal has the type of signals.
LEMMA SignalIs ==
    ASSUME NEW action \in {"hold", "enter", "exit"}, NEW side \in Places,
           NEW sl \in Int, NEW tp \in Int, NEW size \in Int
    PROVE  LET x == Signal(action, side, sl, tp, size)
           IN  /\ x \in Signals /\ x.action = action /\ x.side = side /\ x.sl = sl /\ x.tp = tp
               /\ x.size = size
BY DEF Signal, Signals

\* Holding says nothing.
LEMMA HoldIs == Hold \in Signals /\ Hold.action = "hold" /\ Hold.sl = 0 /\ Hold.tp = 0
BY SignalIs DEF Hold, Places

\* A direction is a sign.
LEMMA DirIs ==
    /\ Dir("flat") = 0 /\ Dir("long") = 1 /\ Dir("short") = -1
    /\ \A side \in Places : Dir(side) \in {-1, 0, 1} /\ (Dir(side) = 0 <=> side = "flat")
BY DEF Dir, Places

\* The first half of an update of a memory.
Begun(s, side, entry, sl) == [s EXCEPT !.side = side, !.entry = entry, !.sl = sl]

\* It keeps the type, and the rest.
LEMMA BegunIs ==
    ASSUME NEW s \in Memories, NEW side \in Places, NEW entry \in Int, NEW sl \in Int
    PROVE  LET z == Begun(s, side, entry, sl)
           IN  /\ z \in Memories /\ z.side = side /\ z.sl = sl /\ z.tp = s.tp /\ z.trail = s.trail
               /\ z.cooldown = s.cooldown /\ z.armed = s.armed
<1>1. Begun(s, side, entry, sl) \in Memories
  BY DEF Memories, Begun
<1>2. LET z == Begun(s, side, entry, sl)
      IN  /\ z.side = side /\ z.sl = sl /\ z.tp = s.tp /\ z.trail = s.trail /\ z.cooldown = s.cooldown
          /\ z.armed = s.armed
  BY DEF Memories, Begun
<1> QED
  BY <1>1, <1>2

\* The second half, where the position starts or ends.
Ended(s, tp, trail, bars) == [s EXCEPT !.tp = tp, !.trail = trail, !.bars = bars]

\* It keeps the type, and the rest.
LEMMA EndedIs ==
    ASSUME NEW s \in Memories, NEW tp \in Int, NEW trail \in Int, NEW bars \in Int
    PROVE  LET z == Ended(s, tp, trail, bars)
           IN  /\ z \in Memories /\ z.side = s.side /\ z.sl = s.sl /\ z.tp = tp /\ z.trail = trail
               /\ z.cooldown = s.cooldown /\ z.armed = s.armed
<1>1. Ended(s, tp, trail, bars) \in Memories
  BY DEF Memories, Ended
<1>2. LET z == Ended(s, tp, trail, bars)
      IN  /\ z.side = s.side /\ z.sl = s.sl /\ z.tp = tp /\ z.trail = trail /\ z.cooldown = s.cooldown
          /\ z.armed = s.armed
  BY DEF Memories, Ended
<1> QED
  BY <1>1, <1>2

\* The second half, where the wait for a reaction ends.
Disarmed(s, tp, armed, left) == [s EXCEPT !.tp = tp, !.armed = armed, !.left = left]

\* It keeps the type, and the rest.
LEMMA DisarmedIs ==
    ASSUME NEW s \in Memories, NEW tp \in Int, NEW armed \in Places, NEW left \in Int
    PROVE  LET z == Disarmed(s, tp, armed, left)
           IN  /\ z \in Memories /\ z.side = s.side /\ z.sl = s.sl /\ z.tp = tp /\ z.trail = s.trail
               /\ z.cooldown = s.cooldown /\ z.armed = armed
<1>1. Disarmed(s, tp, armed, left) \in Memories
  BY DEF Memories, Disarmed
<1>2. LET z == Disarmed(s, tp, armed, left)
      IN  /\ z.side = s.side /\ z.sl = s.sl /\ z.tp = tp /\ z.trail = s.trail /\ z.cooldown = s.cooldown
          /\ z.armed = armed
  BY DEF Memories, Disarmed
<1> QED
  BY <1>1, <1>2

\* A forgotten position.
LEMMA ResetIs ==
    ASSUME NEW s \in Memories
    PROVE  /\ Reset(s) \in Memories /\ Reset(s).side = "flat" /\ Reset(s).trail = 0
           /\ \A k \in Int : LET z == [Reset(s) EXCEPT !.cooldown = k]
                             IN  z \in Memories /\ z.side = "flat" /\ z.trail = 0
<1>1. Reset(s) = Ended(Begun(s, "flat", 0, 0), 0, 0, 0)
  BY DEF Reset, Begun, Ended
<1>2. "flat" \in Places /\ 0 \in Int
  BY DEF Places
<1>3. Begun(s, "flat", 0, 0) \in Memories /\ Begun(s, "flat", 0, 0).side = "flat"
  BY <1>2, BegunIs
<1>4. Reset(s) \in Memories /\ Reset(s).side = "flat" /\ Reset(s).trail = 0
  BY <1>1, <1>2, <1>3, EndedIs
<1> QED
  BY <1>4 DEF Memories

\* An entry is remembered with its levels.
LEMMA HeldIs ==
    ASSUME NEW s \in Memories, NEW side \in Places, NEW entry \in Int, NEW sl \in Int,
           NEW tp \in Int, NEW trail \in Int
    PROVE  LET z == Held(s, side, entry, sl, tp, trail)
           IN  /\ z \in Memories /\ z.side = side /\ z.sl = sl /\ z.tp = tp /\ z.trail = trail
               /\ z.cooldown = s.cooldown
<1> DEFINE half == Begun(s, side, entry, sl)
<1>1. Held(s, side, entry, sl, tp, trail) = Ended(half, tp, trail, 0)
  BY DEF Held, Begun, Ended
<1>2. half \in Memories /\ half.side = side /\ half.sl = sl /\ half.cooldown = s.cooldown
  BY BegunIs
<1> HIDE DEF half
<1> QED
  BY <1>1, <1>2, EndedIs

\* ... and of the armed side.
LEMMA EnteredIs ==
    ASSUME NEW s \in Memories, NEW entry \in Int, NEW sl \in Int, NEW tp \in Int
    PROVE  LET z == Entered(s, entry, sl, tp)
           IN  /\ z \in Memories /\ z.side = s.armed /\ z.sl = sl /\ z.tp = tp /\ z.trail = s.trail
               /\ z.cooldown = s.cooldown
<1> DEFINE half == Begun(s, s.armed, entry, sl)
<1>1. Entered(s, entry, sl, tp) = Disarmed(half, tp, "flat", 0)
  BY DEF Entered, Begun, Disarmed
<1>2. "flat" \in Places /\ 0 \in Int /\ s.armed \in Places
  BY DEF Places, Memories
<1>3. /\ half \in Memories /\ half.side = s.armed /\ half.sl = sl /\ half.cooldown = s.cooldown
      /\ half.trail = s.trail
  BY <1>2, BegunIs
<1> HIDE DEF half
<1> DEFINE none == "flat"
           zero == 0
<1>4. none \in Places /\ zero \in Int
  BY <1>2
<1>5. Entered(s, entry, sl, tp) = Disarmed(half, tp, none, zero)
  BY <1>1
<1> HIDE DEF none, zero
<1> DEFINE z == Disarmed(half, tp, none, zero)
<1>6. half \in Memories
  BY <1>3
<1>7. /\ z \in Memories /\ z.side = half.side /\ z.sl = half.sl /\ z.tp = tp
      /\ z.trail = half.trail /\ z.cooldown = half.cooldown
  BY <1>4, <1>6, DisarmedIs
<1>8. Entered(s, entry, sl, tp) = z
  BY <1>5
<1> HIDE DEF z
<1> QED
  BY <1>3, <1>7, <1>8

\* The closer of two levels is a level, on the near side of either.
LEMMA TighterIs ==
    ASSUME NEW side \in Places, NEW a \in Int, NEW x \in Int
    PROVE  LET t == Tighter(side, a, x)
           IN  /\ t \in Int /\ t \in {a, x}
               /\ x = 0 => t = a
               /\ a = 0 => t = x
               /\ a # 0 => Dir(side) * (t - a) >= 0
               /\ x # 0 => Dir(side) * (t - x) >= 0
               /\ x # 0 /\ Dir(side) * (x - a) >= 0 /\ side # "flat" => t = x
BY DirIs DEF Tighter, Places

\* What the wrapper may rely on: an entry with levels when the strategy was
\* flat, and then either the exit or levels that no bar has reached.
Proper(kind, s, b, m, x) ==
    /\ Sound(kind, m)
    /\ s.side = "flat" =>
        \/ x.action = "hold" /\ m.side = "flat"
        \/ /\ x.action = "enter" /\ x.side \in Sides /\ m.side = x.side
           /\ x.sl > 0 /\ x.tp > 0 /\ x.size = 0 /\ m.tp = x.tp /\ Dir(m.side) * (m.sl - x.sl) >= 0
    /\ s.side # "flat" =>
        \/ x.action = "exit" /\ m.side = "flat"
        \/ /\ x.action = "hold" /\ m.side = s.side /\ x.sl = m.sl /\ x.tp = m.tp
           /\ Dir(m.side) * (m.sl - s.sl) >= 0
           /\ SameBarHit(m.side, m.sl, m.tp, b, TpFirst(kind)) = "none"

\* Following the close.
LEMMA TrailedIs ==
    ASSUME NEW s \in Memories, Sound("pullback", s), NEW b \in Bars, b.c > 3, s.side # "flat"
    PROVE  LET z == Trailed(s, b)
           IN  /\ z \in Memories /\ Sound("pullback", z) /\ z.side = s.side /\ z.tp = s.tp
               /\ z.bars = s.bars
               /\ Dir(s.side) * (z.sl - s.sl) >= 0
<1> DEFINE near == b.c - Dir(s.side) * Step
           trail == Tighter(s.side, s.trail, near)
           sl == Tighter(s.side, s.sl, trail)
           z == [s EXCEPT !.trail = trail, !.sl = sl]
<1>1. s.side \in Places /\ s.trail \in Int /\ s.sl \in Int /\ s.trail >= 0 /\ s.sl > 0
  BY DEF Memories, Sound
<1>2. near \in Int /\ near > 0
  BY <1>1, DirIs DEF Step, Bars
<1> HIDE DEF near
<1>3. trail \in Int /\ trail > 0
  <2>1. trail \in Int /\ trail \in {s.trail, near} /\ (s.trail = 0 => trail = near)
    BY <1>1, <1>2, TighterIs
  <2> QED
    BY <1>1, <1>2, <2>1
<1> HIDE DEF trail
<1>4. sl \in Int /\ sl > 0 /\ Dir(s.side) * (sl - s.sl) >= 0
  <2>1. sl \in Int /\ sl \in {s.sl, trail} /\ (s.sl # 0 => Dir(s.side) * (sl - s.sl) >= 0)
    BY <1>1, <1>3, TighterIs
  <2> QED
    BY <1>1, <1>3, <2>1
<1> HIDE DEF sl
<1>5. /\ z \in Memories /\ z.side = s.side /\ z.tp = s.tp /\ z.bars = s.bars /\ z.trail = trail /\ z.sl = sl
      /\ z.cooldown = s.cooldown
  BY <1>3, <1>4 DEF Memories
<1>6. z = Trailed(s, b)
  BY DEF Trailed, z, sl, trail, near
<1> HIDE DEF z
<1>7. Sound("pullback", z)
  BY <1>3, <1>4, <1>5 DEF Sound
<1> QED
  BY <1>4, <1>5, <1>6, <1>7

\* A held position of the pullback strategy.
LEMMA PullbackHeldIs ==
    ASSUME TimersAssumption, NEW s \in Memories, NEW b \in Bars, Sound("pullback", s), s.side # "flat"
    PROVE  LET a == PullbackHeld(s, b)
           IN  /\ a.memory \in Memories /\ a.signal \in Signals /\ Sound("pullback", a.memory)
               /\ \/ a.signal.action = "exit" /\ a.memory.side = "flat"
                  \/ /\ a.signal.action = "hold" /\ a.memory.side = s.side /\ a.memory.sl = s.sl
                     /\ a.memory.tp = s.tp
                     /\ a.signal.sl = s.sl /\ a.signal.tp = s.tp
                     /\ SameBarHit(s.side, s.sl, s.tp, b, TpFirst("pullback")) = "none"
<1> DEFINE hit == SameBarHit(s.side, s.sl, s.tp, b, TpFirst("pullback"))
           leaves == (InProfit(s, b) /\ b.dot) \/ (s.bars + 1 >= StaleBars /\ b.quiet)
           out == Signal("exit", s.side, 0, 0, 0)
           kept == Signal("hold", s.side, s.sl, s.tp, 0)
           older == [s EXCEPT !.bars = @ + 1]
           cooled == [Reset(s) EXCEPT !.cooldown = Cooldown]
<1>1. hit \in {"tp", "sl", "none"}
  BY DEF SameBarHit
<1>2. out \in Signals /\ out.action = "exit"
  BY SignalIs DEF Memories
<1>3. kept \in Signals /\ kept.action = "hold" /\ kept.sl = s.sl /\ kept.tp = s.tp
  BY SignalIs DEF Memories
<1>4. /\ older \in Memories /\ older.side = s.side /\ older.sl = s.sl /\ older.tp = s.tp
      /\ older.trail = s.trail
      /\ older.cooldown = s.cooldown
  BY DEF Memories
<1>5. cooled \in Memories /\ cooled.side = "flat" /\ cooled.trail = 0
  BY ResetIs DEF TimersAssumption
<1>6. Reset(s) \in Memories /\ Reset(s).side = "flat" /\ Reset(s).trail = 0
  BY ResetIs
<1>7. PullbackHeld(s, b) =
        CASE hit = "tp" -> Answer(Reset(s), out)
          [] hit = "sl" -> Answer(cooled, out)
          [] hit = "none" /\ leaves -> Answer(Reset(s), out)
          [] OTHER -> Answer(older, kept)
  BY DEF PullbackHeld
<1> HIDE DEF hit, leaves, out, kept, older, cooled
<1>8. \/ PullbackHeld(s, b) = Answer(Reset(s), out)
      \/ PullbackHeld(s, b) = Answer(cooled, out)
      \/ hit = "none" /\ PullbackHeld(s, b) = Answer(older, kept)
  BY <1>1, <1>7
<1>9. CASE PullbackHeld(s, b) = Answer(Reset(s), out)
  BY <1>2, <1>6, <1>9, AnswerIs DEF Sound
<1>10. CASE PullbackHeld(s, b) = Answer(cooled, out)
  BY <1>2, <1>5, <1>10, AnswerIs DEF Sound
<1>11. CASE hit = "none" /\ PullbackHeld(s, b) = Answer(older, kept)
  BY <1>3, <1>4, <1>11, AnswerIs DEF Sound, hit
<1> QED
  BY <1>8, <1>9, <1>10, <1>11

\* An entry of the pullback strategy, or none.
LEMMA PullbackEntryIs ==
    ASSUME NEW s \in Memories, NEW b \in Bars, Sound("pullback", s), s.side = "flat", b.c > 3, s.cooldown <= 0
    PROVE  LET a == PullbackEntry(s, b)
           IN  a.memory \in Memories /\ a.signal \in Signals /\ Proper("pullback", s, b, a.memory, a.signal)
<1> DEFINE sl == b.c - Dir(b.setup) * Risk
           tp == b.c + Dir(b.setup) * Reward
           trail == b.c - Dir(b.setup) * Step
           near == Tighter(b.setup, sl, trail)
           held == Held(s, b.setup, b.c, near, tp, trail)
           enter == Signal("enter", b.setup, sl, tp, 0)
<1>1. CASE b.setup \in Sides
  <2>1. b.setup \in Places /\ b.c \in Int /\ b.setup # "flat"
    BY <1>1 DEF Bars, Sides
  <2>2. sl \in Int /\ tp \in Int /\ trail \in Int /\ sl > 0 /\ tp > 0 /\ trail > 0
    BY <2>1, DirIs DEF Risk, Reward, Step
  <2>3. PullbackEntry(s, b) = Answer(held, enter)
    BY <1>1 DEF PullbackEntry
  <2> HIDE DEF sl, tp, trail
  <2>4. near \in Int /\ near > 0 /\ Dir(b.setup) * (near - sl) >= 0
    <3>1. near \in Int /\ near \in {sl, trail} /\ (sl # 0 => Dir(b.setup) * (near - sl) >= 0)
      BY <2>1, <2>2, TighterIs
    <3> QED
      BY <2>2, <3>1
  <2> HIDE DEF near
  <2>5. /\ held \in Memories /\ held.side = b.setup /\ held.tp = tp /\ held.sl = near /\ held.trail = trail
        /\ held.cooldown = s.cooldown
    BY <2>1, <2>2, <2>4, HeldIs
  <2>6. /\ enter \in Signals /\ enter.action = "enter" /\ enter.side = b.setup /\ enter.sl = sl
        /\ enter.tp = tp /\ enter.size = 0
    BY <2>1, <2>2, SignalIs
  <2> HIDE DEF held, enter
  <2>7. Proper("pullback", s, b, held, enter)
    BY <1>1, <2>2, <2>4, <2>5, <2>6 DEF Proper, Sound
  <2> QED
    BY <2>3, <2>5, <2>6, <2>7, AnswerIs
<1>2. CASE b.setup \notin Sides
  <2>1. PullbackEntry(s, b) = Answer(s, Hold)
    BY <1>2 DEF PullbackEntry
  <2> QED
    BY <2>1, AnswerIs, HoldIs DEF Proper
<1> QED
  BY <1>1, <1>2

\* The pullback strategy answers properly.
LEMMA PullbackIs ==
    ASSUME TimersAssumption, NEW s \in Memories, NEW b \in Bars, Sound("pullback", s), b.c > 3
    PROVE  LET a == Pullback(s, b)
           IN  a.memory \in Memories /\ a.signal \in Signals /\ Proper("pullback", s, b, a.memory, a.signal)
<1>1. CASE s.cooldown > 0
  <2> DEFINE z == [s EXCEPT !.cooldown = @ - 1]
  <2>1. z \in Memories /\ z.side = s.side /\ z.trail = s.trail /\ s.side = "flat"
    BY <1>1 DEF Memories, Sound
  <2>2. Pullback(s, b) = Answer(z, Hold)
    BY <1>1 DEF Pullback
  <2> HIDE DEF z
  <2> QED
    BY <2>1, <2>2, AnswerIs, HoldIs DEF Proper, Sound
<1>2. CASE ~(s.cooldown > 0) /\ s.side # "flat"
  <2> DEFINE z == Trailed(s, b)
  <2>1. /\ z \in Memories /\ Sound("pullback", z) /\ z.side = s.side /\ z.tp = s.tp
        /\ Dir(s.side) * (z.sl - s.sl) >= 0
    BY <1>2, TrailedIs
  <2>2. Pullback(s, b) = PullbackHeld(z, b)
    BY <1>2 DEF Pullback
  <2> HIDE DEF z
  <2> QED
    BY <1>2, <2>1, <2>2, PullbackHeldIs DEF Proper
<1>3. CASE ~(s.cooldown > 0) /\ s.side = "flat"
  <2>1. Pullback(s, b) = PullbackEntry(s, b) /\ s.cooldown <= 0
    BY <1>3 DEF Pullback, Memories
  <2> QED
    BY <1>3, <2>1, PullbackEntryIs
<1> QED
  BY <1>1, <1>2, <1>3

\* A band is a level.
LEMMA OppositeIs ==
    ASSUME NEW side, NEW b \in Bars
    PROVE  Opposite(side, b) \in Int /\ (Priced(b) => Opposite(side, b) > 0)
BY DEF Opposite, Bars, Priced

\* A held position of the mean reversion.
LEMMA ReversionHeldIs ==
    ASSUME NEW s \in Memories, NEW b \in Bars
    PROVE  LET a == ReversionHeld(s, b)
           IN  /\ a.memory \in Memories /\ a.signal \in Signals
               /\ s.side # "flat" /\ Sound("reversion", s) => Proper("reversion", s, b, a.memory, a.signal)
<1> DEFINE out == Signal("exit", s.side, 0, 0, 0)
           kept == Signal("hold", s.side, s.sl, s.tp, 0)
<1>1. s.side \in Places /\ s.sl \in Int /\ s.tp \in Int /\ Dir(s.side) \in Int
  BY DirIs DEF Memories
<1>2. out \in Signals /\ out.action = "exit"
  BY <1>1, SignalIs
<1>3. kept \in Signals /\ kept.action = "hold" /\ kept.sl = s.sl /\ kept.tp = s.tp
  BY <1>1, SignalIs
<1> HIDE DEF out, kept
<1>4. CASE HitExit(s.side, s.sl, s.tp, b) # "none"
  <2>1. ReversionHeld(s, b) = Answer(Reset(s), out)
    BY <1>4 DEF ReversionHeld, out
  <2>2. Reset(s) \in Memories /\ Reset(s).side = "flat" /\ Reset(s).trail = 0
    BY ResetIs
  <2> QED
    BY <1>2, <2>1, <2>2, AnswerIs DEF Proper, Sound
<1>5. CASE HitExit(s.side, s.sl, s.tp, b) = "none"
  <2>1. ReversionHeld(s, b) = Answer(s, kept)
    BY <1>5 DEF ReversionHeld, kept
  <2>2. s.side # "flat" /\ Sound("reversion", s) =>
            SameBarHit(s.side, s.sl, s.tp, b, TpFirst("reversion")) = "none"
    BY <1>5 DEF HitExit, Sound
  <2>3. s.side # "flat" /\ Sound("reversion", s) => Proper("reversion", s, b, s, kept)
    BY <1>1, <1>3, <2>2 DEF Proper
  <2> QED
    BY <1>3, <2>1, <2>3, AnswerIs
<1> QED
  BY <1>4, <1>5

\* An entry of the mean reversion.
LEMMA ReversionEntryIs ==
    ASSUME NEW s \in Memories, NEW b \in Bars
    PROVE  LET a == ReversionEntry(s, b)
           IN  /\ a.memory \in Memories /\ a.signal \in Signals
               /\ s.side = "flat" /\ s.armed # "flat" /\ Sound("reversion", s) /\ Priced(b) /\ b.c > 3
                    => Proper("reversion", s, b, a.memory, a.signal)
<1> DEFINE sl == b.c - Dir(s.armed) * Risk
           tp == Opposite(s.armed, b)
           held == Entered(s, b.c, sl, tp)
           enter == Signal("enter", s.armed, sl, tp, 0)
<1>1. s.armed \in Places /\ b.c \in Int /\ tp \in Int /\ (Priced(b) => tp > 0)
  BY OppositeIs DEF Memories, Bars
<1>2. sl \in Int /\ (b.c > 3 => sl > 0)
  BY <1>1, DirIs DEF Risk
<1>3. ReversionEntry(s, b) = Answer(held, enter)
  BY DEF ReversionEntry
<1> HIDE DEF sl, tp
<1>4. /\ held \in Memories /\ held.side = s.armed /\ held.sl = sl /\ held.tp = tp /\ held.trail = s.trail
      /\ held.cooldown = s.cooldown
  BY <1>1, <1>2, EnteredIs
<1>5. /\ enter \in Signals /\ enter.action = "enter" /\ enter.side = s.armed /\ enter.sl = sl
      /\ enter.tp = tp /\ enter.size = 0
  BY <1>1, <1>2, SignalIs
<1> HIDE DEF held, enter
<1>6. ASSUME s.side = "flat", s.armed # "flat", Sound("reversion", s), Priced(b), b.c > 3
      PROVE  Proper("reversion", s, b, held, enter)
  <2>1. s.armed \in Sides /\ Dir(held.side) * (held.sl - enter.sl) >= 0
    BY <1>1, <1>2, <1>4, <1>5, <1>6, DirIs DEF Sides, Places
  <2>2. Sound("reversion", held)
    BY <1>1, <1>2, <1>4, <1>6 DEF Sound
  <2> QED
    BY <1>1, <1>2, <1>4, <1>5, <1>6, <2>1, <2>2 DEF Proper
<1> QED
  BY <1>3, <1>4, <1>5, <1>6, AnswerIs

\* Waiting for a reaction, and for a touch of a band.
LEMMA WaitsIs ==
    ASSUME TimersAssumption, NEW s \in Memories, NEW b
    PROVE  /\ Aged(s) \in Memories /\ Aged(s).side = s.side /\ Aged(s).trail = s.trail
           /\ Touched(s, b) \in Memories /\ Touched(s, b).side = s.side /\ Touched(s, b).trail = s.trail
           /\ Aged(s).cooldown = s.cooldown /\ Touched(s, b).cooldown = s.cooldown
<1>1. Aged(s) \in Memories
  <2> DEFINE left == s.left - 1
             armed == IF left <= 0 THEN "flat" ELSE s.armed
  <2>1. left \in Int /\ armed \in Places
    BY DEF Memories, Places
  <2>2. Aged(s) = [s EXCEPT !.left = left, !.armed = armed]
    BY DEF Aged, Memories
  <2> HIDE DEF left, armed
  <2> QED
    BY <2>1, <2>2 DEF Memories
<1>2. Aged(s).side = s.side /\ Aged(s).trail = s.trail /\ Aged(s).cooldown = s.cooldown
  BY DEF Aged, Memories
<1>3. Touched(s, b) \in Memories
  <2> DEFINE armed == IF b.l <= b.lower /\ Gated("long", b) THEN "long" ELSE "short"
  <2>1. ArmBars \in Int /\ armed \in Places
    BY DEF TimersAssumption, Places
  <2>2. Touched(s, b) \in {s, [s EXCEPT !.armed = armed, !.left = ArmBars]}
    BY DEF Touched
  <2> HIDE DEF armed
  <2> QED
    BY <2>1, <2>2 DEF Memories
<1>4. Touched(s, b).side = s.side /\ Touched(s, b).trail = s.trail /\ Touched(s, b).cooldown = s.cooldown
  BY DEF Touched, Memories
<1> QED
  BY <1>1, <1>2, <1>3, <1>4

\* The mean reversion answers properly.
LEMMA ReversionIs ==
    ASSUME TimersAssumption, NEW s \in Memories, NEW b \in Bars
    PROVE  LET a == Reversion(s, b)
           IN  /\ a.memory \in Memories /\ a.signal \in Signals
               /\ Sound("reversion", s) /\ Priced(b) /\ b.c > 3 => Proper("reversion", s, b, a.memory, a.signal)
<1>1. CASE s.side # "flat"
  <2> DEFINE z == [s EXCEPT !.tp = Opposite(s.side, b)]
  <2>1. z \in Memories /\ z.side = s.side /\ z.sl = s.sl /\ z.trail = s.trail /\ z.cooldown = s.cooldown
    BY OppositeIs DEF Memories
  <2>2. z.tp = Opposite(s.side, b)
    BY DEF Memories
  <2>3. Reversion(s, b) = ReversionHeld(z, b)
    BY <1>1 DEF Reversion
  <2> HIDE DEF z
  <2>4. Sound("reversion", s) /\ Priced(b) => Sound("reversion", z)
    BY <2>1, <2>2, OppositeIs DEF Sound
  <2>5. \A m, x : Proper("reversion", z, b, m, x) => Proper("reversion", s, b, m, x)
    BY <2>1 DEF Proper
  <2> QED
    BY <1>1, <2>1, <2>3, <2>4, <2>5, ReversionHeldIs
<1>2. CASE s.side = "flat" /\ s.armed # "flat" /\ Reacted(s.armed, b)
  <2>1. Reversion(s, b) = ReversionEntry(s, b)
    BY <1>2 DEF Reversion
  <2> QED
    BY <1>2, <2>1, ReversionEntryIs
<1>3. CASE s.side = "flat" /\ s.armed # "flat" /\ ~Reacted(s.armed, b)
  <2>1. Reversion(s, b) = Answer(Aged(s), Hold)
    BY <1>3 DEF Reversion
  <2> QED
    BY <1>3, <2>1, AnswerIs, HoldIs, WaitsIs DEF Proper, Sound
<1>4. CASE s.side = "flat" /\ s.armed = "flat"
  <2>1. Reversion(s, b) = Answer(Touched(s, b), Hold)
    BY <1>4 DEF Reversion
  <2> QED
    BY <1>4, <2>1, AnswerIs, HoldIs, WaitsIs DEF Proper, Sound
<1> QED
  BY <1>1, <1>2, <1>3, <1>4

\* Whatever runs, its memory and its answers are typed; where it keeps its
\* position, they are proper.
LEMMA OnBarIs ==
    ASSUME TimersAssumption, EnginesAssumption, NEW kind \in Kinds, NEW s \in Memories, NEW b \in Bars,
           Priced(b), kind \in Knowing => Sound(kind, s)
    PROVE  LET a == OnBar(kind, s, b)
           IN  /\ a.memory \in Memories /\ a.signal \in Signals
               /\ kind \in Knowing => Proper(kind, s, b, a.memory, a.signal)
<1>1. b.c > 3
  BY DEF EnginesAssumption, Reward, Priced, Bars
<1>2. CASE kind = "pullback"
  <2>1. OnBar(kind, s, b) = Pullback(s, b)
    BY <1>2 DEF OnBar
  <2> QED
    BY <1>1, <1>2, <2>1, PullbackIs DEF Knowing
<1>3. CASE kind = "reversion"
  <2>1. OnBar(kind, s, b) = Reversion(s, b)
    BY <1>3 DEF OnBar
  <2> QED
    BY <1>1, <1>3, <2>1, ReversionIs DEF Knowing
<1>4. CASE kind = "momentum"
  <2> DEFINE x == IF b.cross \in Sides THEN Signal("enter", b.cross, 0, 0, 0) ELSE Hold
  <2>1. OnBar(kind, s, b) = Answer(s, x)
    BY <1>4 DEF OnBar, Momentum
  <2>2. x \in Signals
    BY SignalIs, HoldIs DEF Sides, Places
  <2> HIDE DEF x
  <2> QED
    BY <1>4, <2>1, <2>2, AnswerIs DEF Knowing
<1>5. CASE kind = "buy_and_hold"
  <2> DEFINE z == [s EXCEPT !.count = 1]
             x == Signal("enter", "long", 0, 0, 0)
  <2>1. OnBar(kind, s, b) \in {Answer(s, Hold), Answer(z, x)}
    BY <1>5 DEF OnBar, BuyAndHold
  <2>2. z \in Memories
    BY DEF Memories
  <2>3. x \in Signals
    BY SignalIs DEF Places
  <2> HIDE DEF z, x
  <2> QED
    BY <1>5, <2>1, <2>2, <2>3, AnswerIs, HoldIs DEF Knowing
<1>6. CASE kind = "dca"
  <2> DEFINE k == (s.count + 1) % BuyEvery
             z == [s EXCEPT !.count = k]
             x == IF s.count = 0 THEN Signal("enter", "long", 0, 0, 1) ELSE Hold
  <2>1. OnBar(kind, s, b) = Answer(z, x)
    BY <1>6 DEF OnBar, Dca, Memories
  <2>2. k \in Int
    BY DEF Memories, TimersAssumption
  <2> HIDE DEF k
  <2>3. z \in Memories
    BY <2>2 DEF Memories
  <2>4. x \in Signals
    BY SignalIs, HoldIs DEF Places
  <2> HIDE DEF z, x
  <2> QED
    BY <1>6, <2>1, <2>3, <2>4, AnswerIs DEF Knowing
<1>7. CASE kind = "scripted"
  <2> DEFINE x == IF b.does = "hold" THEN Hold ELSE Signal(b.does, b.to, 0, 0, 1)
  <2>1. OnBar(kind, s, b) = Answer(s, x)
    BY <1>7 DEF OnBar, Scripted
  <2>2. b.does \in {"hold", "enter", "exit"} /\ b.to \in Places
    BY DEF Bars, Sides, Places
  <2>3. x \in Signals
    <3>1. CASE b.does = "hold"
      BY <3>1, HoldIs
    <3>2. CASE b.does # "hold"
      BY <2>2, <3>2, SignalIs
    <3> QED
      BY <3>1, <3>2
  <2> HIDE DEF x
  <2> QED
    BY <1>7, <2>1, <2>3, AnswerIs DEF Knowing
<1> QED
  BY <1>2, <1>3, <1>4, <1>5, <1>6, <1>7 DEF EnginesAssumption

\* A strategy is born sound.
LEMMA FreshIs == Fresh \in Memories /\ Fresh.side = "flat" /\ \A kind : Sound(kind, Fresh)
BY DEF Fresh, Memories, Places, Sound

----------------------------------------------------------------------------
(* The broker and the wrapper.                                             *)

\* An order has the type of orders.
LEMMA OrderIs ==
    ASSUME NEW does \in {"enter", "exit"}, NEW side \in Places, NEW size \in Int, NEW price \in Int
    PROVE  LET o == Order(does, side, size, price)
           IN  /\ o \in Orders /\ o # NoOrder
               /\ o.does = does /\ o.side = side /\ o.size = size /\ o.price = price
BY Something DEF Order, Orders

\* Only the account changes.
Booked(a, z) ==
    /\ LegacyOK(z) /\ z.order = NoOrder /\ z.algo = a.algo /\ z.wrap = a.wrap /\ z.risk = a.risk
    /\ z.breach = a.breach /\ z.report = a.report /\ (a.dropped => z.dropped)

\* What is open is closed.
LEMMA ClosedIs ==
    ASSUME NEW a, LegacyOK(a), NEW price \in Int
    PROVE  LET z == Closed(a, price)
           IN  /\ LegacyOK(z) /\ z.pos = 0 /\ z.order = a.order /\ z.algo = a.algo /\ z.wrap = a.wrap
               /\ z.risk = a.risk /\ z.breach = a.breach /\ z.report = a.report /\ z.dropped = a.dropped
<1> DEFINE cash == Equity(a, price)
           z == [a EXCEPT !.cash = cash, !.pos = 0]
<1>1. cash \in Int
  BY DEF Equity, LegacyOK
<1>2. Closed(a, price) = z
  BY DEF Closed
<1> HIDE DEF cash
<1>3. /\ z.pos = 0 /\ z.cash = cash /\ z.order = a.order /\ z.algo = a.algo /\ z.wrap = a.wrap
      /\ z.risk = a.risk /\ z.breach = a.breach /\ z.report = a.report /\ z.dropped = a.dropped
      /\ DOMAIN z = DOMAIN a
  BY DEF LegacyOK
<1> HIDE DEF z
<1>4. LegacyOK(z)
  BY <1>1, <1>3 DEF LegacyOK
<1> QED
  BY <1>2, <1>3, <1>4

\* What can be paid is bought.
LEMMA BoughtIs ==
    ASSUME NEW a, LegacyOK(a), NEW lots \in Int, NEW price \in Int
    PROVE  LET z == Bought(a, a.order, lots, price)
           IN  /\ Booked(a, z)
               /\ ~z.dropped => lots > 0 /\ z.pos = a.pos + Dir(a.order.side) * lots
<1> DEFINE pos == a.pos + Dir(a.order.side) * lots
           cash == a.cash - Dir(a.order.side) * lots * price
           paid == [a EXCEPT !.pos = pos, !.cash = cash, !.order = NoOrder]
           unpaid == [a EXCEPT !.order = NoOrder, !.dropped = TRUE]
<1>1. Dir(a.order.side) \in Int
  BY DEF Dir
<1>2. pos \in Int /\ cash \in Int
  BY <1>1 DEF LegacyOK
<1>3. Bought(a, a.order, lots, price) = IF Affordable(a, lots, price) THEN paid ELSE unpaid
  BY DEF Bought, LegacyOK
<1>4. Affordable(a, lots, price) => lots > 0
  BY DEF Affordable
<1>5. /\ unpaid.pos = a.pos /\ unpaid.cash = a.cash /\ unpaid.order = NoOrder /\ unpaid.algo = a.algo
      /\ unpaid.wrap = a.wrap
      /\ unpaid.risk = a.risk /\ unpaid.breach = a.breach /\ unpaid.report = a.report
      /\ unpaid.dropped = TRUE
      /\ DOMAIN unpaid = DOMAIN a
  BY DEF LegacyOK
<1> HIDE DEF pos, cash
<1>6. /\ paid.pos = pos /\ paid.cash = cash /\ paid.order = NoOrder /\ paid.algo = a.algo
      /\ paid.wrap = a.wrap
      /\ paid.risk = a.risk /\ paid.breach = a.breach /\ paid.report = a.report /\ paid.dropped = a.dropped
      /\ DOMAIN paid = DOMAIN a
  BY DEF LegacyOK
<1> HIDE DEF paid, unpaid
<1>7. Booked(a, paid) /\ Booked(a, unpaid)
  BY <1>2, <1>5, <1>6 DEF LegacyOK, Booked
<1> QED
  BY <1>3, <1>4, <1>5, <1>6, <1>7 DEF pos

\* A waiting order is filled or dropped.
LEMMA FilledIs ==
    ASSUME SetupInv, NEW a, LegacyOK(a), a.order # NoOrder, NEW price \in Int, price > 0
    PROVE  LET z == Filled(a, price)
           IN  /\ Booked(a, z)
               /\ a.order.does = "exit" => z.pos = 0 /\ z.dropped = a.dropped
               /\ a.order.does = "enter" /\ ~setup.pyramid /\ ~z.dropped =>
                    \E lots \in Nat \ {0} :
                        /\ z.pos = Dir(a.order.side) * lots
                        /\ a.order.size # 0 => lots = a.order.size
<1> DEFINE closed == Closed(a, price)
<1>1. /\ LegacyOK(closed) /\ closed.pos = 0 /\ closed.order = a.order /\ closed.algo = a.algo
      /\ closed.wrap = a.wrap
      /\ closed.risk = a.risk /\ closed.breach = a.breach /\ closed.report = a.report
      /\ closed.dropped = a.dropped
  BY ClosedIs
<1>2. a.order \in Orders
  BY DEF LegacyOK
<1>3. CASE a.order.does = "exit"
  <2> DEFINE z == [closed EXCEPT !.order = NoOrder]
  <2>1. Filled(a, price) = z
    BY <1>3 DEF Filled
  <2> HIDE DEF closed
  <2>2. /\ z.pos = 0 /\ z.cash = closed.cash /\ z.order = NoOrder /\ z.algo = a.algo /\ z.wrap = a.wrap
        /\ z.risk = a.risk /\ z.breach = a.breach /\ z.report = a.report /\ z.dropped = a.dropped
        /\ DOMAIN z = DOMAIN closed
    BY <1>1 DEF LegacyOK
  <2> HIDE DEF z
  <2>3. Booked(a, z)
    BY <1>1, <2>2 DEF LegacyOK, Booked
  <2> QED
    BY <1>3, <2>1, <2>2, <2>3
<1>4. CASE a.order.does = "enter"
  <2> DEFINE base == IF setup.pyramid THEN a ELSE closed
             lots == Lots(base, a.order, price)
  <2>1. Filled(a, price) = Bought(base, a.order, lots, price)
    BY <1>4 DEF Filled
  <2>2. /\ LegacyOK(base) /\ base.order = a.order /\ base.algo = a.algo /\ base.wrap = a.wrap
        /\ base.risk = a.risk /\ base.breach = a.breach /\ base.report = a.report
        /\ base.dropped = a.dropped
        /\ ~setup.pyramid => base.pos = 0
    BY <1>1
  <2> HIDE DEF base
  <2>3. lots \in Int /\ (a.order.size # 0 => lots = a.order.size)
    <3>1. Equity(base, price) \in Int
      BY <2>2 DEF Equity, LegacyOK
    <3>2. Equity(base, price) \div price \in Int
      BY <3>1
    <3> QED
      BY <1>2, <3>2 DEF Lots, Orders
  <2> HIDE DEF lots
  <2> DEFINE z == Bought(base, a.order, lots, price)
  <2>4. Booked(base, z) /\ (~z.dropped => lots > 0 /\ z.pos = base.pos + Dir(a.order.side) * lots)
    BY <2>2, <2>3, BoughtIs
  <2> HIDE DEF z
  <2>5. Booked(a, z)
    BY <2>2, <2>4 DEF Booked
  <2>6. ASSUME ~setup.pyramid, ~z.dropped
        PROVE  lots \in Nat \ {0} /\ z.pos = Dir(a.order.side) * lots
    <3>1. Dir(a.order.side) * lots \in Int
      BY <2>3 DEF Dir
    <3> QED
      BY <2>2, <2>3, <2>4, <2>6, <3>1
  <2> QED
    BY <1>4, <2>1, <2>3, <2>5, <2>6 DEF z
<1> QED
  BY <1>2, <1>3, <1>4 DEF Orders

\* Only the order and the levels that are watched change.
Moved(a, z, order, wrap) ==
    /\ LegacyOK(z) /\ z.order = order /\ z.wrap = wrap /\ z.algo = a.algo /\ z.cash = a.cash
    /\ z.pos = a.pos
    /\ z.dropped = a.dropped /\ z.risk = a.risk /\ z.breach = a.breach /\ z.report = a.report

\* The price the wrapper places an order at.
PriceOK == market.bar.c \in Int /\ market.bar.c >= LowPrice

\* The wrapper places an order, or watches other levels, or leaves.
LEMMA MovesAre ==
    ASSUME PriceOK, NEW a, LegacyOK(a), NEW x \in Signals, NEW w \in Wraps
    PROVE  /\ Moved(a, Enter(a, x), Order("enter", x.side, x.size, market.bar.c), a.wrap)
           /\ Moved(a, Leave(a), Order("exit", "flat", 0, market.bar.c), Unwatched)
           /\ Moved(a, [a EXCEPT !.wrap = w], a.order, w)
<1> DEFINE enter == Order("enter", x.side, x.size, market.bar.c)
           exit == Order("exit", "flat", 0, market.bar.c)
<1>1. enter \in Orders /\ enter.price >= LowPrice
  BY OrderIs DEF Signals, PriceOK
<1>2. exit \in Orders /\ exit.price >= LowPrice
  BY OrderIs DEF Places, PriceOK
<1>3. Unwatched \in Wraps
  BY DEF Unwatched, Wraps, Places
<1>4. Enter(a, x) = [a EXCEPT !.order = enter]
  BY DEF Enter
<1>5. Leave(a) = [a EXCEPT !.order = exit, !.wrap = Unwatched]
  BY DEF Leave
<1> HIDE DEF enter, exit
<1>6. Moved(a, Enter(a, x), enter, a.wrap)
  BY <1>1, <1>4 DEF Moved, LegacyOK
<1>7. Moved(a, Leave(a), exit, Unwatched)
  BY <1>2, <1>3, <1>5 DEF Moved, LegacyOK
<1>8. Moved(a, [a EXCEPT !.wrap = w], a.order, w)
  BY DEF Moved, LegacyOK
<1> QED
  BY <1>6, <1>7, <1>8 DEF enter, exit

\* The levels of a signal are typed.
LEMMA InformedIs ==
    ASSUME NEW w \in Wraps, NEW x \in Signals
    PROVE  LET v == Informed(w, x)
           IN  /\ v \in Wraps /\ v.side = w.side /\ v.sl = Tighter(w.side, w.sl, x.sl)
               /\ v.tp = IF x.tp # 0 THEN x.tp ELSE w.tp
<1> DEFINE sl == Tighter(w.side, w.sl, x.sl)
           tp == IF x.tp # 0 THEN x.tp ELSE w.tp
<1>1. sl \in Int /\ tp \in Int
  BY TighterIs DEF Wraps, Signals
<1>2. Informed(w, x) = [w EXCEPT !.sl = sl, !.tp = tp]
  BY DEF Informed, Wraps
<1> HIDE DEF sl, tp
<1>3. /\ Informed(w, x) \in Wraps /\ Informed(w, x).side = w.side /\ Informed(w, x).sl = sl
      /\ Informed(w, x).tp = tp
  BY <1>1, <1>2 DEF Wraps
<1> QED
  BY <1>3 DEF sl, tp

\* A level that is watched has been touched.
Hit(w) == SameBarHit(w.side, w.sl, w.tp, market.bar, TpFirst(setup.kind)) # "none"

\* What the wrapper does with a signal.
LEMMA ActedIs ==
    ASSUME PriceOK, NEW a, LegacyOK(a), NEW x \in Signals
    PROVE  LET z == Acted(a, x)
               v == Informed(a.wrap, x)
               enter == Order("enter", x.side, x.size, market.bar.c)
               exit == Order("exit", "flat", 0, market.bar.c)
           IN  /\ Position(a) =>
                    IF x.action = "enter" /\ x.side = a.wrap.side THEN Moved(a, z, enter, v)
                    ELSE IF x.action = "exit" \/ Hit(v) THEN Moved(a, z, exit, Unwatched)
                    ELSE Moved(a, z, a.order, v)
               /\ ~Position(a) =>
                    IF x.action = "enter" THEN Moved(a, z, enter, [side |-> x.side, sl |-> x.sl, tp |-> x.tp])
                    ELSE z = a
<1> DEFINE enter == Order("enter", x.side, x.size, market.bar.c)
           exit == Order("exit", "flat", 0, market.bar.c)
<1>1. CASE Position(a)
  <2> DEFINE v == Informed(a.wrap, x)
             b == [a EXCEPT !.wrap = v]
  <2>1. v \in Wraps /\ v.side = a.wrap.side
    BY InformedIs DEF LegacyOK
  <2>2. Acted(a, x) = Managed(b, x)
    BY <1>1 DEF Acted, LegacyOK
  <2> HIDE DEF v
  <2>3. Moved(a, b, a.order, v)
    BY <2>1, MovesAre
  <2> HIDE DEF b
  <2>4. Moved(b, Enter(b, x), enter, v) /\ Moved(b, Leave(b), exit, Unwatched)
    BY <2>1, <2>3, MovesAre DEF Moved
  <2> HIDE DEF enter, exit
  <2>5. \A z, order, wrap : Moved(b, z, order, wrap) => Moved(a, z, order, wrap)
    BY <2>3 DEF Moved
  <2>6. CASE x.action = "enter" /\ x.side = a.wrap.side
    <3>1. Managed(b, x) = Enter(b, x)
      BY <2>1, <2>3, <2>6 DEF Managed, Moved
    <3> QED
      BY <1>1, <2>2, <2>4, <2>5, <2>6, <3>1 DEF v, enter, exit
  <2>7. CASE ~(x.action = "enter" /\ x.side = a.wrap.side) /\ (x.action = "exit" \/ Hit(v))
    <3>1. Managed(b, x) = Leave(b)
      BY <2>1, <2>3, <2>7 DEF Managed, Moved, Hit
    <3> QED
      BY <1>1, <2>2, <2>4, <2>5, <2>7, <3>1 DEF v, enter, exit
  <2>8. CASE ~(x.action = "enter" /\ x.side = a.wrap.side) /\ ~(x.action = "exit" \/ Hit(v))
    <3>1. Managed(b, x) = b
      BY <2>1, <2>3, <2>8 DEF Managed, Moved, Hit
    <3> QED
      BY <1>1, <2>2, <2>3, <2>8, <3>1 DEF v, enter, exit
  <2> QED
    BY <2>6, <2>7, <2>8
<1>2. CASE ~Position(a) /\ x.action = "enter"
  <2> DEFINE w == [side |-> x.side, sl |-> x.sl, tp |-> x.tp]
             b == [a EXCEPT !.wrap = w]
  <2>1. w \in Wraps
    BY DEF Signals, Wraps
  <2>2. Acted(a, x) = Enter(b, x)
    BY <1>2 DEF Acted
  <2> HIDE DEF w
  <2>3. Moved(a, b, a.order, w)
    BY <2>1, MovesAre
  <2> HIDE DEF b
  <2>4. Moved(b, Enter(b, x), enter, w)
    BY <2>1, <2>3, MovesAre DEF Moved
  <2> HIDE DEF enter
  <2>5. Moved(a, Enter(b, x), enter, w)
    BY <2>3, <2>4 DEF Moved
  <2> QED
    BY <1>2, <2>2, <2>5 DEF w, enter
<1>3. CASE ~Position(a) /\ x.action # "enter"
  BY <1>3 DEF Acted
<1> QED
  BY <1>1, <1>2, <1>3

\* Only the risk state changes.
Ruled(a, z) ==
    /\ LegacyOK(z) /\ z.algo = a.algo /\ z.cash = a.cash /\ z.pos = a.pos /\ z.order = a.order
    /\ z.dropped = a.dropped /\ z.wrap = a.wrap /\ z.breach = a.breach /\ z.report = a.report

\* The state of the limits after a bar.
RiskAfter(risk, equity, open) ==
    IF risk = NoOrder THEN InitState(equity, market.n) ELSE UpdateState(risk, equity, market.n, open)

\* A day is a number.
LEMMA DayIs ==
    ASSUME DayAssumption, NEW ts \in Int
    PROVE  NormalizeDay(ts) \in Int
BY DEF DayAssumption, NormalizeDay

\* The state of the limits is typed.
LEMMA RiskIs ==
    ASSUME DayAssumption, market \in Markets, NEW risk \in Risks \cup {NoOrder}, NEW equity \in Int,
           NEW open \in {0, 1}
    PROVE  RiskAfter(risk, equity, open) \in Risks
<1>1. market.n \in Int
  BY DEF Markets
<1>2. NormalizeDay(market.n) \in Int
  BY <1>1, DayIs
<1>3. InitState(equity, market.n) \in Risks
  BY <1>2 DEF InitState, Risks
<1>4. risk \in Risks => UpdateState(risk, equity, market.n, open) \in Risks
  BY <1>2 DEF UpdateState, Risks
<1> QED
  BY <1>3, <1>4 DEF RiskAfter

\* The gate only keeps its state.
LEMMA GuardedIs ==
    ASSUME DayAssumption, market \in Markets, NEW a, LegacyOK(a), NEW equity \in Int
    PROVE  LET z == Guarded(a, equity)
           IN  Ruled(a, z) /\ z.risk = RiskAfter(a.risk, equity, IF Position(a) THEN 1 ELSE 0)
<1> DEFINE risk == RiskAfter(a.risk, equity, IF Position(a) THEN 1 ELSE 0)
           z == [a EXCEPT !.risk = risk]
<1>1. risk \in Risks
  <2>1. a.risk \in Risks \cup {NoOrder} /\ (IF Position(a) THEN 1 ELSE 0) \in {0, 1}
    BY DEF LegacyOK
  <2> QED
    BY <2>1, RiskIs
<1>2. Guarded(a, equity) = z
  BY DEF Guarded, RiskAfter, LegacyOK
<1> HIDE DEF risk
<1>3. Ruled(a, z) /\ z.risk = risk
  BY <1>1 DEF Ruled, LegacyOK
<1> QED
  BY <1>2, <1>3 DEF risk

\* A breach is a breach.
LEMMA ChecksAre ==
    ASSUME NEW risk, NEW equity, NEW limits
    PROVE  /\ CheckAll(risk, equity, limits) \in Breaches
           /\ CheckAll(risk, equity, limits) # "none" <=>
                \/ CheckDrawdown(risk, equity, limits)
                \/ CheckDailyLoss(risk, equity, limits)
                \/ CheckPositions(risk, limits)
BY DEF CheckAll, Breaches

\* A broken limit closes the position and is remembered.
LEMMA BreachedIs ==
    ASSUME PriceOK, NEW a, LegacyOK(a), NEW kind \in Breaches
    PROVE  LET z == Breached(a, kind)
           IN  LegacyOK(z) /\ z.breach = kind /\ z.risk = a.risk /\ z.algo = a.algo
<1> DEFINE b == IF Position(a) THEN Leave(a) ELSE a
           exit == Order("exit", "flat", 0, market.bar.c)
<1>1. Signal("exit", "flat", 0, 0, 0) \in Signals
  BY SignalIs DEF Places
<1>2. Unwatched \in Wraps
  BY DEF Unwatched, Wraps, Places
<1>3. Moved(a, Leave(a), exit, Unwatched)
  BY <1>1, <1>2, MovesAre
<1>4. LegacyOK(b) /\ b.risk = a.risk /\ b.algo = a.algo
  BY <1>3 DEF Moved
<1>5. Breached(a, kind) = [b EXCEPT !.breach = kind]
  BY DEF Breached
<1> HIDE DEF b
<1> QED
  BY <1>4, <1>5 DEF LegacyOK

----------------------------------------------------------------------------
(* The steps.                                                              *)

\* A strategy has answered, on the account as it was.
Answered(a, answer) ==
    /\ LegacyOK(a) /\ a.algo = answer.memory /\ a.cash = legacy.cash /\ a.pos = legacy.pos
    /\ a.order = legacy.order /\ a.dropped = legacy.dropped /\ a.wrap = legacy.wrap
    /\ a.breach = legacy.breach /\ a.report = legacy.report

\* The constants are as the modules assume.
Given == TimersAssumption /\ EnginesAssumption /\ DayAssumption

\* They are, by the assumptions.
LEMMA GivenHolds == Given
BY TimersAssumption, EnginesAssumption, DayAssumption DEF Given

\* What a bar of the backtester does: it halts, or it acts on the answer.
LEMMA LegacyBarIs ==
    ASSUME Given, BarTypes, LegacyBar
    PROVE  LET equity == Equity(legacy, market.bar.c)
               answer == OnBar(setup.kind, legacy.algo, market.bar)
               risk == RiskAfter(legacy.risk, equity, IF Position(legacy) THEN 1 ELSE 0)
               kind == CheckAll(risk, equity, setup.limits)
               free == setup.limits = NoLimits
           IN  /\ market.phase = "legacy" /\ market' = [market EXCEPT !.phase = "native"]
               /\ setup' = setup /\ native' = native /\ equity \in Int /\ LegacyOK(legacy')
               /\ legacy'.risk = (IF free THEN legacy.risk ELSE risk)
               /\ past'.equity = (IF free THEN <<>> ELSE Append(past.equity, equity))
               /\ ~free /\ kind # "none" => legacy'.breach = kind /\ legacy'.algo = legacy.algo
               /\ free \/ kind = "none" =>
                    \E a : Answered(a, answer) /\ legacy' = Acted(a, answer.signal)
                           /\ legacy'.breach = legacy.breach /\ legacy'.algo = answer.memory
<1> DEFINE equity == Equity(legacy, market.bar.c)
           answer == OnBar(setup.kind, legacy.algo, market.bar)
           risk == RiskAfter(legacy.risk, equity, IF Position(legacy) THEN 1 ELSE 0)
           free == setup.limits = NoLimits
           kind == CheckAll(risk, equity, setup.limits)
           a == IF free THEN legacy ELSE Guarded(legacy, equity)
           b == [a EXCEPT !.algo = answer.memory]
<1>1. /\ LegacyOK(legacy) /\ market.bar \in Bars /\ Priced(market.bar) /\ market \in Markets
      /\ market.bar.c \in Int /\ setup.kind \in Kinds /\ legacy.algo \in Memories
  BY DEF BarTypes, Markets, Bars, LegacyOK, SetupInv, Setups
<1>2. equity \in Int
  BY <1>1 DEF Equity, LegacyOK
<1>3. answer.memory \in Memories /\ answer.signal \in Signals
  BY <1>1, OnBarIs DEF BarTypes, Given
<1>4. PriceOK
  BY <1>1 DEF PriceOK, Priced
<1> HIDE DEF equity
<1>5. Ruled(legacy, a) /\ a.risk = (IF free THEN legacy.risk ELSE risk)
  BY <1>1, <1>2, GuardedIs DEF Ruled, Given
<1>6. /\ legacy' = (IF free \/ kind = "none" THEN Acted(b, answer.signal) ELSE Breached(a, kind))
      /\ past' = [equity |-> IF free THEN <<>> ELSE Append(past.equity, equity)]
  <2>1. a.algo = legacy.algo
    BY <1>5 DEF Ruled
  <2>2. ~free => a.risk = risk
    BY <1>5
  <2> QED
    BY <2>1, <2>2 DEF LegacyBar, equity
<1>7. /\ market.phase = "legacy" /\ market' = [market EXCEPT !.phase = "native"] /\ setup' = setup
      /\ native' = native
  BY DEF LegacyBar
<1> HIDE DEF answer, risk, free, a
<1>8. kind \in Breaches
  BY ChecksAre
<1> HIDE DEF kind
<1>9. Answered(b, answer) /\ b.risk = a.risk
  BY <1>3, <1>5 DEF Ruled, Answered, LegacyOK
<1> HIDE DEF b
<1>10. LegacyOK(b)
  BY <1>9 DEF Answered
<1>11. /\ LegacyOK(Acted(b, answer.signal)) /\ Acted(b, answer.signal).risk = b.risk
       /\ Acted(b, answer.signal).breach = b.breach /\ Acted(b, answer.signal).algo = b.algo
  <2> DEFINE z == Acted(b, answer.signal)
  <2>1. z = b \/ \E order, wrap : Moved(b, z, order, wrap)
    BY <1>3, <1>4, <1>10, ActedIs
  <2> HIDE DEF z
  <2> QED
    BY <1>10, <2>1 DEF Moved, z
<1>12. /\ LegacyOK(Breached(a, kind)) /\ Breached(a, kind).risk = a.risk
       /\ Breached(a, kind).breach = kind /\ Breached(a, kind).algo = a.algo
  BY <1>4, <1>5, <1>8, BreachedIs DEF Ruled
<1>13. free \/ kind = "none" =>
        /\ Answered(b, answer) /\ legacy' = Acted(b, answer.signal)
        /\ legacy'.breach = legacy.breach /\ legacy'.algo = answer.memory
  BY <1>6, <1>9, <1>11 DEF Answered
<1>14. ~free /\ kind # "none" => legacy'.breach = kind /\ legacy'.algo = legacy.algo
  BY <1>5, <1>6, <1>12 DEF Ruled
<1>15. LegacyOK(legacy') /\ legacy'.risk = a.risk
  BY <1>6, <1>9, <1>11, <1>12
<1>16. past'.equity = IF free THEN <<>> ELSE Append(past.equity, equity)
  BY <1>6
<1> QED
  BY <1>2, <1>5, <1>7, <1>13, <1>14, <1>15, <1>16 DEF equity, answer, risk, free, kind

\* What the next bar does: a waiting order is filled.
LEMMA NextBarIs ==
    ASSUME Given, BarTypes, NextBar
    PROVE  /\ market.phase = "bar" /\ legacy.breach = "none"
           /\ market'.phase = "legacy" /\ market'.n = market.n + 1 /\ market'.bar \in Bars
           /\ Priced(market'.bar)
           /\ market'.bar.c \in LowPrice .. TopPrice /\ market' \in Markets
           /\ setup' = setup /\ native' = native /\ past' = past
           /\ legacy.order = NoOrder => legacy' = legacy
           /\ legacy.order # NoOrder =>
                /\ Booked(legacy, legacy')
                /\ legacy.order.does = "exit" => legacy'.pos = 0 /\ legacy'.dropped = legacy.dropped
                /\ legacy.order.does = "enter" /\ ~setup.pyramid /\ ~legacy'.dropped =>
                    \E lots \in Nat \ {0} :
                        /\ legacy'.pos = Dir(legacy.order.side) * lots
                        /\ legacy.order.size # 0 => lots = legacy.order.size
<1>1. PICK bar \in BarsFor(setup.kind, market.bar.c) :
        /\ market' = [n |-> market.n + 1, bar |-> bar, phase |-> "legacy"]
        /\ legacy' = IF legacy.order = NoOrder THEN legacy
                     ELSE Filled(legacy, IF setup.onClose THEN legacy.order.price ELSE bar.o)
  BY DEF NextBar
<1>2. setup.kind \in Kinds /\ market.bar.c \in LowPrice .. TopPrice
  BY DEF BarTypes, SetupInv, Setups
<1>3. bar \in Bars /\ Priced(bar) /\ bar.c \in LowPrice .. TopPrice
  BY <1>2, BarIs DEF Given
<1>4. market' \in Markets /\ market'.bar = bar /\ market'.phase = "legacy" /\ market'.n = market.n + 1
  BY <1>1, <1>3 DEF BarTypes, Markets
<1>5. ASSUME legacy.order # NoOrder
      PROVE  /\ Booked(legacy, legacy')
             /\ legacy.order.does = "exit" => legacy'.pos = 0 /\ legacy'.dropped = legacy.dropped
             /\ legacy.order.does = "enter" /\ ~setup.pyramid /\ ~legacy'.dropped =>
                 \E lots \in Nat \ {0} :
                     /\ legacy'.pos = Dir(legacy.order.side) * lots
                     /\ legacy.order.size # 0 => lots = legacy.order.size
  <2> DEFINE price == IF setup.onClose THEN legacy.order.price ELSE bar.o
  <2>1. price \in Int /\ price > 0
    <3>1. legacy.order \in Orders /\ legacy.order.price >= LowPrice
      BY <1>5 DEF BarTypes, LegacyOK
    <3>2. bar.o \in Int /\ bar.o >= LowPrice
      BY <1>3 DEF Bars, Priced
    <3>3. LowPrice \in Int /\ LowPrice > 3
      BY DEF Given, EnginesAssumption, Reward
    <3> QED
      BY <3>1, <3>2, <3>3 DEF Orders
  <2>2. legacy' = Filled(legacy, price)
    BY <1>1, <1>5
  <2> HIDE DEF price
  <2>3. SetupInv /\ LegacyOK(legacy)
    BY DEF BarTypes
  <2> QED
    BY <1>5, <2>1, <2>2, <2>3, FilledIs
<1>6. legacy.order = NoOrder => legacy' = legacy
  BY <1>1
<1> QED
  BY <1>3, <1>4, <1>5, <1>6 DEF NextBar

\* What a bar of the native engine does.
LEMMA NativeBarIs ==
    ASSUME Given, BarTypes, NativeBar
    PROVE  LET answer == OnBar(setup.kind, native.algo, market.bar)
           IN  /\ market.phase = "native" /\ setup' = setup /\ legacy' = legacy /\ past' = past
               /\ market'.phase = "bar" /\ market'.n = market.n /\ market' \in Markets
               /\ Priced(market'.bar)
               /\ market'.bar.c = market.bar.c
               /\ answer.memory \in Memories /\ answer.signal \in Signals
               /\ native.status # "running" => native' = native
               /\ native.status = "running" /\ native.cursor = 0 =>
                    native'.algo = native.algo /\ native'.pos = native.pos /\ native'.cursor = 1
                    /\ native'.status = "running"
               /\ native.status = "running" /\ native.cursor # 0 =>
                    /\ native'.algo = answer.memory /\ native'.cursor = native.cursor + 1
                    /\ native'.pos = Netted(native.pos, answer.signal)
                    /\ native'.status = (IF Supported(answer.signal) THEN "running" ELSE "refused")
               /\ native' \in Natives
<1> DEFINE answer == OnBar(setup.kind, native.algo, market.bar)
           moved == [algo |-> answer.memory, cursor |-> native.cursor + 1,
                     pos |-> Netted(native.pos, answer.signal),
                     status |-> IF Supported(answer.signal) THEN "running" ELSE "refused"]
           warm == [native EXCEPT !.cursor = 1]
<1>1. /\ native \in Natives /\ market.bar \in Bars /\ Priced(market.bar) /\ market \in Markets
      /\ setup.kind \in Kinds /\ market.bar.c \in LowPrice .. TopPrice
  BY DEF BarTypes, Markets, SetupInv, Setups
<1>2. answer.memory \in Memories /\ answer.signal \in Signals
  <2>1. native.algo \in Memories
    BY <1>1 DEF Natives
  <2>2. setup.kind \in Knowing => Sound(setup.kind, native.algo)
    BY DEF BarTypes
  <2> QED
    BY <1>1, <2>1, <2>2, OnBarIs DEF Given
<1>3. Past(market.bar.c) \in Bars /\ Priced(Past(market.bar.c)) /\ Past(market.bar.c).c = market.bar.c
  BY <1>1, PastIs DEF Given
<1>4. market' = [market EXCEPT !.phase = "bar", !.bar = Past(market.bar.c)]
  BY DEF NativeBar
<1>5. native' = (IF native.status # "running" THEN native ELSE IF native.cursor = 0 THEN warm ELSE moved)
  BY DEF NativeBar
<1> HIDE DEF answer
<1>6. Netted(native.pos, answer.signal) \in Int
  <2>1. Dir(answer.signal.side) \in Int /\ answer.signal.size \in Int /\ native.pos \in Int
    BY <1>1, <1>2, DirIs DEF Signals, Natives
  <2>2. Dir(answer.signal.side) * answer.signal.size \in Int
    BY <2>1
  <2> QED
    BY <2>1, <2>2 DEF Netted
<1>7. moved \in Natives
  BY <1>1, <1>2, <1>6 DEF Natives
<1>8. /\ warm \in Natives /\ warm.algo = native.algo /\ warm.pos = native.pos /\ warm.cursor = 1
      /\ warm.status = native.status
  BY <1>1 DEF Natives
<1>9. /\ moved.algo = answer.memory /\ moved.cursor = native.cursor + 1
      /\ moved.pos = Netted(native.pos, answer.signal)
      /\ moved.status = IF Supported(answer.signal) THEN "running" ELSE "refused"
  OBVIOUS
<1> HIDE DEF moved, warm
<1>10. /\ market' \in Markets /\ market'.phase = "bar" /\ market'.n = market.n
       /\ market'.bar = Past(market.bar.c)
  <2> DEFINE bar == Past(market.bar.c)
  <2>1. bar \in Bars /\ market' = [market EXCEPT !.phase = "bar", !.bar = bar]
    BY <1>3, <1>4
  <2> HIDE DEF bar
  <2>2. market' \in Markets /\ market'.phase = "bar" /\ market'.n = market.n /\ market'.bar = bar
    BY <1>1, <2>1 DEF Markets
  <2> QED
    BY <2>2 DEF bar
<1>11. market.phase = "native" /\ setup' = setup /\ legacy' = legacy /\ past' = past
  BY DEF NativeBar
<1> QED
  BY <1>1, <1>2, <1>3, <1>5, <1>7, <1>8, <1>9, <1>10, <1>11 DEF answer

\* The report changes nothing else.
LEMMA ReportIs ==
    ASSUME BarTypes, Report
    PROVE  /\ market.phase = "bar" /\ market'.phase = "done" /\ market'.n = market.n
           /\ market'.bar = market.bar
           /\ market' \in Markets /\ setup' = setup /\ native' = native /\ past' = past
           /\ LegacyOK(legacy') /\ legacy'.algo = legacy.algo /\ legacy'.pos = legacy.pos
           /\ legacy'.order = legacy.order
           /\ legacy'.dropped = legacy.dropped /\ legacy'.wrap = legacy.wrap
           /\ legacy'.risk = legacy.risk /\ legacy'.breach = legacy.breach
<1>1. LegacyOK(legacy) /\ market \in Markets
  BY DEF BarTypes
<1> DEFINE report == [breach |-> legacy.breach,
                      equity |-> IF legacy.breach = "none" THEN Equity(legacy, market.bar.c) ELSE Cash]
<1>2. legacy' = [legacy EXCEPT !.report = report] /\ market' = [market EXCEPT !.phase = "done"]
  BY DEF Report
<1> HIDE DEF report
<1>3. /\ LegacyOK(legacy') /\ legacy'.algo = legacy.algo /\ legacy'.pos = legacy.pos
      /\ legacy'.order = legacy.order
      /\ legacy'.dropped = legacy.dropped /\ legacy'.wrap = legacy.wrap
      /\ legacy'.risk = legacy.risk /\ legacy'.breach = legacy.breach
  BY <1>1, <1>2 DEF LegacyOK
<1>4. market' \in Markets /\ market'.phase = "done" /\ market'.n = market.n /\ market'.bar = market.bar
  BY <1>1, <1>2 DEF Markets
<1> QED
  BY <1>3, <1>4 DEF Report

----------------------------------------------------------------------------
(* Types.                                                                  *)

\* A run begins typed.
LEMMA TypeStarts == ASSUME Given, BarInit PROVE BarTypes
<1>1. PICK kind \in Kinds, onClose \in BOOLEAN, pyramid \in BOOLEAN,
           limits \in {NoLimits, [NoLimits EXCEPT !.drawdown = 30, !.daily = 20],
                       [NoLimits EXCEPT !.positions = 0]} :
        /\ pyramid => kind = "dca"
        /\ limits # NoLimits => kind \in {"scripted", "buy_and_hold"}
        /\ setup = [kind |-> kind, onClose |-> onClose, pyramid |-> pyramid, limits |-> limits]
        /\ market = [n |-> 1, bar |-> Past(FirstPrice), phase |-> "native"]
        /\ legacy = [algo |-> Fresh, cash |-> Cash, pos |-> 0, order |-> NoOrder, dropped |-> FALSE,
                     wrap |-> Unwatched, risk |-> NoOrder, breach |-> "none", report |-> NoOrder]
        /\ native = [algo |-> Fresh, pos |-> 0, cursor |-> 0,
                     status |-> IF pyramid THEN "refused" ELSE "running"]
        /\ past = [equity |-> <<>>]
  BY DEF BarInit
<1>2. limits \in Limits
  <2>1. NoLimits \in Limits
    BY DEF NoLimits, Limits
  <2>2. [NoLimits EXCEPT !.drawdown = 30, !.daily = 20] \in Limits
    BY <2>1 DEF Limits
  <2>3. [NoLimits EXCEPT !.positions = 0] \in Limits
    BY <2>1 DEF Limits
  <2> QED
    BY <2>1, <2>2, <2>3
<1>3. SetupInv
  BY <1>1, <1>2 DEF SetupInv, Setups
<1>4. FirstPrice \in LowPrice .. TopPrice
  BY DEF Given, EnginesAssumption
<1>5. Past(FirstPrice) \in Bars /\ Priced(Past(FirstPrice)) /\ Past(FirstPrice).c = FirstPrice
  BY <1>4, PastIs DEF Given
<1>6. /\ market \in Markets /\ Priced(market.bar) /\ market.bar.c \in LowPrice .. TopPrice
      /\ market.phase # "legacy"
  BY <1>1, <1>4, <1>5 DEF Markets
<1>7. Unwatched \in Wraps /\ Cash \in Int
  BY DEF Unwatched, Wraps, Places, Given, EnginesAssumption
<1>8. Fresh \in Memories /\ \A k : Sound(k, Fresh)
  BY FreshIs
<1>9. LegacyOK(legacy) /\ legacy.algo = Fresh
  BY <1>1, <1>7, <1>8 DEF LegacyOK, Breaches
<1>10. native \in Natives /\ native.algo = Fresh
  BY <1>1, <1>8 DEF Natives
<1>11. past.equity \in Seq(Int)
  BY <1>1
<1> QED
  BY <1>3, <1>6, <1>8, <1>9, <1>10, <1>11 DEF BarTypes

\* Every step keeps the types.
LEMMA TypeStep == ASSUME Given, BarTypes, [BarNext]_barVars PROVE BarTypes'
<1>1. CASE NextBar
  <2>1. LegacyOK(legacy') /\ legacy'.order = NoOrder /\ legacy'.algo = legacy.algo
    BY <1>1, NextBarIs DEF BarTypes, Booked
  <2>2. SetupInv'
    BY <1>1, NextBarIs DEF BarTypes, SetupInv
  <2> QED
    BY <1>1, <2>1, <2>2, NextBarIs DEF BarTypes
<1>2. CASE LegacyBar
  <2> DEFINE answer == OnBar(setup.kind, legacy.algo, market.bar)
             equity == Equity(legacy, market.bar.c)
  <2>1. /\ market' = [market EXCEPT !.phase = "native"] /\ setup' = setup /\ native' = native
        /\ equity \in Int /\ LegacyOK(legacy') /\ legacy'.algo \in {legacy.algo, answer.memory}
        /\ past'.equity \in {<<>>, Append(past.equity, equity)}
    BY <1>2, LegacyBarIs
  <2>2. setup.kind \in Knowing => Sound(setup.kind, answer.memory)
    <3>1. /\ legacy.algo \in Memories /\ market.bar \in Bars /\ Priced(market.bar) /\ setup.kind \in Kinds
          /\ setup.kind \in Knowing => Sound(setup.kind, legacy.algo)
      BY DEF BarTypes, LegacyOK, Markets, SetupInv, Setups
    <3> QED
      BY <3>1, OnBarIs DEF Given, Proper
  <2>3. past'.equity \in Seq(Int)
    <3>1. past.equity \in Seq(Int) /\ equity \in Int
      BY <2>1 DEF BarTypes
    <3> HIDE DEF equity
    <3>2. Append(past.equity, equity) \in Seq(Int) /\ <<>> \in Seq(Int)
      BY <3>1
    <3> QED
      BY <2>1, <3>2
  <2> HIDE DEF answer, equity
  <2>4. market' \in Markets /\ market'.bar = market.bar /\ market'.phase = "native"
    BY <2>1 DEF BarTypes, Markets
  <2>5. SetupInv'
    BY <2>1 DEF BarTypes, SetupInv
  <2> QED
    BY <2>1, <2>2, <2>3, <2>4, <2>5 DEF BarTypes
<1>3. CASE NativeBar
  <2> DEFINE answer == OnBar(setup.kind, native.algo, market.bar)
  <2>1. native'.algo \in {native.algo, answer.memory}
    BY <1>3, NativeBarIs
  <2>2. setup.kind \in Knowing => Sound(setup.kind, answer.memory)
    <3>1. /\ native.algo \in Memories /\ market.bar \in Bars /\ Priced(market.bar) /\ setup.kind \in Kinds
          /\ setup.kind \in Knowing => Sound(setup.kind, native.algo)
      BY DEF BarTypes, Natives, Markets, SetupInv, Setups
    <3> QED
      BY <3>1, OnBarIs DEF Given, Proper
  <2> HIDE DEF answer
  <2>3. SetupInv'
    BY <1>3, NativeBarIs DEF BarTypes, SetupInv
  <2> QED
    BY <1>3, <2>1, <2>2, <2>3, NativeBarIs DEF BarTypes
<1>4. CASE Report
  <2>1. SetupInv'
    BY <1>4, ReportIs DEF BarTypes, SetupInv
  <2> QED
    BY <1>4, <2>1, ReportIs DEF BarTypes
<1>5. CASE UNCHANGED barVars
  <2>1. market' = market /\ setup' = setup /\ legacy' = legacy /\ native' = native /\ past' = past
    BY <1>5 DEF barVars
  <2> QED
    BY <2>1 DEF BarTypes, SetupInv
<1> QED
  BY <1>1, <1>2, <1>3, <1>4, <1>5 DEF BarNext

\* A run of the two engines stays typed: the strategies keep a memory, the
\* broker an account and the wrapper levels, and who is in a position has them.
THEOREM BarsTyped == BarSpec => []BarTypes
<1>1. BarInit => BarTypes
  BY GivenHolds, TypeStarts
<1>2. BarTypes /\ [BarNext]_barVars => BarTypes'
  BY GivenHolds, TypeStep
<1> QED
  BY <1>1, <1>2, PTL DEF BarSpec

----------------------------------------------------------------------------
(* A strategy knows its position.                                          *)

\* A waiting order enters a side with the size the broker decides, or closes.
OrderKnown ==
    legacy.order # NoOrder =>
        \/ legacy.order.does = "enter" /\ legacy.order.side \in Sides /\ legacy.order.size = 0
        \/ legacy.order.does = "exit" /\ legacy.order.side = "flat"

\* The wrapper's stop is no closer than the strategy's.
LevelsKnown ==
    legacy.algo.side # "flat" =>
        /\ legacy.wrap.sl > 0 /\ legacy.wrap.tp = legacy.algo.tp
        /\ Dir(legacy.algo.side) * (legacy.algo.sl - legacy.wrap.sl) >= 0

\* What the property needs to be kept by every step.
KnowsInv ==
    setup.kind \in Knowing /\ ~legacy.dropped =>
        /\ legacy.algo.side = Target /\ legacy.wrap.side = Target
        /\ OrderKnown /\ LevelsKnown
        /\ Decided /\ Position(legacy) /\ legacy.order = NoOrder => legacy.wrap.sl = legacy.algo.sl

\* The side of what is held and ordered.
SideOf(a) ==
    IF a.order = NoOrder THEN IF a.pos > 0 THEN "long" ELSE IF a.pos < 0 THEN "short" ELSE "flat"
    ELSE a.order.side

\* It is the side the property speaks of.
LEMMA TargetIs == Target = SideOf(legacy) /\ Target' = SideOf(legacy')
BY DEF Target, SideOf

\* Nothing is known at the start, and nothing is held.
LEMMA KnowsStarts == ASSUME BarInit PROVE KnowsInv
<1>1. /\ legacy.algo = Fresh /\ legacy.order = NoOrder /\ legacy.pos = 0 /\ legacy.wrap = Unwatched
  BY DEF BarInit
<1>2. Fresh.side = "flat" /\ Unwatched.side = "flat"
  BY DEF Fresh, Unwatched
<1> QED
  BY <1>1, <1>2 DEF KnowsInv, Target, Position, OrderKnown, LevelsKnown

\* A fill moves what is held to where the order pointed.
LEMMA KnowsFill == ASSUME Given, BarTypes, KnowsInv, NextBar PROVE KnowsInv'
<1>1. /\ setup' = setup /\ market'.phase = "legacy"
      /\ legacy.order = NoOrder => legacy' = legacy
      /\ legacy.order # NoOrder => Booked(legacy, legacy')
  BY NextBarIs
<1>2. CASE legacy.order = NoOrder
  BY <1>1, <1>2, TargetIs DEF KnowsInv, Decided, OrderKnown, LevelsKnown
<1>3. CASE legacy.order # NoOrder
  <2> SUFFICES ASSUME setup.kind \in Knowing, ~legacy'.dropped
               PROVE  /\ legacy'.algo.side = SideOf(legacy') /\ legacy'.wrap.side = SideOf(legacy')
                      /\ OrderKnown' /\ LevelsKnown'
    BY <1>1, TargetIs DEF KnowsInv, Decided
  <2>1. /\ ~legacy.dropped /\ legacy'.algo = legacy.algo /\ legacy'.wrap = legacy.wrap
        /\ legacy'.order = NoOrder
    BY <1>1, <1>3 DEF Booked
  <2>2. legacy.algo.side = SideOf(legacy) /\ legacy.wrap.side = SideOf(legacy) /\ OrderKnown /\ LevelsKnown
    BY <2>1, TargetIs DEF KnowsInv
  <2>3. SideOf(legacy) = legacy.order.side
    BY <1>3 DEF SideOf
  <2>4. ~setup.pyramid
    BY DEF BarTypes, SetupInv, Knowing
  <2>5. SideOf(legacy') = legacy.order.side
    <3>1. CASE legacy.order.does = "enter"
      <4>1. PICK lots \in Nat \ {0} : legacy'.pos = Dir(legacy.order.side) * lots
        BY <1>3, <2>4, <3>1, NextBarIs
      <4>2. legacy.order.side \in Sides
        BY <1>3, <2>2, <3>1 DEF OrderKnown
      <4> QED
        BY <2>1, <4>1, <4>2, DirIs DEF SideOf, Sides
    <3>2. CASE legacy.order.does # "enter"
      <4>1. legacy.order.does = "exit" /\ legacy.order.side = "flat"
        BY <1>3, <2>2, <3>2 DEF OrderKnown
      <4>2. legacy'.pos = 0
        BY <1>3, <4>1, NextBarIs
      <4> QED
        BY <2>1, <4>1, <4>2 DEF SideOf
    <3> QED
      BY <3>1, <3>2
  <2> QED
    BY <2>1, <2>2, <2>3, <2>5 DEF OrderKnown, LevelsKnown
<1> QED
  BY <1>2, <1>3

\* The answer of the strategy and what the wrapper makes of it agree.
LEMMA KnowsBar == ASSUME Given, BarTypes, KnowsInv, LegacyBar PROVE KnowsInv'
<1> SUFFICES ASSUME setup.kind \in Knowing, ~legacy'.dropped
             PROVE  KnowsInv'
  BY LegacyBarIs DEF KnowsInv
<1> DEFINE answer == OnBar(setup.kind, legacy.algo, market.bar)
           x == answer.signal
           m == answer.memory
           s == legacy.algo
<1>1. setup.limits = NoLimits
  BY DEF BarTypes, SetupInv, Knowing
<1>2. PICK a : Answered(a, answer) /\ legacy' = Acted(a, x) /\ legacy'.algo = m
  BY <1>1, LegacyBarIs
<1>3. /\ s \in Memories /\ market.bar \in Bars /\ Priced(market.bar) /\ setup.kind \in Kinds
      /\ Sound(setup.kind, s) /\ LegacyOK(legacy) /\ market.phase = "legacy"
  BY LegacyBarIs DEF BarTypes, LegacyOK, Markets, SetupInv, Setups
<1>4. m \in Memories /\ x \in Signals /\ Proper(setup.kind, s, market.bar, m, x)
  BY <1>3, OnBarIs DEF Given
<1>5. PriceOK
  BY <1>3 DEF PriceOK, Priced, Bars
<1> HIDE DEF answer, x, m
<1>6. legacy.order = NoOrder
  BY <1>3 DEF BarTypes
<1> DEFINE v == Informed(legacy.wrap, x)
           enter == Order("enter", x.side, x.size, market.bar.c)
           exit == Order("exit", "flat", 0, market.bar.c)
<1>7. /\ LegacyOK(a) /\ a.pos = legacy.pos /\ a.order = NoOrder /\ a.wrap = legacy.wrap /\ a.algo = m
      /\ a.dropped = legacy.dropped
  BY <1>2, <1>6 DEF Answered, m
<1>8. /\ Position(legacy) =>
           IF x.action = "enter" /\ x.side = legacy.wrap.side THEN Moved(a, legacy', enter, v)
           ELSE IF x.action = "exit" \/ Hit(v) THEN Moved(a, legacy', exit, Unwatched)
           ELSE Moved(a, legacy', NoOrder, v)
      /\ ~Position(legacy) =>
           IF x.action = "enter" THEN Moved(a, legacy', enter, [side |-> x.side, sl |-> x.sl, tp |-> x.tp])
           ELSE legacy' = a
  BY <1>2, <1>4, <1>5, <1>7, ActedIs DEF Position
<1>9. legacy'.pos = legacy.pos /\ legacy'.dropped = legacy.dropped /\ legacy'.algo = m
  BY <1>7, <1>8 DEF Moved
<1>10. s.side = SideOf(legacy) /\ legacy.wrap.side = SideOf(legacy) /\ LevelsKnown
  BY <1>9, TargetIs DEF KnowsInv
<1>11. exit # NoOrder /\ exit.does = "exit" /\ exit.side = "flat"
  BY <1>5, OrderIs DEF Places, PriceOK
<1>12. enter # NoOrder /\ enter.does = "enter" /\ enter.side = x.side /\ enter.size = x.size
  BY <1>4, <1>5, OrderIs DEF Signals, PriceOK
<1> HIDE DEF enter, exit
<1>13. SUFFICES /\ m.side = SideOf(legacy') /\ legacy'.wrap.side = SideOf(legacy')
                /\ OrderKnown' /\ LevelsKnown'
                /\ Position(legacy') /\ legacy'.order = NoOrder => legacy'.wrap.sl = m.sl
  BY <1>9, TargetIs DEF KnowsInv
<1>14. CASE Position(legacy)
  <2>1. s.side # "flat" /\ s.side \in Places
    BY <1>3, <1>6, <1>10, <1>14 DEF SideOf, Position, LegacyOK, Memories
  <2>2. CASE x.action = "exit" /\ m.side = "flat"
    <3>1. Moved(a, legacy', exit, Unwatched)
      BY <1>8, <1>14, <2>2
    <3> QED
      BY <1>9, <1>11, <2>2, <3>1 DEF Moved, SideOf, OrderKnown, LevelsKnown, Unwatched
  <2>3. CASE /\ x.action = "hold" /\ m.side = s.side /\ x.sl = m.sl /\ x.tp = m.tp
             /\ Dir(m.side) * (m.sl - s.sl) >= 0
             /\ SameBarHit(m.side, m.sl, m.tp, market.bar, TpFirst(setup.kind)) = "none"
    <3>1. /\ legacy.wrap \in Wraps /\ legacy.wrap.sl \in Int /\ legacy.wrap.sl > 0 /\ legacy.wrap.tp = s.tp
          /\ legacy.wrap.side = s.side /\ Dir(s.side) * (s.sl - legacy.wrap.sl) >= 0
      BY <1>3, <1>10, <2>1 DEF LevelsKnown, LegacyOK, Wraps
    <3>2. m.sl \in Int /\ m.sl > 0 /\ m.tp > 0 /\ m.tp \in Int /\ s.sl \in Int
      BY <1>3, <1>4, <2>1, <2>3 DEF Proper, Sound, Memories
    <3>3. Dir(s.side) * (m.sl - legacy.wrap.sl) >= 0
      BY <2>1, <2>3, <3>1, <3>2, DirIs
    <3>4. Tighter(s.side, legacy.wrap.sl, m.sl) = m.sl
      BY <2>1, <3>1, <3>2, <3>3, TighterIs
    <3>5. v.side = s.side /\ v.sl = m.sl /\ v.tp = m.tp
      BY <1>4, <2>3, <3>1, <3>2, <3>4, InformedIs
    <3>6. ~Hit(v)
      BY <2>3, <3>5 DEF Hit
    <3> HIDE DEF v
    <3>7. Moved(a, legacy', NoOrder, v)
      BY <1>8, <1>14, <2>3, <3>6
    <3>8. SideOf(legacy') = SideOf(legacy)
      BY <1>6, <1>9, <3>7 DEF SideOf, Moved
    <3>9. legacy'.wrap.sl = m.sl /\ legacy'.wrap.tp = m.tp /\ legacy'.wrap.side = s.side
      BY <3>5, <3>7 DEF Moved
    <3>10. Dir(m.side) * (m.sl - m.sl) >= 0
      BY <2>1, <2>3, <3>2, DirIs
    <3> QED
      BY <1>9, <1>10, <2>3, <3>2, <3>7, <3>8, <3>9, <3>10 DEF Moved, OrderKnown, LevelsKnown
  <2> QED
    BY <1>4, <2>1, <2>2, <2>3 DEF Proper
<1>15. CASE ~Position(legacy)
  <2>1. s.side = "flat" /\ SideOf(legacy) = "flat"
    BY <1>6, <1>10, <1>15 DEF SideOf, Position
  <2>2. CASE x.action = "hold" /\ m.side = "flat"
    <3>1. legacy' = a
      BY <1>8, <1>15, <2>2
    <3> QED
      BY <1>7, <1>9, <1>10, <1>15, <2>1, <2>2, <3>1 DEF SideOf, Position, OrderKnown, LevelsKnown
  <2>3. CASE /\ x.action = "enter" /\ x.side \in Sides /\ m.side = x.side
             /\ x.sl > 0 /\ x.tp > 0 /\ x.size = 0 /\ m.tp = x.tp /\ Dir(m.side) * (m.sl - x.sl) >= 0
    <3>1. Moved(a, legacy', enter, [side |-> x.side, sl |-> x.sl, tp |-> x.tp])
      BY <1>8, <1>15, <2>3
    <3>2. /\ legacy'.order = enter /\ legacy'.wrap.side = x.side /\ legacy'.wrap.sl = x.sl
          /\ legacy'.wrap.tp = x.tp
      BY <3>1 DEF Moved
    <3> QED
      BY <1>9, <1>12, <2>3, <3>2 DEF SideOf, OrderKnown, LevelsKnown
  <2> QED
    BY <1>4, <2>1, <2>2, <2>3 DEF Proper
<1> QED
  BY <1>14, <1>15

\* Every step keeps the strategy informed.
LEMMA KnowsStep == ASSUME Given, BarTypes, KnowsInv, [BarNext]_barVars PROVE KnowsInv'
<1>1. CASE NextBar
  BY <1>1, KnowsFill
<1>2. CASE LegacyBar
  BY <1>2, KnowsBar
<1>3. CASE NativeBar
  BY <1>3, NativeBarIs, TargetIs DEF KnowsInv, Decided, OrderKnown, LevelsKnown
<1>4. CASE Report
  BY <1>4, ReportIs, TargetIs DEF KnowsInv, Decided, OrderKnown, LevelsKnown, Position, SideOf
<1>5. CASE UNCHANGED barVars
  <2>1. market' = market /\ setup' = setup /\ legacy' = legacy
    BY <1>5 DEF barVars
  <2> QED
    BY <2>1, TargetIs DEF KnowsInv, Decided, OrderKnown, LevelsKnown
<1> QED
  BY <1>1, <1>2, <1>3, <1>4, <1>5 DEF BarNext

\* A strategy that keeps its own position believes what the broker will hold,
\* and the wrapper watches its levels: whatever the prices, the settings of
\* the strategy and the length of the run.
THEOREM PositionKnown == BarSpec => []StrategyKnowsPosition
<1>1. BarInit => BarTypes /\ KnowsInv
  BY GivenHolds, TypeStarts, KnowsStarts
<1>2. BarTypes /\ KnowsInv /\ [BarNext]_barVars => BarTypes' /\ KnowsInv'
  BY GivenHolds, TypeStep, KnowsStep
<1>3. BarTypes /\ KnowsInv => StrategyKnowsPosition
  <2> SUFFICES ASSUME BarTypes, KnowsInv, Decided, setup.kind \in Knowing, ~legacy.dropped
               PROVE  /\ legacy.algo.side = Target /\ legacy.wrap.side = Target
                      /\ Position(legacy) /\ legacy.order = NoOrder =>
                            legacy.wrap.sl = legacy.algo.sl /\ legacy.wrap.tp = legacy.algo.tp
    BY DEF StrategyKnowsPosition, Knowing
  <2>1. legacy.pos \in Int
    BY DEF BarTypes, LegacyOK
  <2> QED
    BY <2>1 DEF KnowsInv, LevelsKnown, Target, Position
<1> QED
  BY <1>1, <1>2, <1>3, PTL DEF BarSpec

----------------------------------------------------------------------------
(* The two engines agree.                                                  *)

\* What the account will hold once the waiting order is filled, if it names
\* its size.
Holding(a) == IF a.order = NoOrder THEN a.pos ELSE Dir(a.order.side) * a.order.size

\* The runs that are compared.
Accepted == native.status = "running" /\ legacy.breach = "none" /\ ~legacy.dropped

\* The native engine takes no signal with a level, so none is watched, and no
\* entry without a size.
Unlevelled ==
    /\ legacy.wrap.sl = 0 /\ legacy.wrap.tp = 0
    /\ legacy.order # NoOrder =>
        \/ legacy.order.does = "enter" /\ legacy.order.size > 0
        \/ legacy.order.does = "exit" /\ legacy.order.side = "flat" /\ legacy.order.size = 0

\* Both engines remember and hold the same.
Aligned == native.algo = legacy.algo /\ native.pos = Holding(legacy) /\ Unlevelled

\* The backtester has seen a bar that the native engine is still to see.
Ahead ==
    LET answer == OnBar(setup.kind, native.algo, market.bar)
    IN  /\ legacy.algo = answer.memory
        /\ Supported(answer.signal) =>
            Holding(legacy) = Netted(native.pos, answer.signal) /\ Unlevelled

\* In every phase of a bar.
ParityInv ==
    /\ native.status = "running" => ~setup.pyramid
    /\ native.cursor >= 0
    /\ native.status = "running" /\ market.phase \in {"bar", "legacy"} => native.cursor > 0
    /\ Accepted /\ market.phase \in {"bar", "legacy"} => Aligned
    /\ Accepted /\ market.phase = "native" => IF native.cursor = 0 THEN Aligned ELSE Ahead

\* Both engines begin with nothing.
LEMMA ParityStarts == ASSUME BarInit PROVE ParityInv
<1>1. /\ market.phase = "native" /\ legacy.algo = Fresh /\ legacy.pos = 0 /\ legacy.order = NoOrder
      /\ legacy.wrap = Unwatched /\ native.algo = Fresh /\ native.pos = 0 /\ native.cursor = 0
      /\ native.status = "running" => ~setup.pyramid
  BY DEF BarInit
<1>2. Aligned
  BY <1>1 DEF Aligned, Holding, Unlevelled, Unwatched
<1> QED
  BY <1>1, <1>2 DEF ParityInv

\* A fill brings what was ordered.
LEMMA ParityFill == ASSUME Given, BarTypes, ParityInv, NextBar PROVE ParityInv'
<1>1. /\ market.phase = "bar" /\ market'.phase = "legacy" /\ setup' = setup /\ native' = native
      /\ legacy.order = NoOrder => legacy' = legacy
      /\ legacy.order # NoOrder => Booked(legacy, legacy')
  BY NextBarIs
<1> SUFFICES ASSUME Accepted' PROVE Aligned'
  BY <1>1 DEF ParityInv
<1>2. CASE legacy.order = NoOrder
  BY <1>1, <1>2 DEF ParityInv, Accepted, Aligned, Unlevelled, Holding
<1>3. CASE legacy.order # NoOrder
  <2>1. /\ legacy'.algo = legacy.algo /\ legacy'.wrap = legacy.wrap /\ legacy'.order = NoOrder
        /\ Accepted /\ ~legacy'.dropped
    BY <1>1, <1>3 DEF Booked, Accepted
  <2>2. Aligned /\ ~setup.pyramid
    BY <1>1, <2>1 DEF ParityInv, Accepted
  <2>3. legacy'.pos = Holding(legacy)
    <3>1. CASE legacy.order.does = "enter" /\ legacy.order.size > 0
      <4>1. PICK lots \in Nat \ {0} :
                legacy'.pos = Dir(legacy.order.side) * lots /\ (legacy.order.size # 0 => lots = legacy.order.size)
        BY <1>3, <2>1, <2>2, <3>1, NextBarIs
      <4> QED
        BY <1>3, <3>1, <4>1 DEF Holding
    <3>2. CASE legacy.order.does = "exit" /\ legacy.order.side = "flat" /\ legacy.order.size = 0
      <4>1. legacy'.pos = 0
        BY <1>3, <3>2, NextBarIs
      <4> QED
        BY <1>3, <3>2, <4>1, DirIs DEF Holding
    <3> QED
      BY <1>3, <2>2, <3>1, <3>2 DEF Aligned, Unlevelled
  <2> QED
    BY <1>1, <2>1, <2>2, <2>3 DEF Aligned, Unlevelled, Holding
<1> QED
  BY <1>2, <1>3

\* With no levels to watch, the wrapper does what the signal says.
LEMMA ParityActs ==
    ASSUME Given, BarTypes, Aligned, PriceOK, legacy.order = NoOrder,
           NEW answer, answer.signal \in Signals, Supported(answer.signal), NEW a, Answered(a, answer),
           legacy' = Acted(a, answer.signal)
    PROVE  Holding(legacy') = Netted(native.pos, answer.signal) /\ Unlevelled'
<1> DEFINE x == answer.signal
           v == Informed(a.wrap, x)
           enter == Order("enter", x.side, x.size, market.bar.c)
           exit == Order("exit", "flat", 0, market.bar.c)
<1>1. /\ LegacyOK(a) /\ a.pos = legacy.pos /\ a.order = NoOrder /\ a.wrap = legacy.wrap
  BY DEF Answered
<1>2. native.pos = legacy.pos /\ legacy.wrap.sl = 0 /\ legacy.wrap.tp = 0
  BY DEF Aligned, Holding, Unlevelled
<1>3. x.sl = 0 /\ x.tp = 0 /\ (x.action = "enter" => native.pos = 0 /\ x.size > 0)
  BY DEF Supported
<1>4. x \in Signals /\ x.action \in {"hold", "enter", "exit"} /\ x.size \in Int
  BY DEF Signals
<1>5. /\ Position(a) =>
           IF x.action = "enter" /\ x.side = a.wrap.side THEN Moved(a, legacy', enter, v)
           ELSE IF x.action = "exit" \/ Hit(v) THEN Moved(a, legacy', exit, Unwatched)
           ELSE Moved(a, legacy', NoOrder, v)
      /\ ~Position(a) =>
           IF x.action = "enter" THEN Moved(a, legacy', enter, [side |-> x.side, sl |-> x.sl, tp |-> x.tp])
           ELSE legacy' = a
  BY <1>1, <1>4, ActedIs
<1>6. exit # NoOrder /\ exit.does = "exit" /\ exit.side = "flat" /\ exit.size = 0
  BY OrderIs DEF Places, PriceOK
<1>7. enter # NoOrder /\ enter.does = "enter" /\ enter.side = x.side /\ enter.size = x.size
  BY <1>4, OrderIs DEF Signals, PriceOK
<1> HIDE DEF enter, exit
<1>8. v.sl = 0 /\ v.tp = 0
  BY <1>1, <1>2, <1>3, <1>4, InformedIs DEF LegacyOK, Wraps, Tighter
<1>9. ~Hit(v)
  BY <1>8 DEF Hit, SameBarHit
<1> HIDE DEF v
<1>10. CASE x.action = "enter"
  <2>1. ~Position(a)
    BY <1>1, <1>2, <1>3, <1>10 DEF Position
  <2>2. Moved(a, legacy', enter, [side |-> x.side, sl |-> x.sl, tp |-> x.tp])
    BY <1>5, <1>10, <2>1
  <2> QED
    BY <1>3, <1>7, <1>10, <2>2 DEF Moved, Holding, Netted, Unlevelled
<1>11. CASE x.action = "exit"
  <2>1. Netted(native.pos, x) = 0
    BY <1>11 DEF Netted
  <2>2. CASE Position(a)
    <3>1. Moved(a, legacy', exit, Unwatched)
      BY <1>5, <1>11, <2>2
    <3>2. legacy'.order = exit /\ legacy'.wrap = Unwatched
      BY <3>1 DEF Moved
    <3>3. Holding(legacy') = 0
      BY <1>6, <3>2, DirIs DEF Holding
    <3> QED
      BY <1>6, <2>1, <3>2, <3>3 DEF Unlevelled, Unwatched
  <2>3. CASE ~Position(a)
    <3>1. legacy' = a
      BY <1>5, <1>11, <2>3
    <3> QED
      BY <1>1, <1>2, <2>1, <2>3, <3>1 DEF Position, Holding, Unlevelled
  <2> QED
    BY <2>2, <2>3
<1>12. CASE x.action = "hold"
  <2>1. Netted(native.pos, x) = native.pos
    BY <1>12 DEF Netted
  <2>2. CASE Position(a)
    <3>1. Moved(a, legacy', NoOrder, v)
      BY <1>5, <1>9, <1>12, <2>2
    <3>2. legacy'.order = NoOrder /\ legacy'.pos = a.pos /\ legacy'.wrap = v
      BY <3>1 DEF Moved
    <3> QED
      BY <1>1, <1>2, <1>8, <2>1, <3>2 DEF Holding, Unlevelled
  <2>3. CASE ~Position(a)
    <3>1. legacy' = a
      BY <1>5, <1>12, <2>3
    <3> QED
      BY <1>1, <1>2, <2>1, <2>3, <3>1 DEF Position, Holding, Unlevelled
  <2> QED
    BY <2>2, <2>3
<1> QED
  BY <1>4, <1>10, <1>11, <1>12

\* The backtester decides first.
LEMMA ParityBar == ASSUME Given, BarTypes, ParityInv, LegacyBar PROVE ParityInv'
<1> DEFINE answer == OnBar(setup.kind, legacy.algo, market.bar)
           kind == CheckAll(RiskAfter(legacy.risk, Equity(legacy, market.bar.c),
                                      IF Position(legacy) THEN 1 ELSE 0),
                            Equity(legacy, market.bar.c), setup.limits)
           free == setup.limits = NoLimits
<1>1. /\ market.phase = "legacy" /\ market' = [market EXCEPT !.phase = "native"] /\ setup' = setup
      /\ native' = native
      /\ ~free /\ kind # "none" => legacy'.breach = kind
      /\ free \/ kind = "none" =>
            \E a : Answered(a, answer) /\ legacy' = Acted(a, answer.signal)
                   /\ legacy'.breach = legacy.breach /\ legacy'.algo = answer.memory
  BY LegacyBarIs
<1>2. market'.phase = "native" /\ market'.bar = market.bar
  BY <1>1 DEF BarTypes, Markets
<1> SUFFICES ASSUME Accepted' PROVE Ahead'
  BY <1>1, <1>2 DEF ParityInv, Accepted
<1>3. free \/ kind = "none"
  BY <1>1 DEF Accepted
<1>4. PICK a : /\ Answered(a, answer) /\ legacy' = Acted(a, answer.signal)
               /\ legacy'.breach = legacy.breach /\ legacy'.algo = answer.memory
  BY <1>1, <1>3
<1> HIDE DEF free, kind
<1>5. /\ market.bar \in Bars /\ Priced(market.bar) /\ setup.kind \in Kinds /\ legacy.algo \in Memories
      /\ legacy.order = NoOrder
  BY <1>1 DEF BarTypes, LegacyOK, Markets, SetupInv, Setups
<1>6. answer.signal \in Signals
  BY <1>5, OnBarIs DEF BarTypes, Given
<1>7. PriceOK
  BY <1>5 DEF PriceOK, Priced, Bars
<1> HIDE DEF answer
<1>8. ~legacy.dropped
  <2>1. legacy' = a \/ \E order, wrap : Moved(a, legacy', order, wrap)
    BY <1>4, <1>6, <1>7, ActedIs DEF Answered
  <2> QED
    BY <1>4, <2>1 DEF Answered, Moved, Accepted
<1>9. Accepted
  BY <1>1, <1>4, <1>8 DEF Accepted
<1>10. Aligned
  BY <1>1, <1>9 DEF ParityInv
<1>11. Supported(answer.signal) => Holding(legacy') = Netted(native.pos, answer.signal) /\ Unlevelled'
  BY <1>4, <1>5, <1>6, <1>7, <1>10, ParityActs
<1>12. OnBar(setup'.kind, native'.algo, market'.bar) = answer
  <2>1. native.algo = legacy.algo
    BY <1>10 DEF Aligned
  <2> QED
    BY <1>1, <1>2, <2>1 DEF answer
<1>13. Supported(answer.signal) <=>
        /\ answer.signal.sl = 0 /\ answer.signal.tp = 0
        /\ answer.signal.action = "enter" => native'.pos = 0 /\ answer.signal.size > 0
  BY <1>1 DEF Supported
<1>14. Holding(legacy)' = Holding(legacy')
  BY DEF Holding
<1> QED
  BY <1>1, <1>4, <1>11, <1>12, <1>13, <1>14 DEF Ahead, Supported

\* The native engine follows.
LEMMA ParityFollows == ASSUME Given, BarTypes, ParityInv, NativeBar PROVE ParityInv'
<1> DEFINE answer == OnBar(setup.kind, native.algo, market.bar)
<1>1. /\ market.phase = "native" /\ setup' = setup /\ legacy' = legacy /\ market'.phase = "bar"
      /\ native.status # "running" => native' = native
      /\ native.status = "running" /\ native.cursor = 0 =>
            native'.algo = native.algo /\ native'.pos = native.pos /\ native'.cursor = 1
            /\ native'.status = "running"
      /\ native.status = "running" /\ native.cursor # 0 =>
            /\ native'.algo = answer.memory /\ native'.cursor = native.cursor + 1
            /\ native'.pos = Netted(native.pos, answer.signal)
            /\ native'.status = (IF Supported(answer.signal) THEN "running" ELSE "refused")
  BY NativeBarIs
<1>2. native.cursor \in Int /\ native.cursor >= 0 /\ (native.status = "running" => ~setup.pyramid)
  BY DEF BarTypes, Natives, ParityInv
<1>3. Accepted' => Accepted
  BY <1>1 DEF Accepted
<1> HIDE DEF answer
<1>4. /\ native'.status = "running" => ~setup'.pyramid
      /\ native'.cursor >= 0 /\ (native'.status = "running" => native'.cursor > 0)
  BY <1>1, <1>2
<1>5. ASSUME Accepted' PROVE Aligned'
  <2>1. Accepted /\ native.status = "running"
    BY <1>3, <1>5 DEF Accepted
  <2>2. CASE native.cursor = 0
    <3>1. Aligned
      BY <1>1, <2>1, <2>2 DEF ParityInv
    <3> QED
      BY <1>1, <2>1, <2>2, <3>1 DEF Aligned, Holding, Unlevelled
  <2>3. CASE native.cursor # 0
    <3>1. Ahead /\ Supported(answer.signal)
      BY <1>1, <1>5, <2>1, <2>3 DEF ParityInv, Accepted
    <3>2. legacy.algo = answer.memory /\ Holding(legacy) = Netted(native.pos, answer.signal) /\ Unlevelled
      BY <3>1 DEF Ahead, answer
    <3> QED
      BY <1>1, <2>1, <2>3, <3>2 DEF Aligned, Holding, Unlevelled
  <2> QED
    BY <2>2, <2>3
<1> QED
  BY <1>1, <1>4, <1>5 DEF ParityInv

\* Every step keeps the engines together.
LEMMA ParityStep == ASSUME Given, BarTypes, ParityInv, [BarNext]_barVars PROVE ParityInv'
<1>1. CASE NextBar
  BY <1>1, ParityFill
<1>2. CASE LegacyBar
  BY <1>2, ParityBar
<1>3. CASE NativeBar
  BY <1>3, ParityFollows
<1>4. CASE Report
  BY <1>4, ReportIs DEF ParityInv
<1>5. CASE UNCHANGED barVars
  <2>1. market' = market /\ setup' = setup /\ legacy' = legacy /\ native' = native
    BY <1>5 DEF barVars
  <2> QED
    BY <2>1 DEF ParityInv, Accepted, Aligned, Ahead, Holding, Unlevelled, OnBar, Supported
<1> QED
  BY <1>1, <1>2, <1>3, <1>4, <1>5 DEF BarNext

\* As long as the native engine accepts what a strategy asks, both engines
\* remember and hold the same after every bar, whatever strategy and prices.
THEOREM EnginesAgree == BarSpec => []TierOneParity
<1>1. BarInit => BarTypes /\ ParityInv
  BY GivenHolds, TypeStarts, ParityStarts
<1>2. BarTypes /\ ParityInv /\ [BarNext]_barVars => BarTypes' /\ ParityInv'
  BY GivenHolds, TypeStep, ParityStep
<1>3. ParityInv => TierOneParity
  BY DEF ParityInv, TierOneParity, Accepted, Aligned, Holding
<1> QED
  BY <1>1, <1>2, <1>3, PTL DEF BarSpec

----------------------------------------------------------------------------
(* The limits halt the run where they break.                               *)

\* The first bar f of the day of bar j of the run.
Today(j) == {i \in 1 .. j : NormalizeDay(i + 1) = NormalizeDay(j + 1)}
Opens(f, j) == f \in Today(j) /\ \A k \in Today(j) : f <= k

\* BrokenAt, of any equities and limits.
Breaks(equity, j, limits) ==
    \/ \E i \in 1 .. j : Lost(equity[i], equity[j], limits.drawdown)
    \/ Lost(equity[CHOOSE i \in Today(j) : \A k \in Today(j) : i <= k], equity[j], limits.daily)

\* It is what the property speaks of.
LEMMA BrokenIs ==
    /\ \A j : BrokenAt(j) <=> Breaks(past.equity, j, setup.limits)
    /\ \A j : BrokenAt(j)' <=> Breaks(past'.equity, j, setup'.limits)
<1>1. ASSUME NEW j PROVE BrokenAt(j) <=> Breaks(past.equity, j, setup.limits)
  BY DEF BrokenAt, Breaks, Today
<1>2. ASSUME NEW j PROVE BrokenAt(j)' <=> Breaks(past'.equity, j, setup'.limits)
  BY DEF BrokenAt, Breaks, Today
<1> QED
  BY <1>1, <1>2

\* What the state of the limits says of the bars seen.
Follows(risk, equity) ==
    /\ \E i \in 1 .. Len(equity) : risk.peak = equity[i]
    /\ \A i \in 1 .. Len(equity) : risk.peak >= equity[i]
    /\ risk.day = NormalizeDay(Len(equity) + 1)
    /\ \E f \in 1 .. Len(equity) : Opens(f, Len(equity)) /\ risk.start = equity[f]

\* What the limits keep, and what they have said so far.
HaltInv ==
    /\ setup.limits = NoLimits => past.equity = <<>>
    /\ setup.limits # NoLimits =>
        /\ Decided => market.n = Len(past.equity) + 1
        /\ market.phase = "legacy" => market.n = Len(past.equity) + 2 /\ legacy.breach = "none"
        /\ \A j \in 1 .. Len(past.equity) : \E f \in 1 .. j : Opens(f, j)
        /\ Len(past.equity) = 0 => legacy.risk = NoOrder /\ legacy.breach = "none"
        /\ Len(past.equity) > 0 => legacy.risk \in Risks /\ Follows(legacy.risk, past.equity)
        /\ setup.limits.positions < 0 =>
            /\ \A j \in 1 .. Len(past.equity) - 1 : ~Breaks(past.equity, j, setup.limits)
            /\ Len(past.equity) > 0 =>
                (legacy.breach # "none" <=> Breaks(past.equity, Len(past.equity), setup.limits))

\* Days follow each other.
LEMMA DaysGrow ==
    ASSUME DayAssumption, NEW i \in Int, NEW j \in Int, i <= j
    PROVE  NormalizeDay(i) <= NormalizeDay(j) /\ NormalizeDay(i) \in Int
<1> DEFINE x == i + Offset
           y == j + Offset
<1>1. x \in Int /\ y \in Int /\ x <= y /\ DayLength \in Nat \ {0}
  BY DEF DayAssumption
<1>2. NormalizeDay(i) = x \div DayLength /\ NormalizeDay(j) = y \div DayLength
  BY DEF NormalizeDay
<1> HIDE DEF x, y
<1> QED
  BY <1>1, <1>2

\* A day opens once.
LEMMA OpensOnce ==
    ASSUME NEW j \in Nat, NEW f \in 1 .. j, Opens(f, j)
    PROVE  f = CHOOSE i \in Today(j) : \A k \in Today(j) : i <= k
<1> DEFINE g == CHOOSE i \in Today(j) : \A k \in Today(j) : i <= k
<1>1. f \in Today(j) /\ \A k \in Today(j) : f <= k
  BY DEF Opens
<1>2. g \in Today(j) /\ \A k \in Today(j) : g <= k
  BY <1>1
<1> HIDE DEF g
<1>3. f \in Int /\ g \in Int /\ f <= g /\ g <= f
  BY <1>1, <1>2 DEF Today
<1> QED
  BY <1>3 DEF g

\* The next bar opens a day, or belongs to the day that is open.
LEMMA OpensNext ==
    ASSUME DayAssumption, NEW j \in Nat
    PROVE  /\ \A f \in 1 .. j : Opens(f, j) /\ NormalizeDay(j + 2) = NormalizeDay(j + 1) => Opens(f, j + 1)
           /\ j = 0 \/ NormalizeDay(j + 2) # NormalizeDay(j + 1) => Opens(j + 1, j + 1)
<1>1. ASSUME NEW f \in 1 .. j, Opens(f, j), NormalizeDay(j + 2) = NormalizeDay(j + 1)
      PROVE  Opens(f, j + 1)
  <2>1. f \in 1 .. j + 1 /\ NormalizeDay(f + 1) = NormalizeDay(j + 2)
    BY <1>1 DEF Opens, Today
  <2>2. ASSUME NEW k \in 1 .. j + 1, NormalizeDay(k + 1) = NormalizeDay(j + 2)
        PROVE  f <= k
    <3>1. CASE k = j + 1
      BY <3>1
    <3>2. CASE k # j + 1
      <4>1. k \in Today(j)
        BY <1>1, <2>2, <3>2 DEF Today
      <4> QED
        BY <1>1, <4>1 DEF Opens
    <3> QED
      BY <3>1, <3>2
  <2>3. (j + 1) + 1 = j + 2
    OBVIOUS
  <2> QED
    BY <2>1, <2>2, <2>3 DEF Opens, Today
<1>2. ASSUME j = 0 \/ NormalizeDay(j + 2) # NormalizeDay(j + 1)
      PROVE  Opens(j + 1, j + 1)
  <2>1. (j + 1) + 1 = j + 2
    OBVIOUS
  <2>2. ASSUME NEW k \in 1 .. j + 1, NormalizeDay(k + 1) = NormalizeDay(j + 2)
        PROVE  j + 1 <= k
    <3> SUFFICES ASSUME k <= j PROVE FALSE
      OBVIOUS
    <3>1. /\ NormalizeDay(k + 1) <= NormalizeDay(j + 1) /\ NormalizeDay(j + 1) <= NormalizeDay(j + 2)
          /\ NormalizeDay(j + 1) \in Int /\ NormalizeDay(j + 2) \in Int
      BY DaysGrow
    <3> QED
      BY <1>2, <2>2, <3>1
  <2> QED
    BY <2>1, <2>2 DEF Opens, Today
<1> QED
  BY <1>1, <1>2

\* What is longer still says the same of the bars before.
LEMMA BreaksBefore ==
    ASSUME NEW equity \in Seq(Int), NEW x \in Int, NEW limits, NEW j \in 1 .. Len(equity),
           NEW f \in 1 .. j, Opens(f, j)
    PROVE  Breaks(Append(equity, x), j, limits) <=> Breaks(equity, j, limits)
<1>1. f = CHOOSE i \in Today(j) : \A k \in Today(j) : i <= k
  BY OpensOnce
<1>2. \A i \in 1 .. j : Append(equity, x)[i] = equity[i]
  OBVIOUS
<1>3. j \in 1 .. j
  OBVIOUS
<1> QED
  BY <1>1, <1>2, <1>3 DEF Breaks

\* The state of the limits follows the bars.
LEMMA RiskFollows ==
    ASSUME DayAssumption, NEW equity \in Seq(Int), NEW x \in Int, NEW open \in {0, 1},
           market.n = Len(equity) + 2, market \in Markets, NEW risk \in Risks \cup {NoOrder},
           Len(equity) = 0 => risk = NoOrder,
           Len(equity) > 0 => risk \in Risks /\ Follows(risk, equity)
    PROVE  LET z == RiskAfter(risk, x, open)
           IN  z \in Risks /\ Follows(z, Append(equity, x))
<1> DEFINE z == RiskAfter(risk, x, open)
           n == Len(equity)
           more == Append(equity, x)
<1>1. /\ n \in Nat /\ Len(more) = n + 1 /\ more[n + 1] = x
      /\ \A i \in 1 .. n : more[i] = equity[i] /\ equity[i] \in Int
  OBVIOUS
<1>2. z \in Risks
  BY RiskIs
<1> HIDE DEF more
<1>3. CASE n = 0
  <2>1. z.peak = x /\ z.start = x /\ z.day = NormalizeDay(n + 2)
    BY <1>3 DEF RiskAfter, InitState
  <2>2. Opens(1, 1)
    <3>1. Opens(0 + 1, 0 + 1)
      BY OpensNext
    <3> QED
      BY <3>1
  <2> HIDE DEF z
  <2>3. Len(more) = 1 /\ more[1] = x /\ z.day = NormalizeDay(Len(more) + 1)
    BY <1>1, <1>3, <2>1
  <2>4. Follows(z, more)
    BY <2>1, <2>2, <2>3 DEF Follows, Risks
  <2> QED
    BY <1>2, <2>4 DEF z, more
<1>4. CASE n > 0
  <2>1. risk \in Risks /\ risk # NoOrder /\ Follows(risk, equity)
    BY <1>4, Something
  <2>2. /\ z.peak = (IF x > risk.peak THEN x ELSE risk.peak)
        /\ z.start = (IF NormalizeDay(n + 2) # risk.day THEN x ELSE risk.start)
        /\ z.day = NormalizeDay(n + 2)
    BY <2>1 DEF RiskAfter, UpdateState
  <2> HIDE DEF z, n
  <2>3. PICK i \in 1 .. n : risk.peak = equity[i]
    BY <2>1 DEF Follows, n
  <2>4. PICK f \in 1 .. n : Opens(f, n) /\ risk.start = equity[f]
    BY <2>1 DEF Follows, n
  <2>5. risk.peak \in Int /\ risk.day = NormalizeDay(n + 1) /\ \A k \in 1 .. n : risk.peak >= equity[k]
    BY <2>1 DEF Follows, Risks, n
  <2>6. \E k \in 1 .. n + 1 : z.peak = more[k]
    <3>1. CASE x > risk.peak
      BY <1>1, <2>2, <3>1
    <3>2. CASE ~(x > risk.peak)
      BY <1>1, <2>2, <2>3, <3>2
    <3> QED
      BY <3>1, <3>2
  <2>7. ASSUME NEW k \in 1 .. n + 1 PROVE z.peak >= more[k]
    <3>1. CASE k = n + 1
      BY <1>1, <2>2, <2>5, <3>1
    <3>2. CASE k # n + 1
      <4>1. k \in 1 .. n /\ more[k] = equity[k] /\ equity[k] \in Int /\ risk.peak >= equity[k]
        BY <1>1, <2>5, <3>2
      <4> QED
        BY <2>2, <2>5, <4>1
    <3> QED
      BY <3>1, <3>2
  <2>8. \E g \in 1 .. n + 1 : Opens(g, n + 1) /\ z.start = more[g]
    <3>1. CASE NormalizeDay(n + 2) # risk.day
      <4>1. Opens(n + 1, n + 1)
        BY <1>1, <2>5, <3>1, OpensNext
      <4> QED
        BY <1>1, <2>2, <3>1, <4>1
    <3>2. CASE NormalizeDay(n + 2) = risk.day
      <4>1. Opens(f, n + 1)
        BY <1>1, <2>4, <2>5, <3>2, OpensNext
      <4>2. f \in 1 .. n + 1 /\ z.start = more[f]
        BY <1>1, <2>2, <2>4, <3>2
      <4> QED
        BY <4>1, <4>2
    <3> QED
      BY <3>1, <3>2
  <2>9. z.day = NormalizeDay(Len(more) + 1)
    <3>1. Len(more) + 1 = n + 2
      BY <1>1
    <3> QED
      BY <2>2, <3>1
  <2>10. Follows(z, more)
    BY <1>1, <2>6, <2>7, <2>8, <2>9 DEF Follows
  <2> QED
    BY <1>2, <2>10 DEF z, more
<1> QED
  BY <1>1, <1>3, <1>4

\* A larger reference loses more.
LEMMA LostMore ==
    ASSUME NEW limit \in {0, 20, 30}, NEW a \in Int, NEW x \in Int, NEW e \in Int, a >= x, Lost(x, e, limit)
    PROVE  Lost(a, e, limit)
BY DEF Lost

\* The gate says what the limits say by their definition.
LEMMA ChecksFollow ==
    ASSUME NEW limits \in Limits, limits.positions < 0, NEW equity \in Seq(Int), NEW risk \in Risks,
           Len(equity) > 0, Follows(risk, equity)
    PROVE  CheckAll(risk, equity[Len(equity)], limits) # "none" <=> Breaks(equity, Len(equity), limits)
<1> DEFINE n == Len(equity)
           e == equity[n]
<1>1. n \in Nat \ {0} /\ e \in Int /\ \A i \in 1 .. n : equity[i] \in Int
  OBVIOUS
<1> HIDE DEF n
<1>2. limits.drawdown \in {0, 20, 30} /\ limits.daily \in {0, 20, 30} /\ limits.positions \in Int
  BY DEF Limits
<1>3. PICK top \in 1 .. n : risk.peak = equity[top]
  BY DEF Follows, n
<1>4. PICK f \in 1 .. n : Opens(f, n) /\ risk.start = equity[f]
  BY DEF Follows, n
<1>5. f = CHOOSE i \in Today(n) : \A k \in Today(n) : i <= k
  BY <1>1, <1>4, OpensOnce
<1>6. Lost(risk.peak, e, limits.drawdown) <=> \E i \in 1 .. n : Lost(equity[i], e, limits.drawdown)
  <2>1. ASSUME NEW i \in 1 .. n, Lost(equity[i], e, limits.drawdown)
        PROVE  Lost(risk.peak, e, limits.drawdown)
    <3>1. risk.peak >= equity[i] /\ risk.peak \in Int /\ equity[i] \in Int
      BY <1>1 DEF Follows, Risks, n
    <3> QED
      BY <1>1, <1>2, <2>1, <3>1, LostMore
  <2> QED
    BY <1>3, <2>1
<1>7. ~CheckPositions(risk, limits)
  BY <1>2 DEF CheckPositions
<1>8. CheckAll(risk, e, limits) # "none" <=> CheckDrawdown(risk, e, limits) \/ CheckDailyLoss(risk, e, limits)
  BY <1>7, ChecksAre
<1>9. Breaks(equity, n, limits) <=>
        (\E i \in 1 .. n : Lost(equity[i], e, limits.drawdown)) \/ Lost(equity[f], e, limits.daily)
  BY <1>5 DEF Breaks
<1> QED
  BY <1>4, <1>6, <1>8, <1>9 DEF CheckDrawdown, CheckDailyLoss, n

\* No bar has been seen.
LEMMA HaltStarts == ASSUME BarInit PROVE HaltInv
<1>1. /\ market.n = 1 /\ market.phase = "native" /\ past.equity = <<>>
      /\ legacy.risk = NoOrder /\ legacy.breach = "none"
  BY DEF BarInit
<1>2. Len(past.equity) = 0
  BY <1>1
<1> QED
  BY <1>1, <1>2 DEF HaltInv, Decided

\* A bar of the backtester is checked.
LEMMA HaltBar == ASSUME Given, BarTypes, HaltInv, LegacyBar PROVE HaltInv'
<1> DEFINE x == Equity(legacy, market.bar.c)
           open == IF Position(legacy) THEN 1 ELSE 0
           risk == RiskAfter(legacy.risk, x, open)
           kind == CheckAll(risk, x, setup.limits)
           e == past.equity
           n == Len(e)
           more == Append(e, x)
<1>1. /\ market.phase = "legacy" /\ market' = [market EXCEPT !.phase = "native"]
      /\ setup' = setup /\ x \in Int
      /\ setup.limits = NoLimits => past'.equity = <<>>
      /\ setup.limits # NoLimits => past'.equity = more /\ legacy'.risk = risk
      /\ setup.limits # NoLimits /\ kind # "none" => legacy'.breach = kind
      /\ setup.limits # NoLimits /\ kind = "none" => legacy'.breach = legacy.breach
  BY LegacyBarIs
<1>2. market'.n = market.n /\ market'.phase = "native" /\ market \in Markets
  BY <1>1 DEF BarTypes, Markets
<1> SUFFICES ASSUME setup.limits # NoLimits PROVE HaltInv'
  BY <1>1 DEF HaltInv
<1>3. /\ e \in Seq(Int) /\ setup.limits \in Limits /\ legacy.risk \in Risks \cup {NoOrder}
      /\ open \in {0, 1}
  BY DEF BarTypes, SetupInv, Setups, LegacyOK
<1>4. /\ market.n = n + 2 /\ legacy.breach = "none"
      /\ \A j \in 1 .. n : \E f \in 1 .. j : Opens(f, j)
      /\ n = 0 => legacy.risk = NoOrder
      /\ n > 0 => legacy.risk \in Risks /\ Follows(legacy.risk, e)
      /\ setup.limits.positions < 0 =>
           /\ \A j \in 1 .. n - 1 : ~Breaks(e, j, setup.limits)
           /\ n > 0 => (legacy.breach # "none" <=> Breaks(e, n, setup.limits))
  BY <1>1 DEF HaltInv
<1> HIDE DEF x, open
<1>5. risk \in Risks /\ Follows(risk, more)
  BY <1>1, <1>2, <1>3, <1>4, RiskFollows DEF Given
<1> HIDE DEF risk
<1>6. n \in Nat /\ Len(more) = n + 1 /\ more[n + 1] = x /\ more \in Seq(Int)
  BY <1>1, <1>3
<1>7. \A j \in 1 .. n + 1 : \E f \in 1 .. j : Opens(f, j)
  <2>1. PICK f \in 1 .. Len(more) : Opens(f, Len(more))
    BY <1>5 DEF Follows
  <2> HIDE DEF n, more
  <2>2. f \in 1 .. n + 1 /\ Opens(f, n + 1)
    BY <1>6, <2>1
  <2>3. ASSUME NEW j \in 1 .. n + 1 PROVE \E g \in 1 .. j : Opens(g, j)
    <3>1. CASE j = n + 1
      BY <2>2, <3>1
    <3>2. CASE j # n + 1
      <4>1. j \in 1 .. n
        BY <1>6, <3>2
      <4> QED
        BY <1>4, <4>1
    <3> QED
      BY <3>1, <3>2
  <2> QED
    BY <2>3
<1>8. ASSUME setup.limits.positions < 0
      PROVE  /\ \A j \in 1 .. n : ~Breaks(more, j, setup.limits)
             /\ legacy'.breach # "none" <=> Breaks(more, n + 1, setup.limits)
  <2>1. ASSUME NEW j \in 1 .. n PROVE ~Breaks(more, j, setup.limits)
    <3>1. ~Breaks(e, j, setup.limits)
      <4> HIDE DEF n
      <4> QED
        BY <1>4, <1>6, <1>8
    <3>2. PICK f \in 1 .. j : Opens(f, j)
      BY <1>4
    <3> QED
      BY <1>1, <1>3, <3>1, <3>2, BreaksBefore
  <2>2. kind # "none" <=> Breaks(more, n + 1, setup.limits)
    <3> HIDE DEF more, n
    <3>1. Len(more) > 0
      BY <1>6
    <3>2. CheckAll(risk, more[Len(more)], setup.limits) # "none" <=> Breaks(more, Len(more), setup.limits)
      BY <1>3, <1>5, <1>6, <1>8, <3>1, ChecksFollow
    <3> QED
      BY <1>6, <3>2
  <2> HIDE DEF kind, more, n
  <2> QED
    BY <1>1, <1>4, <2>1, <2>2
<1> HIDE DEF more, n, kind
<1>9. (n + 1) - 1 = n /\ n + 1 > 0 /\ n + 2 = (n + 1) + 1
  BY <1>6
<1>10. /\ past'.equity = more /\ legacy'.risk = risk
  BY <1>1
<1>11. Decided' /\ market'.n = Len(more) + 1 /\ market'.phase # "legacy"
  BY <1>2, <1>4, <1>6, <1>9 DEF Decided
<1> QED
  BY <1>1, <1>5, <1>6, <1>7, <1>8, <1>9, <1>10, <1>11 DEF HaltInv

\* Every step keeps the limits to their definition.
LEMMA HaltStep == ASSUME Given, BarTypes, HaltInv, [BarNext]_barVars PROVE HaltInv'
<1>1. CASE NextBar
  <2>1. /\ market.phase = "bar" /\ market'.phase = "legacy" /\ market'.n = market.n + 1 /\ setup' = setup
        /\ past' = past /\ legacy'.risk = legacy.risk /\ legacy'.breach = legacy.breach
        /\ legacy.breach = "none"
    BY <1>1, NextBarIs DEF Booked
  <2>2. Len(past.equity) \in Nat
    BY DEF BarTypes
  <2> QED
    BY <2>1, <2>2 DEF HaltInv, Decided
<1>2. CASE LegacyBar
  BY <1>2, HaltBar
<1>3. CASE NativeBar
  BY <1>3, NativeBarIs DEF HaltInv, Decided
<1>4. CASE Report
  BY <1>4, ReportIs DEF HaltInv, Decided
<1>5. CASE UNCHANGED barVars
  <2>1. market' = market /\ setup' = setup /\ legacy' = legacy /\ past' = past
    BY <1>5 DEF barVars
  <2> QED
    BY <2>1 DEF HaltInv, Decided
<1> QED
  BY <1>1, <1>2, <1>3, <1>4, <1>5 DEF BarNext

\* A run with loss limits halts at the first bar that breaks one by its
\* definition, and at no other: whatever the equities, the length of a day
\* and the offset of local time.
THEOREM LimitsHalt == BarSpec => []HaltedAtFirstBreach
<1>1. BarInit => BarTypes /\ HaltInv
  BY GivenHolds, TypeStarts, HaltStarts
<1>2. BarTypes /\ HaltInv /\ [BarNext]_barVars => BarTypes' /\ HaltInv'
  BY GivenHolds, TypeStep, HaltStep
<1>3. BarTypes /\ HaltInv => HaltedAtFirstBreach
  <2> SUFFICES ASSUME BarTypes, HaltInv, Decided, past.equity # <<>>, setup.limits.positions < 0
               PROVE  /\ \A j \in 1 .. Len(past.equity) - 1 : ~BrokenAt(j)
                      /\ legacy.breach # "none" <=> BrokenAt(Len(past.equity))
    BY DEF HaltedAtFirstBreach
  <2>1. past.equity \in Seq(Int) /\ Len(past.equity) > 0
    BY DEF BarTypes
  <2> QED
    BY <2>1, BrokenIs DEF HaltInv
<1> QED
  BY <1>1, <1>2, <1>3, PTL DEF BarSpec
=============================================================================
