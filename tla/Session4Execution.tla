------------------------- MODULE Session4Execution -------------------------
(***************************************************************************)
(* engine/mr_session4_execution.py: one development run of the mastermind  *)
(* machine, hour by hour, under a margin monitor that checks every         *)
(* exposure against the adverse mark price of its hour, a controller that  *)
(* closes the position before the data ends, and a ledger of invariants    *)
(* that must hold before there is an artifact.                             *)
(*                                                                         *)
(*   desk     the hour (of hours), the phase of its bar's callback, and    *)
(*            what machine and venue show: pos, entry and exit orders      *)
(*   monitor  carried, overlap, the liquidation (its hour), counts         *)
(*   result   the artifact or the error                                    *)
(*   audit    auxiliary: the positions held in this hour, the hours past,  *)
(*            whether an entry was filled after the cutoff                 *)
(* The machine is reduced to what it may do here (Mastermind has it        *)
(* whole).  A market order fills inside the callback that sent it or after.*)
(***************************************************************************)
EXTENDS Integers, Sequences, SequencesExt

CONSTANTS
    MaxHours,       \* bound: hours of data
    EntryPrice,     \* every entry is at this price
    SetupEquity,    \* equity a setup starts with
    MaxLots,        \* bound: lots of a position
    Marks           \* mark prices of an hour: [low, high]

ASSUME ExecutionAssumption ==
    /\ {MaxHours, EntryPrice, SetupEquity, MaxLots} \subseteq Nat \ {0}
    /\ \A mark \in Marks : mark.low <= EntryPrice /\ EntryPrice <= mark.high

VARIABLES desk, monitor, result, audit

deskVars == <<desk, monitor, result, audit>>

NoPosition == <<>>
CutoffHour == desk.hours - 1
After == desk.hour > desk.hours

----------------------------------------------------------------------------
(* microstructure.liquidation_check, with no maintenance margin.           *)

\* entry notional / effective leverage
Margin(s) == IF s.lots * EntryPrice <= SetupEquity THEN s.lots * EntryPrice ELSE SetupEquity

\* A fully funded long cannot be liquidated: its threshold is 0.
Crosses(s, mark) ==
    IF s.side = "long" THEN s.lots * mark.low <= s.lots * EntryPrice - Margin(s)
    ELSE s.lots * mark.high >= s.lots * EntryPrice + Margin(s)

----------------------------------------------------------------------------
(* Fills, and what the monitor hears of them.                              *)

Snapshot(pos) == IF pos = NoPosition THEN <<>> ELSE <<pos>>

\* PositionChanged or PositionClosed; a close cancels what is left.
Moved(pos) ==
    /\ desk' = IF pos = NoPosition THEN [desk EXCEPT !.pos = pos, !.entry = "none", !.exit = "none"]
               ELSE [desk EXCEPT !.pos = pos, !.entry = IF @ = "sent" THEN "none" ELSE @]
    /\ monitor' = [monitor EXCEPT !.overlap = @ \o Snapshot(pos)]
    /\ audit' = [audit EXCEPT !.held = @ \cup ToSet(Snapshot(pos)),
                              !.late = @ \/ (desk.entry = "sent" /\ pos # NoPosition /\ desk.hour > CutoffHour)]
    /\ UNCHANGED result

\* The base of a setup, or its add-on.
EntryFills ==
    /\ desk.phase \in {"hour", "check"} /\ desk.entry = "sent"
    /\ \E lots \in 1 .. MaxLots :
        IF desk.pos = NoPosition
        THEN Moved([setup |-> desk.hour, side |-> desk.side, lots |-> lots])
        ELSE /\ desk.pos.lots + lots <= MaxLots
             /\ Moved([desk.pos EXCEPT !.lots = @ + lots])

\* A protective order is touched within the hour.
ProtectionFills ==
    /\ desk.phase = "hour" /\ ~After /\ desk.pos # NoPosition /\ desk.entry # "sent"
    /\ \E lots \in 1 .. desk.pos.lots :
        Moved(IF lots = desk.pos.lots THEN NoPosition ELSE [desk.pos EXCEPT !.lots = @ - lots])

\* Orders fill in the order they were sent.
ExitFills ==
    /\ desk.phase \in {"hour", "check"} /\ desk.exit = "sent" /\ desk.entry # "sent" /\ desk.pos # NoPosition
    /\ Moved(NoPosition)

----------------------------------------------------------------------------
(* _ingest_primary_bar: send what was scheduled, ask the controller,       *)
(* deliver the bar.                                                        *)

Sent(order) == IF order = "scheduled" THEN "sent" ELSE order

SendScheduled ==
    /\ desk.phase = "hour" /\ ~After
    /\ desk' = [desk EXCEPT !.phase = "check", !.entry = Sent(@), !.exit = Sent(@)]
    /\ UNCHANGED <<monitor, result, audit>>

\* Mutant: the position of the last bar is not remembered.
CandidatesForgotten == monitor.overlap \o Snapshot(desk.pos)

Candidates == monitor.carried \o monitor.overlap \o Snapshot(desk.pos)

Hits(mark) == {i \in DOMAIN Candidates : Crosses(Candidates[i], mark)}

\* CausalIsolatedMarginMonitor.before_bar; after a liquidation it only counts.
Checked(mark) ==
    IF monitor.liquidation # 0 THEN [monitor EXCEPT !.bars = @ + 1]
    ELSE [monitor EXCEPT !.bars = @ + 1, !.overlap = <<>>, !.carried = Snapshot(desk.pos),
                         !.liquidation = IF Hits(mark) = {} THEN 0 ELSE desk.hour]

\* The first hit decides.  A position that is gone, or another one, is not
\* closed for it.
Liquidates(mark) ==
    /\ monitor.liquidation = 0 /\ desk.pos # NoPosition
    /\ \E i \in Hits(mark) : /\ \A j \in Hits(mark) : i <= j
                             /\ desk.pos.setup = Candidates[i].setup

\* Mutant: the cutoff closes a liquidated run again.
CutsOffAlways(m) == desk.hour = CutoffHour

CutsOff(m) == desk.hour = CutoffHour /\ m.liquidation = 0

\* Mutant: bars are delivered after a liquidation.
DeliversOn(m) == desk.hour < CutoffHour

Delivers(m) == m.liquidation = 0 /\ desk.hour < CutoffHour

\* The machine's answer to CloseRequested: entries are withdrawn; a manual
\* close waits for the next bar, one for a liquidation does not.
Closing(d, order) ==
    IF d.pos = NoPosition THEN d
    ELSE [d EXCEPT !.exit = IF order = "scheduled" /\ @ # "none" THEN @ ELSE order,
                   !.entry = IF @ = "scheduled" THEN "none" ELSE @]

Next4(d, delivered) ==
    IF delivered THEN [d EXCEPT !.phase = "deliver"] ELSE [d EXCEPT !.phase = "hour", !.hour = @ + 1]

BeforeBar ==
    /\ desk.phase = "check"
    /\ \E mark \in Marks :
       \E m \in {Checked(mark)} :
        /\ desk' = Next4(CASE Liquidates(mark) -> Closing(desk, "sent")
                           [] ~Liquidates(mark) /\ CutsOff(m) -> Closing(desk, "scheduled")
                           [] OTHER -> desk, Delivers(m))
        /\ monitor' = [m EXCEPT !.manual = @ + (IF ~Liquidates(mark) /\ CutsOff(m) THEN 1 ELSE 0),
                                !.delivered = @ + (IF Delivers(m) THEN 1 ELSE 0)]
        /\ audit' = [audit EXCEPT !.hours = Append(@, [held |-> audit.held, mark |-> mark]),
                                  !.held = ToSet(Snapshot(desk.pos))]
    /\ UNCHANGED result

\* What the machine may decide on a bar.
Decides(d) ==
    {d} \cup
    (IF d.pos = NoPosition /\ d.entry = "none"
     THEN {[d EXCEPT !.entry = "scheduled", !.side = side] : side \in {"long", "short"}} ELSE {}) \cup
    (IF d.pos # NoPosition /\ d.exit = "none" /\ d.entry = "none"
     THEN {[d EXCEPT !.exit = "scheduled"]}
          \cup (IF d.pos.lots < MaxLots THEN {[d EXCEPT !.entry = "scheduled"]} ELSE {}) ELSE {})

DeliverBar ==
    /\ desk.phase = "deliver"
    /\ \E d \in Decides(desk) : desk' = [d EXCEPT !.phase = "hour", !.hour = @ + 1]
    /\ UNCHANGED <<monitor, result, audit>>

----------------------------------------------------------------------------
(* The end of the run.                                                     *)

\* _development_exit_policy
ExpectedManual == IF monitor.liquidation = 0 \/ monitor.liquidation > CutoffHour THEN 1 ELSE 0

\* _build_invariant_ledger
LedgerHolds ==
    /\ desk.pos = NoPosition /\ desk.entry = "none" /\ desk.exit = "none"
    /\ monitor.manual > 0 \/ monitor.liquidation # 0
    /\ monitor.manual = ExpectedManual
    /\ monitor.bars = desk.hours
    /\ monitor.delivered <= desk.hours - 2

\* A liquidation leaves the artifact without economic metrics.
Finish4 ==
    /\ desk.phase = "hour" /\ After /\ desk.entry # "sent" /\ desk.exit # "sent"
    /\ desk' = [desk EXCEPT !.phase = "done"]
    /\ result' = IF ~LedgerHolds THEN "error"
                 ELSE IF monitor.liquidation # 0 THEN "liquidated" ELSE "metrics"
    /\ UNCHANGED <<monitor, audit>>

----------------------------------------------------------------------------
DeskInit ==
    /\ \E hours \in 2 .. MaxHours :
        desk = [hours |-> hours, hour |-> 1, phase |-> "hour", pos |-> NoPosition,
                side |-> "long", entry |-> "none", exit |-> "none"]
    /\ monitor = [carried |-> <<>>, overlap |-> <<>>, liquidation |-> 0, bars |-> 0, manual |-> 0, delivered |-> 0]
    /\ result = "none"
    /\ audit = [held |-> {}, hours |-> <<>>, late |-> FALSE]

DeskNext ==
    \/ EntryFills \/ ProtectionFills \/ ExitFills
    \/ SendScheduled \/ BeforeBar \/ DeliverBar
    \/ Finish4

DeskSpec == DeskInit /\ [][DeskNext]_deskVars

----------------------------------------------------------------------------
(* Properties.                                                             *)

CrossedIn(h) == \E s \in audit.hours[h].held : Crosses(s, audit.hours[h].mark)

\* The monitor liquidates in the first hour in which a position held at any
\* moment of it, if only for a part of the hour, crossed the adverse mark,
\* and in no other.
LiquidationIsCausal ==
    /\ monitor.liquidation # 0 => CrossedIn(monitor.liquidation)
    /\ \A h \in DOMAIN audit.hours : CrossedIn(h) => monitor.liquidation \in 1 .. h

\* Economic metrics are given only to a run no position of which was crossed,
\* and that ended flat.
MetricsMeanSurvival ==
    result = "metrics" => desk.pos = NoPosition /\ \A h \in DOMAIN audit.hours : ~CrossedIn(h)

\* The ledger refuses no run but one whose position is open at the end
\* because an entry was filled after the cutoff: wherever a liquidation falls
\* around the cutoff, one exit is counted.
RefusalExplained == result = "error" => desk.pos # NoPosition /\ audit.late

\* The outcome of a run says what happened in it.
ResultExplained == MetricsMeanSurvival /\ RefusalExplained

\* Once a run is liquidated and flat, it stays flat.
LiquidatedStaysFlat ==
    [][monitor.liquidation # 0 /\ desk.pos = NoPosition => desk'.pos = NoPosition]_deskVars
============================================================================
