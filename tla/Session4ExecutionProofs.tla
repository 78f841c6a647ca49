---------------------- MODULE Session4ExecutionProofs ----------------------
(***************************************************************************)
(* A development run of session 4, for any hours of data, lots, equity and *)
(* marks: a liquidation is dated to the first hour that crosses, a run     *)
(* liquidated and flat stays flat, and the artifact says which of the two  *)
(* ends a run had.  How far a mark must go to cross is never used.         *)
(***************************************************************************)
EXTENDS Session4Execution, SequenceTheorems, WellFoundedInduction, TLAPS

\* A set of natural numbers that is not empty has a first one.
LEMMA HasFirst ==
    ASSUME NEW S \in SUBSET Nat, S # {}
    PROVE  \E s \in S : \A u \in S : s <= u
<1>1. PICK x \in S : \A y \in S : ~(<<y, x>> \in OpToRel(<, Nat))
  BY WFMin, NatLessThanWellFounded
<1>2. \A y \in S : x <= y
  <2> TAKE y \in S
  <2>1. y \in Nat /\ x \in Nat
    OBVIOUS
  <2>2. ~(<<y, x>> \in OpToRel(<, Nat))
    BY <1>1
  <2>3. ~(y < x)
    BY <2>1, <2>2 DEF OpToRel
  <2> QED
    BY <2>1, <2>3
<1>3. QED
  BY <1>2

Orders == {"none", "scheduled", "sent"}

Positions == [setup : Nat, side : {"long", "short"}, lots : Nat]

Hours == [held : SUBSET Positions, mark : Marks]

TypeInv ==
    /\ desk \in [hours : Nat, hour : Nat, phase : {"hour", "check", "deliver", "done"},
                 pos : Positions \cup {NoPosition}, side : {"long", "short"},
                 entry : Orders, exit : Orders]
    /\ monitor \in [carried : Seq(Positions), overlap : Seq(Positions), liquidation : Nat,
                    bars : Nat, manual : Nat, delivered : Nat]
    /\ audit \in [held : SUBSET Positions, hours : Seq(Hours), late : BOOLEAN]
    /\ result \in {"none", "error", "liquidated", "metrics"}

\* The hours whose mark has been judged.
Passed == IF desk.phase = "deliver" THEN desk.hour ELSE desk.hour - 1

\* What the controller counts, hour by hour.
ClockInv ==
    /\ desk.hours >= 2 /\ desk.hour >= 1 /\ desk.hour <= desk.hours + 1
    /\ desk.phase \in {"check", "deliver"} => desk.hour <= desk.hours
    /\ desk.phase = "deliver" => desk.hour < CutoffHour
    /\ desk.phase = "done" => desk.hour = desk.hours + 1
    /\ Len(audit.hours) = Passed /\ monitor.bars = Passed
    /\ monitor.delivered <= Passed /\ monitor.delivered <= desk.hours - 2
    /\ monitor.liquidation <= Passed
    /\ monitor.manual = IF Passed >= CutoffHour /\ ExpectedManual = 1 THEN 1 ELSE 0

\* Where the orders of the machine may stand.
OrderInv ==
    /\ desk.phase = "check" \/ After => desk.entry # "scheduled" /\ desk.exit # "scheduled"
    /\ desk.pos = NoPosition => desk.exit = "none"
    /\ desk.pos = NoPosition /\ desk.entry # "none" =>
            monitor.carried = <<>> /\ monitor.overlap = <<>> /\ monitor.liquidation = 0
    /\ desk.pos # NoPosition /\ monitor.liquidation # 0 => desk.exit = "sent"
    /\ desk.pos # NoPosition /\ desk.hour > CutoffHour /\ ~audit.late => desk.exit # "none"
    /\ desk.phase = "deliver" =>
            /\ monitor.liquidation = 0 /\ monitor.overlap = <<>>
            /\ monitor.carried = Snapshot(desk.pos)

\* The monitor judges what was held, and positions of one setup only.
HeldInv ==
    /\ monitor.liquidation = 0 => ToSet(monitor.carried) \cup ToSet(monitor.overlap) = audit.held
    /\ desk.pos # NoPosition => desk.pos \in audit.held
    /\ desk.pos # NoPosition /\ monitor.liquidation = 0 =>
            \A s \in audit.held : s.setup = desk.pos.setup

ResultInv ==
    /\ result # "none" => desk.phase = "done"
    /\ result = "metrics" => desk.pos = NoPosition /\ monitor.liquidation = 0
    /\ result = "error" => desk.pos # NoPosition /\ audit.late

DeskInv ==
    TypeInv /\ ClockInv /\ OrderInv /\ HeldInv /\ ResultInv /\ LiquidationIsCausal

----------------------------------------------------------------------------
(* Snapshots and candidates.                                               *)

LEMMA SnapshotOf ==
    ASSUME NEW pos \in Positions \cup {NoPosition}
    PROVE  /\ Snapshot(pos) \in Seq(Positions)
           /\ ToSet(Snapshot(pos)) = IF pos = NoPosition THEN {} ELSE {pos}
<1>1. CASE pos = NoPosition
  BY <1>1 DEF Snapshot, ToSet
<1>2. CASE pos # NoPosition
  <2>1. pos \in Positions /\ Snapshot(pos) = <<pos>>
    BY <1>2 DEF Snapshot
  <2>2. QED
    BY <1>2, <2>1 DEF ToSet
<1>3. QED
  BY <1>1, <1>2

LEMMA ToSetConcat ==
    ASSUME NEW s \in Seq(Positions), NEW t \in Seq(Positions)
    PROVE  s \o t \in Seq(Positions) /\ ToSet(s \o t) = ToSet(s) \cup ToSet(t)
<1>1. /\ s \o t \in Seq(Positions) /\ Len(s) \in Nat /\ Len(t) \in Nat
      /\ Len(s \o t) = Len(s) + Len(t)
      /\ \A i \in 1 .. Len(s) + Len(t) : (s \o t)[i] = IF i <= Len(s) THEN s[i] ELSE t[i - Len(s)]
      /\ DOMAIN s = 1 .. Len(s) /\ DOMAIN t = 1 .. Len(t)
      /\ DOMAIN (s \o t) = 1 .. Len(s) + Len(t)
  OBVIOUS
<1>2. ASSUME NEW x \in ToSet(s \o t) PROVE x \in ToSet(s) \cup ToSet(t)
  <2>1. PICK i \in 1 .. Len(s) + Len(t) : x = (s \o t)[i]
    BY <1>1 DEF ToSet
  <2>2. CASE i <= Len(s)
    BY <1>1, <2>1, <2>2 DEF ToSet
  <2>3. CASE ~(i <= Len(s))
    <3>1. i - Len(s) \in 1 .. Len(t)
      BY <1>1, <2>3
    <3>2. QED
      BY <1>1, <2>1, <2>3, <3>1 DEF ToSet
  <2>4. QED
    BY <2>2, <2>3
<1>3. ASSUME NEW x \in ToSet(s) PROVE x \in ToSet(s \o t)
  <2>1. PICK i \in 1 .. Len(s) : x = s[i]
    BY <1>1 DEF ToSet
  <2>2. i \in 1 .. Len(s) + Len(t) /\ (s \o t)[i] = x
    BY <1>1, <2>1
  <2>3. QED
    BY <1>1, <2>2 DEF ToSet
<1>4. ASSUME NEW x \in ToSet(t) PROVE x \in ToSet(s \o t)
  <2>1. PICK i \in 1 .. Len(t) : x = t[i]
    BY <1>1 DEF ToSet
  <2>2. i + Len(s) \in 1 .. Len(s) + Len(t) /\ ~(i + Len(s) <= Len(s))
        /\ (i + Len(s)) - Len(s) = i
    BY <1>1
  <2>3. (s \o t)[i + Len(s)] = x
    BY <1>1, <2>1, <2>2
  <2>4. QED
    BY <1>1, <2>2, <2>3 DEF ToSet
<1>5. QED
  BY <1>1, <1>2, <1>3, <1>4

\* While no liquidation is dated, the candidates are the positions held.
LEMMA CandidatesAreHeld ==
    ASSUME DeskInv, monitor.liquidation = 0
    PROVE  /\ Candidates \in Seq(Positions)
           /\ ToSet(Candidates) = audit.held
<1>1. /\ monitor.carried \in Seq(Positions) /\ monitor.overlap \in Seq(Positions)
      /\ desk.pos \in Positions \cup {NoPosition}
  BY DEF DeskInv, TypeInv
<1>2. /\ Snapshot(desk.pos) \in Seq(Positions)
      /\ ToSet(Snapshot(desk.pos)) = IF desk.pos = NoPosition THEN {} ELSE {desk.pos}
  BY <1>1, SnapshotOf
<1>3. /\ ToSet(monitor.carried) \cup ToSet(monitor.overlap) = audit.held
      /\ desk.pos # NoPosition => desk.pos \in audit.held
  BY DEF DeskInv, HeldInv
<1> DEFINE both == monitor.carried \o monitor.overlap
<1>4. both \in Seq(Positions) /\ ToSet(both) = audit.held
  BY <1>1, <1>3, ToSetConcat
<1>5. Candidates = both \o Snapshot(desk.pos)
  BY DEF Candidates
<1> HIDE DEF both
<1>6. Candidates \in Seq(Positions) /\ ToSet(Candidates) = ToSet(both) \cup ToSet(Snapshot(desk.pos))
  BY <1>2, <1>4, <1>5, ToSetConcat
<1>7. QED
  BY <1>2, <1>3, <1>4, <1>6

\* There is a hit when, and only when, a position held in the hour crosses;
\* an open position is then closed for it.
LEMMA HitsAreCrossings ==
    ASSUME DeskInv, monitor.liquidation = 0, NEW mark \in Marks
    PROVE  /\ Hits(mark) = {} <=> ~\E s \in audit.held : Crosses(s, mark)
           /\ Hits(mark) # {} /\ desk.pos # NoPosition => Liquidates(mark)
<1>1. Candidates \in Seq(Positions) /\ ToSet(Candidates) = audit.held
  BY CandidatesAreHeld
<1>2. Hits(mark) = {} <=> ~\E s \in audit.held : Crosses(s, mark)
  BY <1>1 DEF Hits, ToSet
<1>3. ASSUME Hits(mark) # {}, desk.pos # NoPosition PROVE Liquidates(mark)
  <2>1. Hits(mark) \in SUBSET Nat
    BY <1>1 DEF Hits
  <2>2. PICK i \in Hits(mark) : \A j \in Hits(mark) : i <= j
    BY <1>3, <2>1, HasFirst
  <2>3. Candidates[i] \in audit.held
    BY <1>1, <2>2 DEF Hits, ToSet
  <2>4. desk.pos.setup = Candidates[i].setup
    BY <1>3, <2>3 DEF DeskInv, HeldInv
  <2>5. QED
    BY <1>3, <2>2, <2>4 DEF Liquidates
<1>4. QED
  BY <1>2, <1>3

----------------------------------------------------------------------------
(* Fills.                                                                  *)

LEMMA MovedKeeps ==
    ASSUME DeskInv, NEW pos \in Positions \cup {NoPosition}, Moved(pos),
           desk.phase \in {"hour", "check"},
           \/ pos = NoPosition
           \/ desk.pos # NoPosition /\ pos # NoPosition /\ pos.setup = desk.pos.setup
           \/ desk.pos = NoPosition /\ pos # NoPosition /\ desk.entry = "sent"
    PROVE  DeskInv'
<1> DEFINE entry == IF pos = NoPosition THEN "none" ELSE IF desk.entry = "sent" THEN "none" ELSE desk.entry
           exit == IF pos = NoPosition THEN "none" ELSE desk.exit
           overlap == monitor.overlap \o Snapshot(pos)
           held == audit.held \cup ToSet(Snapshot(pos))
           late == audit.late \/ (desk.entry = "sent" /\ pos # NoPosition /\ desk.hour > CutoffHour)
<1>1. /\ desk' = [desk EXCEPT !.pos = pos, !.entry = entry, !.exit = exit]
      /\ monitor' = [monitor EXCEPT !.overlap = overlap]
      /\ audit' = [audit EXCEPT !.held = held, !.late = late]
      /\ result' = result
  <2>1. desk' = [desk EXCEPT !.pos = pos, !.entry = entry, !.exit = exit]
    BY DEF Moved, DeskInv, TypeInv
  <2>2. QED
    BY <2>1 DEF Moved
<1>2. TypeInv
  BY DEF DeskInv
<1>3. /\ Snapshot(pos) \in Seq(Positions)
      /\ ToSet(Snapshot(pos)) = IF pos = NoPosition THEN {} ELSE {pos}
  BY SnapshotOf
<1>4. /\ overlap \in Seq(Positions)
      /\ ToSet(overlap) = ToSet(monitor.overlap) \cup ToSet(Snapshot(pos))
  BY <1>2, <1>3, ToSetConcat DEF TypeInv
<1>5. held \in SUBSET Positions /\ held = audit.held \cup (IF pos = NoPosition THEN {} ELSE {pos})
  BY <1>2, <1>3 DEF TypeInv
<1>6. entry \in Orders /\ exit \in Orders /\ late \in BOOLEAN
  BY <1>2 DEF TypeInv, Orders
<1>7. /\ desk.entry # "scheduled" => entry # "scheduled"
      /\ desk.exit # "scheduled" => exit # "scheduled"
      /\ pos = NoPosition => entry = "none" /\ exit = "none"
      /\ pos # NoPosition => exit = desk.exit
      /\ audit.late => late
      /\ desk.pos = NoPosition /\ pos # NoPosition /\ desk.hour > CutoffHour => late
  BY <1>2 DEF TypeInv
<1> HIDE DEF entry, exit, overlap, held, late
<1>8. /\ desk'.hours = desk.hours /\ desk'.hour = desk.hour /\ desk'.phase = desk.phase
      /\ desk'.pos = pos /\ desk'.entry = entry /\ desk'.exit = exit
  BY <1>1, <1>2 DEF TypeInv
<1>9. /\ monitor'.carried = monitor.carried /\ monitor'.overlap = overlap
      /\ monitor'.liquidation = monitor.liquidation /\ monitor'.bars = monitor.bars
      /\ monitor'.manual = monitor.manual /\ monitor'.delivered = monitor.delivered
      /\ audit'.held = held /\ audit'.hours = audit.hours /\ audit'.late = late
  BY <1>1, <1>2 DEF TypeInv
<1>10. TypeInv'
  BY <1>1, <1>2, <1>4, <1>5, <1>6 DEF TypeInv
<1>11. ClockInv'
  BY <1>8, <1>9 DEF DeskInv, ClockInv, Passed, CutoffHour, ExpectedManual
<1>12. OrderInv'
  <2>1. pos # NoPosition /\ monitor.liquidation # 0 => desk.exit = "sent"
    BY DEF DeskInv, OrderInv
  <2>2. pos # NoPosition /\ desk.hour > CutoffHour /\ ~late => desk.exit # "none"
    BY <1>7 DEF DeskInv, OrderInv
  <2>3. QED
    BY <1>7, <1>8, <1>9, <2>1, <2>2 DEF DeskInv, OrderInv, After, CutoffHour
<1>13. HeldInv'
  <2>1. monitor.liquidation = 0 => ToSet(monitor.carried) \cup ToSet(overlap) = held
    BY <1>3, <1>4, <1>5 DEF DeskInv, HeldInv
  <2>2. pos # NoPosition => pos \in held
    BY <1>5
  <2>3. ASSUME pos # NoPosition, monitor.liquidation = 0, NEW s \in held
        PROVE  s.setup = pos.setup
    <3>1. CASE desk.pos # NoPosition
      BY <1>5, <2>3, <3>1 DEF DeskInv, HeldInv
    <3>2. CASE desk.pos = NoPosition
      <4>1. monitor.carried = <<>> /\ monitor.overlap = <<>>
        BY <2>3, <3>2 DEF DeskInv, OrderInv
      <4>2. audit.held = {}
        BY <2>3, <4>1 DEF DeskInv, HeldInv, ToSet
      <4>3. QED
        BY <1>5, <2>3, <4>2
    <3>3. QED
      BY <3>1, <3>2
  <2>4. QED
    BY <1>8, <1>9, <2>1, <2>2, <2>3 DEF HeldInv
<1>14. ResultInv'
  BY <1>1, <1>8 DEF DeskInv, ResultInv
<1>15. LiquidationIsCausal'
  BY <1>9 DEF DeskInv, LiquidationIsCausal, CrossedIn
<1>16. QED
  BY <1>10, <1>11, <1>12, <1>13, <1>14, <1>15 DEF DeskInv

LEMMA FillsKeep ==
    ASSUME ExecutionAssumption, DeskInv, EntryFills \/ ProtectionFills \/ ExitFills
    PROVE  DeskInv'
<1>1. /\ desk.hour \in Nat /\ desk.side \in {"long", "short"} /\ MaxLots \in Nat
      /\ desk.pos \in Positions \cup {NoPosition}
  BY DEF DeskInv, TypeInv, ExecutionAssumption
<1>2. CASE EntryFills
  <2>1. PICK lots \in 1 .. MaxLots :
          IF desk.pos = NoPosition
          THEN Moved([setup |-> desk.hour, side |-> desk.side, lots |-> lots])
          ELSE Moved([desk.pos EXCEPT !.lots = @ + lots])
    BY <1>2 DEF EntryFills
  <2>2. desk.phase \in {"hour", "check"} /\ desk.entry = "sent"
    BY <1>2 DEF EntryFills
  <2>3. CASE desk.pos = NoPosition
    <3> DEFINE pos == [setup |-> desk.hour, side |-> desk.side, lots |-> lots]
    <3>1. pos \in Positions /\ Moved(pos)
      BY <1>1, <2>1, <2>3 DEF Positions
    <3> HIDE DEF pos
    <3>2. QED
      BY <2>2, <2>3, <3>1, MovedKeeps
  <2>4. CASE desk.pos # NoPosition
    <3> DEFINE pos == [desk.pos EXCEPT !.lots = @ + lots]
    <3>1. pos \in Positions /\ pos.setup = desk.pos.setup /\ Moved(pos)
      BY <1>1, <2>1, <2>4 DEF Positions
    <3> HIDE DEF pos
    <3>2. QED
      BY <2>2, <2>4, <3>1, MovedKeeps
  <2>5. QED
    BY <2>3, <2>4
<1>3. CASE ProtectionFills
  <2>1. PICK lots \in 1 .. desk.pos.lots :
          Moved(IF lots = desk.pos.lots THEN NoPosition ELSE [desk.pos EXCEPT !.lots = @ - lots])
    BY <1>3 DEF ProtectionFills
  <2>2. desk.phase = "hour" /\ desk.pos \in Positions /\ desk.pos # NoPosition
    BY <1>1, <1>3 DEF ProtectionFills
  <2>3. CASE lots = desk.pos.lots
    BY <2>1, <2>2, <2>3, MovedKeeps
  <2>4. CASE lots # desk.pos.lots
    <3> DEFINE pos == [desk.pos EXCEPT !.lots = @ - lots]
    <3>1. desk.pos.lots \in Nat /\ desk.pos.lots - lots \in Nat
      BY <2>1, <2>2, <2>4 DEF Positions
    <3>2. pos \in Positions /\ pos.setup = desk.pos.setup /\ Moved(pos)
      BY <2>1, <2>2, <2>4, <3>1 DEF Positions
    <3> HIDE DEF pos
    <3>3. QED
      BY <2>2, <3>2, MovedKeeps
  <2>5. QED
    BY <2>3, <2>4
<1>4. CASE ExitFills
  BY <1>4, MovedKeeps DEF ExitFills
<1>5. QED
  BY <1>2, <1>3, <1>4

----------------------------------------------------------------------------
(* A bar.                                                                  *)

LEMMA SendKeeps ==
    ASSUME DeskInv, SendScheduled
    PROVE  DeskInv'
<1>1. TypeInv /\ desk.phase = "hour" /\ desk.hour <= desk.hours
  BY DEF DeskInv, TypeInv, SendScheduled, After
<1> DEFINE entry == Sent(desk.entry)
           exit == Sent(desk.exit)
<1>2. /\ entry \in Orders \ {"scheduled"} /\ exit \in Orders \ {"scheduled"}
      /\ entry = "none" <=> desk.entry = "none"
      /\ exit = "none" <=> desk.exit = "none"
      /\ desk.exit = "sent" => exit = "sent"
  BY <1>1 DEF TypeInv, Sent, Orders
<1>3. desk' = [desk EXCEPT !.phase = "check", !.entry = entry, !.exit = exit]
  BY DEF SendScheduled
<1>4. monitor' = monitor /\ audit' = audit /\ result' = result
  BY DEF SendScheduled
<1> HIDE DEF entry, exit
<1>5. /\ desk'.hours = desk.hours /\ desk'.hour = desk.hour /\ desk'.phase = "check"
      /\ desk'.pos = desk.pos /\ desk'.entry = entry /\ desk'.exit = exit
  BY <1>1, <1>3 DEF TypeInv
<1>6. TypeInv'
  BY <1>1, <1>2, <1>3, <1>4 DEF TypeInv
<1>7. ClockInv'
  BY <1>1, <1>4, <1>5 DEF DeskInv, ClockInv, Passed, CutoffHour, ExpectedManual
<1>8. OrderInv'
  BY <1>2, <1>4, <1>5 DEF DeskInv, OrderInv, CutoffHour
<1>9. HeldInv' /\ ResultInv' /\ LiquidationIsCausal'
  BY <1>1, <1>4, <1>5 DEF DeskInv, HeldInv, ResultInv, LiquidationIsCausal, CrossedIn
<1>10. QED
  BY <1>6, <1>7, <1>8, <1>9 DEF DeskInv

\* The monitor's answer for an hour.
LEMMA CheckedMonitor ==
    ASSUME DeskInv, desk.phase = "check", NEW mark \in Marks, NEW m, m = Checked(mark)
    PROVE  /\ m \in [carried : Seq(Positions), overlap : Seq(Positions), liquidation : Nat,
                     bars : Nat, manual : Nat, delivered : Nat]
           /\ m.bars = monitor.bars + 1 /\ m.manual = monitor.manual
           /\ m.delivered = monitor.delivered
           /\ monitor.liquidation # 0 => m.liquidation = monitor.liquidation
           /\ monitor.liquidation = 0 =>
                /\ m.overlap = <<>> /\ m.carried = Snapshot(desk.pos)
                /\ m.liquidation = IF \E s \in audit.held : Crosses(s, mark) THEN desk.hour ELSE 0
<1>1. TypeInv /\ desk.pos \in Positions \cup {NoPosition} /\ desk.hour \in Nat
  BY DEF DeskInv, TypeInv
<1> DEFINE bars == monitor.bars + 1
<1>5. /\ monitor \in [carried : Seq(Positions), overlap : Seq(Positions), liquidation : Nat,
                      bars : Nat, manual : Nat, delivered : Nat]
      /\ bars \in Nat
  BY <1>1 DEF TypeInv
<1>2. CASE monitor.liquidation # 0
  <2>1. m = [monitor EXCEPT !.bars = bars]
    BY <1>2 DEF Checked
  <2> HIDE DEF bars
  <2>2. /\ m \in [carried : Seq(Positions), overlap : Seq(Positions), liquidation : Nat,
                  bars : Nat, manual : Nat, delivered : Nat]
        /\ m.bars = bars /\ m.manual = monitor.manual
        /\ m.delivered = monitor.delivered /\ m.liquidation = monitor.liquidation
    BY <1>5, <2>1
  <2>3. QED
    BY <1>2, <2>2 DEF bars
<1>3. CASE monitor.liquidation = 0
  <2> DEFINE n == IF \E s \in audit.held : Crosses(s, mark) THEN desk.hour ELSE 0
             snapshot == Snapshot(desk.pos)
  <2>1. n = IF Hits(mark) = {} THEN 0 ELSE desk.hour
    BY <1>3, HitsAreCrossings
  <2>2. m = [monitor EXCEPT !.bars = bars, !.overlap = <<>>, !.carried = snapshot,
                            !.liquidation = n]
    BY <1>3, <2>1 DEF Checked
  <2>3. snapshot \in Seq(Positions) /\ <<>> \in Seq(Positions) /\ n \in Nat
    BY <1>1, SnapshotOf
  <2> HIDE DEF n, snapshot, bars
  <2>4. /\ m \in [carried : Seq(Positions), overlap : Seq(Positions), liquidation : Nat,
                  bars : Nat, manual : Nat, delivered : Nat]
        /\ m.bars = bars /\ m.manual = monitor.manual
        /\ m.delivered = monitor.delivered
        /\ m.overlap = <<>> /\ m.carried = snapshot /\ m.liquidation = n
    BY <1>5, <2>2, <2>3
  <2>5. QED
    BY <1>3, <2>4 DEF n, snapshot, bars
<1>4. QED
  BY <1>2, <1>3

\* The orders after the controller and the monitor had their say: a close is
\* asked for at a liquidation and at the cutoff, and entries do not wait on.
LEMMA ClosingOrders ==
    ASSUME DeskInv, desk.phase = "check", NEW order \in {"scheduled", "sent"},
           NEW d, d = Closing(desk, order)
    PROVE  /\ d.hours = desk.hours /\ d.hour = desk.hour /\ d.pos = desk.pos
           /\ d.side = desk.side /\ d.phase = desk.phase
           /\ d \in [hours : Nat, hour : Nat, phase : {"hour", "check", "deliver", "done"},
                     pos : Positions \cup {NoPosition}, side : {"long", "short"},
                     entry : Orders, exit : Orders]
           /\ d.entry = desk.entry
           /\ desk.pos = NoPosition => d.exit = desk.exit
           /\ desk.pos # NoPosition => d.exit # "none" /\ (order = "sent" => d.exit = "sent")
           /\ desk.exit = "sent" => d.exit = "sent"
           /\ d.exit = "scheduled" => order = "scheduled"
<1>1. TypeInv /\ desk.entry # "scheduled" /\ desk.exit # "scheduled"
  BY DEF DeskInv, OrderInv
<1>2. CASE desk.pos = NoPosition
  <2>1. d = desk
    BY <1>2 DEF Closing
  <2>2. QED
    BY <1>1, <1>2, <2>1 DEF TypeInv
<1>3. CASE desk.pos # NoPosition
  <2> DEFINE exit == IF order = "scheduled" /\ desk.exit # "none" THEN desk.exit ELSE order
             entry == IF desk.entry = "scheduled" THEN "none" ELSE desk.entry
  <2>1. d = [desk EXCEPT !.exit = exit, !.entry = entry]
    BY <1>3 DEF Closing
  <2>2. /\ entry = desk.entry /\ entry \in Orders /\ exit \in Orders /\ exit # "none"
        /\ order = "sent" => exit = "sent"
        /\ desk.exit = "sent" => exit = "sent"
        /\ exit = "scheduled" => order = "scheduled"
    BY <1>1 DEF TypeInv, Orders
  <2> HIDE DEF exit, entry
  <2>3. QED
    BY <1>1, <1>3, <2>1, <2>2 DEF TypeInv
<1>4. QED
  BY <1>2, <1>3

LEMMA BeforeBarKeeps ==
    ASSUME ExecutionAssumption, DeskInv, BeforeBar
    PROVE  DeskInv'
<1>1. desk.phase = "check" /\ result' = result
  BY DEF BeforeBar
<1>2. PICK mark \in Marks :
        \E m \in {Checked(mark)} :
            /\ desk' = Next4(CASE Liquidates(mark) -> Closing(desk, "sent")
                               [] ~Liquidates(mark) /\ CutsOff(m) -> Closing(desk, "scheduled")
                               [] OTHER -> desk, Delivers(m))
            /\ monitor' = [m EXCEPT !.manual = @ + (IF ~Liquidates(mark) /\ CutsOff(m) THEN 1 ELSE 0),
                                    !.delivered = @ + (IF Delivers(m) THEN 1 ELSE 0)]
            /\ audit' = [audit EXCEPT !.hours = Append(@, [held |-> audit.held, mark |-> mark]),
                                      !.held = ToSet(Snapshot(desk.pos))]
  BY DEF BeforeBar
<1> DEFINE m == Checked(mark)
           close == Liquidates(mark)
           cut == ~close /\ CutsOff(m)
           more == Delivers(m)
           d == IF close THEN Closing(desk, "sent") ELSE IF cut THEN Closing(desk, "scheduled") ELSE desk
           manual == m.manual + (IF cut THEN 1 ELSE 0)
           delivered == m.delivered + (IF more THEN 1 ELSE 0)
           hour == [held |-> audit.held, mark |-> mark]
           held == ToSet(Snapshot(desk.pos))
<1>3. /\ desk' = Next4(d, more)
      /\ monitor' = [m EXCEPT !.manual = manual, !.delivered = delivered]
      /\ audit' = [audit EXCEPT !.hours = Append(audit.hours, hour), !.held = held]
  <2>1. d = CASE close -> Closing(desk, "sent") [] ~close /\ CutsOff(m) -> Closing(desk, "scheduled")
              [] OTHER -> desk
    OBVIOUS
  <2>2. QED
    BY <1>2, <2>1
<1>4. /\ TypeInv /\ ClockInv /\ desk.hour \in Nat /\ desk.hours \in Nat
      /\ desk.pos \in Positions \cup {NoPosition} /\ monitor.liquidation \in Nat
  BY DEF DeskInv, TypeInv
<1>5. /\ m \in [carried : Seq(Positions), overlap : Seq(Positions), liquidation : Nat,
                bars : Nat, manual : Nat, delivered : Nat]
      /\ m.bars = monitor.bars + 1 /\ m.manual = monitor.manual /\ m.delivered = monitor.delivered
      /\ monitor.liquidation # 0 => m.liquidation = monitor.liquidation
      /\ monitor.liquidation = 0 =>
           /\ m.overlap = <<>> /\ m.carried = Snapshot(desk.pos)
           /\ m.liquidation = IF \E s \in audit.held : Crosses(s, mark) THEN desk.hour ELSE 0
  BY <1>1, CheckedMonitor
<1>6. /\ close => monitor.liquidation = 0 /\ m.liquidation # 0 /\ desk.pos # NoPosition
      /\ desk.pos # NoPosition /\ monitor.liquidation = 0 /\ m.liquidation # 0 => close
  <2>1. close => monitor.liquidation = 0 /\ Hits(mark) # {} /\ desk.pos # NoPosition
    BY DEF Liquidates
  <2>2. monitor.liquidation = 0 => (Hits(mark) = {} <=> ~\E s \in audit.held : Crosses(s, mark))
    BY HitsAreCrossings
  <2>3. monitor.liquidation = 0 /\ Hits(mark) # {} /\ desk.pos # NoPosition => close
    BY HitsAreCrossings
  <2>4. desk.hour # 0
    BY <1>4 DEF ClockInv
  <2> HIDE DEF m, close
  <2>5. QED
    BY <1>5, <2>1, <2>2, <2>3, <2>4
<1>7. /\ cut <=> desk.hour = CutoffHour /\ m.liquidation = 0
      /\ more <=> desk.hour < CutoffHour /\ m.liquidation = 0
  <2>1. close => m.liquidation # 0
    BY <1>6
  <2> HIDE DEF close, m
  <2>2. QED
    BY <2>1 DEF CutsOff, Delivers
<1>8. /\ d \in [hours : Nat, hour : Nat, phase : {"hour", "check", "deliver", "done"},
                pos : Positions \cup {NoPosition}, side : {"long", "short"},
                entry : Orders, exit : Orders]
      /\ d.hours = desk.hours /\ d.hour = desk.hour /\ d.pos = desk.pos /\ d.entry = desk.entry
      /\ desk.pos = NoPosition => d.exit = desk.exit
      /\ close => d.exit = "sent"
      /\ cut /\ desk.pos # NoPosition => d.exit # "none"
      /\ desk.exit = "sent" => d.exit = "sent"
      /\ desk.exit # "none" => d.exit # "none"
      /\ d.exit = "scheduled" => cut
      /\ d.entry # "scheduled"
  <2>1. desk.entry # "scheduled" /\ desk.exit # "scheduled"
    BY <1>1 DEF DeskInv, OrderInv
  <2>2. CASE close
    BY <1>1, <1>4, <1>6, <2>1, <2>2, ClosingOrders DEF TypeInv, Orders
  <2>3. CASE cut
    <3>1. d = Closing(desk, "scheduled")
      BY <2>3
    <3> HIDE DEF d
    <3>2. QED
      BY <1>1, <1>4, <2>1, <2>3, <3>1, ClosingOrders DEF TypeInv, Orders
  <2>4. CASE ~close /\ ~cut
    BY <1>4, <2>1, <2>4 DEF TypeInv
  <2>5. QED
    BY <2>2, <2>3, <2>4
<1>9. /\ held \in SUBSET Positions
      /\ held = IF desk.pos = NoPosition THEN {} ELSE {desk.pos}
  BY <1>4, SnapshotOf
<1>10. hour \in Hours
  BY <1>4 DEF TypeInv, Hours
<1> HIDE DEF m, close, cut, more, d, held
<1>11. manual \in Nat /\ delivered \in Nat
  BY <1>5
<1>12. /\ desk'.hours = desk.hours /\ desk'.pos = desk.pos /\ desk'.entry = desk.entry
       /\ desk'.exit = d.exit
       /\ desk'.phase = IF more THEN "deliver" ELSE "hour"
       /\ desk'.hour = IF more THEN desk.hour ELSE desk.hour + 1
       /\ desk' \in [hours : Nat, hour : Nat, phase : {"hour", "check", "deliver", "done"},
                     pos : Positions \cup {NoPosition}, side : {"long", "short"},
                     entry : Orders, exit : Orders]
  <2>1. CASE more
    <3>1. desk' = [d EXCEPT !.phase = "deliver"]
      BY <1>3, <2>1 DEF Next4
    <3>2. QED
      BY <1>8, <2>1, <3>1
  <2>2. CASE ~more
    <3>1. desk' = [d EXCEPT !.phase = "hour", !.hour = d.hour + 1]
      BY <1>3, <2>2 DEF Next4
    <3>2. d.hour + 1 \in Nat
      BY <1>8
    <3>3. QED
      BY <1>8, <2>2, <3>1, <3>2
  <2>3. QED
    BY <2>1, <2>2
<1> HIDE DEF manual, delivered
<1>13. /\ monitor' \in [carried : Seq(Positions), overlap : Seq(Positions), liquidation : Nat,
                        bars : Nat, manual : Nat, delivered : Nat]
       /\ monitor'.carried = m.carried /\ monitor'.overlap = m.overlap
       /\ monitor'.liquidation = m.liquidation /\ monitor'.bars = m.bars
       /\ monitor'.manual = manual /\ monitor'.delivered = delivered
  BY <1>3, <1>5, <1>11
<1> DEFINE hours == Append(audit.hours, hour)
<1>14. /\ audit.hours \in Seq(Hours) /\ hours \in Seq(Hours)
       /\ Len(audit.hours) \in Nat /\ Len(hours) = Len(audit.hours) + 1
       /\ DOMAIN audit.hours = 1 .. Len(audit.hours) /\ DOMAIN hours = 1 .. Len(audit.hours) + 1
       /\ \A h \in 1 .. Len(audit.hours) : hours[h] = audit.hours[h]
       /\ hours[Len(audit.hours) + 1] = hour
  <2>1. audit.hours \in Seq(Hours)
    BY <1>4 DEF TypeInv
  <2> HIDE DEF hour
  <2>2. QED
    BY <1>10, <2>1
<1> HIDE DEF hours
<1>15. /\ audit' \in [held : SUBSET Positions, hours : Seq(Hours), late : BOOLEAN]
       /\ audit'.held = held /\ audit'.hours = hours /\ audit'.late = audit.late
  BY <1>3, <1>4, <1>9, <1>14 DEF TypeInv, hours
<1>16. TypeInv'
  BY <1>1, <1>4, <1>12, <1>13, <1>15 DEF TypeInv
<1>17. Passed = desk.hour - 1 /\ Passed' = desk.hour
  BY <1>1, <1>4, <1>12 DEF Passed
<1>18. Len(audit.hours) = desk.hour - 1
  BY <1>4, <1>17 DEF ClockInv
<1>19. ClockInv'
  <2>1. /\ desk.hours >= 2 /\ desk.hour >= 1 /\ desk.hour <= desk.hours
        /\ monitor.bars = desk.hour - 1 /\ monitor.delivered \in Nat
        /\ monitor.delivered <= desk.hour - 1 /\ monitor.delivered <= desk.hours - 2
        /\ monitor.liquidation <= desk.hour - 1
    BY <1>1, <1>4, <1>17 DEF ClockInv, TypeInv
  <2>2. m.liquidation <= desk.hour
    BY <1>4, <1>5, <2>1
  <2>3. delivered <= desk.hour /\ delivered <= desk.hours - 2
    <3>1. CASE more
      <4>1. delivered = monitor.delivered + 1 /\ desk.hour < desk.hours - 1
        BY <1>5, <1>7, <3>1 DEF delivered, CutoffHour
      <4>2. QED
        BY <1>4, <2>1, <4>1
    <3>2. CASE ~more
      <4>1. delivered = monitor.delivered
        BY <1>5, <2>1, <3>2 DEF delivered
      <4>2. QED
        BY <1>4, <2>1, <4>1
    <3>3. QED
      BY <3>1, <3>2
  <2>4. monitor.manual = IF desk.hour - 1 >= desk.hours - 1 /\ (monitor.liquidation = 0 \/ monitor.liquidation > desk.hours - 1)
                         THEN 1 ELSE 0
    BY <1>17, <1>4 DEF ClockInv, CutoffHour, ExpectedManual
  <2>5. manual = IF desk.hour >= desk.hours - 1 /\ (m.liquidation = 0 \/ m.liquidation > desk.hours - 1)
                 THEN 1 ELSE 0
    <3>1. manual = monitor.manual + (IF desk.hour = desk.hours - 1 /\ m.liquidation = 0 THEN 1 ELSE 0)
      BY <1>5, <1>7 DEF manual, CutoffHour
    <3>2. m.liquidation \in Nat
      BY <1>5
    <3>3. monitor.liquidation = 0 => m.liquidation = 0 \/ m.liquidation = desk.hour
      BY <1>5
    <3>4. CASE desk.hour < desk.hours - 1
      BY <1>4, <2>1, <2>4, <3>1, <3>4
    <3>5. CASE desk.hour = desk.hours - 1
      BY <1>4, <1>5, <2>1, <2>4, <3>1, <3>2, <3>3, <3>5
    <3>6. CASE desk.hour = desk.hours
      BY <1>4, <1>5, <2>1, <2>4, <3>1, <3>2, <3>3, <3>6
    <3>7. QED
      BY <1>4, <2>1, <3>4, <3>5, <3>6
  <2>6. manual = IF desk.hour >= CutoffHour /\ ExpectedManual' = 1 THEN 1 ELSE 0
    BY <1>12, <1>13, <2>5 DEF CutoffHour, ExpectedManual
  <2>7. /\ desk'.hour >= 1 /\ desk'.hour <= desk'.hours + 1
        /\ desk'.phase = "deliver" => desk'.hour < CutoffHour' /\ desk'.hour <= desk'.hours
        /\ desk'.phase # "check" /\ desk'.phase # "done"
    BY <1>4, <1>7, <1>12, <2>1 DEF CutoffHour
  <2>8. CutoffHour' = CutoffHour
    BY <1>12 DEF CutoffHour
  <2>9. Len(audit'.hours) = desk.hour /\ monitor'.bars = desk.hour
    BY <1>4, <1>5, <1>13, <1>14, <1>15, <1>18, <2>1
  <2>10. desk'.hours = desk.hours /\ desk'.hours >= 2
    BY <1>12, <2>1
  <2>11. QED
    BY <1>13, <1>17, <2>2, <2>3, <2>6, <2>7, <2>8, <2>9, <2>10 DEF ClockInv
<1>20. OrderInv'
  <2>1. desk'.phase # "check" /\ desk'.entry # "scheduled"
    BY <1>8, <1>12
  <2>2. After' => desk'.exit # "scheduled"
    <3>1. desk.hour <= desk.hours /\ (cut => desk.hour = desk.hours - 1)
      BY <1>1, <1>4, <1>7 DEF ClockInv, CutoffHour
    <3>2. QED
      BY <1>4, <1>8, <1>12, <3>1 DEF After
  <2>3. desk.pos = NoPosition => d.exit = "none"
    BY <1>8 DEF DeskInv, OrderInv
  <2>4. ASSUME desk.pos = NoPosition, desk.entry # "none"
        PROVE  m.carried = <<>> /\ m.overlap = <<>> /\ m.liquidation = 0
    <3>1. monitor.carried = <<>> /\ monitor.overlap = <<>> /\ monitor.liquidation = 0
      BY <2>4 DEF DeskInv, OrderInv
    <3>2. audit.held = {}
      BY <3>1 DEF DeskInv, HeldInv, ToSet
    <3>3. QED
      BY <1>5, <2>4, <3>1, <3>2 DEF Snapshot
  <2>5. desk.pos # NoPosition /\ m.liquidation # 0 => d.exit = "sent"
    <3>1. desk.pos # NoPosition /\ monitor.liquidation # 0 => desk.exit = "sent"
      BY DEF DeskInv, OrderInv
    <3>2. QED
      BY <1>6, <1>8, <3>1
  <2>6. ASSUME desk.pos # NoPosition, desk'.hour > CutoffHour, ~audit.late PROVE d.exit # "none"
    <3>1. CASE desk.hour > CutoffHour
      BY <1>8, <2>6, <3>1 DEF DeskInv, OrderInv
    <3>2. CASE ~(desk.hour > CutoffHour)
      <4>1. desk.hour = CutoffHour
        BY <1>4, <1>12, <2>6, <3>2 DEF CutoffHour
      <4>2. CASE m.liquidation = 0
        BY <1>7, <1>8, <2>6, <4>1, <4>2
      <4>3. CASE m.liquidation # 0
        BY <2>5, <2>6, <4>3
      <4>4. QED
        BY <4>2, <4>3
    <3>3. QED
      BY <3>1, <3>2
  <2>7. more => m.liquidation = 0 /\ m.overlap = <<>> /\ m.carried = Snapshot(desk.pos)
    BY <1>5, <1>7
  <2>8. CutoffHour' = CutoffHour /\ Snapshot(desk.pos)' = Snapshot(desk.pos)
    BY <1>12 DEF CutoffHour, Snapshot
  <2>9. QED
    BY <1>12, <1>13, <1>15, <2>1, <2>2, <2>3, <2>4, <2>5, <2>6, <2>7, <2>8 DEF OrderInv
<1>21. HeldInv'
  <2>1. ASSUME m.liquidation = 0 PROVE ToSet(m.carried) \cup ToSet(m.overlap) = held
    <3>1. m.carried = Snapshot(desk.pos) /\ m.overlap = <<>>
      BY <1>5, <2>1
    <3>2. ToSet(<<>>) = {}
      BY DEF ToSet
    <3>3. QED
      BY <3>1, <3>2 DEF held
  <2>2. QED
    BY <1>9, <1>12, <1>13, <1>15, <2>1 DEF HeldInv
<1>22. ResultInv'
  <2>1. result = "none"
    BY <1>1 DEF DeskInv, ResultInv
  <2>2. QED
    BY <1>1, <2>1 DEF ResultInv
<1>23. LiquidationIsCausal'
  <2> DEFINE Crossed(h) == \E s \in audit'.hours[h].held : Crosses(s, audit'.hours[h].mark)
  <2>1. \A h \in 1 .. Len(audit.hours) : Crossed(h) <=> CrossedIn(h)
    BY <1>14, <1>15 DEF CrossedIn
  <2>2. Crossed(desk.hour) <=> \E s \in audit.held : Crosses(s, mark)
    <3>1. audit'.hours[desk.hour] = hour
      BY <1>4, <1>14, <1>15, <1>18
    <3>2. QED
      BY <3>1
  <2>3. DOMAIN audit'.hours = 1 .. desk.hour /\ desk.hour >= 1
    BY <1>4, <1>14, <1>15, <1>18 DEF ClockInv
  <2>4. /\ monitor.liquidation # 0 => CrossedIn(monitor.liquidation)
        /\ \A h \in 1 .. Len(audit.hours) : CrossedIn(h) => monitor.liquidation \in 1 .. h
    BY <1>14 DEF DeskInv, LiquidationIsCausal
  <2>5. monitor.liquidation <= desk.hour - 1
    BY <1>4, <1>17 DEF ClockInv
  <2>6. CASE monitor.liquidation # 0
    <3>1. monitor.liquidation \in 1 .. Len(audit.hours) /\ monitor'.liquidation = monitor.liquidation
      BY <1>4, <1>5, <1>13, <1>18, <2>5, <2>6
    <3>2. Crossed(monitor'.liquidation)
      BY <2>1, <2>4, <2>6, <3>1
    <3>3. ASSUME NEW h \in 1 .. desk.hour, Crossed(h) PROVE monitor'.liquidation \in 1 .. h
      <4>1. CASE h \in 1 .. Len(audit.hours)
        BY <2>1, <2>4, <3>1, <3>3, <4>1
      <4>2. CASE h \notin 1 .. Len(audit.hours)
        BY <1>4, <1>18, <2>5, <3>1, <4>2
      <4>3. QED
        BY <4>1, <4>2
    <3>4. QED
      BY <2>3, <3>2, <3>3 DEF LiquidationIsCausal, CrossedIn
  <2>7. CASE monitor.liquidation = 0
    <3>1. monitor'.liquidation = IF \E s \in audit.held : Crosses(s, mark) THEN desk.hour ELSE 0
      BY <1>5, <1>13, <2>7
    <3>2. \A h \in 1 .. Len(audit.hours) : ~CrossedIn(h)
      BY <2>4, <2>7
    <3>3. ASSUME NEW h \in 1 .. desk.hour, Crossed(h) PROVE monitor'.liquidation \in 1 .. h
      <4>1. h \notin 1 .. Len(audit.hours)
        BY <2>1, <3>2, <3>3
      <4>2. h = desk.hour
        BY <1>4, <1>18, <4>1
      <4>3. QED
        BY <1>4, <2>2, <2>3, <3>1, <3>3, <4>2
    <3>4. monitor'.liquidation # 0 => Crossed(monitor'.liquidation)
      BY <2>2, <3>1
    <3>5. QED
      BY <2>3, <3>3, <3>4 DEF LiquidationIsCausal, CrossedIn
  <2>8. QED
    BY <2>6, <2>7
<1>24. QED
  BY <1>16, <1>19, <1>20, <1>21, <1>22, <1>23 DEF DeskInv

LEMMA DeliverKeeps ==
    ASSUME DeskInv, DeliverBar
    PROVE  DeskInv'
<1>1. PICK d \in Decides(desk) : desk' = [d EXCEPT !.phase = "hour", !.hour = @ + 1]
  BY DEF DeliverBar
<1>2. /\ desk.phase = "deliver" /\ monitor' = monitor /\ audit' = audit /\ result' = result
      /\ TypeInv /\ desk.hour \in Nat /\ desk.hours \in Nat
  BY DEF DeliverBar, DeskInv, TypeInv
<1>12. \/ d = desk
       \/ \E side \in {"long", "short"} : d = [desk EXCEPT !.entry = "scheduled", !.side = side]
       \/ desk.pos # NoPosition /\ d = [desk EXCEPT !.exit = "scheduled"]
       \/ d = [desk EXCEPT !.entry = "scheduled"]
  BY DEF Decides
<1>3. /\ d \in [hours : Nat, hour : Nat, phase : {"hour", "check", "deliver", "done"},
                pos : Positions \cup {NoPosition}, side : {"long", "short"},
                entry : Orders, exit : Orders]
      /\ d.hours = desk.hours /\ d.hour = desk.hour /\ d.pos = desk.pos
      /\ desk.pos = NoPosition => d.exit = desk.exit
  BY <1>2, <1>12 DEF TypeInv, Orders
<1>4. /\ desk'.hours = desk.hours /\ desk'.hour = desk.hour + 1 /\ desk'.phase = "hour"
      /\ desk'.pos = desk.pos /\ desk'.entry = d.entry /\ desk'.exit = d.exit
      /\ desk' \in [hours : Nat, hour : Nat, phase : {"hour", "check", "deliver", "done"},
                    pos : Positions \cup {NoPosition}, side : {"long", "short"},
                    entry : Orders, exit : Orders]
  <2>1. desk' = [d EXCEPT !.phase = "hour", !.hour = d.hour + 1] /\ d.hour + 1 \in Nat
    BY <1>1, <1>3
  <2>2. QED
    BY <1>3, <2>1
<1>5. TypeInv'
  BY <1>2, <1>4 DEF TypeInv
<1>6. desk.hour < CutoffHour /\ CutoffHour' = CutoffHour
  BY <1>2, <1>4 DEF DeskInv, ClockInv, CutoffHour
<1>7. Passed = desk.hour /\ Passed' = desk.hour /\ ExpectedManual' = ExpectedManual
  BY <1>2, <1>4, <1>6 DEF Passed, ExpectedManual
<1>8. ClockInv'
  BY <1>2, <1>4, <1>6, <1>7 DEF DeskInv, ClockInv, CutoffHour
<1>9. OrderInv'
  <2>1. ~After' /\ ~(desk'.hour > CutoffHour')
    BY <1>2, <1>4, <1>6 DEF After, CutoffHour
  <2>2. monitor.liquidation = 0 /\ monitor.overlap = <<>> /\ monitor.carried = Snapshot(desk.pos)
    BY <1>2 DEF DeskInv, OrderInv
  <2>3. desk.pos = NoPosition => monitor.carried = <<>> /\ desk.exit = "none"
    BY <2>2 DEF DeskInv, OrderInv, Snapshot
  <2>4. QED
    BY <1>2, <1>3, <1>4, <2>1, <2>2, <2>3 DEF OrderInv
<1>10. HeldInv' /\ ResultInv' /\ LiquidationIsCausal'
  BY <1>2, <1>4 DEF DeskInv, HeldInv, ResultInv, LiquidationIsCausal, CrossedIn
<1>11. QED
  BY <1>5, <1>8, <1>9, <1>10 DEF DeskInv

\* At the end the ledger holds unless a position is open, and one is open
\* only when its entry was filled after the cutoff.
LEMMA FinishKeeps ==
    ASSUME DeskInv, Finish4
    PROVE  DeskInv'
<1>1. /\ desk.phase = "hour" /\ After /\ desk.entry # "sent" /\ desk.exit # "sent"
      /\ desk' = [desk EXCEPT !.phase = "done"] /\ monitor' = monitor /\ audit' = audit
      /\ result' = IF ~LedgerHolds THEN "error"
                   ELSE IF monitor.liquidation # 0 THEN "liquidated" ELSE "metrics"
  BY DEF Finish4
<1>2. TypeInv /\ ClockInv /\ OrderInv
  BY DEF DeskInv
<1>3. /\ desk'.hours = desk.hours /\ desk'.hour = desk.hour /\ desk'.phase = "done"
      /\ desk'.pos = desk.pos /\ desk'.entry = desk.entry /\ desk'.exit = desk.exit
  BY <1>1, <1>2 DEF TypeInv
<1>4. desk.hours \in Nat /\ desk.hour \in Nat /\ desk.hour = desk.hours + 1 /\ Passed = desk.hours
  BY <1>1, <1>2 DEF TypeInv, ClockInv, After, Passed
<1>5. desk.entry = "none" /\ desk.exit = "none"
  BY <1>1, <1>2 DEF TypeInv, OrderInv, Orders
<1>6. /\ monitor.manual > 0 \/ monitor.liquidation # 0
      /\ monitor.manual = ExpectedManual
      /\ monitor.bars = desk.hours /\ monitor.delivered <= desk.hours - 2
  <2>1. ExpectedManual \in {0, 1} /\ (monitor.liquidation = 0 => ExpectedManual = 1)
    BY DEF ExpectedManual
  <2>2. Passed >= CutoffHour
    BY <1>4 DEF CutoffHour
  <2>3. QED
    BY <1>2, <1>4, <2>1, <2>2 DEF ClockInv
<1>7. desk.pos = NoPosition => LedgerHolds
  BY <1>5, <1>6 DEF LedgerHolds
<1>8. desk.pos # NoPosition => audit.late
  BY <1>2, <1>4, <1>5 DEF OrderInv, CutoffHour
<1>9. LedgerHolds => desk.pos = NoPosition
  BY DEF LedgerHolds
<1>10. TypeInv'
  BY <1>1, <1>2 DEF TypeInv
<1>11. ClockInv'
  BY <1>1, <1>2, <1>3, <1>4 DEF ClockInv, Passed, CutoffHour, ExpectedManual
<1>12. OrderInv'
  BY <1>1, <1>2, <1>3, <1>5 DEF OrderInv, CutoffHour
<1>13. HeldInv' /\ LiquidationIsCausal'
  BY <1>1, <1>3 DEF DeskInv, HeldInv, LiquidationIsCausal, CrossedIn
<1>14. ResultInv'
  BY <1>1, <1>3, <1>7, <1>8, <1>9 DEF ResultInv
<1>15. QED
  BY <1>10, <1>11, <1>12, <1>13, <1>14 DEF DeskInv

----------------------------------------------------------------------------
(* Theorems.                                                               *)

LEMMA InitKeeps ==
    ASSUME ExecutionAssumption, DeskInit
    PROVE  DeskInv
<1>1. PICK hours \in 2 .. MaxHours :
        desk = [hours |-> hours, hour |-> 1, phase |-> "hour", pos |-> NoPosition,
                side |-> "long", entry |-> "none", exit |-> "none"]
  BY DEF DeskInit
<1>2. hours \in Nat /\ hours >= 2
  BY DEF ExecutionAssumption
<1>3. /\ monitor = [carried |-> <<>>, overlap |-> <<>>, liquidation |-> 0, bars |-> 0,
                    manual |-> 0, delivered |-> 0]
      /\ audit = [held |-> {}, hours |-> <<>>, late |-> FALSE] /\ result = "none"
  BY DEF DeskInit
<1>4. TypeInv
  BY <1>1, <1>2, <1>3 DEF TypeInv, Orders
<1>5. ClockInv
  BY <1>1, <1>2, <1>3 DEF ClockInv, Passed, CutoffHour
<1>6. OrderInv /\ HeldInv /\ ResultInv /\ LiquidationIsCausal
  BY <1>1, <1>2, <1>3
     DEF OrderInv, HeldInv, ResultInv, LiquidationIsCausal, ToSet, After
<1>7. QED
  BY <1>4, <1>5, <1>6 DEF DeskInv

\* The invariant of a development run.
THEOREM DeskInvariant == DeskSpec => []DeskInv
<1>1. DeskInit => DeskInv
  BY InitKeeps, ExecutionAssumption
<1>2. DeskInv /\ [DeskNext]_deskVars => DeskInv'
  <2> SUFFICES ASSUME DeskInv, [DeskNext]_deskVars PROVE DeskInv'
    OBVIOUS
  <2>1. CASE EntryFills \/ ProtectionFills \/ ExitFills
    BY <2>1, FillsKeep, ExecutionAssumption
  <2>2. CASE SendScheduled
    BY <2>2, SendKeeps
  <2>3. CASE BeforeBar
    BY <2>3, BeforeBarKeeps, ExecutionAssumption
  <2>4. CASE DeliverBar
    BY <2>4, DeliverKeeps
  <2>5. CASE Finish4
    BY <2>5, FinishKeeps
  <2>6. CASE UNCHANGED deskVars
    BY <2>6 DEF deskVars, DeskInv, TypeInv, ClockInv, OrderInv, HeldInv, ResultInv,
                LiquidationIsCausal, CrossedIn, Passed, CutoffHour, ExpectedManual, After, Snapshot
  <2>7. QED
    BY <2>1, <2>2, <2>3, <2>4, <2>5, <2>6 DEF DeskNext
<1>3. QED
  BY <1>1, <1>2, PTL DEF DeskSpec

\* before_bar dates the liquidation to the first hour in which a position held
\* at any moment of it crossed, for any thresholds, marks and orders of fills.
THEOREM CausalLiquidation == DeskSpec => []LiquidationIsCausal
<1>1. DeskInv => LiquidationIsCausal
  BY DEF DeskInv
<1>2. QED
  BY <1>1, DeskInvariant, PTL

\* Economic metrics only for a run that survived and ended flat, and an error
\* only for one that an entry filled after the cutoff left open.
THEOREM OutcomeExplained == DeskSpec => []ResultExplained
<1>1. DeskInv => ResultExplained
  <2>1. DeskInv => MetricsMeanSurvival
    BY DEF DeskInv, ResultInv, LiquidationIsCausal, MetricsMeanSurvival
  <2>2. DeskInv => RefusalExplained
    BY DEF DeskInv, ResultInv, RefusalExplained
  <2>3. QED
    BY <2>1, <2>2 DEF ResultExplained
<1>2. QED
  BY <1>1, DeskInvariant, PTL

\* A run that was liquidated and is flat opens nothing again: no entry is in
\* flight when a liquidation finds no position.
THEOREM StaysFlat == DeskSpec => LiquidatedStaysFlat
<1>1. DeskInv /\ [DeskNext]_deskVars
        => [monitor.liquidation # 0 /\ desk.pos = NoPosition => desk'.pos = NoPosition]_deskVars
  <2> SUFFICES ASSUME DeskInv, DeskNext, monitor.liquidation # 0, desk.pos = NoPosition
               PROVE  desk'.pos = NoPosition
    OBVIOUS
  <2>1. TypeInv /\ desk.entry = "none"
    BY DEF DeskInv, OrderInv
  <2>2. CASE EntryFills \/ ProtectionFills \/ ExitFills
    BY <2>1, <2>2 DEF EntryFills, ProtectionFills, ExitFills
  <2>3. CASE SendScheduled \/ Finish4
    BY <2>1, <2>3 DEF SendScheduled, Finish4, TypeInv
  <2>4. CASE BeforeBar
    <3>1. PICK mark \in Marks :
            \E m \in {Checked(mark)} :
              desk' = Next4(CASE Liquidates(mark) -> Closing(desk, "sent")
                              [] ~Liquidates(mark) /\ CutsOff(m) -> Closing(desk, "scheduled")
                              [] OTHER -> desk, Delivers(m))
      BY <2>4 DEF BeforeBar
    <3>2. Closing(desk, "sent") = desk /\ Closing(desk, "scheduled") = desk
      BY DEF Closing
    <3>3. \E more \in BOOLEAN : desk' = Next4(desk, more)
      BY <3>1, <3>2 DEF Delivers
    <3>4. QED
      BY <2>1, <3>3 DEF Next4, TypeInv
  <2>5. CASE DeliverBar
    BY <2>5 DEF DeliverBar, DeskInv, OrderInv
  <2>6. QED
    BY <2>2, <2>3, <2>4, <2>5 DEF DeskNext
<1>2. QED
  BY <1>1, DeskInvariant, PTL DEF DeskSpec, LiquidatedStaysFlat
=============================================================================
