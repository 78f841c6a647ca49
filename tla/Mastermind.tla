---------------------------- MODULE Mastermind ----------------------------
(***************************************************************************)
(* The mms v2 state machine as a transition system: one action per domain  *)
(* event, in any order the engine, the venue and the operator may produce  *)
(* them.  The environment is open: it may repeat, delay or contradict what *)
(* the machine intended, within the bounds below.                          *)
(***************************************************************************)
EXTENDS MastermindHandlers

CONSTANTS
    Sides,          \* directions of a base reaction: a subset of {1, -1}
    ForcedReasons,  \* reasons a RiskLimitTriggered or CloseRequested event carries
    FinalReasons,   \* reasons a PositionClosed event carries
    Settlements,    \* funding settlement IDs
    Reported,       \* roles whose submit, accept and terminal reports arrive
    MaxExecs,       \* bound: executions
    MaxSetups,      \* bound: setups opened
    MaxAddons,      \* bound: add-on entries submitted
    MaxVersions,    \* bound: versions of the take-profit order of a setup
    MaxSeq,         \* bound: as_of_sequence of a reconciliation
    Faults,         \* kinds of contradicting events that may occur
    MaxFaults       \* bound: contradicting events

\* An event contradicts the machine's view when it ...
FaultKinds ==
    {"conflict",  \* ... carries an identity or a cumulative quantity that differs
     "late",      \* ... fills an order already canceled or timed out
     "unasked",   \* ... rejects, cancels or times out an order nobody canceled
     "drift",     \* ... reports another position than the logical one
     "stale",     \* ... names another setup, or an older reconciliation
     "early",     \* ... closes a position still open, unknown or closing otherwise
     "missing",   \* ... leaves out a protective or closing order that should be open
     "restart"}   \* ... announces a restored snapshot

ASSUME EnvironmentAssumption ==
    /\ Sides \subseteq {1, -1}
    /\ ForcedReasons \subseteq {"MANUAL", "LIQUIDATION", "ENGINE_ERROR", "RISK_LIMIT"}
    /\ FinalReasons \subseteq CloseReasons
    /\ Reported \subseteq Roles
    /\ Faults \subseteq FaultKinds
    /\ {MaxExecs, MaxSetups, MaxAddons, MaxVersions, MaxSeq, MaxFaults} \subseteq Nat

VARIABLES
    machine,   \* MastermindStateMachine.state
    halted,    \* an InvariantViolation escaped _apply
    faults     \* bound counter: contradicting events so far

vars == <<machine, halted, faults>>

Init == machine = InitialMachine /\ halted = FALSE /\ faults = 0

----------------------------------------------------------------------------
(* _apply: run the handler, store its intents, check the invariants; when  *)
(* either refuses, restore the state before the event and run the          *)
(* fail-safe, whose own invariant check is not rescued again.              *)

Fresh == [machine EXCEPT !.tripped = FALSE]

Apply(refused, post, rescue) ==
    LET done == Store(post)
        saved == Store([rescue EXCEPT !.tripped = TRUE])
    IN  IF ~refused /\ Consistent(done)
        THEN machine' = done /\ halted' = FALSE
        ELSE machine' = saved /\ halted' = ~Consistent(saved)

If(condition, kind) == IF condition THEN {kind} ELSE {}

Budget(kinds) ==
    /\ ~halted
    /\ kinds \subseteq Faults
    /\ faults' = IF kinds = {} THEN faults ELSE faults + 1
    /\ faults' <= MaxFaults

----------------------------------------------------------------------------
(* Actions, one per event type of _dispatch.                               *)

EquityUpdated ==
    /\ Budget({})
    /\ Apply(FALSE, [Fresh EXCEPT !.equity = TRUE], Fresh)

BarClosed ==
    \E react \in Sides \cup {0}, trigger, preview, moved \in BOOLEAN :
        /\ Budget({})
        /\ react # 0 => FlatEligible(machine) /\ machine.born < MaxSetups
        /\ trigger => /\ AddonObservable(machine) /\ ~machine.setup.consumed
                      /\ machine.addons < MaxAddons
        /\ preview => trigger
        /\ moved => machine.setup.tp # 0 /\ machine.setup.tp < MaxVersions
        /\ Apply(FALSE, OnBar(Fresh, react, trigger, preview, moved), FailSafe(Fresh))

ReportedOrders == {o \in DOMAIN machine.orders : RoleOf(o) \in Reported}

\* match: the event repeats the stored intent's identity.  A submission or an
\* acceptance may be reported late, when the order has moved on.
OrderSubmitted ==
    \E o \in ReportedOrders, match \in BOOLEAN :
        /\ Budget(If(~match, "conflict"))
        /\ Apply(~match, OnSubmitted(Fresh, o), FailSafe(Fresh))

OrderAccepted ==
    \E o \in ReportedOrders :
        /\ Budget({})
        /\ Apply(FALSE, OnAccepted(Fresh, o), FailSafe(Fresh))

\* A cancel or reject nobody asked for, and every timeout, contradicts the view.
OrderTerminal ==
    \E o \in ReportedOrders, kind \in {"REJECTED", "CANCELED", "TIMED_OUT"},
       cumOK \in BOOLEAN :
        /\ Budget(If(~cumOK, "conflict") \cup
                  If(kind # "CANCELED" \/ machine.orders[o].st # "CANCEL_PENDING", "unasked"))
        /\ machine.orders[o].st \notin TerminalStatuses
        /\ kind = "REJECTED" => machine.orders[o].fill = 0
        /\ Apply(~cumOK, OnTerminal(Fresh, o, kind), FailSafe(Fresh))

\* An exact-quantity order is FILLED when it is complete; a whole-position
\* order when its reference quantity or the position is exhausted.
Completes(o, q) ==
    \/ machine.orders[o].fill + q >= machine.orders[o].req
    \/ RoleOf(o) \in WholeExitRoles /\ q = RealOpen(machine)

FillSizes(o) ==
    IF RoleOf(o) \in {"BASE_STOP", "TAKE_PROFIT"} THEN 1 .. RealOpen(machine)
    ELSE 1 .. Remaining(machine, o)

OrderFilled ==
    \E o \in DOMAIN machine.orders : \E q \in FillSizes(o), cumOK, valid, moved \in BOOLEAN :
        /\ Budget(If(~cumOK, "conflict") \cup
                  If(machine.orders[o].st \in {"CANCELED", "TIMED_OUT"}, "late"))
        /\ machine.execs < MaxExecs
        /\ machine.orders[o].st \notin {"FILLED", "REJECTED"}
        /\ RoleOf(o) # "ADDON_ENTRY" => valid
        /\ RoleOf(o) # "BASE_ENTRY" => ~moved
        /\ Apply(FillRefused(Fresh, o, q, cumOK),
                 OnFill(Fresh, o, q, Completes(o, q), valid, moved),
                 FailSafeFill(Fresh, o, q))

\* The quantities a venue may report: the expected one, flat, one lot off.
VenueQuantities ==
    LET expected == ExpectedSigned(machine)
    IN  {expected, 0, expected - 1, expected + 1}

PositionChanged ==
    \E actual \in VenueQuantities :
        /\ Budget(If(actual # ExpectedSigned(machine), "drift"))
        /\ Apply(FALSE, OnPositionChanged(Fresh, actual), FailSafe(Fresh))

PositionClosed ==
    \E reason \in FinalReasons, net \in {-1, 1}, scope \in BOOLEAN :
        /\ Budget(If(~scope, "stale") \cup
                  If(\/ ~Traded(machine) \/ ~HasSetup(machine) \/ RealOpen(machine) > 0
                     \/ machine.setup.pend \notin {None, reason}, "early"))
        /\ Apply(PositionClosedRefused(Fresh, reason, net, scope),
                 OnPositionClosed(Fresh, reason, net, scope), FailSafe(Fresh))

FundingApplied ==
    \E settlement \in Settlements \ machine.settled, amount \in {-2, 0, 2}, scope \in BOOLEAN :
        /\ Budget(If(~scope, "stale"))
        /\ Apply(FundingRefused(Fresh, scope), OnFunding(Fresh, settlement, amount),
                 FailSafeFunding(Fresh, settlement, amount))

ForcedClose ==
    \E reason \in ForcedReasons :
        /\ Budget({})
        /\ Apply(FALSE, OnForcedClose(Fresh, reason, <<reason, {}>>), FailSafe(Fresh))

\* attested: the snapshot identity and checksum match the restored state.
RecoverySnapshotLoaded ==
    \E attested \in BOOLEAN :
        /\ Budget({"restart"} \cup If(~attested, "conflict"))
        /\ Apply(~attested, OnRecoveryLoaded(Fresh), FailSafe(Fresh))

\* What the venue shows as open: the ledger's active orders, nothing, or the
\* active orders with one order missing or one more still open.
Showable == {o \in DOMAIN machine.orders : machine.orders[o].st \notin TerminalStatuses \ {"TIMED_OUT"}}
VenueViews ==
    LET active == Active(machine)
    IN  {{}, active} \cup {active \ {o} : o \in active} \cup {active \cup {o} : o \in Showable}

ReconciliationCompleted ==
    \E actual \in VenueQuantities, open \in VenueViews, seq \in 0 .. MaxSeq,
       scope, conflict \in BOOLEAN :
        LET e == [actual |-> actual, open |-> open, rich |-> open # {}, conflict |-> conflict,
                  seq |-> seq, scope |-> scope]
        IN  /\ Budget(If(actual # ExpectedSigned(machine), "drift") \cup
                      If(~scope \/ seq < machine.asOf, "stale") \cup
                      If(conflict, "conflict") \cup
                      If(~ActiveOf(machine, Roles \ EntryRoles) \subseteq open,
                         "missing"))
            /\ conflict => e.rich
            /\ Apply(ReconciliationRefused(Fresh, e), OnReconciliation(Fresh, e),
                     FailSafeReconciliation(Fresh, e))

Next ==
    \/ EquityUpdated
    \/ BarClosed
    \/ OrderSubmitted
    \/ OrderAccepted
    \/ OrderTerminal
    \/ OrderFilled
    \/ PositionChanged
    \/ PositionClosed
    \/ FundingApplied
    \/ ForcedClose
    \/ RecoverySnapshotLoaded
    \/ ReconciliationCompleted

Spec == Init /\ [][Next]_vars

----------------------------------------------------------------------------
(* Properties.                                                             *)

OrderIds(m) ==
    \A o \in DOMAIN m.orders :
        /\ RoleOf(o) \in Roles /\ SetupOf(o) \in 0 .. m.born
        /\ m.orders[o].st \in Statuses /\ m.orders[o].side \in {1, -1}
        /\ m.orders[o].req \in Nat /\ m.orders[o].fill \in Nat

\* The shape of the reducer's state: modes, legs, ledger rows and an outbox
\* that only names registered orders.
TypeOK ==
    /\ machine.risk \in RiskModes /\ machine.life \in Lifecycles
    /\ machine.setup.id \in 0 .. machine.born
    /\ machine.setup.pend \in CloseReasons \cup {None}
    /\ machine.setup.final \in CloseReasons \cup {None}
    /\ {machine.base.qty, machine.base.cut, machine.addon.qty, machine.addon.cut} \subseteq Nat
    /\ OrderIds(machine)
    /\ machine.outbox.subs \cup machine.out.subs \subseteq DOMAIN machine.orders
    /\ machine.owed \subseteq machine.settled
    /\ halted \in BOOLEAN /\ faults \in 0 .. MaxFaults

\* The lots that the setup's orders of these roles have filled, each named by
\* its order and a number.
LotsOf(m, roles) ==
    UNION {{o} \X (1 .. m.orders[o].fill) :
           o \in {x \in DOMAIN m.orders : RoleOf(x) \in roles /\ SetupOf(x) = m.setup.id}}
FilledBy(roles) == Cardinality(LotsOf(machine, roles))

\* The position is what the fills say: each leg is exactly what its entry
\* orders filled, and until a final close settles the legs, what left them is
\* exactly what the exit orders filled (_apply_entry_fill, _reduce_leg).
LegsMatchFills ==
    HasSetup(machine) =>
        /\ machine.base.qty + machine.base.cut = FilledBy({"BASE_ENTRY"})
        /\ machine.addon.qty + machine.addon.cut = FilledBy({"ADDON_ENTRY"})
        /\ LET cuts == machine.base.cut + machine.addon.cut
               exits == FilledBy(Roles \ EntryRoles)
           IN  IF machine.setup.final = None THEN exits = cuts ELSE exits <= cuts

\* An open base leg is never without an active base stop, unless a
\* whole-position exit is under way (_upsert_base_stop, _cancel_all_orphans,
\* _cancel_role_orders).
Protected ==
    machine.base.qty > 0 /\ machine.life # "EXIT_PENDING" =>
        ActiveOf(machine, {"BASE_STOP"}) # {}

\* The lots that active orders of the setup have still to take from the add-on.
CoverOf(m) ==
    UNION {{o} \X (m.orders[o].fill + 1 .. m.orders[o].req) :
           o \in {x \in ActiveOf(m, ReducingRoles) : SetupOf(x) = m.setup.id}}

\* The setup has asked to reduce its add-on, which it can do once.
Reduced(m) == \E o \in DOMAIN m.orders : RoleOf(o) = "REDUCE_ADDON" /\ SetupOf(o) = m.setup.id

\* Outside exits the add-on leg is covered lot for lot by its stops until its
\* reduction is asked for, however the partial fills of the entry and the stops
\* interleave (_apply_entry_fill, _apply_addon_reduction).
AddonCovered ==
    machine.life # "EXIT_PENDING" /\ ~Reduced(machine) =>
        machine.addon.qty <= Cardinality(CoverOf(machine))

\* All exposure is answered for: the position as a whole, and what the add-on
\* added to it.
ExposureProtected == Protected /\ AddonCovered

\* Once a close reason is pending, no entry order is active and no entry
\* submit waits in the outbox behind the close.
CloseWithdrawsEntries ==
    machine.setup.pend # None =>
        /\ ActiveOf(machine, EntryRoles) = {}
        /\ \A o \in machine.outbox.subs : RoleOf(o) \notin EntryRoles

\* At most one whole-position close of a setup is waiting to execute, whichever
\* of the drift, recovery, operator and fail-safe paths asked for it; a close
\* being canceled comes back only by a partial fill (_close_all_intent).
OneClose ==
    Cardinality({o \in ActiveOf(machine, {"CLOSE_ALL"}) :
                    /\ SetupOf(o) = machine.setup.id
                    /\ machine.orders[o].st # "PARTIALLY_FILLED"}) <= 1

\* A whole-position close stands alone: nothing that adds risk beside it, and
\* no second one.
CloseIsExclusive == CloseWithdrawsEntries /\ OneClose

\* Every order the venue may not have received is still in the outbox, so a
\* crash between the decision and the submit never loses it.
IntendedIsDurable ==
    \A o \in Active(machine) :
        machine.orders[o].st = "INTENDED" => o \in machine.outbox.subs

\* A setup that carries its final verdict holds no lots and no active order.
FinalIsQuiet ==
    machine.setup.final # None => RealOpen(machine) = 0 /\ Active(machine) = {}

\* When an event was refused, the position it leaves open is answered: a close
\* order is active or a reconciliation is requested (_apply, fail-safe branch).
FailSafeAnswers ==
    machine.tripped /\ ~halted /\ RealOpen(machine) > 0 =>
        machine.outbox.ask \/ ActiveOf(machine, {"CLOSE_ALL"}) # {}

\* A terminal order is never reported live again; only a fill that raced its
\* cancel may still be booked on it (_on_order_submitted, _on_order_accepted).
TerminalNeverReopens ==
    [][\A o \in DOMAIN machine.orders :
          machine.orders[o].st \in TerminalStatuses =>
              machine'.orders[o].st \notin {"INTENDED", "SUBMITTED", "ACCEPTED"}]_vars

\* Funding that belongs to no setup blocks every new risk until its owner is
\* settled: no later reconciliation opens a setup or an add-on (_on_funding).
OwedBlocks ==
    [][machine.owed # {} => /\ machine.owed \subseteq machine'.owed
                            /\ machine'.born = machine.born
                            /\ machine'.addons = machine.addons]_vars

\* A setup ends with no order active and no submit left in the outbox, so that
\* nothing of it can reach the venue later; what may stay behind is a cancel, or
\* a request to reconcile.
SetupEndsClean ==
    [][HasSetup(machine) /\ machine'.setup.id # machine.setup.id =>
           Active(machine') = {} /\ machine'.outbox.subs = {}]_vars

\* What has ended does not come back: neither an order that was reported
\* terminal, nor, once its setup was let go of, anything that belonged to it.
OrdersEndForGood == TerminalNeverReopens /\ SetupEndsClean

\* The reducer implements the trade cycle: a setup that has traded is retired
\* only through its final verdict, and only that verdict moves the risk mode.
Stage ==
    IF ~HasSetup(machine) THEN "idle"
    ELSE IF machine.setup.final # None THEN "closed"
    ELSE IF Traded(machine) THEN "traded" ELSE "pending"

Cycle == INSTANCE TradeCycle WITH
    Sequential <- SequentialEnabled, Verdicts <- CloseReasons,
    mode <- machine.risk, stage <- Stage, verdict <- machine.setup.final,
    won <- machine.setup.final # None /\ machine.net > 0

TradesInCycles == Cycle!CycleSpec

\* The step from m to n retires a setup and moves the mode as its verdict says.
SettlesVerdict(m, n) ==
    /\ SequentialEnabled /\ ~HasSetup(n)
    /\ \/ m.setup.final = "BASE_SL" /\ n.risk = "SCOUT"
       \/ m.setup.final = "TP" /\ m.net > 0 /\ m.risk = "SCOUT" /\ n.risk = "FULL"

\* Whatever the environment does, rollbacks and fail-safes included, the risk
\* mode moves only when a setup is retired with its final verdict: down on a
\* base stop, up on a take profit that earned something, net of funding
\* (_sequential_transition and its one caller).
VerdictMovesRisk ==
    [][machine'.risk # machine.risk => SettlesVerdict(machine, machine')]_vars
============================================================================
