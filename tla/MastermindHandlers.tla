------------------------ MODULE MastermindHandlers ------------------------
(***************************************************************************)
(* One operator per event handler of MastermindStateMachine.  A handler    *)
(* maps the machine before the event (its m.out empty) to the machine it   *)
(* leaves; the ...Refused predicate of a handler says when it raises       *)
(* InvariantViolation instead.  Apply joins them the way _apply does.      *)
(***************************************************************************)
EXTENDS MastermindState

----------------------------------------------------------------------------
(* Bars.  The signal evaluator (signals.py) is abstracted to the facts it  *)
(* may return under the guards the reducer hands it.                       *)

FlatEligible(m) == ~m.recovery /\ ~HasSetup(m) /\ RealOpen(m) = 0 /\ m.life = "NONE"

AddonObservable(m) ==
    /\ AddonEnabled /\ ~m.recovery /\ HasSetup(m) /\ m.life = "NONE"
    /\ PositionBuild(m) = "BASE" /\ ~m.setup.lock

\* Mutant: the new setup is not counted.
CreateBaseSetupUncounted(m, side) ==
    IF ~m.equity THEN m
    ELSE LET id == m.born + 1
         IN  Register([m EXCEPT !.net = 0, !.base = EmptyLeg, !.addon = EmptyLeg,
                                !.setup = [NoSetup EXCEPT !.id = id, !.side = side],
                                !.life = "BASE_PENDING"],
                      <<"BASE_ENTRY", id, 1>>, BaseLots, side)

CreateBaseSetup(m, side) ==
    IF ~m.equity THEN m
    ELSE LET id == m.born + 1
         IN  Register([m EXCEPT !.born = id, !.net = 0, !.base = EmptyLeg, !.addon = EmptyLeg,
                                !.setup = [NoSetup EXCEPT !.id = id, !.side = side],
                                !.life = "BASE_PENDING"],
                      <<"BASE_ENTRY", id, 1>>, BaseLots, side)

\* preview: validate_structural_stop accepts the trigger's reference price.
ConsumeAddonFact(m, preview) ==
    LET noticed == IF StochCross THEN m ELSE [m EXCEPT !.setup.consumed = TRUE]
        entry == <<"ADDON_ENTRY", m.setup.id, m.addons + 1>>
    IN  IF ~AddonEnabled \/ m.risk = "SCOUT" \/ ~preview THEN noticed
        ELSE IF Committed(m) + BaseLots * AddonLots > Cap(m)
        THEN [m EXCEPT !.setup.consumed = TRUE]
        ELSE Register([m EXCEPT !.setup.consumed = TRUE, !.setup.areq = AddonLots,
                                !.addons = @ + 1, !.life = "ADDON_PENDING"],
                      entry, AddonLots, m.setup.side)

\* react: side of a base reaction (0: none); trigger: an add-on fact was found;
\* moved: the bar's opposite band differs from the previous target.
OnBar(m, react, trigger, preview, moved) ==
    LET exposed == RealOpen(m) > 0 /\ HasSetup(m)
        m1 == IF moved /\ m.setup.tp # 0 THEN [m EXCEPT !.setup.stale = TRUE] ELSE m
        m2 == IF react # 0 THEN CreateBaseSetup(m1, react) ELSE m1
        m3 == IF trigger THEN ConsumeAddonFact(m2, preview) ELSE m2
    IN  IF exposed THEN UpsertTakeProfit(m3) ELSE m3

----------------------------------------------------------------------------
(* Order lifecycle.                                                        *)

OnSubmitted(m, o) ==
    IF m.orders[o].st \in {"INTENDED", "SUBMITTED"}
    THEN Mark(Ack(m, {o}), {o}, "SUBMITTED") ELSE Ack(m, {o})

OnAccepted(m, o) ==
    IF m.orders[o].st \in {"INTENDED", "SUBMITTED", "ACCEPTED"}
    THEN Mark(Ack(m, {o}), {o}, "ACCEPTED") ELSE Ack(m, {o})

ClearSetup(m) == [m EXCEPT !.setup = NoSetup]

BaseEntryTerminal(m) ==
    LET idle == [m EXCEPT !.life = "NONE"]
    IN  IF m.base.qty = 0 THEN ClearSetup(idle) ELSE idle

AddonEntryTerminal(m) ==
    LET idle == [m EXCEPT !.life = "NONE"]
    IN  IF StochCross /\ m.addon.qty = 0 /\ HasSetup(m)
        THEN [idle EXCEPT !.setup.consumed = FALSE] ELSE idle

ReductionTerminal(m) ==
    IF m.addon.qty > 0 THEN Ask([m EXCEPT !.life = "REDUCE_PENDING"])
    ELSE [m EXCEPT !.life = "NONE"]

WholeExitTerminal(m) ==
    LET exiting == [m EXCEPT !.life = "EXIT_PENDING"]
    IN  IF RealOpen(m) > 0 THEN Ask(exiting) ELSE exiting

TerminalByRole(m, o) ==
    CASE RoleOf(o) = "BASE_ENTRY" -> BaseEntryTerminal(m)
      [] RoleOf(o) = "ADDON_ENTRY" -> AddonEntryTerminal(m)
      [] RoleOf(o) \in ReducingRoles -> ReductionTerminal(m)
      [] OTHER -> WholeExitTerminal(m)

\* Mutant: the submit of an ended order stays in the outbox.
OnTerminalUnacknowledged(m, o, kind) ==
    LET was == m.orders[o].st
        ended == Mark(IF kind = "CANCELED" THEN AckCancels(m, {o}) ELSE m, {o}, kind)
        foreign == SetupOf(o) # m.setup.id
        closing == m.setup.pend # None /\ RoleOf(o) \in EntryRoles
    IN  IF was \in TerminalStatuses \/ foreign \/ m.setup.final # None \/ closing THEN ended
        ELSE IF kind = "TIMED_OUT" THEN Ask([ended EXCEPT !.recovery = TRUE])
        ELSE IF was = "CANCEL_PENDING" /\ kind = "CANCELED" THEN ended
        ELSE TerminalByRole(ended, o)

\* kind is the terminal status the event carries: REJECTED, CANCELED, TIMED_OUT.
OnTerminal(m, o, kind) ==
    LET was == m.orders[o].st
        acked == Ack(m, {o})
        ended == Mark(IF kind = "CANCELED" THEN AckCancels(acked, {o}) ELSE acked, {o}, kind)
        foreign == SetupOf(o) # m.setup.id
        closing == m.setup.pend # None /\ RoleOf(o) \in EntryRoles
    IN  IF was \in TerminalStatuses THEN acked
        ELSE IF foreign \/ m.setup.final # None \/ closing THEN ended
        ELSE IF kind = "TIMED_OUT" THEN Ask([ended EXCEPT !.recovery = TRUE])
        ELSE IF was = "CANCEL_PENDING" /\ kind = "CANCELED" THEN ended
        ELSE TerminalByRole(ended, o)

----------------------------------------------------------------------------
(* Fills.                                                                  *)

EmergencyClose(m, reason, discriminator) ==
    CloseOpen(CancelAll([m EXCEPT !.life = "EXIT_PENDING"], reason), "ENGINE_ERROR", discriminator)

BreachCap(m) ==
    EmergencyClose([m EXCEPT !.setup.lock = TRUE, !.recovery = TRUE],
                   "COMMITTED_CAP_BREACH", <<"committed-exposure-cap", {}>>)

\* valid: the structural stop still lies within its distance of the new VWAP.
AddonEntryFill(m, q, full, valid) ==
    LET stop == <<"ADDON_STOP", m.setup.id, m.execs>>
        unwound == CancelRoles([m EXCEPT !.setup.lock = TRUE, !.life = "REDUCE_PENDING"],
                               {"ADDON_ENTRY", "ADDON_STOP"})
    IN  IF ~valid THEN ReduceAddon(unwound)
        ELSE [Register(m, stop, q, ExitSide(m)) EXCEPT
                !.life = IF full THEN "NONE" ELSE "ADDON_PENDING"]

BaseEntryFill(m, full, moved) ==
    [UpsertTakeProfit(UpsertBaseStop(m, moved)) EXCEPT
        !.life = IF full THEN "NONE" ELSE "BASE_PENDING"]

\* Mutant: the leg grows by the order's cumulative quantity.
EntryFillCumulative(m, o, q, full, valid, moved) ==
    LET total == m.orders[o].fill
    IN  IF RoleOf(o) = "BASE_ENTRY"
        THEN BaseEntryFill([m EXCEPT !.base.qty = @ + total], full, moved)
        ELSE AddonEntryFill([m EXCEPT !.addon.qty = @ + total], q, full, valid)

EntryFill(m, o, q, full, valid, moved) ==
    LET grown == IF RoleOf(o) = "BASE_ENTRY" THEN [m EXCEPT !.base.qty = @ + q]
                 ELSE [m EXCEPT !.addon.qty = @ + q]
    IN  IF OverCap(grown) THEN BreachCap(grown)
        ELSE IF RoleOf(o) = "BASE_ENTRY" THEN BaseEntryFill(grown, full, moved)
        ELSE AddonEntryFill(grown, q, full, valid)

\* Both kinds of exit consume the add-on leg before the base leg.
Reduce(m, q) ==
    LET a == Min2(q, m.addon.qty)
    IN  [m EXCEPT !.addon = [qty |-> @.qty - a, cut |-> @.cut + a],
                  !.base = [qty |-> @.qty - (q - a), cut |-> @.cut + (q - a)]]

\* Mutant: the end of the add-on cancels every protective order.
AddonReductionUnprotected(m, q) ==
    LET cut == [Reduce(m, q) EXCEPT !.setup.lock = TRUE]
    IN  IF m.life = "EXIT_PENDING"
        THEN IF RealOpen(cut) = 0 THEN CancelAll(cut, "FLAT_ORPHAN") ELSE cut
        ELSE IF cut.addon.qty = 0
        THEN CancelRoles([cut EXCEPT !.life = "NONE"], ProtectiveRoles)
        ELSE [cut EXCEPT !.life = "REDUCE_PENDING"]

AddonReduction(m, q) ==
    LET cut == [Reduce(m, q) EXCEPT !.setup.lock = TRUE]
    IN  IF m.life = "EXIT_PENDING"
        THEN IF RealOpen(cut) = 0 THEN CancelAll(cut, "FLAT_ORPHAN") ELSE cut
        ELSE IF cut.addon.qty = 0
        THEN RefreshTakeProfit(CancelRoles([cut EXCEPT !.life = "NONE"], {"ADDON_STOP"}))
        ELSE [cut EXCEPT !.life = "REDUCE_PENDING"]

WholeExitFill(m, o, q) ==
    LET entriesOff == CancelRoles(m, EntryRoles)
        stopsOff == IF m.addon.qty > 0 THEN CancelRoles(entriesOff, {"ADDON_STOP"})
                    ELSE entriesOff
        cut == [Reduce(stopsOff, q) EXCEPT
                    !.life = "EXIT_PENDING",
                    !.setup.pend = CASE RoleOf(o) = "BASE_STOP" -> "BASE_SL"
                                     [] RoleOf(o) = "TAKE_PROFIT" -> "TP"
                                     [] OTHER -> @]
    IN  IF RealOpen(cut) = 0 THEN CancelAll(cut, "FLAT_ORPHAN") ELSE RefreshTakeProfit(cut)

\* cumOK: the event's cumulative quantity is the applied fills plus q.
FillRefused(m, o, q, cumOK) ==
    \/ SetupOf(o) # m.setup.id
    \/ RoleOf(o) \in EntryRoles /\ m.setup.pend # None
    \/ ~cumOK
    \/ RoleOf(o) \in ExactRoles /\ m.orders[o].fill + q > m.orders[o].req
    \/ RoleOf(o) \in EntryRoles /\ ~HasSetup(m)
    \/ RoleOf(o) \notin EntryRoles /\ (~HasSetup(m) \/ q > RealOpen(m))
    \/ RoleOf(o) \in ReducingRoles /\ q > m.addon.qty /\ m.life # "EXIT_PENDING"

OnFill(m, o, q, full, valid, moved) ==
    LET m1 == [Ack(m, {o}) EXCEPT
                !.execs = @ + 1,
                !.orders[o].fill = @ + q,
                !.orders[o].st = IF full THEN "FILLED" ELSE "PARTIALLY_FILLED"]
    IN  IF RoleOf(o) \in EntryRoles THEN EntryFill(m1, o, q, full, valid, moved)
        ELSE IF RoleOf(o) \in ReducingRoles THEN AddonReduction(m1, q)
        ELSE WholeExitFill(m1, o, q)

----------------------------------------------------------------------------
(* Position, funding, limits, forced closes.                               *)

OnPositionChanged(m, actual) ==
    LET drifted == CancelAll(Ask([m EXCEPT !.recovery = TRUE,
                                           !.drift = [seen |-> TRUE, qty |-> actual],
                                           !.life = "EXIT_PENDING",
                                           !.setup.pend = IF HasSetup(m) THEN "ENGINE_ERROR" ELSE @]),
                             "POSITION_DRIFT")
    IN  IF actual = ExpectedSigned(m) THEN [m EXCEPT !.drift = NoDrift]
        ELSE IF actual = 0 THEN drifted
        ELSE CloseActual(drifted, "ENGINE_ERROR", <<"position-drift", {}>>, actual)

\* scope: the event names the live setup; net: net PnL of the closed setup.
PositionClosedRefused(m, reason, net, scope) ==
    /\ HasSetup(m) /\ scope
    /\ \/ m.setup.final # None /\ <<reason, net>> # <<m.setup.final, m.setup.print>>
       \/ m.setup.final = None /\ (~Traded(m) \/ m.setup.pend \notin {None, reason})

Settle(leg) == [qty |-> 0, cut |-> leg.cut + leg.qty]

OnPositionClosed(m, reason, net, scope) ==
    IF ~HasSetup(m) \/ ~scope THEN Ask([m EXCEPT !.recovery = TRUE])
    ELSE IF m.setup.final # None THEN m
    ELSE CancelAll([m EXCEPT !.setup.final = reason, !.setup.pend = reason,
                             !.setup.print = net, !.net = net,
                             !.base = Settle(@), !.addon = Settle(@),
                             !.life = "EXIT_PENDING"], "FLAT_ORPHAN")

FundingRefused(m, scope) ==
    HasSetup(m) /\ (~scope \/ (RealOpen(m) = 0 /\ m.setup.final = None))

OnFunding(m, settlement, amount) ==
    LET m1 == [m EXCEPT !.settled = @ \cup {settlement}]
    IN  IF HasSetup(m) THEN [m1 EXCEPT !.net = @ + amount]
        ELSE IF amount = 0 THEN m1
        ELSE Ask([m1 EXCEPT !.owed = @ \cup {settlement}, !.recovery = TRUE])

\* _on_risk_limit and _on_close_requested: the same reaction to a forced reason.
OnForcedClose(m, reason, discriminator) ==
    IF RealOpen(m) = 0 \/ ~HasSetup(m) THEN m
    ELSE CloseOpen(CancelRoles([m EXCEPT !.setup.pend = reason, !.life = "EXIT_PENDING"], EntryRoles),
                   reason, discriminator)

OnRecoveryLoaded(m) == Ask([m EXCEPT !.recovery = TRUE])

----------------------------------------------------------------------------
(* ReconciliationCompleted.  e.actual: signed venue quantity; e.open: order *)
(* IDs open at the venue; e.rich: open_orders describes them; e.conflict:   *)
(* a described identity differs; e.seq: as_of_sequence; e.scope: the event  *)
(* names the live setup.                                                    *)

ReconciliationRefused(m, e) ==
    \/ ~e.scope
    \/ e.seq < m.asOf
    \/ e.rich /\ (e.conflict \/ \E o \in e.open :
                    m.orders[o].st \in TerminalStatuses \ {"TIMED_OUT"})

Adopt(m, open) ==
    LET shown == open \cap Active(m)
        partial == {o \in shown : m.orders[o].fill > 0}
    IN  Mark(Mark(m, shown, "ACCEPTED"), partial, "PARTIALLY_FILLED")

\* Mutant: a reconciliation empties the outbox.
HeardForgetful(m, e) == [m EXCEPT !.outbox = NoIntents, !.asOf = e.seq]

\* Intents the venue shows as received leave the outbox; cancels stay while
\* their target is open.
Heard(m, e) ==
    [Ack(m, e.open) EXCEPT !.outbox.cancels = {c \in @ : c[1] \in e.open},
                           !.outbox.ask = FALSE, !.asOf = e.seq]

ClearOutbox(m) == [m EXCEPT !.outbox = NoIntents]

\* Mutants: a take profit restores FULL whatever it earned; every close that
\* is not a take profit falls back to SCOUT.
SequentialTransitionAnyPnl(m, reason) ==
    IF ~SequentialEnabled THEN m
    ELSE [m EXCEPT !.risk = IF reason = "BASE_SL" THEN "SCOUT"
                            ELSE IF reason = "TP" THEN "FULL" ELSE @]

SequentialTransition(m, reason) ==
    IF ~SequentialEnabled THEN m
    ELSE IF reason = "BASE_SL" THEN [m EXCEPT !.risk = "SCOUT"]
    ELSE IF m.risk = "SCOUT" /\ reason = "TP" /\ m.net > 0 THEN [m EXCEPT !.risk = "FULL"]
    ELSE m

Retire(m) == ClearSetup([m EXCEPT !.life = "NONE", !.recovery = FALSE])

\* _replay_intended_orders: still INTENDED with its submit in the outbox.
Replayable(m, ids) == {o \in ids \cap m.outbox.subs : m.orders[o].st = "INTENDED"}
Replay(m, ids) == [m EXCEPT !.out.subs = @ \cup Replayable(m, ids)]

ReconcileMismatch(m, actual) ==
    LET drifted == CancelAll([m EXCEPT !.recovery = TRUE,
                                       !.drift = [seen |-> TRUE, qty |-> actual],
                                       !.life = "EXIT_PENDING",
                                       !.setup.pend = IF HasSetup(m) THEN "ENGINE_ERROR" ELSE @],
                             "RECONCILIATION_DRIFT")
    IN  IF actual = 0 THEN Ask(drifted)
        ELSE CloseActual(drifted, "ENGINE_ERROR", <<"reconciliation-mismatch", {}>>, actual)

ReconcileBasePending(m) ==
    LET bases == {o \in DOMAIN m.orders : RoleOf(o) = "BASE_ENTRY" /\ SetupOf(o) = m.setup.id}
        absent == {o \in bases : m.orders[o].st \in ActiveStatuses \ {"INTENDED"}}
    IN  IF \E o \in bases : m.orders[o].st = "TIMED_OUT" THEN Retire(ClearOutbox(m))
        ELSE IF absent # {} THEN Retire(ClearOutbox(Mark(m, absent, "CANCELED")))
        ELSE IF Replayable(m, bases) # {} THEN [Replay(m, bases) EXCEPT !.recovery = FALSE]
        ELSE Ask([m EXCEPT !.recovery = TRUE])

ReconcileFlat(m, open) ==
    LET pendingEntry == /\ m.life \in {"BASE_PENDING", "ADDON_PENDING"}
                        /\ open \subseteq ActiveOf(m, EntryRoles)
        exiting == Traded(m) /\ HasSetup(m) /\ (m.life = "EXIT_PENDING" \/ m.setup.pend # None)
        waiting == {o \in DOMAIN m.orders : m.orders[o].st \in ActiveStatuses \cup {"CANCEL_PENDING"}}
    IN  IF open # {}
        THEN IF pendingEntry THEN [m EXCEPT !.recovery = FALSE]
             ELSE [m EXCEPT !.life = "EXIT_PENDING", !.recovery = TRUE]
        ELSE IF m.setup.final # None
        THEN Retire(SequentialTransition(ClearOutbox(m), m.setup.final))
        ELSE IF exiting
        THEN Ask(ClearOutbox(Mark([m EXCEPT !.life = "EXIT_PENDING", !.recovery = TRUE],
                                  waiting, "CANCELED")))
        ELSE IF m.life = "BASE_PENDING" /\ HasSetup(m) THEN ReconcileBasePending(m)
        ELSE Retire(ClearOutbox(Mark(m, Active(m), "CANCELED")))

ReconcilePendingEntry(m, open) ==
    LET role == IF m.life = "BASE_PENDING" THEN "BASE_ENTRY" ELSE "ADDON_ENTRY"
        ended == {o \in DOMAIN m.orders : /\ SetupOf(o) = m.setup.id /\ RoleOf(o) = role
                                          /\ m.orders[o].st \in TerminalStatuses \ {"FILLED"}}
        clean == [m EXCEPT !.recovery = FALSE]
    IN  IF m.life \notin {"BASE_PENDING", "ADDON_PENDING"} \/ ended = {} THEN clean
        ELSE IF ended \cap open # {} THEN [m EXCEPT !.recovery = TRUE]
        ELSE [clean EXCEPT !.life = "NONE",
                           !.setup.consumed = @ /\ ~(StochCross /\ m.addon.qty = 0)]

\* known: the orders active before the orphans were canceled.
ReconcileOpen(m, e) ==
    LET missing == Active(m) \ e.open
        lost == missing \ Replayable(m, missing)
        gone == Ack(Mark(Replay(m, missing), lost, "CANCELED"), lost)
        exiting == [gone EXCEPT !.recovery = TRUE, !.life = "EXIT_PENDING"]
        lostRoles == {RoleOf(o) : o \in lost}
    IN  IF lostRoles \cap ProtectiveRoles # {}
        THEN CloseActual(CancelAll(exiting, "MISSING_PROTECTION"), "ENGINE_ERROR",
                         <<"missing-protection", lost>>, e.actual)
        ELSE IF "CLOSE_ALL" \in lostRoles
        THEN CloseActual(exiting, IF m.setup.pend = None THEN "ENGINE_ERROR" ELSE m.setup.pend,
                         <<"missing-whole-exit", e.seq>>, e.actual)
        ELSE IF lostRoles \ EntryRoles # {} THEN Ask([gone EXCEPT !.recovery = TRUE])
        ELSE ReconcilePendingEntry(gone, e.open)

\* Mutant: funding owed to nobody no longer blocks a clean reconciliation.
OnReconciliationOwedForgiven(m, e) ==
    LET m1 == Heard(m, e)
    IN  IF e.actual # ExpectedSigned(m) THEN ReconcileMismatch(m1, e.actual)
        ELSE IF e.actual = 0 THEN ReconcileFlat(m1, e.open)
        ELSE ReconcileOpen(m1, e)

OnReconciliation(m, e) ==
    LET heard == Heard(IF e.rich THEN Adopt(m, e.open) ELSE m, e)
        m1 == SendCancels(heard, e.open \ Active(heard), "RECONCILIATION_ORPHAN")
        settled == [m1 EXCEPT !.drift = NoDrift]
    IN  IF e.actual # ExpectedSigned(m) THEN ReconcileMismatch(m1, e.actual)
        ELSE IF m.owed # {} THEN Ask([m1 EXCEPT !.recovery = TRUE])
        ELSE IF e.actual = 0 THEN ReconcileFlat(settled, e.open)
        ELSE ReconcileOpen(settled, e)

----------------------------------------------------------------------------
(* The fail-safe branch of _apply: what replaces a refused event.          *)

Rescued(m) == [m EXCEPT !.recovery = TRUE]

\* Mutant: the fail-safe only raises recovery mode.
FailSafeSilent(m) == Rescued(m)

FailSafe(m) ==
    IF RealOpen(m) > 0 /\ HasSetup(m)
    THEN EmergencyClose(Rescued(m), "INVARIANT_FAILSAFE", <<"invariant-failsafe", {}>>)
    ELSE Ask(Rescued(m))

FailSafeFunding(m, settlement, amount) ==
    FailSafe([m EXCEPT !.settled = @ \cup {settlement},
                       !.owed = IF amount = 0 THEN @ ELSE @ \cup {settlement}])

FailSafeReconciliation(m, e) ==
    LET unknown == SendCancels(Rescued(m), e.open \ Active(m), "INVALID_RECONCILIATION_ORDER")
        drifted == [CancelAll(unknown, "INVALID_RECONCILIATION") EXCEPT
                        !.drift = [seen |-> TRUE, qty |-> e.actual],
                        !.life = "EXIT_PENDING",
                        !.setup.pend = IF HasSetup(m) THEN "ENGINE_ERROR" ELSE @]
    IN  IF ~e.scope \/ e.seq < m.asOf THEN Ask(Rescued(m))
        ELSE IF e.actual = 0 THEN Ask(drifted)
        ELSE CloseActual(drifted, "ENGINE_ERROR", <<"invalid-reconciliation", {}>>, e.actual)

\* Mutant: the provisional finalization is kept.
FailSafeEntryFillStaysFinal(m, o, q) ==
    LET observed == ExpectedSigned(m) + q * m.orders[o].side
        drifted == Ask([Rescued(m) EXCEPT !.drift = [seen |-> TRUE, qty |-> observed]])
    IN  CloseActual(CancelAll([drifted EXCEPT !.life = "EXIT_PENDING"], "STALE_ENTRY_DRIFT"),
                    "ENGINE_ERROR", <<"attributed-stale-entry-fill", {}>>, observed)

\* An entry fill that cannot be attributed: withdraw a provisional
\* finalization, add the fill to the known drift and close what is open.
FailSafeEntryFill(m, o, q) ==
    LET asked == Ask([Rescued(m) EXCEPT !.setup.final = None, !.setup.print = 0])
        known == IF m.drift.seen THEN m.drift.qty ELSE ExpectedSigned(m)
        observed == known + q * m.orders[o].side
        drifted == [asked EXCEPT !.drift = [seen |-> TRUE, qty |-> observed]]
    IN  IF observed = 0 THEN drifted
        ELSE CloseActual(CancelAll([drifted EXCEPT !.life = "EXIT_PENDING"], "STALE_ENTRY_DRIFT"),
                         "ENGINE_ERROR", <<"attributed-stale-entry-fill", {}>>, observed)

FailSafeFill(m, o, q) ==
    LET m1 == [m EXCEPT !.execs = @ + 1]
    IN  IF RoleOf(o) \in EntryRoles THEN FailSafeEntryFill(m1, o, q) ELSE FailSafe(m1)
============================================================================
