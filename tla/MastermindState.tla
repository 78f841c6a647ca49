------------------------- MODULE MastermindState -------------------------
(***************************************************************************)
(* The durable state of the mms v2 reducer                                 *)
(* (strategies/mastermind/model.py, MachineState) and the private helpers  *)
(* of strategies/mastermind/state_machine.py that every event handler is   *)
(* built from: order registration, cancellation, the protective orders,    *)
(* the outbox, and assert_invariants.                                      *)
(*                                                                         *)
(* A machine is ONE record, because the code copies, rolls back and        *)
(* persists it as one value.  Money is dropped; quantities are lots; an    *)
(* order ID is the tuple <<role, setup, n>> the code hashes into           *)
(* "mms-<sha256>": equal tuples are exactly equal idempotency keys.        *)
(***************************************************************************)
EXTENDS Integers, FiniteSets, FiniteSetsExt

CONSTANTS
    BaseLots,           \* lots a base entry requests (target / close, rounded down)
    AddonLots,          \* lots an add-on entry requests
    AddonEnabled,       \* MastermindConfig.addon_enabled
    SequentialEnabled,  \* MastermindConfig.sequential_enabled
    StochCross          \* addon_trigger_policy is STOCH_CROSS

ASSUME ConfigAssumption ==
    /\ BaseLots \in Nat \ {0}
    /\ AddonLots \in Nat \ {0}
    /\ {AddonEnabled, SequentialEnabled, StochCross} \subseteq BOOLEAN

RiskModes == {"FULL", "SCOUT"}
Lifecycles == {"NONE", "BASE_PENDING", "ADDON_PENDING", "REDUCE_PENDING", "EXIT_PENDING"}
CloseReasons == {"BASE_SL", "TP", "RISK_LIMIT", "MANUAL", "LIQUIDATION", "ENGINE_ERROR"}
None == "-"

EntryRoles == {"BASE_ENTRY", "ADDON_ENTRY"}
ProtectiveRoles == {"BASE_STOP", "ADDON_STOP", "TAKE_PROFIT"}
ReducingRoles == {"ADDON_STOP", "REDUCE_ADDON"}
ExactRoles == EntryRoles \cup ReducingRoles
WholeExitRoles == {"BASE_STOP", "TAKE_PROFIT", "CLOSE_ALL"}
Roles == EntryRoles \cup ProtectiveRoles \cup {"CLOSE_ALL", "REDUCE_ADDON"}

ActiveStatuses == {"INTENDED", "SUBMITTED", "ACCEPTED", "PARTIALLY_FILLED"}
TerminalStatuses == {"FILLED", "REJECTED", "CANCELED", "TIMED_OUT"}
Statuses == ActiveStatuses \cup TerminalStatuses \cup {"CANCEL_PENDING"}

Min2(a, b) == IF a < b THEN a ELSE b
Abs(n) == IF n < 0 THEN -n ELSE n

----------------------------------------------------------------------------
(* The state record.                                                       *)

\* "setup is None" is the setup whose id is 0; tp and bs number the versions
\* of the take-profit and base-stop order (0: tp_client_order_id is None),
\* stale says that the latest bar's target differs from current_tp.
NoSetup ==
    [id |-> 0, side |-> 1, areq |-> 0, lock |-> FALSE, consumed |-> FALSE,
     pend |-> None, final |-> None, print |-> 0, tp |-> 0, stale |-> FALSE, bs |-> 0]

EmptyLeg == [qty |-> 0, cut |-> 0]
NoDrift == [seen |-> FALSE, qty |-> 0]
NoIntents == [subs |-> {}, cancels |-> {}, ask |-> FALSE]
NoOrders == [o \in {} |-> [req |-> 0, fill |-> 0, st |-> "INTENDED", side |-> 1]]

InitialMachine ==
    [risk |-> "FULL", life |-> "NONE", setup |-> NoSetup, base |-> EmptyLeg,
     addon |-> EmptyLeg, orders |-> NoOrders, outbox |-> NoIntents,
     out |-> NoIntents, sent |-> {}, execs |-> 0, addons |-> 0, recovery |-> FALSE,
     drift |-> NoDrift, asOf |-> -1, settled |-> {}, owed |-> {}, net |-> 0,
     equity |-> FALSE, tripped |-> FALSE, born |-> 0]

RoleOf(o) == o[1]
SetupOf(o) == o[2]

HasSetup(m) == m.setup.id # 0
RealOpen(m) == m.base.qty + m.addon.qty
Traded(m) == RealOpen(m) + m.base.cut + m.addon.cut > 0
ExpectedSigned(m) == IF HasSetup(m) THEN RealOpen(m) * m.setup.side ELSE 0
ExitSide(m) == -m.setup.side

PositionBuild(m) ==
    IF RealOpen(m) = 0 THEN "FLAT"
    ELSE IF m.addon.qty > 0 THEN "PYRAMIDED"
    ELSE IF m.setup.lock THEN "BASE_LOCKED"
    ELSE "BASE"

Remaining(m, o) ==
    IF m.orders[o].req > m.orders[o].fill THEN m.orders[o].req - m.orders[o].fill ELSE 0

ActiveOf(m, roles) ==
    {o \in DOMAIN m.orders : m.orders[o].st \in ActiveStatuses /\ RoleOf(o) \in roles}
Active(m) == ActiveOf(m, Roles)

----------------------------------------------------------------------------
(* Orders, intents and the transactional outbox.                           *)

Mark(m, ids, st) ==
    [m EXCEPT !.orders = [o \in DOMAIN @ |->
        IF o \in ids THEN [@[o] EXCEPT !.st = st] ELSE @[o]]]

Register(m, o, qty, side) ==
    [m EXCEPT
        !.orders = [x \in DOMAIN @ \cup {o} |->
            IF x = o THEN [req |-> qty, fill |-> 0, st |-> "INTENDED", side |-> side]
            ELSE @[x]],
        !.out.subs = @ \cup {o}]

\* ReplaceOrder: the previous version waits for its cancel, the next is intended.
Supersede(m, previous, o) ==
    Register(Mark(m, {previous} \cap Active(m), "CANCEL_PENDING"), o, RealOpen(m), ExitSide(m))

\* _emit drops a cancel whose key (order, reason) was emitted before.
SendCancels(m, ids, reason) ==
    LET fresh == {<<o, reason>> : o \in ids} \ m.sent
    IN  [m EXCEPT !.sent = @ \cup fresh, !.out.cancels = @ \cup fresh]

Ask(m) == [m EXCEPT !.out.ask = TRUE]
Ack(m, ids) == [m EXCEPT !.outbox.subs = @ \ ids]
AckCancels(m, ids) == [m EXCEPT !.outbox.cancels = {c \in @ : c[1] \notin ids}]

Store(m) ==
    [m EXCEPT !.outbox = [subs |-> @.subs \cup m.out.subs,
                          cancels |-> @.cancels \cup m.out.cancels,
                          ask |-> @.ask \/ m.out.ask],
              !.out = NoIntents]

\* Every active order waits for a cancel and every submit LEAVES the stored
\* outbox; intents already emitted by this transition stay in m.out.
CancelAll(m, reason) ==
    [SendCancels(Mark(m, Active(m), "CANCEL_PENDING"), Active(m), reason)
        EXCEPT !.outbox.subs = {}]

CancelRoles(m, roles) ==
    LET ids == ActiveOf(m, roles)
    IN  SendCancels(Ack(Mark(m, ids, "CANCEL_PENDING"), ids), ids, "ROLE_CANCEL")

\* Mutant: an earlier close of the setup stays active.
CloseAllBeside(m, reason, discriminator, qty, side) ==
    LET o == <<"CLOSE_ALL", m.setup.id, <<discriminator, reason, side, qty>>>>
        m1 == IF HasSetup(m) THEN [m EXCEPT !.setup.pend = reason] ELSE m
    IN  IF o \in DOMAIN m.orders THEN m1 ELSE Register(m1, o, qty, side)

\* The close order is named by its reason, discriminator, side and quantity:
\* when that name was emitted before, the call registers and emits nothing.
CloseAll(m, reason, discriminator, qty, side) ==
    LET o == <<"CLOSE_ALL", m.setup.id, <<discriminator, reason, side, qty>>>>
        m1 == IF HasSetup(m) THEN [m EXCEPT !.setup.pend = reason] ELSE m
        others == {x \in ActiveOf(m, {"CLOSE_ALL"}) : SetupOf(x) = m.setup.id}
    IN  IF o \in DOMAIN m.orders THEN m1
        ELSE Register(SendCancels(Mark(m1, others, "CANCEL_PENDING"), others,
                                  "CLOSE_ALL_REPLACE"), o, qty, side)

CloseActual(m, reason, discriminator, actual) ==
    CloseAll(m, reason, discriminator, Abs(actual), IF actual > 0 THEN -1 ELSE 1)

CloseOpen(m, reason, discriminator) ==
    CloseAll(m, reason, discriminator, RealOpen(m), ExitSide(m))

ReduceAddon(m) ==
    LET o == <<"REDUCE_ADDON", m.setup.id, 1>>
    IN  IF o \in DOMAIN m.orders THEN m ELSE Register(m, o, m.addon.qty, ExitSide(m))

----------------------------------------------------------------------------
(* Protection: the base stop and the take profit are versioned orders.     *)

UpsertBaseStop(m, moved) ==
    LET s == m.setup
        next == <<"BASE_STOP", s.id, s.bs + 1>>
    IN  IF s.bs = 0
        THEN [Register(m, next, RealOpen(m), ExitSide(m)) EXCEPT !.setup.bs = 1]
        ELSE IF ~moved THEN m
        ELSE [Supersede(m, <<"BASE_STOP", s.id, s.bs>>, next) EXCEPT !.setup.bs = @ + 1]

NextTakeProfit(m) ==
    LET s == m.setup
        next == <<"TAKE_PROFIT", s.id, s.tp + 1>>
    IN  [IF s.tp = 0 THEN Register(m, next, RealOpen(m), ExitSide(m))
         ELSE Supersede(m, <<"TAKE_PROFIT", s.id, s.tp>>, next) EXCEPT !.setup.tp = @ + 1]

UpsertTakeProfit(m) ==
    IF HasSetup(m) /\ RealOpen(m) > 0 /\ m.life # "EXIT_PENDING" /\ (m.setup.tp = 0 \/ m.setup.stale)
    THEN [NextTakeProfit(m) EXCEPT !.setup.stale = FALSE]
    ELSE m

RefreshTakeProfit(m) ==
    IF HasSetup(m) /\ m.setup.tp # 0 /\ RealOpen(m) > 0 THEN NextTakeProfit(m) ELSE m

----------------------------------------------------------------------------
(* assert_invariants.                                                      *)

\* Committed notional in units of one entry target / (BaseLots * AddonLots).
Committed(m) ==
    Min2(m.base.qty + m.base.cut, BaseLots) * AddonLots
    + (IF m.setup.areq = 0 THEN 0 ELSE Min2(m.addon.qty + m.addon.cut, AddonLots) * BaseLots)
    + MapThenSumSet(LAMBDA o : Remaining(m, o) *
                        (IF RoleOf(o) = "BASE_ENTRY" THEN AddonLots ELSE BaseLots),
                    ActiveOf(m, EntryRoles))

\* x0.1 in SCOUT and x2 in FULL, for targets frozen at x0.1 and x1.
Cap(m) == (IF m.risk = "SCOUT" THEN 1 ELSE 2) * BaseLots * AddonLots
OverCap(m) == Committed(m) > Cap(m)

ActiveSideOK(m, o) ==
    LET drifted == RoleOf(o) = "CLOSE_ALL" /\ m.recovery /\ m.drift.seen /\ m.drift.qty # 0
    IN  m.orders[o].side = IF drifted THEN (IF m.drift.qty > 0 THEN -1 ELSE 1)
                           ELSE IF RoleOf(o) \in EntryRoles THEN m.setup.side
                           ELSE ExitSide(m)

OrdersConsistent(m) ==
    /\ PositionBuild(m) = "FLAT" => ActiveOf(m, ProtectiveRoles) = {}
    /\ Cardinality(ActiveOf(m, {"BASE_ENTRY"})) <= 1
    /\ Cardinality(ActiveOf(m, {"ADDON_ENTRY"})) <= 1
    /\ IF HasSetup(m)
       THEN \A o \in Active(m) : SetupOf(o) = m.setup.id /\ ActiveSideOK(m, o)
       ELSE ActiveOf(m, EntryRoles) = {}
    /\ MapThenSumSet(LAMBDA o : Remaining(m, o), ActiveOf(m, {"ADDON_STOP"})) <= m.addon.qty

NoAddon(m) ==
    /\ m.addon.qty = 0
    /\ ActiveOf(m, {"ADDON_ENTRY"}) = {}
    /\ \A o \in m.outbox.subs : RoleOf(o) # "ADDON_ENTRY"

ModesConsistent(m) ==
    /\ m.risk = "SCOUT" => NoAddon(m)
    /\ ~AddonEnabled => NoAddon(m)
    /\ ~SequentialEnabled => m.risk = "FULL"
    /\ m.life = "BASE_PENDING" => HasSetup(m)
    /\ m.life = "ADDON_PENDING" => HasSetup(m) /\ m.base.qty > 0
    /\ m.life = "REDUCE_PENDING" => HasSetup(m) /\ m.addon.qty > 0
    /\ ~HasSetup(m) => RealOpen(m) = 0

CapConsistent(m) ==
    LET safetyExit == m.life = "EXIT_PENDING" /\ m.setup.pend = "ENGINE_ERROR"
        safetyUnwind == m.risk = "FULL" /\ m.setup.lock /\ m.life = "REDUCE_PENDING"
    IN  HasSetup(m) /\ m.setup.final = None =>
            /\ OverCap(m) => safetyExit \/ safetyUnwind
            /\ ~(m.setup.lock /\ m.life = "ADDON_PENDING")

Consistent(m) == OrdersConsistent(m) /\ ModesConsistent(m) /\ CapConsistent(m)
============================================================================
