-------------------------- MODULE MastermindProofs --------------------------
(***************************************************************************)
(* Type correctness of Mastermind, and what moves the sequential risk      *)
(* mode, for every value of the constants.  TypeInv is inductive: Typed    *)
(* says of one machine what the fields the handlers compute with may hold. *)
(* Three relations between the machine before and after carry the proof:   *)
(*   Still   the helpers: types, and the fields a verdict depends on stay; *)
(*   Kept    a handler that may change legs or setup but not the mode;     *)
(*   Legal   what any event may do: the mode moves only by a verdict.      *)
(* There is one lemma per helper and handler; composition is transitivity. *)
(***************************************************************************)
EXTENDS Mastermind, TLAPS

Reasons == CloseReasons \cup {None}

\* Types of the parts of the machine the argument reads.
LegOK(g) == {"qty", "cut"} \subseteq DOMAIN g /\ g.qty \in Nat /\ g.cut \in Nat

SetupOK(s) ==
    /\ {"id", "side", "areq", "lock", "consumed", "pend", "final", "print", "tp", "stale", "bs"}
           \subseteq DOMAIN s
    /\ s.id \in Nat /\ s.side \in {1, -1} /\ s.pend \in Reasons /\ s.final \in Reasons

RowOK(r) ==
    /\ {"req", "fill", "st", "side"} \subseteq DOMAIN r
    /\ r.req \in Nat /\ r.fill \in Nat /\ r.st \in Statuses /\ r.side \in {1, -1}

IntentsOK(x, ids) == {"subs", "cancels", "ask"} \subseteq DOMAIN x /\ x.subs \subseteq ids

Fields ==
    {"risk", "life", "setup", "base", "addon", "orders", "outbox", "out", "net", "drift", "born",
     "settled", "owed", "execs", "addons", "recovery", "sent", "asOf", "equity", "tripped"}

Heads(m) ==
    /\ Fields \subseteq DOMAIN m
    /\ m.risk \in RiskModes /\ m.life \in Lifecycles
    /\ SetupOK(m.setup) /\ LegOK(m.base) /\ LegOK(m.addon)
    /\ m.net \in Int /\ m.born \in Nat
    /\ {"seen", "qty"} \subseteq DOMAIN m.drift /\ m.drift.qty \in Int
    /\ m.owed \subseteq m.settled

Ledger(m) ==
    \A o \in DOMAIN m.orders :
        RowOK(m.orders[o]) /\ RoleOf(o) \in Roles /\ SetupOf(o) \in 0 .. m.born

Outboxes(m) == IntentsOK(m.outbox, DOMAIN m.orders) /\ IntentsOK(m.out, DOMAIN m.orders)

Typed(m) == Heads(m) /\ m.setup.id <= m.born /\ Ledger(m) /\ Outboxes(m)

\* What most helpers do: the risk mode, the legs and the identity, verdict and
\* net result of the setup are left alone, and no order is forgotten.
Calm(m, n) ==
    /\ n.risk = m.risk /\ n.base = m.base /\ n.addon = m.addon /\ n.net = m.net
    /\ n.born = m.born /\ n.setup.id = m.setup.id /\ n.setup.final = m.setup.final
    /\ DOMAIN m.orders \subseteq DOMAIN n.orders

Still(m, n) == Typed(n) /\ Calm(m, n)

----------------------------------------------------------------------------
(* The helpers of MastermindState.                                         *)

\* Doing nothing is still.
LEMMA StillSelf ==
    ASSUME NEW m, Typed(m)
    PROVE  Still(m, m)
BY DEF Still, Calm

\* Two helpers in a row.
LEMMA StillTrans ==
    ASSUME NEW m, NEW n, NEW p, Still(m, n), Still(n, p)
    PROVE  Still(m, p)
BY DEF Still, Calm

\* The position is a natural number of lots, its signed value an integer.
LEMMA Lots ==
    ASSUME NEW m, Typed(m)
    PROVE  /\ RealOpen(m) \in Nat /\ m.addon.qty \in Nat /\ ExitSide(m) \in {1, -1}
           /\ ExpectedSigned(m) \in Int
           /\ HasSetup(m) => (ExpectedSigned(m) = 0 <=> RealOpen(m) = 0)
<1>1. RealOpen(m) \in Nat /\ m.addon.qty \in Nat /\ ExitSide(m) \in {1, -1}
  BY DEF Typed, Heads, LegOK, SetupOK, RealOpen, ExitSide
<1>2. m.setup.side = 1 \/ m.setup.side = -1
  BY DEF Typed, Heads, SetupOK
<1>3. CASE m.setup.side = 1
  BY <1>1, <1>3 DEF ExpectedSigned
<1>4. CASE m.setup.side = -1
  BY <1>1, <1>4 DEF ExpectedSigned
<1> QED
  BY <1>1, <1>2, <1>3, <1>4

\* Marking orders.
LEMMA MarkStill ==
    ASSUME NEW m, Typed(m), NEW ids, NEW st \in Statuses
    PROVE  Still(m, Mark(m, ids, st))
BY DEF Typed, Heads, Fields, Ledger, Outboxes, RowOK, Mark, Calm, Still

\* Registering an order of the live setup and its submit.
LEMMA RegisterStill ==
    ASSUME NEW m, Typed(m), NEW o, NEW qty \in Nat, NEW side \in {1, -1},
           RoleOf(o) \in Roles, SetupOf(o) = m.setup.id
    PROVE  Still(m, Register(m, o, qty, side))
BY DEF Typed, Heads, Fields, SetupOK, Ledger, Outboxes, IntentsOK, RowOK, Register, Calm,
       Statuses, ActiveStatuses, Still

\* Emitting cancels that were not emitted before.
LEMMA SendCancelsStill ==
    ASSUME NEW m, Typed(m), NEW ids, NEW reason
    PROVE  Still(m, SendCancels(m, ids, reason))
BY DEF Typed, Heads, Fields, Ledger, Outboxes, IntentsOK, SendCancels, Calm, Still

\* Asking for a reconciliation.
LEMMA AskStill ==
    ASSUME NEW m, Typed(m)
    PROVE  Still(m, Ask(m))
BY DEF Typed, Heads, Fields, Ledger, Outboxes, IntentsOK, Ask, Calm, Still

\* Acknowledging submits and cancels.
LEMMA AckStill ==
    ASSUME NEW m, Typed(m), NEW ids
    PROVE  Still(m, Ack(m, ids)) /\ Still(m, AckCancels(m, ids))
BY DEF Typed, Heads, Fields, Ledger, Outboxes, IntentsOK, Ack, AckCancels, Calm, Still

\* Storing and clearing the outbox.
LEMMA StoreStill ==
    ASSUME NEW m, Typed(m)
    PROVE  Still(m, Store(m)) /\ Still(m, ClearOutbox(m))
<1>1. Still(m, Store(m))
  BY DEF Typed, Heads, Fields, Ledger, Outboxes, IntentsOK, Store, NoIntents, Calm, Still
<1>2. Still(m, ClearOutbox(m))
  BY DEF Typed, Heads, Fields, Ledger, Outboxes, IntentsOK, ClearOutbox, NoIntents, Calm, Still
<1> QED
  BY <1>1, <1>2

\* Replaying intended submits: they are in the stored outbox.
LEMMA ReplayStill ==
    ASSUME NEW m, Typed(m), NEW ids
    PROVE  Still(m, Replay(m, ids))
BY DEF Typed, Heads, Fields, Ledger, Outboxes, IntentsOK, Replay, Replayable, Calm, Still

\* Entering or leaving recovery.
LEMMA RecoverStill ==
    ASSUME NEW m, Typed(m), NEW on
    PROVE  Still(m, [m EXCEPT !.recovery = on])
BY DEF Typed, Heads, Fields, Ledger, Outboxes, IntentsOK, Calm, Still

\* Moving the lifecycle.
LEMMA LifeStill ==
    ASSUME NEW m, Typed(m), NEW life \in Lifecycles
    PROVE  Still(m, [m EXCEPT !.life = life])
BY DEF Typed, Heads, Fields, Ledger, Outboxes, IntentsOK, Calm, Still

\* Both, in either order.
LEMMA LifeRecoverStill ==
    ASSUME NEW m, Typed(m), NEW life \in Lifecycles, NEW on
    PROVE  /\ Still(m, [m EXCEPT !.life = life, !.recovery = on])
           /\ Still(m, [m EXCEPT !.recovery = on, !.life = life])
BY DEF Typed, Heads, Fields, Ledger, Outboxes, IntentsOK, Calm, Still

\* The marks of the setup that have no bearing on the cycle.
LEMMA SetupStill ==
    ASSUME NEW m, Typed(m), NEW v
    PROVE  /\ Still(m, [m EXCEPT !.setup.lock = v])
           /\ Still(m, [m EXCEPT !.setup.stale = v])
           /\ Still(m, [m EXCEPT !.setup.tp = v])
           /\ Still(m, [m EXCEPT !.setup.bs = v])
           /\ Still(m, [m EXCEPT !.setup.consumed = v])
BY DEF Typed, Heads, Fields, Ledger, Outboxes, IntentsOK, SetupOK, Reasons, Calm, Still

\* A pending close reason.
LEMMA PendStill ==
    ASSUME NEW m, Typed(m), NEW reason \in Reasons
    PROVE  Still(m, [m EXCEPT !.setup.pend = reason])
BY DEF Typed, Heads, Fields, Ledger, Outboxes, IntentsOK, SetupOK, Reasons, Calm, Still

\* Replacing a protective order by its next version.
LEMMA SupersedeStill ==
    ASSUME NEW m, Typed(m), NEW previous, NEW o,
           RoleOf(o) \in {"BASE_STOP", "TAKE_PROFIT"}, SetupOf(o) = m.setup.id
    PROVE  Still(m, Supersede(m, previous, o))
<1> DEFINE marked == Mark(m, {previous} \cap Active(m), "CANCEL_PENDING")
<1>1. Still(m, marked)
  BY MarkStill DEF Statuses
<1> HIDE DEF marked
<1>2. Typed(marked) /\ marked.setup.id = m.setup.id
  BY <1>1 DEF Still, Calm
<1>3. RoleOf(o) \in Roles
  BY DEF Roles, ProtectiveRoles
<1>4. Still(marked, Register(marked, o, RealOpen(m), ExitSide(m)))
  BY <1>2, <1>3, Lots, RegisterStill
<1> QED
  BY <1>1, <1>4, StillTrans DEF Supersede, marked

\* Canceling every active order (_cancel_all_orphans).
LEMMA CancelAllStill ==
    ASSUME NEW m, Typed(m), NEW reason
    PROVE  Still(m, CancelAll(m, reason))
<1> DEFINE marked == Mark(m, Active(m), "CANCEL_PENDING")
           sent == SendCancels(marked, Active(m), reason)
<1>1. Still(m, marked)
  BY MarkStill DEF Statuses
<1>2. Still(m, sent)
  <2> HIDE DEF marked
  <2> QED
    BY <1>1, SendCancelsStill, StillTrans DEF Still
<1> HIDE DEF sent
<1>3. Still(sent, [sent EXCEPT !.outbox.subs = {}])
  BY <1>2 DEF Typed, Heads, Fields, Ledger, Outboxes, IntentsOK, Calm, Still
<1> QED
  BY <1>2, <1>3, StillTrans DEF CancelAll, sent

\* Canceling the orders of some roles (_cancel_role_orders).
LEMMA CancelRolesStill ==
    ASSUME NEW m, Typed(m), NEW roles
    PROVE  Still(m, CancelRoles(m, roles))
<1> DEFINE ids == ActiveOf(m, roles)
           marked == Mark(m, ids, "CANCEL_PENDING")
           acked == Ack(marked, ids)
<1> HIDE DEF ids
<1>1. Still(m, marked)
  BY MarkStill DEF Statuses
<1>2. Still(m, acked)
  <2> HIDE DEF marked
  <2>1. Typed(marked)
    BY <1>1 DEF Still
  <2> QED
    BY <1>1, <2>1, AckStill, StillTrans
<1>3. Still(m, SendCancels(acked, ids, "ROLE_CANCEL"))
  <2> HIDE DEF acked
  <2>1. Typed(acked)
    BY <1>2 DEF Still
  <2> QED
    BY <1>2, <2>1, SendCancelsStill, StillTrans
<1> QED
  BY <1>3 DEF CancelRoles, ids

\* Registering a whole-position close, or none when its name is taken
\* (_close_all_intent).
LEMMA CloseAllStill ==
    ASSUME NEW m, Typed(m), NEW reason \in CloseReasons, NEW discriminator,
           NEW qty \in Nat, NEW side \in {1, -1}
    PROVE  Still(m, CloseAll(m, reason, discriminator, qty, side))
<1> DEFINE o == <<"CLOSE_ALL", m.setup.id, <<discriminator, reason, side, qty>>>>
           m1 == IF HasSetup(m) THEN [m EXCEPT !.setup.pend = reason] ELSE m
           others == {x \in ActiveOf(m, {"CLOSE_ALL"}) : SetupOf(x) = m.setup.id}
           marked == Mark(m1, others, "CANCEL_PENDING")
           sent == SendCancels(marked, others, "CLOSE_ALL_REPLACE")
<1> HIDE DEF others
<1>1. Still(m, m1)
  BY PendStill, StillSelf DEF Reasons
<1>2. Still(m, marked)
  <2> HIDE DEF m1
  <2>1. Still(m1, marked)
    BY <1>1, MarkStill DEF Statuses, Still
  <2> QED
    BY <1>1, <2>1, StillTrans
<1>3. Still(m, sent)
  <2> HIDE DEF marked
  <2>1. Still(marked, sent)
    BY <1>2, SendCancelsStill DEF Still
  <2> QED
    BY <1>2, <2>1, StillTrans
<1>4. Still(m, Register(sent, o, qty, side))
  <2> HIDE DEF sent
  <2>1. Typed(sent) /\ SetupOf(o) = sent.setup.id
    BY <1>3 DEF Still, Calm, SetupOf
  <2>2. RoleOf(o) \in Roles
    BY DEF RoleOf, Roles
  <2> HIDE DEF o
  <2>3. Still(sent, Register(sent, o, qty, side))
    BY <2>1, <2>2, RegisterStill
  <2> QED
    BY <1>3, <2>3, StillTrans
<1> QED
  BY <1>1, <1>4 DEF CloseAll, others

\* The close of the venue's position.
LEMMA CloseActualStill ==
    ASSUME NEW m, Typed(m), NEW reason \in CloseReasons, NEW discriminator, NEW actual \in Int
    PROVE  Still(m, CloseActual(m, reason, discriminator, actual))
<1>1. Abs(actual) \in Nat
  BY DEF Abs
<1> QED
  BY <1>1, CloseAllStill DEF CloseActual

\* The close of the legs.
LEMMA CloseOpenStill ==
    ASSUME NEW m, Typed(m), NEW reason \in CloseReasons, NEW discriminator
    PROVE  Still(m, CloseOpen(m, reason, discriminator))
BY Lots, CloseAllStill DEF CloseOpen

\* The reduction of the add-on.
LEMMA ReduceAddonStill ==
    ASSUME NEW m, Typed(m)
    PROVE  Still(m, ReduceAddon(m))
<1> DEFINE o == <<"REDUCE_ADDON", m.setup.id, 1>>
<1>1. SetupOf(o) = m.setup.id /\ RoleOf(o) = "REDUCE_ADDON"
  BY DEF RoleOf, SetupOf
<1>2. RoleOf(o) \in Roles
  BY <1>1 DEF Roles
<1> HIDE DEF o
<1>3. Still(m, Register(m, o, m.addon.qty, ExitSide(m)))
  BY <1>1, <1>2, Lots, RegisterStill
<1> QED
  BY <1>3, StillSelf DEF ReduceAddon, o

\* Installing or moving the base stop.
LEMMA UpsertBaseStopStill ==
    ASSUME NEW m, Typed(m), NEW moved
    PROVE  Still(m, UpsertBaseStop(m, moved))
<1> DEFINE previous == <<"BASE_STOP", m.setup.id, m.setup.bs>>
           next == <<"BASE_STOP", m.setup.id, m.setup.bs + 1>>
           first == Register(m, next, RealOpen(m), ExitSide(m))
           moving == Supersede(m, previous, next)
<1>1. SetupOf(next) = m.setup.id /\ RoleOf(next) = "BASE_STOP" /\ RoleOf(next) \in Roles
  BY DEF RoleOf, SetupOf, Roles, ProtectiveRoles
<1>2. Still(m, first) /\ Still(m, moving)
  <2> HIDE DEF next, previous
  <2>1. Still(m, first)
    BY <1>1, Lots, RegisterStill
  <2>2. Still(m, moving)
    BY <1>1, SupersedeStill
  <2> QED
    BY <2>1, <2>2
<1>3. Still(m, [first EXCEPT !.setup.bs = 1])
  <2> HIDE DEF first
  <2>1. Still(first, [first EXCEPT !.setup.bs = 1])
    BY <1>2, SetupStill DEF Still
  <2> QED
    BY <1>2, <2>1, StillTrans
<1>4. Still(m, [moving EXCEPT !.setup.bs = @ + 1])
  <2> HIDE DEF moving
  <2>1. Still(moving, [moving EXCEPT !.setup.bs = @ + 1])
    BY <1>2, SetupStill DEF Still
  <2> QED
    BY <1>2, <2>1, StillTrans
<1> QED
  BY <1>3, <1>4, StillSelf DEF UpsertBaseStop

\* The next version of the take profit.
LEMMA NextTakeProfitStill ==
    ASSUME NEW m, Typed(m)
    PROVE  Still(m, NextTakeProfit(m))
<1> DEFINE previous == <<"TAKE_PROFIT", m.setup.id, m.setup.tp>>
           next == <<"TAKE_PROFIT", m.setup.id, m.setup.tp + 1>>
           placed == IF m.setup.tp = 0 THEN Register(m, next, RealOpen(m), ExitSide(m))
                     ELSE Supersede(m, previous, next)
<1>1. SetupOf(next) = m.setup.id /\ RoleOf(next) = "TAKE_PROFIT" /\ RoleOf(next) \in Roles
  BY DEF RoleOf, SetupOf, Roles, ProtectiveRoles
<1>2. Still(m, placed)
  <2> HIDE DEF next, previous
  <2>1. Still(m, Register(m, next, RealOpen(m), ExitSide(m)))
    BY <1>1, Lots, RegisterStill
  <2>2. Still(m, Supersede(m, previous, next))
    BY <1>1, SupersedeStill
  <2> QED
    BY <2>1, <2>2
<1>3. Still(m, [placed EXCEPT !.setup.tp = @ + 1])
  <2> HIDE DEF placed
  <2>1. Still(placed, [placed EXCEPT !.setup.tp = @ + 1])
    BY <1>2, SetupStill DEF Still
  <2> QED
    BY <1>2, <2>1, StillTrans
<1> QED
  BY <1>3 DEF NextTakeProfit

\* Installing or refreshing the take profit.
LEMMA TakeProfitStill ==
    ASSUME NEW m, Typed(m)
    PROVE  Still(m, UpsertTakeProfit(m)) /\ Still(m, RefreshTakeProfit(m))
<1> DEFINE n == NextTakeProfit(m)
<1>1. Still(m, m) /\ Still(m, n)
  BY StillSelf, NextTakeProfitStill
<1> HIDE DEF n
<1>2. Still(m, [n EXCEPT !.setup.stale = FALSE])
  <2>1. Still(n, [n EXCEPT !.setup.stale = FALSE])
    BY <1>1, SetupStill DEF Still
  <2> QED
    BY <1>1, <2>1, StillTrans
<1> QED
  BY <1>1, <1>2 DEF UpsertTakeProfit, RefreshTakeProfit, n

----------------------------------------------------------------------------
(* Order reports.                                                          *)

\* What a handler that settles no verdict does.
Kept(m, n) == Typed(n) /\ n.risk = m.risk

\* Helpers after a handler, or alone, keep what it keeps.
LEMMA StillKept ==
    ASSUME NEW m, NEW n, NEW p
    PROVE  /\ Still(m, n) => Kept(m, n)
           /\ Kept(m, n) /\ Still(n, p) => Kept(m, p)
           /\ Still(m, n) /\ Kept(n, p) => Kept(m, p)
BY DEF Still, Calm, Kept

\* A submission or an acceptance moves the status of a row.
LEMMA SubmittedStill ==
    ASSUME NEW m, Typed(m), NEW o
    PROVE  Still(m, OnSubmitted(m, o)) /\ Still(m, OnAccepted(m, o))
<1> DEFINE acked == Ack(m, {o})
<1>1. Still(m, acked)
  BY AckStill
<1> HIDE DEF acked
<1>2. Typed(acked)
  BY <1>1 DEF Still
<1>3. Still(m, Mark(acked, {o}, "SUBMITTED"))
  <2>1. Still(acked, Mark(acked, {o}, "SUBMITTED"))
    BY <1>2, MarkStill DEF Statuses, ActiveStatuses
  <2> QED
    BY <1>1, <2>1, StillTrans
<1>4. Still(m, Mark(acked, {o}, "ACCEPTED"))
  <2>1. Still(acked, Mark(acked, {o}, "ACCEPTED"))
    BY <1>2, MarkStill DEF Statuses, ActiveStatuses
  <2> QED
    BY <1>1, <2>1, StillTrans
<1> QED
  BY <1>1, <1>3, <1>4 DEF OnSubmitted, OnAccepted, acked

\* The empty setup has the type of a setup.
LEMMA ClearSetupKept ==
    ASSUME NEW m, Typed(m)
    PROVE  Kept(m, ClearSetup(m))
BY DEF Typed, Heads, Fields, Ledger, Outboxes, IntentsOK, SetupOK, Reasons, ClearSetup, NoSetup, Kept

\* What the end of an order means for its role.
LEMMA TerminalByRoleKept ==
    ASSUME NEW m, Typed(m), NEW o
    PROVE  Kept(m, TerminalByRole(m, o))
<1> DEFINE idle == [m EXCEPT !.life = "NONE"]
           reducing == [m EXCEPT !.life = "REDUCE_PENDING"]
           exiting == [m EXCEPT !.life = "EXIT_PENDING"]
<1>1. Still(m, idle) /\ Still(m, reducing) /\ Still(m, exiting)
  BY LifeStill DEF Lifecycles
<1> HIDE DEF idle, reducing, exiting
<1>2. Typed(idle) /\ Typed(reducing) /\ Typed(exiting)
  BY <1>1 DEF Still
<1>3. Kept(m, ClearSetup(idle)) /\ Kept(m, idle)
  BY <1>1, <1>2, ClearSetupKept, StillKept
<1>4. Kept(m, [idle EXCEPT !.setup.consumed = FALSE])
  <2>1. Still(idle, [idle EXCEPT !.setup.consumed = FALSE])
    BY <1>2, SetupStill
  <2> QED
    BY <1>3, <2>1, StillKept
<1>5. Kept(m, Ask(reducing)) /\ Kept(m, Ask(exiting)) /\ Kept(m, exiting)
  <2>1. Still(reducing, Ask(reducing)) /\ Still(exiting, Ask(exiting))
    BY <1>2, AskStill
  <2> QED
    BY <1>1, <2>1, StillKept
<1>6. Kept(m, BaseEntryTerminal(m))
  BY <1>3 DEF BaseEntryTerminal, idle
<1>7. Kept(m, AddonEntryTerminal(m))
  BY <1>3, <1>4 DEF AddonEntryTerminal, idle
<1>8. Kept(m, ReductionTerminal(m))
  BY <1>3, <1>5 DEF ReductionTerminal, idle, reducing
<1>9. Kept(m, WholeExitTerminal(m))
  BY <1>5 DEF WholeExitTerminal, exiting
<1> QED
  BY <1>6, <1>7, <1>8, <1>9 DEF TerminalByRole

\* The end of an order.
LEMMA TerminalKept ==
    ASSUME NEW m, Typed(m), NEW o, NEW kind \in {"REJECTED", "CANCELED", "TIMED_OUT"}
    PROVE  Kept(m, OnTerminal(m, o, kind))
<1> DEFINE acked == Ack(m, {o})
           heard == IF kind = "CANCELED" THEN AckCancels(acked, {o}) ELSE acked
           ended == Mark(heard, {o}, kind)
           late == [ended EXCEPT !.recovery = TRUE]
<1>1. Still(m, acked)
  BY AckStill
<1>2. Still(m, heard)
  <2> HIDE DEF acked
  <2>1. Still(acked, heard)
    BY <1>1, AckStill, StillSelf DEF Still
  <2> QED
    BY <1>1, <2>1, StillTrans
<1>3. Still(m, ended)
  <2> HIDE DEF heard
  <2>1. kind \in Statuses
    BY DEF Statuses, TerminalStatuses
  <2>2. Still(heard, ended)
    BY <1>2, <2>1, MarkStill DEF Still
  <2> QED
    BY <1>2, <2>2, StillTrans
<1> HIDE DEF ended
<1>4. Typed(ended)
  BY <1>3 DEF Still
<1>5. Kept(m, TerminalByRole(ended, o))
  BY <1>3, <1>4, TerminalByRoleKept, StillKept
<1>6. Still(ended, late)
  BY <1>4, RecoverStill
<1>7. Kept(m, Ask(late))
  <2> HIDE DEF late
  <2>1. Still(late, Ask(late))
    BY <1>6, AskStill DEF Still
  <2> QED
    BY <1>3, <1>6, <2>1, StillKept, StillTrans
<1> QED
  BY <1>1, <1>3, <1>5, <1>7, StillKept DEF OnTerminal, ended

----------------------------------------------------------------------------
(* Fills.                                                                  *)

\* Canceling everything and closing the legs.
LEMMA EmergencyCloseStill ==
    ASSUME NEW m, Typed(m), NEW reason, NEW discriminator
    PROVE  Still(m, EmergencyClose(m, reason, discriminator))
<1> DEFINE exiting == [m EXCEPT !.life = "EXIT_PENDING"]
           quiet == CancelAll(exiting, reason)
<1>1. Still(m, exiting)
  BY LifeStill DEF Lifecycles
<1>2. Still(m, quiet)
  <2> HIDE DEF exiting
  <2>1. Still(exiting, quiet)
    BY <1>1, CancelAllStill DEF Still
  <2> QED
    BY <1>1, <2>1, StillTrans
<1>3. Still(m, CloseOpen(quiet, "ENGINE_ERROR", discriminator))
  <2> HIDE DEF quiet
  <2>1. Still(quiet, CloseOpen(quiet, "ENGINE_ERROR", discriminator))
    BY <1>2, CloseOpenStill DEF Still, CloseReasons
  <2> QED
    BY <1>2, <2>1, StillTrans
<1> QED
  BY <1>3 DEF EmergencyClose

\* A breach of the committed cap.
LEMMA BreachCapStill ==
    ASSUME NEW m, Typed(m)
    PROVE  Still(m, BreachCap(m))
<1> DEFINE locked == [m EXCEPT !.setup.lock = TRUE, !.recovery = TRUE]
<1>1. Still(m, locked)
  BY DEF Typed, Heads, Fields, Ledger, Outboxes, IntentsOK, SetupOK, Calm, Still
<1> HIDE DEF locked
<1>2. Still(locked, EmergencyClose(locked, "COMMITTED_CAP_BREACH", <<"committed-exposure-cap", {}>>))
  BY <1>1, EmergencyCloseStill DEF Still
<1> QED
  BY <1>1, <1>2, StillTrans DEF BreachCap, locked

\* A fill of an add-on entry, once the leg has grown.
LEMMA AddonEntryFillStill ==
    ASSUME NEW m, Typed(m), NEW q \in Nat, NEW full, NEW valid
    PROVE  Still(m, AddonEntryFill(m, q, full, valid))
<1> DEFINE locked == [m EXCEPT !.setup.lock = TRUE, !.life = "REDUCE_PENDING"]
           unwound == CancelRoles(locked, {"ADDON_ENTRY", "ADDON_STOP"})
           stop == <<"ADDON_STOP", m.setup.id, m.execs>>
           stopped == Register(m, stop, q, ExitSide(m))
           life == IF full THEN "NONE" ELSE "ADDON_PENDING"
<1>1. Still(m, locked)
  BY DEF Typed, Heads, Fields, Ledger, Outboxes, IntentsOK, SetupOK, Calm, Still, Lifecycles
<1>2. Still(m, unwound)
  <2> HIDE DEF locked
  <2>1. Still(locked, unwound)
    BY <1>1, CancelRolesStill DEF Still
  <2> QED
    BY <1>1, <2>1, StillTrans
<1>3. Still(m, ReduceAddon(unwound))
  <2> HIDE DEF unwound
  <2>1. Still(unwound, ReduceAddon(unwound))
    BY <1>2, ReduceAddonStill DEF Still
  <2> QED
    BY <1>2, <2>1, StillTrans
<1>4. Still(m, stopped)
  <2>1. RoleOf(stop) \in Roles /\ SetupOf(stop) = m.setup.id
    BY DEF RoleOf, SetupOf, Roles, ProtectiveRoles
  <2> HIDE DEF stop
  <2> QED
    BY <2>1, Lots, RegisterStill
<1>5. Still(m, [stopped EXCEPT !.life = life])
  <2>1. life \in Lifecycles
    BY DEF Lifecycles
  <2> HIDE DEF stopped, life
  <2>2. Still(stopped, [stopped EXCEPT !.life = life])
    BY <1>4, <2>1, LifeStill DEF Still
  <2> QED
    BY <1>4, <2>2, StillTrans
<1> QED
  BY <1>3, <1>5 DEF AddonEntryFill

\* A fill of a base entry, once the leg has grown.
LEMMA BaseEntryFillStill ==
    ASSUME NEW m, Typed(m), NEW full, NEW moved
    PROVE  Still(m, BaseEntryFill(m, full, moved))
<1> DEFINE stopped == UpsertBaseStop(m, moved)
           covered == UpsertTakeProfit(stopped)
           life == IF full THEN "NONE" ELSE "BASE_PENDING"
<1>1. Still(m, stopped)
  BY UpsertBaseStopStill
<1>2. Still(m, covered)
  <2> HIDE DEF stopped
  <2>1. Still(stopped, covered)
    BY <1>1, TakeProfitStill DEF Still
  <2> QED
    BY <1>1, <2>1, StillTrans
<1>3. life \in Lifecycles
  BY DEF Lifecycles
<1> HIDE DEF covered, life
<1>4. Still(covered, [covered EXCEPT !.life = life])
  BY <1>2, <1>3, LifeStill DEF Still
<1> QED
  BY <1>2, <1>4, StillTrans DEF BaseEntryFill, covered, life

\* A fill of either entry.
LEMMA EntryFillKept ==
    ASSUME NEW m, Typed(m), NEW o, NEW q \in Nat, NEW full, NEW valid, NEW moved
    PROVE  Kept(m, EntryFill(m, o, q, full, valid, moved))
<1> DEFINE grown == IF RoleOf(o) = "BASE_ENTRY" THEN [m EXCEPT !.base.qty = @ + q]
                    ELSE [m EXCEPT !.addon.qty = @ + q]
<1>1. Kept(m, grown)
  BY DEF Typed, Heads, Fields, Ledger, Outboxes, IntentsOK, LegOK, Kept
<1> HIDE DEF grown
<1>2. Typed(grown)
  BY <1>1 DEF Kept
<1>3. Kept(m, BreachCap(grown))
  BY <1>1, <1>2, BreachCapStill, StillKept
<1>4. Kept(m, BaseEntryFill(grown, full, moved))
  BY <1>1, <1>2, BaseEntryFillStill, StillKept
<1>5. Kept(m, AddonEntryFill(grown, q, full, valid))
  BY <1>1, <1>2, AddonEntryFillStill, StillKept
<1> QED
  BY <1>3, <1>4, <1>5 DEF EntryFill, grown

\* The legs stay natural numbers because an exit never takes more than is open.
LEMMA ReduceKept ==
    ASSUME NEW m, Typed(m), NEW q \in Nat, q <= RealOpen(m)
    PROVE  Kept(m, Reduce(m, q))
<1> DEFINE a == Min2(q, m.addon.qty)
<1>1. m.addon.qty \in Nat /\ m.addon.cut \in Nat /\ m.base.qty \in Nat /\ m.base.cut \in Nat
  BY DEF Typed, Heads, LegOK
<1>2. /\ a \in Nat /\ m.addon.qty - a \in Nat /\ m.addon.cut + a \in Nat
      /\ m.base.qty - (q - a) \in Nat /\ m.base.cut + (q - a) \in Nat
  BY <1>1 DEF Min2, RealOpen
<1> HIDE DEF a
<1>3. Kept(m, [m EXCEPT !.addon = [qty |-> @.qty - a, cut |-> @.cut + a],
                        !.base = [qty |-> @.qty - (q - a), cut |-> @.cut + (q - a)]])
  BY <1>2 DEF Typed, Heads, Fields, Ledger, Outboxes, IntentsOK, LegOK, Kept
<1> QED
  BY <1>3 DEF Reduce, a

\* A fill that reduces the add-on.
LEMMA AddonReductionKept ==
    ASSUME NEW m, Typed(m), NEW q \in Nat, q <= RealOpen(m)
    PROVE  Kept(m, AddonReduction(m, q))
<1> DEFINE reduced == Reduce(m, q)
           cut == [reduced EXCEPT !.setup.lock = TRUE]
           idle == [cut EXCEPT !.life = "NONE"]
           unstopped == CancelRoles(idle, {"ADDON_STOP"})
<1>1. Kept(m, reduced)
  BY ReduceKept
<1>2. Kept(m, cut)
  <2> HIDE DEF reduced
  <2>1. Still(reduced, cut)
    BY <1>1, SetupStill DEF Kept
  <2> QED
    BY <1>1, <2>1, StillKept
<1> HIDE DEF cut
<1>3. Kept(m, idle) /\ Kept(m, [cut EXCEPT !.life = "REDUCE_PENDING"])
  <2>1. Still(cut, idle) /\ Still(cut, [cut EXCEPT !.life = "REDUCE_PENDING"])
    BY <1>2, LifeStill DEF Kept, Lifecycles
  <2> QED
    BY <1>2, <2>1, StillKept
<1>4. Kept(m, unstopped)
  <2> HIDE DEF idle
  <2>1. Still(idle, unstopped)
    BY <1>3, CancelRolesStill DEF Kept
  <2> QED
    BY <1>3, <2>1, StillKept
<1>5. Kept(m, RefreshTakeProfit(unstopped))
  <2> HIDE DEF unstopped
  <2>1. Still(unstopped, RefreshTakeProfit(unstopped))
    BY <1>4, TakeProfitStill DEF Kept
  <2> QED
    BY <1>4, <2>1, StillKept
<1>6. Kept(m, CancelAll(cut, "FLAT_ORPHAN"))
  <2>1. Still(cut, CancelAll(cut, "FLAT_ORPHAN"))
    BY <1>2, CancelAllStill DEF Kept
  <2> QED
    BY <1>2, <2>1, StillKept
<1> QED
  BY <1>2, <1>3, <1>5, <1>6 DEF AddonReduction, cut

\* A fill of a whole-position exit.
LEMMA WholeExitFillKept ==
    ASSUME NEW m, Typed(m), NEW o, NEW q \in Nat, q <= RealOpen(m)
    PROVE  Kept(m, WholeExitFill(m, o, q))
<1> DEFINE entriesOff == CancelRoles(m, EntryRoles)
           stopsOff == IF m.addon.qty > 0 THEN CancelRoles(entriesOff, {"ADDON_STOP"})
                       ELSE entriesOff
           reduced == Reduce(stopsOff, q)
           cut == [reduced EXCEPT
                     !.life = "EXIT_PENDING",
                     !.setup.pend = CASE RoleOf(o) = "BASE_STOP" -> "BASE_SL"
                                      [] RoleOf(o) = "TAKE_PROFIT" -> "TP"
                                      [] OTHER -> @]
<1>1. Still(m, entriesOff)
  BY CancelRolesStill
<1>2. Still(m, stopsOff)
  <2> HIDE DEF entriesOff
  <2>1. Still(entriesOff, CancelRoles(entriesOff, {"ADDON_STOP"}))
    BY <1>1, CancelRolesStill DEF Still
  <2> QED
    BY <1>1, <2>1, StillTrans
<1>3. Kept(m, reduced)
  <2> HIDE DEF stopsOff
  <2>1. q <= RealOpen(stopsOff) /\ Typed(stopsOff)
    BY <1>2 DEF Still, Calm, RealOpen
  <2> QED
    BY <1>2, <2>1, ReduceKept, StillKept
<1>4. Kept(m, cut)
  <2> HIDE DEF reduced
  <2>1. reduced.setup.pend \in Reasons
    BY <1>3 DEF Kept, Typed, Heads, SetupOK
  <2> DEFINE pend == CASE RoleOf(o) = "BASE_STOP" -> "BASE_SL"
                       [] RoleOf(o) = "TAKE_PROFIT" -> "TP"
                       [] OTHER -> reduced.setup.pend
  <2>2. pend \in Reasons
    BY <2>1 DEF Reasons, CloseReasons
  <2> HIDE DEF pend
  <2>3. Kept(m, [reduced EXCEPT !.life = "EXIT_PENDING", !.setup.pend = pend])
    BY <1>3, <2>2 DEF Typed, Heads, Fields, Ledger, Outboxes, IntentsOK, SetupOK, Lifecycles, Kept
  <2> QED
    BY <2>3 DEF pend
<1> HIDE DEF cut
<1>5. Kept(m, CancelAll(cut, "FLAT_ORPHAN"))
  <2>1. Still(cut, CancelAll(cut, "FLAT_ORPHAN"))
    BY <1>4, CancelAllStill DEF Kept
  <2> QED
    BY <1>4, <2>1, StillKept
<1>6. Kept(m, RefreshTakeProfit(cut))
  <2>1. Still(cut, RefreshTakeProfit(cut))
    BY <1>4, TakeProfitStill DEF Kept
  <2> QED
    BY <1>4, <2>1, StillKept
<1> QED
  BY <1>5, <1>6 DEF WholeExitFill, cut

\* A fill the handler does not refuse.
LEMMA FillKept ==
    ASSUME NEW m, Typed(m), NEW o \in DOMAIN m.orders, NEW q \in Nat, NEW full, NEW valid,
           NEW moved, NEW cumOK, ~FillRefused(m, o, q, cumOK)
    PROVE  Kept(m, OnFill(m, o, q, full, valid, moved))
<1> DEFINE acked == Ack(m, {o})
           st == IF full THEN "FILLED" ELSE "PARTIALLY_FILLED"
           m1 == [acked EXCEPT !.execs = @ + 1, !.orders[o].fill = @ + q, !.orders[o].st = st]
<1>1. Still(m, acked)
  BY AckStill
<1>2. Still(m, m1)
  <2>1. st \in Statuses
    BY DEF Statuses, ActiveStatuses, TerminalStatuses
  <2>2. o \in DOMAIN acked.orders
    BY <1>1 DEF Still, Calm
  <2> HIDE DEF acked, st
  <2>3. Still(acked, m1)
    BY <1>1, <2>1, <2>2
    DEF Typed, Heads, Fields, Ledger, Outboxes, IntentsOK, RowOK, Calm, Still
  <2> QED
    BY <1>1, <2>3, StillTrans
<1> HIDE DEF m1
<1>3. Typed(m1) /\ RealOpen(m1) = RealOpen(m)
  BY <1>2 DEF Still, Calm, RealOpen
<1>4. RealOpen(m) \in Nat
  BY Lots
<1>5. RoleOf(o) \notin EntryRoles => q <= RealOpen(m)
  BY <1>4 DEF FillRefused
<1>6. Kept(m, EntryFill(m1, o, q, full, valid, moved))
  BY <1>2, <1>3, EntryFillKept, StillKept
<1>7. ASSUME RoleOf(o) \notin EntryRoles
      PROVE  Kept(m, AddonReduction(m1, q)) /\ Kept(m, WholeExitFill(m1, o, q))
  BY <1>2, <1>3, <1>5, <1>7, AddonReductionKept, WholeExitFillKept, StillKept
<1> QED
  BY <1>6, <1>7 DEF OnFill, m1

----------------------------------------------------------------------------
(* Position, funding, limits, forced closes, bars.                         *)

\* Observing a drift: the exit of a drifted position before its orders are canceled.
Drifted(m, actual) ==
    [m EXCEPT !.recovery = TRUE, !.drift = [seen |-> TRUE, qty |-> actual],
              !.life = "EXIT_PENDING",
              !.setup.pend = IF HasSetup(m) THEN "ENGINE_ERROR" ELSE @]

\* Observing a drift keeps the types.
LEMMA DriftedStill ==
    ASSUME NEW m, Typed(m), NEW actual \in Int
    PROVE  Still(m, Drifted(m, actual))
<1>1. m.setup.pend \in Reasons
  BY DEF Typed, Heads, SetupOK
<1> DEFINE pend == IF HasSetup(m) THEN "ENGINE_ERROR" ELSE m.setup.pend
<1>2. pend \in Reasons
  BY <1>1 DEF Reasons, CloseReasons
<1> HIDE DEF pend
<1>3. Still(m, [m EXCEPT !.recovery = TRUE, !.drift = [seen |-> TRUE, qty |-> actual],
                         !.life = "EXIT_PENDING", !.setup.pend = pend])
  BY <1>2 DEF Typed, Heads, Fields, Ledger, Outboxes, IntentsOK, SetupOK, Lifecycles, Calm, Still
<1> QED
  BY <1>3 DEF Drifted, pend

\* A report of another position.
LEMMA PositionChangedStill ==
    ASSUME NEW m, Typed(m), NEW actual \in Int
    PROVE  Still(m, OnPositionChanged(m, actual))
<1> DEFINE exiting == Drifted(m, actual)
           asked == Ask(exiting)
           quiet == CancelAll(asked, "POSITION_DRIFT")
           closing == CloseActual(quiet, "ENGINE_ERROR", <<"position-drift", {}>>, actual)
<1>1. Still(m, exiting)
  BY DriftedStill
<1>2. Still(m, asked)
  <2> HIDE DEF exiting
  <2>1. Still(exiting, asked)
    BY <1>1, AskStill DEF Still
  <2> QED
    BY <1>1, <2>1, StillTrans
<1>3. Still(m, quiet)
  <2> HIDE DEF asked
  <2>1. Still(asked, quiet)
    BY <1>2, CancelAllStill DEF Still
  <2> QED
    BY <1>2, <2>1, StillTrans
<1>4. Still(m, closing)
  <2> HIDE DEF quiet
  <2>1. Still(quiet, closing)
    BY <1>3, CloseActualStill DEF Still, CloseReasons
  <2> QED
    BY <1>3, <2>1, StillTrans
<1>5. Still(m, [m EXCEPT !.drift = NoDrift])
  BY DEF Typed, Heads, Fields, Ledger, Outboxes, IntentsOK, NoDrift, Calm, Still
<1>6. asked = Ask([m EXCEPT !.recovery = TRUE, !.drift = [seen |-> TRUE, qty |-> actual],
                            !.life = "EXIT_PENDING",
                            !.setup.pend = IF HasSetup(m) THEN "ENGINE_ERROR" ELSE @])
  BY DEF Drifted
<1> HIDE DEF asked
<1> QED
  BY <1>3, <1>4, <1>5, <1>6 DEF OnPositionChanged

\* The final verdict settles the legs.
LEMMA PositionClosedKept ==
    ASSUME NEW m, Typed(m), NEW reason \in CloseReasons, NEW net \in Int, NEW scope
    PROVE  Kept(m, OnPositionClosed(m, reason, net, scope))
<1> DEFINE unknown == [m EXCEPT !.recovery = TRUE]
           final == [m EXCEPT !.setup.final = reason, !.setup.pend = reason,
                              !.setup.print = net, !.net = net,
                              !.base = Settle(@), !.addon = Settle(@),
                              !.life = "EXIT_PENDING"]
<1>1. Kept(m, Ask(unknown))
  <2>1. Still(m, unknown)
    BY RecoverStill
  <2> HIDE DEF unknown
  <2>2. Still(unknown, Ask(unknown))
    BY <2>1, AskStill DEF Still
  <2> QED
    BY <2>1, <2>2, StillTrans, StillKept
<1>2. Kept(m, final)
  <2>1. LegOK(Settle(m.base)) /\ LegOK(Settle(m.addon))
    BY DEF Typed, Heads, LegOK, Settle
  <2> QED
    BY <2>1 DEF Typed, Heads, Fields, Ledger, Outboxes, IntentsOK, SetupOK, Lifecycles, Reasons, Kept
<1>3. Kept(m, CancelAll(final, "FLAT_ORPHAN"))
  <2> HIDE DEF final
  <2>1. Still(final, CancelAll(final, "FLAT_ORPHAN"))
    BY <1>2, CancelAllStill DEF Kept
  <2> QED
    BY <1>2, <2>1, StillKept
<1>4. Kept(m, m)
  BY StillSelf, StillKept
<1> HIDE DEF final
<1>5. CASE ~HasSetup(m) \/ ~scope
  BY <1>1, <1>5 DEF OnPositionClosed
<1>6. CASE ~(~HasSetup(m) \/ ~scope)
  BY <1>3, <1>4, <1>6 DEF OnPositionClosed, final
<1> QED
  BY <1>5, <1>6

\* Funding moves the net result or is owed; what is owed was settled.
LEMMA FundingKept ==
    ASSUME NEW m, Typed(m), NEW settlement, NEW amount \in Int
    PROVE  Kept(m, OnFunding(m, settlement, amount))
<1> DEFINE m1 == [m EXCEPT !.settled = @ \cup {settlement}]
           owing == [m1 EXCEPT !.owed = @ \cup {settlement}, !.recovery = TRUE]
<1>1. Kept(m, m1) /\ Kept(m, [m1 EXCEPT !.net = @ + amount]) /\ Kept(m, owing)
  BY DEF Typed, Heads, Fields, Ledger, Outboxes, IntentsOK, Kept
<1>2. Kept(m, Ask(owing))
  <2> HIDE DEF owing
  <2>1. Still(owing, Ask(owing))
    BY <1>1, AskStill DEF Kept
  <2> QED
    BY <1>1, <2>1, StillKept
<1> QED
  BY <1>1, <1>2 DEF OnFunding

\* A risk limit or an operator closes the position.
LEMMA ForcedCloseStill ==
    ASSUME NEW m, Typed(m), NEW reason \in CloseReasons, NEW discriminator
    PROVE  Still(m, OnForcedClose(m, reason, discriminator))
<1> DEFINE exiting == [m EXCEPT !.setup.pend = reason, !.life = "EXIT_PENDING"]
           withdrawn == CancelRoles(exiting, EntryRoles)
           closing == CloseOpen(withdrawn, reason, discriminator)
<1>1. Still(m, exiting)
  BY DEF Typed, Heads, Fields, Ledger, Outboxes, IntentsOK, SetupOK, Lifecycles, Reasons, Calm, Still
<1>2. Still(m, withdrawn)
  <2> HIDE DEF exiting
  <2>1. Still(exiting, withdrawn)
    BY <1>1, CancelRolesStill DEF Still
  <2> QED
    BY <1>1, <2>1, StillTrans
<1>3. Still(m, closing)
  <2> HIDE DEF withdrawn
  <2>1. Still(withdrawn, closing)
    BY <1>2, CloseOpenStill DEF Still
  <2> QED
    BY <1>2, <2>1, StillTrans
<1> QED
  BY <1>3, StillSelf DEF OnForcedClose

\* A restored snapshot is reconciled.
LEMMA RecoveryLoadedStill ==
    ASSUME NEW m, Typed(m)
    PROVE  Still(m, OnRecoveryLoaded(m))
<1> DEFINE loaded == [m EXCEPT !.recovery = TRUE]
<1>1. Still(m, loaded)
  BY RecoverStill
<1> HIDE DEF loaded
<1>2. Still(loaded, Ask(loaded))
  BY <1>1, AskStill DEF Still
<1> QED
  BY <1>1, <1>2, StillTrans DEF OnRecoveryLoaded, loaded

\* A new setup is counted before its entry is registered.
LEMMA CreateBaseSetupKept ==
    ASSUME NEW m, Typed(m), NEW side \in {1, -1}
    PROVE  Kept(m, CreateBaseSetup(m, side))
<1> DEFINE id == m.born + 1
           opened == [m EXCEPT !.born = id, !.net = 0, !.base = EmptyLeg, !.addon = EmptyLeg,
                               !.setup = [NoSetup EXCEPT !.id = id, !.side = side],
                               !.life = "BASE_PENDING"]
           entry == <<"BASE_ENTRY", id, 1>>
<1>1. m.born \in Nat /\ id \in Nat
  BY DEF Typed, Heads
<1>2. Kept(m, opened) /\ opened.setup.id = id
  <2>1. /\ SetupOK([NoSetup EXCEPT !.id = id, !.side = side]) /\ LegOK(EmptyLeg)
        /\ [NoSetup EXCEPT !.id = id, !.side = side].id = id
    BY <1>1 DEF SetupOK, LegOK, NoSetup, EmptyLeg, Reasons
  <2> DEFINE fresh == [NoSetup EXCEPT !.id = id, !.side = side]
  <2> HIDE DEF fresh
  <2>2. SetupOK(fresh) /\ fresh.id = id
    BY <2>1 DEF fresh
  <2>3. \A o \in DOMAIN m.orders : SetupOf(o) \in 0 .. m.born + 1
    BY <1>1 DEF Typed, Ledger
  <2>4. LET n == [m EXCEPT !.born = id, !.net = 0, !.base = EmptyLeg, !.addon = EmptyLeg,
                           !.setup = fresh, !.life = "BASE_PENDING"]
        IN  Kept(m, n) /\ n.setup.id = id
    BY <1>1, <2>1, <2>2, <2>3
    DEF Typed, Heads, Fields, Ledger, Outboxes, IntentsOK, Lifecycles, Kept
  <2> QED
    BY <2>4 DEF fresh
<1>3. RoleOf(entry) \in Roles /\ SetupOf(entry) = id
  BY DEF RoleOf, SetupOf, Roles, EntryRoles
<1> HIDE DEF opened, entry, id
<1>4. Still(opened, Register(opened, entry, BaseLots, side))
  <2>1. Typed(opened) /\ SetupOf(entry) = opened.setup.id /\ BaseLots \in Nat
    BY <1>2, <1>3, ConfigAssumption DEF Kept
  <2> QED
    BY <1>3, <2>1, RegisterStill
<1>5. Kept(m, Register(opened, entry, BaseLots, side))
  BY <1>2, <1>4, StillKept
<1>6. Kept(m, m)
  BY StillSelf, StillKept
<1> QED
  BY <1>5, <1>6 DEF CreateBaseSetup, opened, entry, id

\* An add-on trigger.
LEMMA ConsumeAddonFactKept ==
    ASSUME NEW m, Typed(m), NEW preview
    PROVE  Kept(m, ConsumeAddonFact(m, preview))
<1> DEFINE noticed == [m EXCEPT !.setup.consumed = TRUE]
           armed == [m EXCEPT !.setup.consumed = TRUE, !.setup.areq = AddonLots,
                              !.addons = @ + 1, !.life = "ADDON_PENDING"]
           entry == <<"ADDON_ENTRY", m.setup.id, m.addons + 1>>
<1>1. Kept(m, noticed) /\ Kept(m, m)
  <2>1. Still(m, noticed)
    BY SetupStill
  <2> HIDE DEF noticed
  <2> QED
    BY <2>1, StillSelf, StillKept
<1>2. Still(m, armed)
  BY DEF Typed, Heads, Fields, Ledger, Outboxes, IntentsOK, SetupOK, Lifecycles, Calm, Still
<1>3. RoleOf(entry) \in Roles /\ SetupOf(entry) = m.setup.id
  BY DEF RoleOf, SetupOf, Roles, EntryRoles
<1>4. m.setup.side \in {1, -1} /\ AddonLots \in Nat
  BY ConfigAssumption DEF Typed, Heads, SetupOK
<1> HIDE DEF armed, entry
<1>5. Still(armed, Register(armed, entry, AddonLots, m.setup.side))
  <2>1. Typed(armed) /\ SetupOf(entry) = armed.setup.id
    BY <1>2, <1>3 DEF Still, Calm
  <2> QED
    BY <1>3, <1>4, <2>1, RegisterStill
<1>6. Kept(m, Register(armed, entry, AddonLots, m.setup.side))
  BY <1>2, <1>5, StillTrans, StillKept
<1> QED
  BY <1>1, <1>6 DEF ConsumeAddonFact, armed, entry

\* A bar.
LEMMA BarKept ==
    ASSUME NEW m, Typed(m), NEW react \in {0, 1, -1}, NEW trigger, NEW preview, NEW moved
    PROVE  Kept(m, OnBar(m, react, trigger, preview, moved))
<1> DEFINE m1 == IF moved /\ m.setup.tp # 0 THEN [m EXCEPT !.setup.stale = TRUE] ELSE m
           m2 == IF react # 0 THEN CreateBaseSetup(m1, react) ELSE m1
           m3 == IF trigger THEN ConsumeAddonFact(m2, preview) ELSE m2
<1>1. Kept(m, m1)
  <2> DEFINE stale == [m EXCEPT !.setup.stale = TRUE]
  <2>1. Still(m, stale)
    BY SetupStill
  <2> HIDE DEF stale
  <2>2. Kept(m, IF moved /\ m.setup.tp # 0 THEN stale ELSE m)
    BY <2>1, StillSelf, StillKept
  <2> QED
    BY <2>2 DEF stale
<1>2. Kept(m, m2)
  <2> HIDE DEF m1
  <2> QED
    BY <1>1, CreateBaseSetupKept DEF Kept
<1>3. Kept(m, m3)
  <2> HIDE DEF m2
  <2> QED
    BY <1>2, ConsumeAddonFactKept DEF Kept
<1>4. Kept(m, UpsertTakeProfit(m3))
  <2> HIDE DEF m3
  <2> QED
    BY <1>3, TakeProfitStill, StillKept DEF Kept
<1> QED
  BY <1>3, <1>4 DEF OnBar

----------------------------------------------------------------------------
(* Reconciliation: the only event that settles a verdict.                  *)

\* What a reconciliation does.
Legal(m, n) == Typed(n) /\ (n.risk # m.risk => SettlesVerdict(m, n))

\* Keeping the mode is legal, and helpers before and after do not matter.
LEMMA KeptLegal ==
    ASSUME NEW m, NEW n, NEW p
    PROVE  /\ Kept(m, n) => Legal(m, n)
           /\ Still(m, n) /\ Legal(n, p) => Legal(m, p)
           /\ Legal(m, n) /\ Still(n, p) => Legal(m, p)
BY DEF Still, Calm, Kept, Legal, SettlesVerdict, HasSetup

\* A reconciliation that shows another position.
LEMMA MismatchStill ==
    ASSUME NEW m, Typed(m), NEW actual \in Int
    PROVE  Still(m, ReconcileMismatch(m, actual))
<1> DEFINE exiting == Drifted(m, actual)
           quiet == CancelAll(exiting, "RECONCILIATION_DRIFT")
           closing == CloseActual(quiet, "ENGINE_ERROR", <<"reconciliation-mismatch", {}>>, actual)
<1>1. Still(m, exiting)
  BY DriftedStill
<1>2. Still(m, quiet)
  <2> HIDE DEF exiting
  <2>1. Still(exiting, quiet)
    BY <1>1, CancelAllStill DEF Still
  <2> QED
    BY <1>1, <2>1, StillTrans
<1>3. Still(m, closing) /\ Still(m, Ask(quiet))
  <2> HIDE DEF quiet
  <2>1. Still(quiet, closing)
    BY <1>2, CloseActualStill DEF Still, CloseReasons
  <2>2. Still(quiet, Ask(quiet))
    BY <1>2, AskStill DEF Still
  <2> QED
    BY <1>2, <2>1, <2>2, StillTrans
<1>4. quiet = CancelAll([m EXCEPT !.recovery = TRUE, !.drift = [seen |-> TRUE, qty |-> actual],
                                  !.life = "EXIT_PENDING",
                                  !.setup.pend = IF HasSetup(m) THEN "ENGINE_ERROR" ELSE @],
                        "RECONCILIATION_DRIFT")
  BY DEF Drifted
<1> HIDE DEF quiet
<1> QED
  BY <1>3, <1>4 DEF ReconcileMismatch

\* Retiring a setup, whatever was marked and cleared before.
LEMMA RetireKept ==
    ASSUME NEW m, Typed(m), NEW ids
    PROVE  /\ Kept(m, Retire(m)) /\ Kept(m, Retire(ClearOutbox(m)))
           /\ Kept(m, Retire(ClearOutbox(Mark(m, ids, "CANCELED"))))
<1>1. ASSUME NEW n, Typed(n)
      PROVE  Kept(n, Retire(n))
  <2> DEFINE idle == [n EXCEPT !.life = "NONE", !.recovery = FALSE]
  <2>1. Still(n, idle)
    BY <1>1, LifeRecoverStill DEF Lifecycles
  <2> HIDE DEF idle
  <2>2. Kept(n, ClearSetup(idle))
    BY <2>1, ClearSetupKept, StillKept DEF Still
  <2> QED
    BY <2>2 DEF Retire, idle
<1>2. Still(m, ClearOutbox(m))
  BY StoreStill
<1>3. Still(m, ClearOutbox(Mark(m, ids, "CANCELED")))
  <2> DEFINE marked == Mark(m, ids, "CANCELED")
  <2>1. Still(m, marked)
    BY MarkStill DEF Statuses, TerminalStatuses
  <2> HIDE DEF marked
  <2>2. Still(marked, ClearOutbox(marked))
    BY <2>1, StoreStill DEF Still
  <2>3. Still(m, ClearOutbox(marked))
    BY <2>1, <2>2, StillTrans
  <2> QED
    BY <2>3 DEF marked
<1>4. Kept(m, Retire(m))
  BY <1>1
<1>5. Kept(m, Retire(ClearOutbox(m)))
  BY <1>1, <1>2, StillKept DEF Still
<1>6. Kept(m, Retire(ClearOutbox(Mark(m, ids, "CANCELED"))))
  BY <1>1, <1>3, StillKept DEF Still
<1> QED
  BY <1>4, <1>5, <1>6

\* A flat reconciliation of a pending base entry.
LEMMA BasePendingKept ==
    ASSUME NEW m, Typed(m)
    PROVE  Kept(m, ReconcileBasePending(m))
<1> DEFINE bases == {o \in DOMAIN m.orders : RoleOf(o) = "BASE_ENTRY" /\ SetupOf(o) = m.setup.id}
           absent == {o \in bases : m.orders[o].st \in ActiveStatuses \ {"INTENDED"}}
           replayed == Replay(m, bases)
           waiting == [m EXCEPT !.recovery = TRUE]
<1> HIDE DEF bases, absent
<1>1. Kept(m, Retire(ClearOutbox(m))) /\ Kept(m, Retire(ClearOutbox(Mark(m, absent, "CANCELED"))))
  BY RetireKept
<1>2. Kept(m, [replayed EXCEPT !.recovery = FALSE])
  <2>1. Still(m, replayed)
    BY ReplayStill
  <2> HIDE DEF replayed
  <2>2. Still(replayed, [replayed EXCEPT !.recovery = FALSE])
    BY <2>1, RecoverStill DEF Still
  <2> QED
    BY <2>1, <2>2, StillTrans, StillKept
<1>3. Kept(m, Ask(waiting))
  <2>1. Still(m, waiting)
    BY RecoverStill
  <2> HIDE DEF waiting
  <2>2. Still(waiting, Ask(waiting))
    BY <2>1, AskStill DEF Still
  <2> QED
    BY <2>1, <2>2, StillTrans, StillKept
<1> QED
  BY <1>1, <1>2, <1>3 DEF ReconcileBasePending, bases, absent

\* The verdict of a setup moves the mode while the setup is retired.
LEMMA VerdictLegal ==
    ASSUME NEW m, Typed(m)
    PROVE  Legal(m, Retire(SequentialTransition(ClearOutbox(m), m.setup.final)))
<1> DEFINE cleared == ClearOutbox(m)
           moved == SequentialTransition(cleared, m.setup.final)
<1>1. Still(m, cleared)
  BY StoreStill
<1>2. /\ Typed(moved)
      /\ moved.risk # m.risk =>
           /\ SequentialEnabled
           /\ \/ m.setup.final = "BASE_SL" /\ moved.risk = "SCOUT"
              \/ m.setup.final = "TP" /\ m.net > 0 /\ m.risk = "SCOUT" /\ moved.risk = "FULL"
  <2> HIDE DEF cleared
  <2> QED
    BY <1>1 DEF Still, Calm, Typed, Heads, Fields, Ledger, Outboxes, IntentsOK, RiskModes,
                SequentialTransition
<1> HIDE DEF moved
<1>3. Kept(moved, Retire(moved))
  BY <1>2, RetireKept
<1>4. ~HasSetup(Retire(moved))
  BY <1>2 DEF Typed, Heads, Fields, Retire, ClearSetup, NoSetup, HasSetup
<1>5. Legal(m, Retire(moved))
  BY <1>2, <1>3, <1>4 DEF Kept, Legal, SettlesVerdict
<1> QED
  BY <1>5 DEF moved

\* A flat reconciliation.
LEMMA FlatLegal ==
    ASSUME NEW m, Typed(m), NEW open
    PROVE  Legal(m, ReconcileFlat(m, open))
<1> DEFINE waiting == {o \in DOMAIN m.orders : m.orders[o].st \in ActiveStatuses \cup {"CANCEL_PENDING"}}
           exiting == [m EXCEPT !.life = "EXIT_PENDING", !.recovery = TRUE]
           marked == Mark(exiting, waiting, "CANCELED")
           cleared == ClearOutbox(marked)
<1>1. Still(m, exiting)
  BY LifeRecoverStill DEF Lifecycles
<1>2. Still(m, [m EXCEPT !.recovery = FALSE])
  BY RecoverStill
<1>3. Legal(m, Retire(SequentialTransition(ClearOutbox(m), m.setup.final)))
  BY VerdictLegal
<1>4. Still(m, Ask(cleared))
  <2> HIDE DEF waiting
  <2>1. Still(m, marked)
    <3> HIDE DEF exiting
    <3>1. Still(exiting, marked)
      BY <1>1, MarkStill DEF Still, Statuses, TerminalStatuses
    <3> QED
      BY <1>1, <3>1, StillTrans
  <2> HIDE DEF marked
  <2>2. Still(m, cleared)
    <3>1. Still(marked, cleared)
      BY <2>1, StoreStill DEF Still
    <3> QED
      BY <2>1, <3>1, StillTrans
  <2> HIDE DEF cleared
  <2>3. Still(cleared, Ask(cleared))
    BY <2>2, AskStill DEF Still
  <2> QED
    BY <2>2, <2>3, StillTrans
<1>5. Kept(m, ReconcileBasePending(m))
  BY BasePendingKept
<1>6. Kept(m, Retire(ClearOutbox(Mark(m, Active(m), "CANCELED"))))
  BY RetireKept
<1>7. /\ Legal(m, exiting) /\ Legal(m, [m EXCEPT !.recovery = FALSE]) /\ Legal(m, Ask(cleared))
      /\ Legal(m, ReconcileBasePending(m))
      /\ Legal(m, Retire(ClearOutbox(Mark(m, Active(m), "CANCELED"))))
  <2> HIDE DEF exiting, cleared
  <2> QED
    BY <1>1, <1>2, <1>4, <1>5, <1>6, StillKept, KeptLegal
<1> QED
  BY <1>3, <1>7 DEF ReconcileFlat

\* A reconciliation of an entry that ended.
LEMMA PendingEntryStill ==
    ASSUME NEW m, Typed(m), NEW open
    PROVE  Still(m, ReconcilePendingEntry(m, open))
<1> DEFINE clean == [m EXCEPT !.recovery = FALSE]
<1>1. Still(m, clean) /\ Still(m, [m EXCEPT !.recovery = TRUE])
  BY RecoverStill
<1>2. \A v : Still(m, [clean EXCEPT !.life = "NONE", !.setup.consumed = v])
  <2> HIDE DEF clean
  <2>1. \A v : Still(clean, [clean EXCEPT !.life = "NONE", !.setup.consumed = v])
    BY <1>1 DEF Typed, Heads, Fields, Ledger, Outboxes, IntentsOK, SetupOK, Lifecycles, Calm, Still
  <2> QED
    BY <1>1, <2>1, StillTrans
<1> HIDE DEF clean
<1> QED
  BY <1>1, <1>2 DEF ReconcilePendingEntry, clean

\* A reconciliation of an open position.
LEMMA OpenStill ==
    ASSUME NEW m, Typed(m), NEW e, e.actual \in Int
    PROVE  Still(m, ReconcileOpen(m, e))
<1> DEFINE missing == Active(m) \ e.open
           lost == missing \ Replayable(m, missing)
           replayed == Replay(m, missing)
           marked == Mark(replayed, lost, "CANCELED")
           gone == Ack(marked, lost)
           exiting == [gone EXCEPT !.recovery = TRUE, !.life = "EXIT_PENDING"]
           quiet == CancelAll(exiting, "MISSING_PROTECTION")
           alone == [gone EXCEPT !.recovery = TRUE]
           pend == IF m.setup.pend = None THEN "ENGINE_ERROR" ELSE m.setup.pend
<1> HIDE DEF missing, lost
<1>1. Still(m, replayed)
  BY ReplayStill
<1>2. Still(m, marked)
  <2> HIDE DEF replayed
  <2>1. Still(replayed, marked)
    BY <1>1, MarkStill DEF Still, Statuses, TerminalStatuses
  <2> QED
    BY <1>1, <2>1, StillTrans
<1>3. Still(m, gone)
  <2> HIDE DEF marked
  <2>1. Still(marked, gone)
    BY <1>2, AckStill DEF Still
  <2> QED
    BY <1>2, <2>1, StillTrans
<1> HIDE DEF gone
<1>4. Still(m, exiting) /\ Still(m, alone)
  <2>1. Still(gone, exiting)
    BY <1>3, LifeRecoverStill DEF Still, Lifecycles
  <2>2. Still(gone, alone)
    BY <1>3, RecoverStill DEF Still
  <2> QED
    BY <1>3, <2>1, <2>2, StillTrans
<1>5. Still(m, quiet)
  <2> HIDE DEF exiting
  <2>1. Still(exiting, quiet)
    BY <1>4, CancelAllStill DEF Still
  <2> QED
    BY <1>4, <2>1, StillTrans
<1>6. \A d : Still(m, CloseActual(quiet, "ENGINE_ERROR", d, e.actual))
  <2> HIDE DEF quiet
  <2>1. \A d : Still(quiet, CloseActual(quiet, "ENGINE_ERROR", d, e.actual))
    BY <1>5, CloseActualStill DEF Still, CloseReasons
  <2> QED
    BY <1>5, <2>1, StillTrans
<1>7. \A d : Still(m, CloseActual(exiting, pend, d, e.actual))
  <2>1. pend \in CloseReasons
    BY DEF Typed, Heads, SetupOK, Reasons, CloseReasons
  <2> HIDE DEF exiting, pend
  <2>2. \A d : Still(exiting, CloseActual(exiting, pend, d, e.actual))
    BY <1>4, <2>1, CloseActualStill DEF Still
  <2> QED
    BY <1>4, <2>2, StillTrans
<1>8. Still(m, Ask(alone))
  <2> HIDE DEF alone
  <2>1. Still(alone, Ask(alone))
    BY <1>4, AskStill DEF Still
  <2> QED
    BY <1>4, <2>1, StillTrans
<1>9. Still(m, ReconcilePendingEntry(gone, e.open))
  <2>1. Still(gone, ReconcilePendingEntry(gone, e.open))
    BY <1>3, PendingEntryStill DEF Still
  <2> QED
    BY <1>3, <2>1, StillTrans
<1> HIDE DEF exiting, quiet, pend
<1> QED
  BY <1>6, <1>7, <1>8, <1>9
  DEF ReconcileOpen, gone, marked, replayed, lost, missing, exiting, quiet, pend

\* Adopting the venue's view and acknowledging what it shows.
LEMMA HeardStill ==
    ASSUME NEW m, Typed(m), NEW e
    PROVE  Still(m, Heard(IF e.rich THEN Adopt(m, e.open) ELSE m, e))
<1> DEFINE seen == e.open \cap Active(m)
           partial == {o \in seen : m.orders[o].fill > 0}
           accepted == Mark(m, seen, "ACCEPTED")
           adopted == Mark(accepted, partial, "PARTIALLY_FILLED")
           shown == IF e.rich THEN Adopt(m, e.open) ELSE m
           acked == Ack(shown, e.open)
<1>1. Still(m, adopted)
  <2> HIDE DEF seen, partial
  <2>1. Still(m, accepted)
    BY MarkStill DEF Statuses, ActiveStatuses
  <2> HIDE DEF accepted
  <2>2. Still(accepted, adopted)
    BY <2>1, MarkStill DEF Still, Statuses, ActiveStatuses
  <2> QED
    BY <2>1, <2>2, StillTrans
<1>2. Still(m, shown)
  BY <1>1, StillSelf DEF Adopt
<1>3. Still(m, acked)
  <2> HIDE DEF shown
  <2>1. Still(shown, acked)
    BY <1>2, AckStill DEF Still
  <2> QED
    BY <1>2, <2>1, StillTrans
<1> HIDE DEF acked
<1>4. Still(acked, [acked EXCEPT !.outbox.cancels = {c \in @ : c[1] \in e.open},
                                 !.outbox.ask = FALSE, !.asOf = e.seq])
  BY <1>3 DEF Typed, Heads, Fields, Ledger, Outboxes, IntentsOK, Calm, Still
<1> QED
  BY <1>3, <1>4, StillTrans DEF Heard, acked

\* A reconciliation settles a verdict, or keeps the mode.
LEMMA ReconciliationLegal ==
    ASSUME NEW m, Typed(m), NEW e, e.actual \in Int
    PROVE  Legal(m, OnReconciliation(m, e))
<1> DEFINE heard == Heard(IF e.rich THEN Adopt(m, e.open) ELSE m, e)
           m1 == SendCancels(heard, e.open \ Active(heard), "RECONCILIATION_ORPHAN")
           settled == [m1 EXCEPT !.drift = NoDrift]
           blocked == [m1 EXCEPT !.recovery = TRUE]
<1>1. Still(m, m1)
  <2>1. Still(m, heard)
    BY HeardStill
  <2> HIDE DEF heard
  <2>2. Still(heard, m1)
    BY <2>1, SendCancelsStill DEF Still
  <2> QED
    BY <2>1, <2>2, StillTrans
<1> HIDE DEF m1
<1>2. Typed(m1)
  BY <1>1 DEF Still
<1>3. Legal(m, ReconcileMismatch(m1, e.actual))
  BY <1>1, <1>2, MismatchStill, StillKept, StillTrans, KeptLegal
<1>4. Legal(m, Ask(blocked))
  <2>1. Still(m1, blocked)
    BY <1>2, RecoverStill
  <2> HIDE DEF blocked
  <2>2. Still(blocked, Ask(blocked))
    BY <2>1, AskStill DEF Still
  <2> QED
    BY <1>1, <2>1, <2>2, StillTrans, StillKept, KeptLegal
<1>5. Still(m, settled)
  <2>1. Still(m1, settled)
    BY <1>2 DEF Typed, Heads, Fields, Ledger, Outboxes, IntentsOK, NoDrift, Calm, Still
  <2> QED
    BY <1>1, <2>1, StillTrans
<1> HIDE DEF settled
<1>6. Legal(m, ReconcileFlat(settled, e.open)) /\ Legal(m, ReconcileOpen(settled, e))
  <2>1. Typed(settled)
    BY <1>5 DEF Still
  <2>2. Legal(settled, ReconcileFlat(settled, e.open))
    BY <2>1, FlatLegal
  <2>3. Still(settled, ReconcileOpen(settled, e))
    BY <2>1, OpenStill
  <2> QED
    BY <1>5, <2>2, <2>3, StillTrans, StillKept, KeptLegal
<1> QED
  BY <1>3, <1>4, <1>6 DEF OnReconciliation, m1, settled

----------------------------------------------------------------------------
(* The fail-safe settles no verdict.                                       *)

\* The common fail-safe.
LEMMA FailSafeStill ==
    ASSUME NEW m, Typed(m)
    PROVE  Still(m, Rescued(m)) /\ Still(m, FailSafe(m))
<1> DEFINE r == Rescued(m)
<1>1. Still(m, r)
  BY RecoverStill DEF Rescued
<1> HIDE DEF r
<1>2. Still(r, EmergencyClose(r, "INVARIANT_FAILSAFE", <<"invariant-failsafe", {}>>))
  BY <1>1, EmergencyCloseStill DEF Still
<1>3. Still(r, Ask(r))
  BY <1>1, AskStill DEF Still
<1> QED
  BY <1>1, <1>2, <1>3, StillTrans DEF FailSafe, r

\* Refused funding.
LEMMA FailSafeFundingKept ==
    ASSUME NEW m, Typed(m), NEW settlement, NEW amount
    PROVE  Kept(m, FailSafeFunding(m, settlement, amount))
<1> DEFINE owing == [m EXCEPT !.settled = @ \cup {settlement},
                              !.owed = IF amount = 0 THEN @ ELSE @ \cup {settlement}]
<1>1. Kept(m, owing)
  BY DEF Typed, Heads, Fields, Ledger, Outboxes, IntentsOK, Kept
<1> HIDE DEF owing
<1>2. Still(owing, FailSafe(owing))
  BY <1>1, FailSafeStill DEF Kept
<1> QED
  BY <1>1, <1>2, StillKept DEF FailSafeFunding, owing

\* A refused reconciliation.
LEMMA FailSafeReconciliationStill ==
    ASSUME NEW m, Typed(m), NEW e, e.actual \in Int
    PROVE  Still(m, FailSafeReconciliation(m, e))
<1> DEFINE r == Rescued(m)
           unknown == SendCancels(r, e.open \ Active(m), "INVALID_RECONCILIATION_ORDER")
           quiet == CancelAll(unknown, "INVALID_RECONCILIATION")
           pend == IF HasSetup(m) THEN "ENGINE_ERROR" ELSE quiet.setup.pend
           drifted == [quiet EXCEPT !.drift = [seen |-> TRUE, qty |-> e.actual],
                                    !.life = "EXIT_PENDING", !.setup.pend = pend]
<1>1. Still(m, r)
  BY FailSafeStill
<1>2. Still(m, unknown)
  <2> HIDE DEF r
  <2>1. Still(r, unknown)
    BY <1>1, SendCancelsStill DEF Still
  <2> QED
    BY <1>1, <2>1, StillTrans
<1>3. Still(m, quiet)
  <2> HIDE DEF unknown
  <2>1. Still(unknown, quiet)
    BY <1>2, CancelAllStill DEF Still
  <2> QED
    BY <1>2, <2>1, StillTrans
<1>4. Still(m, drifted)
  <2> HIDE DEF quiet
  <2>1. pend \in Reasons
    BY <1>3 DEF Still, Typed, Heads, SetupOK, Reasons, CloseReasons
  <2> HIDE DEF pend
  <2>2. Still(quiet, drifted)
    BY <1>3, <2>1
    DEF Typed, Heads, Fields, Ledger, Outboxes, IntentsOK, SetupOK, Lifecycles, Calm, Still
  <2> QED
    BY <1>3, <2>2, StillTrans
<1>5. Still(m, Ask(r))
  <2> HIDE DEF r
  <2>1. Still(r, Ask(r))
    BY <1>1, AskStill DEF Still
  <2> QED
    BY <1>1, <2>1, StillTrans
<1> HIDE DEF drifted
<1>6. Still(m, Ask(drifted))
  <2>1. Still(drifted, Ask(drifted))
    BY <1>4, AskStill DEF Still
  <2> QED
    BY <1>4, <2>1, StillTrans
<1>7. \A d : Still(m, CloseActual(drifted, "ENGINE_ERROR", d, e.actual))
  <2>1. \A d : Still(drifted, CloseActual(drifted, "ENGINE_ERROR", d, e.actual))
    BY <1>4, CloseActualStill DEF Still, CloseReasons
  <2> QED
    BY <1>4, <2>1, StillTrans
<1> QED
  BY <1>5, <1>6, <1>7 DEF FailSafeReconciliation, drifted

\* A refused entry fill withdraws the verdict, if there was one.
LEMMA FailSafeEntryFillKept ==
    ASSUME NEW m, Typed(m), NEW o \in DOMAIN m.orders, NEW q \in Nat
    PROVE  Kept(m, FailSafeEntryFill(m, o, q))
<1> DEFINE withdrawn == [Rescued(m) EXCEPT !.setup.final = None, !.setup.print = 0]
           asked == Ask(withdrawn)
           known == IF m.drift.seen THEN m.drift.qty ELSE ExpectedSigned(m)
           observed == known + q * m.orders[o].side
           drifted == [asked EXCEPT !.drift = [seen |-> TRUE, qty |-> observed]]
           exiting == [drifted EXCEPT !.life = "EXIT_PENDING"]
           quiet == CancelAll(exiting, "STALE_ENTRY_DRIFT")
<1>1. observed \in Int
  <2>1. known \in Int
    BY Lots DEF Typed, Heads
  <2>2. m.orders[o].side = 1 \/ m.orders[o].side = -1
    BY DEF Typed, Ledger, RowOK
  <2>3. q * m.orders[o].side \in Int
    BY <2>2
  <2> HIDE DEF known
  <2> QED
    BY <2>1, <2>3
<1> HIDE DEF observed
<1>2. Kept(m, withdrawn)
  BY DEF Typed, Heads, Fields, Ledger, Outboxes, IntentsOK, SetupOK, Reasons, Rescued, Kept
<1>3. Kept(m, asked)
  <2> HIDE DEF withdrawn
  <2>1. Still(withdrawn, asked)
    BY <1>2, AskStill DEF Kept
  <2> QED
    BY <1>2, <2>1, StillKept
<1>4. Kept(m, drifted)
  <2> HIDE DEF asked
  <2> QED
    BY <1>1, <1>3 DEF Typed, Heads, Fields, Ledger, Outboxes, IntentsOK, Kept
<1>5. Kept(m, exiting)
  <2> HIDE DEF drifted
  <2>1. Still(drifted, exiting)
    BY <1>4, LifeStill DEF Kept, Lifecycles
  <2> QED
    BY <1>4, <2>1, StillKept
<1>6. Kept(m, quiet)
  <2> HIDE DEF exiting
  <2>1. Still(exiting, quiet)
    BY <1>5, CancelAllStill DEF Kept
  <2> QED
    BY <1>5, <2>1, StillKept
<1>7. \A d : Kept(m, CloseActual(quiet, "ENGINE_ERROR", d, observed))
  <2> HIDE DEF quiet
  <2>1. \A d : Still(quiet, CloseActual(quiet, "ENGINE_ERROR", d, observed))
    BY <1>1, <1>6, CloseActualStill DEF Kept, CloseReasons
  <2> QED
    BY <1>6, <2>1, StillKept
<1> QED
  BY <1>4, <1>7 DEF FailSafeEntryFill, observed

\* A refused fill is counted first.
LEMMA FailSafeFillKept ==
    ASSUME NEW m, Typed(m), NEW o \in DOMAIN m.orders, NEW q \in Nat
    PROVE  Kept(m, FailSafeFill(m, o, q))
<1> DEFINE m1 == [m EXCEPT !.execs = @ + 1]
<1>1. Still(m, m1)
  BY DEF Typed, Heads, Fields, Ledger, Outboxes, IntentsOK, Calm, Still
<1> HIDE DEF m1
<1>2. Typed(m1) /\ o \in DOMAIN m1.orders
  BY <1>1 DEF Still, Calm
<1>3. Kept(m1, FailSafeEntryFill(m1, o, q)) /\ Still(m1, FailSafe(m1))
  BY <1>2, FailSafeEntryFillKept, FailSafeStill
<1> QED
  BY <1>1, <1>3, StillKept, StillTrans DEF FailSafeFill, m1

----------------------------------------------------------------------------
(* Apply and the actions.                                                  *)

TypeInv == Typed(machine) /\ halted \in BOOLEAN /\ faults \in 0 .. MaxFaults

\* The marker of the previous fail-safe is reset before an event.
LEMMA FreshStill ==
    ASSUME Typed(machine)
    PROVE  /\ Still(machine, Fresh) /\ Typed(Fresh)
           /\ DOMAIN Fresh.orders = DOMAIN machine.orders
           /\ ExpectedSigned(Fresh) = ExpectedSigned(machine)
           /\ RealOpen(Fresh) = RealOpen(machine)
BY DEF Typed, Heads, Fields, Ledger, Outboxes, IntentsOK, Fresh, Calm, Still,
       ExpectedSigned, RealOpen, HasSetup

\* Whichever of the handler and the fail-safe takes effect, the types hold and
\* the mode moves only by a verdict.
LEMMA ApplyLegal ==
    ASSUME Typed(machine), NEW refused, NEW post, NEW rescue,
           ~refused => Legal(Fresh, post), Legal(Fresh, rescue), Apply(refused, post, rescue)
    PROVE  Legal(machine, machine') /\ halted' \in BOOLEAN
<1> DEFINE done == Store(post)
           tripped == [rescue EXCEPT !.tripped = TRUE]
           saved == Store(tripped)
<1>1. Still(machine, Fresh)
  BY FreshStill
<1>2. ~refused => Legal(machine, done)
  <2>1. ~refused => Still(post, done)
    BY StoreStill DEF Legal
  <2> HIDE DEF done
  <2> QED
    BY <1>1, <2>1, KeptLegal
<1>3. Still(rescue, tripped)
  BY DEF Legal, Typed, Heads, Fields, Ledger, Outboxes, IntentsOK, Calm, Still
<1>4. Legal(machine, saved)
  <2> HIDE DEF tripped
  <2>1. Still(tripped, saved)
    BY <1>3, StoreStill DEF Still
  <2> QED
    BY <1>1, <1>3, <2>1, StillTrans, KeptLegal
<1>5. \/ ~refused /\ machine' = done /\ halted' = FALSE
      \/ machine' = saved /\ halted' = ~Consistent(saved)
  BY DEF Apply
<1> HIDE DEF done, saved
<1> QED
  BY <1>2, <1>4, <1>5

\* The event at hand is within the budget of contradicting events.
Budgeted == \E kinds : Budget(kinds)

\* The contradicting events stay within their bound.
LEMMA BudgetBound ==
    ASSUME faults \in 0 .. MaxFaults, Budgeted
    PROVE  faults' \in 0 .. MaxFaults
BY EnvironmentAssumption DEF Budget, Budgeted

\* Every action keeps the types and moves the mode only by a verdict.
LEMMA StepLegal ==
    ASSUME TypeInv, [Next]_vars
    PROVE  TypeInv' /\ Legal(machine, machine')
<1>a. Typed(machine) /\ faults \in 0 .. MaxFaults
  BY DEF TypeInv
<1>b. /\ Still(machine, Fresh) /\ Typed(Fresh)
      /\ DOMAIN Fresh.orders = DOMAIN machine.orders
      /\ ExpectedSigned(Fresh) = ExpectedSigned(machine)
      /\ RealOpen(Fresh) = RealOpen(machine)
  BY <1>a, FreshStill
<1>c. Legal(Fresh, FailSafe(Fresh))
  BY <1>b, FailSafeStill, StillKept, KeptLegal
<1>d. ASSUME faults' \in 0 .. MaxFaults, Legal(machine, machine') /\ halted' \in BOOLEAN
      PROVE  TypeInv' /\ Legal(machine, machine')
  BY <1>d DEF TypeInv, Legal
<1>1. CASE EquityUpdated
  <2>1. faults' \in 0 .. MaxFaults
    BY <1>1, <1>a, BudgetBound DEF EquityUpdated, Budgeted
  <2>2. Legal(Fresh, [Fresh EXCEPT !.equity = TRUE]) /\ Legal(Fresh, Fresh)
    <3> DEFINE f == Fresh
    <3>1. Typed(f)
      BY <1>b
    <3> HIDE DEF f
    <3>2. Still(f, f)
      BY <3>1, StillSelf
    <3>3. Still(f, [f EXCEPT !.equity = TRUE])
      BY <3>1 DEF Typed, Heads, Fields, Ledger, Outboxes, IntentsOK, Calm, Still
    <3>4. Legal(f, f) /\ Legal(f, [f EXCEPT !.equity = TRUE])
      BY <3>2, <3>3, StillKept, KeptLegal
    <3> QED
      BY <3>4 DEF f
  <2> QED
    BY <1>1, <1>a, <1>d, <2>1, <2>2, ApplyLegal DEF EquityUpdated
<1>2. CASE BarClosed
  <2>1. PICK react \in Sides \cup {0}, trigger \in BOOLEAN, preview \in BOOLEAN, moved \in BOOLEAN :
          /\ Budgeted
          /\ Apply(FALSE, OnBar(Fresh, react, trigger, preview, moved), FailSafe(Fresh))
    BY <1>2 DEF BarClosed, Budgeted
  <2>2. faults' \in 0 .. MaxFaults
    BY <1>a, <2>1, BudgetBound
  <2>3. react \in {0, 1, -1}
    BY EnvironmentAssumption
  <2>4. Legal(Fresh, OnBar(Fresh, react, trigger, preview, moved))
    BY <1>b, <2>3, BarKept, KeptLegal
  <2> QED
    BY <1>a, <1>c, <1>d, <2>1, <2>2, <2>4, ApplyLegal
<1>3. CASE OrderSubmitted
  <2>1. PICK o \in ReportedOrders, match \in BOOLEAN :
          /\ Budgeted
          /\ Apply(~match, OnSubmitted(Fresh, o), FailSafe(Fresh))
    BY <1>3 DEF OrderSubmitted, Budgeted
  <2>2. faults' \in 0 .. MaxFaults
    BY <1>a, <2>1, BudgetBound
  <2>3. Legal(Fresh, OnSubmitted(Fresh, o))
    BY <1>b, SubmittedStill, StillKept, KeptLegal
  <2> QED
    BY <1>a, <1>c, <1>d, <2>1, <2>2, <2>3, ApplyLegal
<1>4. CASE OrderAccepted
  <2>1. PICK o : Budgeted /\ Apply(FALSE, OnAccepted(Fresh, o), FailSafe(Fresh))
    BY <1>4 DEF OrderAccepted, Budgeted
  <2>2. faults' \in 0 .. MaxFaults
    BY <1>a, <2>1, BudgetBound
  <2>3. Legal(Fresh, OnAccepted(Fresh, o))
    BY <1>b, SubmittedStill, StillKept, KeptLegal
  <2> QED
    BY <1>a, <1>c, <1>d, <2>1, <2>2, <2>3, ApplyLegal
<1>5. CASE OrderTerminal
  <2>1. PICK o \in ReportedOrders, kind \in {"REJECTED", "CANCELED", "TIMED_OUT"},
                  cumOK \in BOOLEAN :
            Budgeted /\ Apply(~cumOK, OnTerminal(Fresh, o, kind), FailSafe(Fresh))
    BY <1>5 DEF OrderTerminal, Budgeted
  <2>2. faults' \in 0 .. MaxFaults
    BY <1>a, <2>1, BudgetBound
  <2>3. Legal(Fresh, OnTerminal(Fresh, o, kind))
    BY <1>b, TerminalKept, KeptLegal
  <2> QED
    BY <1>a, <1>c, <1>d, <2>1, <2>2, <2>3, ApplyLegal
<1>6. CASE OrderFilled
  <2>1. PICK o \in DOMAIN machine.orders : \E q \in FillSizes(o), cumOK \in BOOLEAN,
                                              valid \in BOOLEAN, moved \in BOOLEAN :
          /\ Budgeted
          /\ Apply(FillRefused(Fresh, o, q, cumOK),
                   OnFill(Fresh, o, q, Completes(o, q), valid, moved), FailSafeFill(Fresh, o, q))
    BY <1>6 DEF OrderFilled, Budgeted
  <2>2. PICK q \in FillSizes(o), cumOK \in BOOLEAN, valid \in BOOLEAN, moved \in BOOLEAN :
          /\ Budgeted
          /\ Apply(FillRefused(Fresh, o, q, cumOK),
                   OnFill(Fresh, o, q, Completes(o, q), valid, moved), FailSafeFill(Fresh, o, q))
    BY <2>1
  <2>3. faults' \in 0 .. MaxFaults
    BY <1>a, <2>2, BudgetBound
  <2>4. q \in Nat
    <3>1. RealOpen(machine) \in Nat
      BY <1>a, Lots
    <3>2. Remaining(machine, o) \in Nat
      BY <1>a DEF Typed, Ledger, RowOK, Remaining
    <3> QED
      BY <3>1, <3>2 DEF FillSizes
  <2>5. ~FillRefused(Fresh, o, q, cumOK) =>
            Legal(Fresh, OnFill(Fresh, o, q, Completes(o, q), valid, moved))
    BY <1>b, <2>4, FillKept, KeptLegal
  <2>6. Legal(Fresh, FailSafeFill(Fresh, o, q))
    BY <1>b, <2>4, FailSafeFillKept, KeptLegal
  <2> QED
    BY <1>a, <1>d, <2>2, <2>3, <2>5, <2>6, ApplyLegal
<1>e. VenueQuantities \subseteq Int
  BY <1>a, Lots DEF VenueQuantities
<1>7. CASE PositionChanged
  <2>1. PICK actual \in VenueQuantities :
          Budgeted /\ Apply(FALSE, OnPositionChanged(Fresh, actual), FailSafe(Fresh))
    BY <1>7 DEF PositionChanged, Budgeted
  <2>2. faults' \in 0 .. MaxFaults
    BY <1>a, <2>1, BudgetBound
  <2>3. Legal(Fresh, OnPositionChanged(Fresh, actual))
    BY <1>b, <1>e, PositionChangedStill, StillKept, KeptLegal
  <2> QED
    BY <1>a, <1>c, <1>d, <2>1, <2>2, <2>3, ApplyLegal
<1>8. CASE PositionClosed
  <2>1. PICK reason \in FinalReasons, net \in {-1, 1}, scope \in BOOLEAN :
          /\ Budgeted
          /\ Apply(PositionClosedRefused(Fresh, reason, net, scope),
                   OnPositionClosed(Fresh, reason, net, scope), FailSafe(Fresh))
    BY <1>8 DEF PositionClosed, Budgeted
  <2>2. faults' \in 0 .. MaxFaults
    BY <1>a, <2>1, BudgetBound
  <2>3. reason \in CloseReasons /\ net \in Int
    BY EnvironmentAssumption
  <2>4. Legal(Fresh, OnPositionClosed(Fresh, reason, net, scope))
    BY <1>b, <2>3, PositionClosedKept, KeptLegal
  <2> QED
    BY <1>a, <1>c, <1>d, <2>1, <2>2, <2>4, ApplyLegal
<1>9. CASE FundingApplied
  <2>1. PICK settlement \in Settlements \ machine.settled, amount \in {-2, 0, 2},
                  scope \in BOOLEAN :
          /\ Budgeted
          /\ Apply(FundingRefused(Fresh, scope), OnFunding(Fresh, settlement, amount),
                   FailSafeFunding(Fresh, settlement, amount))
    BY <1>9 DEF FundingApplied, Budgeted
  <2>2. faults' \in 0 .. MaxFaults
    BY <1>a, <2>1, BudgetBound
  <2>3. amount \in Int
    OBVIOUS
  <2>4. /\ Legal(Fresh, OnFunding(Fresh, settlement, amount))
        /\ Legal(Fresh, FailSafeFunding(Fresh, settlement, amount))
    BY <1>b, <2>3, FundingKept, FailSafeFundingKept, KeptLegal
  <2> QED
    BY <1>a, <1>d, <2>1, <2>2, <2>4, ApplyLegal
<1>10. CASE ForcedClose
  <2>1. PICK reason \in ForcedReasons :
          /\ Budgeted
          /\ Apply(FALSE, OnForcedClose(Fresh, reason, <<reason, {}>>), FailSafe(Fresh))
    BY <1>10 DEF ForcedClose, Budgeted
  <2>2. faults' \in 0 .. MaxFaults
    BY <1>a, <2>1, BudgetBound
  <2>3. reason \in CloseReasons
    BY EnvironmentAssumption DEF CloseReasons
  <2>4. \A d : Legal(Fresh, OnForcedClose(Fresh, reason, d))
    BY <1>b, <2>3, ForcedCloseStill, StillKept, KeptLegal
  <2> QED
    BY <1>a, <1>c, <1>d, <2>1, <2>2, <2>4, ApplyLegal
<1>11. CASE RecoverySnapshotLoaded
  <2>1. PICK attested \in BOOLEAN :
          Budgeted /\ Apply(~attested, OnRecoveryLoaded(Fresh), FailSafe(Fresh))
    BY <1>11 DEF RecoverySnapshotLoaded, Budgeted
  <2>2. faults' \in 0 .. MaxFaults
    BY <1>a, <2>1, BudgetBound
  <2>3. Legal(Fresh, OnRecoveryLoaded(Fresh))
    BY <1>b, RecoveryLoadedStill, StillKept, KeptLegal
  <2> QED
    BY <1>a, <1>c, <1>d, <2>1, <2>2, <2>3, ApplyLegal
<1>12. CASE ReconciliationCompleted
  <2>1. PICK e :
          /\ e.actual \in VenueQuantities
          /\ Budgeted
          /\ Apply(ReconciliationRefused(Fresh, e), OnReconciliation(Fresh, e),
                   FailSafeReconciliation(Fresh, e))
    BY <1>12 DEF ReconciliationCompleted, Budgeted
  <2>2. faults' \in 0 .. MaxFaults
    BY <1>a, <2>1, BudgetBound
  <2>3. /\ Legal(Fresh, OnReconciliation(Fresh, e))
        /\ Legal(Fresh, FailSafeReconciliation(Fresh, e))
    BY <1>b, <1>e, <2>1, ReconciliationLegal, FailSafeReconciliationStill, StillKept, KeptLegal
  <2> QED
    BY <1>a, <1>d, <2>1, <2>2, <2>3, ApplyLegal
<1>13. CASE UNCHANGED vars
  BY <1>13 DEF vars, TypeInv, Legal
<1> QED
  BY <1>1, <1>2, <1>3, <1>4, <1>5, <1>6, <1>7, <1>8, <1>9, <1>10, <1>11, <1>12, <1>13 DEF Next

\* The inductive invariant, in every reachable state.
LEMMA TypeInvariant == Spec => []TypeInv
<1>1. Init => TypeInv
  <2> SUFFICES ASSUME Init PROVE TypeInv
    OBVIOUS
  <2>1. machine = InitialMachine /\ halted = FALSE /\ faults \in 0 .. MaxFaults
    BY EnvironmentAssumption DEF Init
  <2>2. Heads(InitialMachine) /\ InitialMachine.setup.id <= InitialMachine.born
    BY DEF InitialMachine, Heads, Fields, SetupOK, LegOK, NoSetup, EmptyLeg, NoDrift, Reasons,
           RiskModes, Lifecycles
  <2>3. Ledger(InitialMachine)
    BY DEF InitialMachine, Ledger, NoOrders
  <2>4. Outboxes(InitialMachine)
    BY DEF InitialMachine, Outboxes, IntentsOK, NoIntents
  <2> QED
    BY <2>1, <2>2, <2>3, <2>4 DEF TypeInv, Typed
<1>2. TypeInv /\ [Next]_vars => TypeInv'
  BY StepLegal
<1> QED
  BY <1>1, <1>2, PTL DEF Spec

\* The reducer's state keeps its shape: the legs never go negative, every row
\* of the ledger belongs to a setup opened so far, and the outbox names only
\* registered orders, whatever is refused, rolled back and rescued.
THEOREM TypeCorrect == Spec => []TypeOK
<1>1. TypeInv => TypeOK
  BY DEF TypeInv, TypeOK, Typed, Heads, SetupOK, LegOK, Ledger, Outboxes, IntentsOK, RowOK,
         OrderIds, Reasons
<1> QED
  BY <1>1, TypeInvariant, PTL

\* Whatever the environment does, only the settled verdict of a setup moves
\* the sequential risk mode (_sequential_transition and its one caller).
THEOREM OnlyVerdictsMoveRisk == Spec => VerdictMovesRisk
<1>1. TypeInv /\ [Next]_vars =>
        [machine'.risk # machine.risk => SettlesVerdict(machine, machine')]_vars
  BY StepLegal DEF Legal
<1> QED
  BY <1>1, TypeInvariant, PTL DEF Spec, VerdictMovesRisk
-----------------------------------------------------------------------------
(***************************************************************************)
(* Funding without an owner blocks new risk, for every value of the        *)
(* constants.  OwedBlocks is not inductive by itself: what keeps a bar     *)
(* from opening anything is recovery mode.  The inductive invariant is     *)
(* Blocked: while something is owed the machine is in recovery, and every  *)
(* handler either leaves both alone, or enters recovery, or may leave it   *)
(* only when nothing is owed.                                              *)
(***************************************************************************)

Watched == {"owed", "born", "addons", "recovery"}

\* The fields the argument is about exist; the others may be anything.
Shape(m) == Watched \subseteq DOMAIN m

\* The ledger of owed funding and the counts of new risk are left alone.
Counts(m, n) == Shape(n) /\ n.owed = m.owed /\ n.born = m.born /\ n.addons = m.addons

\* ... and recovery mode may only be entered.
Keeps(m, n) == Counts(m, n) /\ n.recovery \in {m.recovery, TRUE}

Blocked(m) == m.owed # {} => m.recovery = TRUE

\* What an event may do: nothing owed is forgotten, and new risk is only
\* counted when nothing is owed.
Safe(m, n) ==
    /\ Shape(n) /\ Blocked(n) /\ m.owed \subseteq n.owed
    /\ m.owed # {} => n.born = m.born /\ n.addons = m.addons

\* Doing nothing keeps everything.
LEMMA KeepsSelf ==
    ASSUME NEW m, Shape(m)
    PROVE  Keeps(m, m)
BY DEF Keeps, Counts

\* What two helpers in a row keep, their composition keeps.
LEMMA KeepsTrans ==
    ASSUME NEW m, NEW n, NEW p, Keeps(m, n), Keeps(n, p)
    PROVE  Keeps(m, p)
BY DEF Keeps, Counts

\* A handler that keeps the watched fields is safe.
LEMMA KeepsSafe ==
    ASSUME NEW m, NEW n, Blocked(m), Keeps(m, n)
    PROVE  Safe(m, n)
BY DEF Keeps, Counts, Blocked, Safe

----------------------------------------------------------------------------
(* The helpers of MastermindState touch none of the watched fields.        *)

\* Marking orders.
LEMMA MarkKeeps ==
    ASSUME NEW m, Shape(m), NEW ids, NEW st
    PROVE  Keeps(m, Mark(m, ids, st))
BY DEF Shape, Counts, Keeps, Watched, Mark

\* Registering an order and its submit.
LEMMA RegisterKeeps ==
    ASSUME NEW m, Shape(m), NEW o, NEW qty, NEW side
    PROVE  Keeps(m, Register(m, o, qty, side))
BY DEF Shape, Counts, Keeps, Watched, Register

\* Emitting cancels that were not emitted before.
LEMMA SendCancelsKeeps ==
    ASSUME NEW m, Shape(m), NEW ids, NEW reason
    PROVE  Keeps(m, SendCancels(m, ids, reason))
BY DEF Shape, Counts, Keeps, Watched, SendCancels

\* Asking for a reconciliation.
LEMMA AskKeeps ==
    ASSUME NEW m, Shape(m)
    PROVE  Keeps(m, Ask(m))
BY DEF Shape, Counts, Keeps, Watched, Ask

\* Acknowledging submits and cancels.
LEMMA AckKeeps ==
    ASSUME NEW m, Shape(m), NEW ids
    PROVE  Keeps(m, Ack(m, ids)) /\ Keeps(m, AckCancels(m, ids))
BY DEF Shape, Counts, Keeps, Watched, Ack, AckCancels

\* Storing and clearing the outbox.
LEMMA StoreKeeps ==
    ASSUME NEW m, Shape(m)
    PROVE  Keeps(m, Store(m)) /\ Keeps(m, ClearOutbox(m))
BY DEF Shape, Counts, Keeps, Watched, Store, ClearOutbox

\* Replaying intended submits.
LEMMA ReplayKeeps ==
    ASSUME NEW m, Shape(m), NEW ids
    PROVE  Keeps(m, Replay(m, ids))
BY DEF Shape, Counts, Keeps, Watched, Replay

\* Replacing a protective order by its next version.
LEMMA SupersedeKeeps ==
    ASSUME NEW m, Shape(m), NEW previous, NEW o
    PROVE  Keeps(m, Supersede(m, previous, o))
BY DEF Shape, Counts, Keeps, Watched, Supersede, Register, Mark

\* Canceling every active order (_cancel_all_orphans).
LEMMA CancelAllKeeps ==
    ASSUME NEW m, Shape(m), NEW reason
    PROVE  Keeps(m, CancelAll(m, reason))
BY DEF Shape, Counts, Keeps, Watched, CancelAll, SendCancels, Mark

\* Canceling the orders of some roles (_cancel_role_orders).
LEMMA CancelRolesKeeps ==
    ASSUME NEW m, Shape(m), NEW roles
    PROVE  Keeps(m, CancelRoles(m, roles))
BY DEF Shape, Counts, Keeps, Watched, CancelRoles, Ack, SendCancels, Mark

\* Registering a whole-position close, or none when its name is taken (_close_all_intent).
LEMMA CloseAllKeeps ==
    ASSUME NEW m, Shape(m), NEW reason, NEW discriminator, NEW qty, NEW side
    PROVE  Keeps(m, CloseAll(m, reason, discriminator, qty, side))
BY DEF Shape, Counts, Keeps, Watched, CloseAll, Register, SendCancels, Mark

\* The close of the venue's position.
LEMMA CloseActualKeeps ==
    ASSUME NEW m, Shape(m), NEW reason, NEW discriminator, NEW actual
    PROVE  Keeps(m, CloseActual(m, reason, discriminator, actual))
BY CloseAllKeeps DEF CloseActual

\* The close of the legs.
LEMMA CloseOpenKeeps ==
    ASSUME NEW m, Shape(m), NEW reason, NEW discriminator
    PROVE  Keeps(m, CloseOpen(m, reason, discriminator))
BY CloseAllKeeps DEF CloseOpen

\* The reduction of the add-on.
LEMMA ReduceAddonKeeps ==
    ASSUME NEW m, Shape(m)
    PROVE  Keeps(m, ReduceAddon(m))
BY KeepsSelf, RegisterKeeps DEF ReduceAddon

\* Installing or moving the base stop.
LEMMA UpsertBaseStopKeeps ==
    ASSUME NEW m, Shape(m), NEW moved
    PROVE  Keeps(m, UpsertBaseStop(m, moved))
BY DEF Shape, Counts, Keeps, Watched, UpsertBaseStop, Supersede, Register, Mark

\* The next version of the take profit.
LEMMA NextTakeProfitKeeps ==
    ASSUME NEW m, Shape(m)
    PROVE  Keeps(m, NextTakeProfit(m))
BY DEF Shape, Counts, Keeps, Watched, NextTakeProfit, Supersede, Register, Mark

\* Installing or refreshing the take profit.
LEMMA TakeProfitKeeps ==
    ASSUME NEW m, Shape(m)
    PROVE  Keeps(m, UpsertTakeProfit(m)) /\ Keeps(m, RefreshTakeProfit(m))
<1> DEFINE n == NextTakeProfit(m)
<1>1. Keeps(m, m) /\ Keeps(m, n)
  BY KeepsSelf, NextTakeProfitKeeps
<1> HIDE DEF n
<1>2. Keeps(m, [n EXCEPT !.setup.stale = FALSE])
  BY <1>1 DEF Shape, Counts, Keeps, Watched
<1> QED
  BY <1>1, <1>2 DEF UpsertTakeProfit, RefreshTakeProfit, n

----------------------------------------------------------------------------
(* Orders and fills.                                                       *)

\* A submission or an acceptance of an order.
LEMMA SubmittedKeeps ==
    ASSUME NEW m, Shape(m), NEW o
    PROVE  Keeps(m, OnSubmitted(m, o)) /\ Keeps(m, OnAccepted(m, o))
BY DEF Shape, Counts, Keeps, Watched, OnSubmitted, OnAccepted, Mark, Ack

\* What the end of an order means for its role.
LEMMA TerminalByRoleKeeps ==
    ASSUME NEW m, Shape(m), NEW o
    PROVE  Keeps(m, TerminalByRole(m, o))
<1>1. Keeps(m, BaseEntryTerminal(m))
  BY DEF Shape, Counts, Keeps, Watched, BaseEntryTerminal, ClearSetup
<1>2. Keeps(m, AddonEntryTerminal(m))
  BY DEF Shape, Counts, Keeps, Watched, AddonEntryTerminal
<1>3. Keeps(m, ReductionTerminal(m))
  BY DEF Shape, Counts, Keeps, Watched, ReductionTerminal, Ask
<1>4. Keeps(m, WholeExitTerminal(m))
  BY DEF Shape, Counts, Keeps, Watched, WholeExitTerminal, Ask
<1> QED
  BY <1>1, <1>2, <1>3, <1>4 DEF TerminalByRole

\* The end of an order: a timeout may enter recovery, none leaves it.
LEMMA TerminalKeeps ==
    ASSUME NEW m, Shape(m), NEW o, NEW kind
    PROVE  Keeps(m, OnTerminal(m, o, kind))
<1> DEFINE acked == Ack(m, {o})
           heard == IF kind = "CANCELED" THEN AckCancels(acked, {o}) ELSE acked
           ended == Mark(heard, {o}, kind)
<1>1. Keeps(m, acked)
  BY AckKeeps
<1>2. Keeps(m, heard)
  <2> HIDE DEF acked
  <2>1. Shape(acked)
    BY <1>1 DEF Keeps, Counts
  <2> QED
    BY <1>1, <2>1, AckKeeps, KeepsTrans
<1>3. Keeps(m, ended)
  <2> HIDE DEF heard
  <2>1. Shape(heard)
    BY <1>2 DEF Keeps, Counts
  <2> QED
    BY <1>2, <2>1, MarkKeeps, KeepsTrans
<1>4. Keeps(m, TerminalByRole(ended, o))
  <2> HIDE DEF ended
  <2>1. Shape(ended)
    BY <1>3 DEF Keeps, Counts
  <2> QED
    BY <1>3, <2>1, TerminalByRoleKeeps, KeepsTrans
<1>5. Keeps(m, Ask([ended EXCEPT !.recovery = TRUE]))
  <2> HIDE DEF ended
  <2> QED
    BY <1>3 DEF Shape, Counts, Keeps, Watched, Ask
<1> QED
  BY <1>1, <1>3, <1>4, <1>5 DEF OnTerminal

\* Canceling everything and closing the legs.
LEMMA EmergencyCloseKeeps ==
    ASSUME NEW m, Shape(m), NEW reason, NEW discriminator
    PROVE  Keeps(m, EmergencyClose(m, reason, discriminator))
<1> DEFINE exiting == [m EXCEPT !.life = "EXIT_PENDING"]
           quiet == CancelAll(exiting, reason)
<1>1. Keeps(m, exiting)
  BY DEF Shape, Counts, Keeps, Watched
<1>2. Keeps(m, quiet)
  <2> HIDE DEF exiting
  <2>1. Shape(exiting)
    BY <1>1 DEF Keeps, Counts
  <2> QED
    BY <1>1, <2>1, CancelAllKeeps, KeepsTrans
<1>3. Keeps(m, CloseOpen(quiet, "ENGINE_ERROR", discriminator))
  <2> HIDE DEF quiet
  <2>1. Shape(quiet)
    BY <1>2 DEF Keeps, Counts
  <2> QED
    BY <1>2, <2>1, CloseOpenKeeps, KeepsTrans
<1> QED
  BY <1>3 DEF EmergencyClose

\* A breach of the committed cap enters recovery.
LEMMA BreachCapKeeps ==
    ASSUME NEW m, Shape(m)
    PROVE  Keeps(m, BreachCap(m))
<1> DEFINE locked == [m EXCEPT !.setup.lock = TRUE, !.recovery = TRUE]
<1>1. Keeps(m, locked)
  BY DEF Shape, Counts, Keeps, Watched
<1> HIDE DEF locked
<1>2. Shape(locked)
  BY <1>1 DEF Keeps, Counts
<1> QED
  BY <1>1, <1>2, EmergencyCloseKeeps, KeepsTrans DEF BreachCap, locked

\* A fill of an add-on entry.
LEMMA AddonEntryFillKeeps ==
    ASSUME NEW m, Shape(m), NEW q, NEW full, NEW valid
    PROVE  Keeps(m, AddonEntryFill(m, q, full, valid))
<1> DEFINE locked == [m EXCEPT !.setup.lock = TRUE, !.life = "REDUCE_PENDING"]
           unwound == CancelRoles(locked, {"ADDON_ENTRY", "ADDON_STOP"})
           stopped == Register(m, <<"ADDON_STOP", m.setup.id, m.execs>>, q, ExitSide(m))
           settled == [stopped EXCEPT !.life = IF full THEN "NONE" ELSE "ADDON_PENDING"]
<1>1. Keeps(m, locked)
  BY DEF Shape, Counts, Keeps, Watched
<1>2. Keeps(m, unwound)
  <2> HIDE DEF locked
  <2>1. Shape(locked)
    BY <1>1 DEF Keeps, Counts
  <2> QED
    BY <1>1, <2>1, CancelRolesKeeps, KeepsTrans
<1>3. Keeps(m, ReduceAddon(unwound))
  <2> HIDE DEF unwound
  <2>1. Shape(unwound)
    BY <1>2 DEF Keeps, Counts
  <2> QED
    BY <1>2, <2>1, ReduceAddonKeeps, KeepsTrans
<1>4. Keeps(m, stopped)
  BY RegisterKeeps
<1>5. Keeps(m, settled)
  <2> HIDE DEF stopped
  <2> QED
    BY <1>4 DEF Shape, Counts, Keeps, Watched
<1> QED
  BY <1>3, <1>5 DEF AddonEntryFill

\* A fill of a base entry.
LEMMA BaseEntryFillKeeps ==
    ASSUME NEW m, Shape(m), NEW full, NEW moved
    PROVE  Keeps(m, BaseEntryFill(m, full, moved))
<1> DEFINE stopped == UpsertBaseStop(m, moved)
           covered == UpsertTakeProfit(stopped)
<1>1. Keeps(m, stopped)
  BY UpsertBaseStopKeeps
<1>2. Keeps(m, covered)
  <2> HIDE DEF stopped
  <2>1. Shape(stopped)
    BY <1>1 DEF Keeps, Counts
  <2> QED
    BY <1>1, <2>1, TakeProfitKeeps, KeepsTrans
<1> HIDE DEF covered
<1>3. Keeps(m, [covered EXCEPT !.life = IF full THEN "NONE" ELSE "BASE_PENDING"])
  BY <1>2 DEF Shape, Counts, Keeps, Watched
<1> QED
  BY <1>3 DEF BaseEntryFill, covered

\* A fill of either entry.
LEMMA EntryFillKeeps ==
    ASSUME NEW m, Shape(m), NEW o, NEW q, NEW full, NEW valid, NEW moved
    PROVE  Keeps(m, EntryFill(m, o, q, full, valid, moved))
<1> DEFINE grown == IF RoleOf(o) = "BASE_ENTRY" THEN [m EXCEPT !.base.qty = @ + q]
                    ELSE [m EXCEPT !.addon.qty = @ + q]
<1>1. Keeps(m, grown)
  BY DEF Shape, Counts, Keeps, Watched
<1> HIDE DEF grown
<1>2. Shape(grown)
  BY <1>1 DEF Keeps, Counts
<1>3. Keeps(m, BreachCap(grown))
  BY <1>1, <1>2, BreachCapKeeps, KeepsTrans
<1>4. Keeps(m, BaseEntryFill(grown, full, moved))
  BY <1>1, <1>2, BaseEntryFillKeeps, KeepsTrans
<1>5. Keeps(m, AddonEntryFill(grown, q, full, valid))
  BY <1>1, <1>2, AddonEntryFillKeeps, KeepsTrans
<1> QED
  BY <1>3, <1>4, <1>5 DEF EntryFill, grown

\* A fill that reduces the add-on.
LEMMA AddonReductionKeeps ==
    ASSUME NEW m, Shape(m), NEW q
    PROVE  Keeps(m, AddonReduction(m, q))
<1> DEFINE cut == [Reduce(m, q) EXCEPT !.setup.lock = TRUE]
           idle == [cut EXCEPT !.life = "NONE"]
           bare == CancelRoles(idle, {"ADDON_STOP"})
<1>1. Keeps(m, cut)
  BY DEF Shape, Counts, Keeps, Watched, Reduce
<1>2. Keeps(m, CancelAll(cut, "FLAT_ORPHAN")) /\ Keeps(m, idle)
        /\ Keeps(m, [cut EXCEPT !.life = "REDUCE_PENDING"])
  <2> HIDE DEF cut
  <2>1. Shape(cut)
    BY <1>1 DEF Keeps, Counts
  <2>2. Keeps(m, CancelAll(cut, "FLAT_ORPHAN"))
    BY <1>1, <2>1, CancelAllKeeps, KeepsTrans
  <2> QED
    BY <1>1, <2>2 DEF Shape, Counts, Keeps, Watched
<1>3. Keeps(m, bare)
  <2> HIDE DEF idle
  <2>1. Shape(idle)
    BY <1>2 DEF Keeps, Counts
  <2> QED
    BY <1>2, <2>1, CancelRolesKeeps, KeepsTrans
<1>4. Keeps(m, RefreshTakeProfit(bare))
  <2> HIDE DEF bare
  <2>1. Shape(bare)
    BY <1>3 DEF Keeps, Counts
  <2> QED
    BY <1>3, <2>1, TakeProfitKeeps, KeepsTrans
<1> QED
  BY <1>1, <1>2, <1>4 DEF AddonReduction

\* A fill of a whole-position exit.
LEMMA WholeExitFillKeeps ==
    ASSUME NEW m, Shape(m), NEW o, NEW q
    PROVE  Keeps(m, WholeExitFill(m, o, q))
<1> DEFINE entriesOff == CancelRoles(m, EntryRoles)
           stopsOff == IF m.addon.qty > 0 THEN CancelRoles(entriesOff, {"ADDON_STOP"})
                       ELSE entriesOff
           cut == [Reduce(stopsOff, q) EXCEPT
                     !.life = "EXIT_PENDING",
                     !.setup.pend = CASE RoleOf(o) = "BASE_STOP" -> "BASE_SL"
                                      [] RoleOf(o) = "TAKE_PROFIT" -> "TP"
                                      [] OTHER -> @]
<1>1. Keeps(m, entriesOff)
  BY CancelRolesKeeps
<1>2. Keeps(m, stopsOff)
  <2> HIDE DEF entriesOff
  <2>1. Shape(entriesOff)
    BY <1>1 DEF Keeps, Counts
  <2> QED
    BY <1>1, <2>1, CancelRolesKeeps, KeepsTrans
<1>3. Keeps(m, cut)
  <2> HIDE DEF stopsOff
  <2> QED
    BY <1>2 DEF Shape, Counts, Keeps, Watched, Reduce
<1>4. Keeps(m, CancelAll(cut, "FLAT_ORPHAN")) /\ Keeps(m, RefreshTakeProfit(cut))
  <2> HIDE DEF cut
  <2>1. Shape(cut)
    BY <1>3 DEF Keeps, Counts
  <2> QED
    BY <1>3, <2>1, CancelAllKeeps, TakeProfitKeeps, KeepsTrans
<1> QED
  BY <1>4 DEF WholeExitFill

\* Any fill.
LEMMA FillKeeps ==
    ASSUME NEW m, Shape(m), NEW o, NEW q, NEW full, NEW valid, NEW moved
    PROVE  Keeps(m, OnFill(m, o, q, full, valid, moved))
<1> DEFINE booked == [Ack(m, {o}) EXCEPT
                        !.execs = @ + 1,
                        !.orders[o].fill = @ + q,
                        !.orders[o].st = IF full THEN "FILLED" ELSE "PARTIALLY_FILLED"]
<1>1. Keeps(m, booked)
  BY DEF Shape, Counts, Keeps, Watched, Ack
<1>2. /\ Keeps(m, EntryFill(booked, o, q, full, valid, moved))
      /\ Keeps(m, AddonReduction(booked, q))
      /\ Keeps(m, WholeExitFill(booked, o, q))
  <2> HIDE DEF booked
  <2>1. Shape(booked)
    BY <1>1 DEF Keeps, Counts
  <2> QED
    BY <1>1, <2>1, EntryFillKeeps, AddonReductionKeeps, WholeExitFillKeeps, KeepsTrans
<1> QED
  BY <1>2 DEF OnFill

----------------------------------------------------------------------------
(* Position, funding, forced closes, bars.                                 *)

\* A report of the venue's position: a drift enters recovery.
LEMMA PositionChangedKeeps ==
    ASSUME NEW m, Shape(m), NEW actual
    PROVE  Keeps(m, OnPositionChanged(m, actual))
<1> DEFINE asked == Ask([m EXCEPT !.recovery = TRUE,
                                  !.drift = [seen |-> TRUE, qty |-> actual],
                                  !.life = "EXIT_PENDING",
                                  !.setup.pend = IF HasSetup(m) THEN "ENGINE_ERROR" ELSE @])
           drifted == CancelAll(asked, "POSITION_DRIFT")
<1>1. Keeps(m, [m EXCEPT !.drift = NoDrift])
  BY DEF Shape, Counts, Keeps, Watched
<1>2. Keeps(m, asked)
  BY DEF Shape, Counts, Keeps, Watched, Ask
<1>3. Keeps(m, drifted)
  <2> HIDE DEF asked
  <2>1. Shape(asked)
    BY <1>2 DEF Keeps, Counts
  <2> QED
    BY <1>2, <2>1, CancelAllKeeps, KeepsTrans
<1>4. Keeps(m, CloseActual(drifted, "ENGINE_ERROR", <<"position-drift", {}>>, actual))
  <2> HIDE DEF drifted
  <2>1. Shape(drifted)
    BY <1>3 DEF Keeps, Counts
  <2> QED
    BY <1>3, <2>1, CloseActualKeeps, KeepsTrans
<1> QED
  BY <1>1, <1>3, <1>4 DEF OnPositionChanged

\* The final verdict of a setup.
LEMMA PositionClosedKeeps ==
    ASSUME NEW m, Shape(m), NEW reason, NEW net, NEW scope
    PROVE  Keeps(m, OnPositionClosed(m, reason, net, scope))
<1> DEFINE closed == [m EXCEPT !.setup.final = reason, !.setup.pend = reason,
                               !.setup.print = net, !.net = net,
                               !.base = Settle(@), !.addon = Settle(@),
                               !.life = "EXIT_PENDING"]
<1>1. Keeps(m, m) /\ Keeps(m, Ask([m EXCEPT !.recovery = TRUE]))
  BY KeepsSelf DEF Shape, Counts, Keeps, Watched, Ask
<1>2. Keeps(m, closed)
  BY DEF Shape, Counts, Keeps, Watched
<1>3. Keeps(m, CancelAll(closed, "FLAT_ORPHAN"))
  <2> HIDE DEF closed
  <2>1. Shape(closed)
    BY <1>2 DEF Keeps, Counts
  <2> QED
    BY <1>2, <2>1, CancelAllKeeps, KeepsTrans
<1> QED
  BY <1>1, <1>3 DEF OnPositionClosed

\* Funding without an owner is the only event that owes something, and it
\* enters recovery in the same step.
LEMMA FundingSafe ==
    ASSUME NEW m, Shape(m), Blocked(m), NEW settlement, NEW amount
    PROVE  Safe(m, OnFunding(m, settlement, amount))
BY DEF Shape, Blocked, Safe, Watched, OnFunding, Ask

\* A close asked for by the operator or a risk limit.
LEMMA ForcedCloseKeeps ==
    ASSUME NEW m, Shape(m), NEW reason, NEW discriminator
    PROVE  Keeps(m, OnForcedClose(m, reason, discriminator))
<1> DEFINE exiting == [m EXCEPT !.setup.pend = reason, !.life = "EXIT_PENDING"]
           quiet == CancelRoles(exiting, EntryRoles)
<1>1. Keeps(m, exiting)
  BY DEF Shape, Counts, Keeps, Watched
<1>2. Keeps(m, quiet)
  <2> HIDE DEF exiting
  <2>1. Shape(exiting)
    BY <1>1 DEF Keeps, Counts
  <2> QED
    BY <1>1, <2>1, CancelRolesKeeps, KeepsTrans
<1>3. Keeps(m, CloseOpen(quiet, reason, discriminator))
  <2> HIDE DEF quiet
  <2>1. Shape(quiet)
    BY <1>2 DEF Keeps, Counts
  <2> QED
    BY <1>2, <2>1, CloseOpenKeeps, KeepsTrans
<1> QED
  BY <1>3, KeepsSelf DEF OnForcedClose

\* A restored snapshot enters recovery.
LEMMA RecoveryLoadedKeeps ==
    ASSUME NEW m, Shape(m)
    PROVE  Keeps(m, OnRecoveryLoaded(m))
BY DEF Shape, Counts, Keeps, Watched, OnRecoveryLoaded, Ask

\* A reaction or a trigger counts new risk and leaves what is owed alone.
NewRisk(m, n) == Shape(n) /\ n.owed = m.owed /\ n.recovery = m.recovery

\* A base reaction owes nothing.
LEMMA CreateBaseSetupOwes ==
    ASSUME NEW m, Shape(m), NEW side
    PROVE  NewRisk(m, CreateBaseSetup(m, side))
BY DEF Shape, NewRisk, Watched, CreateBaseSetup, Register

\* An add-on trigger owes nothing.
LEMMA ConsumeAddonFactOwes ==
    ASSUME NEW m, Shape(m), NEW preview
    PROVE  NewRisk(m, ConsumeAddonFact(m, preview))
BY DEF Shape, NewRisk, Watched, ConsumeAddonFact, Register

\* A bar may open a setup or an add-on only outside recovery; the guards of
\* BarClosed establish the last two assumptions.
LEMMA BarSafe ==
    ASSUME NEW m, Shape(m), Blocked(m), NEW react, NEW trigger \in BOOLEAN, NEW preview, NEW moved,
           react # 0 => m.recovery # TRUE,
           trigger => m.recovery # TRUE
    PROVE  Safe(m, OnBar(m, react, trigger, preview, moved))
<1> DEFINE m1 == IF moved /\ m.setup.tp # 0 THEN [m EXCEPT !.setup.stale = TRUE] ELSE m
           m2 == IF react # 0 THEN CreateBaseSetup(m1, react) ELSE m1
           m3 == IF trigger THEN ConsumeAddonFact(m2, preview) ELSE m2
<1>1. Keeps(m, m1)
  BY DEF Shape, Counts, Keeps, Watched
<1>2. Safe(m, m3)
  <2> HIDE DEF m1
  <2>1. Shape(m1)
    BY <1>1 DEF Keeps, Counts
  <2>2. CASE react = 0 /\ ~trigger
    BY <1>1, <2>2, KeepsSafe
  <2>3. CASE react # 0 \/ trigger
    <3>1. m.owed = {} /\ m1.owed = {}
      BY <1>1, <2>3 DEF Blocked, Keeps, Counts
    <3>2. Shape(m2) /\ m2.owed = {}
      BY <2>1, <3>1, CreateBaseSetupOwes DEF NewRisk
    <3> HIDE DEF m2
    <3>3. Shape(m3) /\ m3.owed = {}
      BY <3>2, ConsumeAddonFactOwes DEF NewRisk
    <3> QED
      BY <3>1, <3>3 DEF Safe, Blocked
  <2> QED
    BY <2>2, <2>3
<1>3. Safe(m, UpsertTakeProfit(m3))
  <2> HIDE DEF m3
  <2>1. Keeps(m3, UpsertTakeProfit(m3))
    BY <1>2, TakeProfitKeeps DEF Safe
  <2> QED
    BY <1>2, <2>1 DEF Safe, Keeps, Counts, Blocked
<1> QED
  BY <1>2, <1>3 DEF OnBar

----------------------------------------------------------------------------
(* Reconciliation: the only event that leaves recovery.                    *)

\* A reconciliation that shows another position enters recovery.
LEMMA MismatchKeeps ==
    ASSUME NEW m, Shape(m), NEW actual
    PROVE  Keeps(m, ReconcileMismatch(m, actual))
<1> DEFINE exiting == [m EXCEPT !.recovery = TRUE,
                                !.drift = [seen |-> TRUE, qty |-> actual],
                                !.life = "EXIT_PENDING",
                                !.setup.pend = IF HasSetup(m) THEN "ENGINE_ERROR" ELSE @]
           drifted == CancelAll(exiting, "RECONCILIATION_DRIFT")
<1>1. Keeps(m, exiting)
  BY DEF Shape, Counts, Keeps, Watched
<1>2. Keeps(m, drifted)
  <2> HIDE DEF exiting
  <2>1. Shape(exiting)
    BY <1>1 DEF Keeps, Counts
  <2> QED
    BY <1>1, <2>1, CancelAllKeeps, KeepsTrans
<1> HIDE DEF drifted
<1>3. Shape(drifted)
  BY <1>2 DEF Keeps, Counts
<1>4. Keeps(m, Ask(drifted))
  BY <1>2, <1>3, AskKeeps, KeepsTrans
<1>5. Keeps(m, CloseActual(drifted, "ENGINE_ERROR", <<"reconciliation-mismatch", {}>>, actual))
  BY <1>2, <1>3, CloseActualKeeps, KeepsTrans
<1> QED
  BY <1>4, <1>5 DEF ReconcileMismatch, drifted

\* Counting composes.
LEMMA CountsTrans ==
    ASSUME NEW m, NEW n, NEW p, Counts(m, n), Counts(n, p)
    PROVE  Counts(m, p)
BY DEF Counts

\* What keeps recovery also keeps the counts.
LEMMA KeepsCounts ==
    ASSUME NEW m, NEW n, Keeps(m, n)
    PROVE  Counts(m, n) /\ Shape(n)
BY DEF Keeps, Counts

\* Retiring a setup leaves recovery, and nothing else that is watched.
LEMMA RetireCounts ==
    ASSUME NEW m, Shape(m)
    PROVE  Counts(m, Retire(m))
BY DEF Shape, Counts, Watched, Retire, ClearSetup

\* The verdict moves only the risk mode.
LEMMA SequentialTransitionCounts ==
    ASSUME NEW m, Shape(m), NEW reason
    PROVE  Counts(m, SequentialTransition(m, reason))
BY DEF Shape, Counts, Watched, SequentialTransition

\* Recovery and lifecycle may change.
LEMMA RecoverCounts ==
    ASSUME NEW m, Shape(m), NEW on, NEW life
    PROVE  /\ Counts(m, [m EXCEPT !.recovery = on])
           /\ Counts(m, [m EXCEPT !.life = life, !.recovery = on])
           /\ Counts(m, [m EXCEPT !.recovery = on, !.life = life])
BY DEF Shape, Counts, Watched

\* Clearing the outbox, after some orders were marked or not, and retiring.
LEMMA ClearedCounts ==
    ASSUME NEW m, Shape(m), NEW ids, NEW st
    PROVE  /\ Counts(m, ClearOutbox(Mark(m, ids, st)))
           /\ Counts(m, Retire(ClearOutbox(m)))
           /\ Counts(m, Retire(ClearOutbox(Mark(m, ids, st))))
BY DEF Shape, Counts, Watched, Retire, ClearSetup, ClearOutbox, Mark

\* A flat reconciliation of a pending base entry.
LEMMA BasePendingCounts ==
    ASSUME NEW m, Shape(m)
    PROVE  Counts(m, ReconcileBasePending(m))
<1> DEFINE bases == {o \in DOMAIN m.orders : RoleOf(o) = "BASE_ENTRY" /\ SetupOf(o) = m.setup.id}
           absent == {o \in bases : m.orders[o].st \in ActiveStatuses \ {"INTENDED"}}
<1> HIDE DEF bases, absent
<1>1. /\ Counts(m, Retire(ClearOutbox(m)))
      /\ Counts(m, Retire(ClearOutbox(Mark(m, absent, "CANCELED"))))
  BY ClearedCounts
<1>2. Counts(m, [Replay(m, bases) EXCEPT !.recovery = FALSE])
  BY DEF Shape, Counts, Watched, Replay
<1>3. Counts(m, Ask([m EXCEPT !.recovery = TRUE]))
  BY DEF Shape, Counts, Watched, Ask
<1> QED
  BY <1>1, <1>2, <1>3 DEF ReconcileBasePending, bases, absent

\* A flat reconciliation.
LEMMA FlatCounts ==
    ASSUME NEW m, Shape(m), NEW open
    PROVE  Counts(m, ReconcileFlat(m, open))
<1> DEFINE waiting == {o \in DOMAIN m.orders : m.orders[o].st \in ActiveStatuses \cup {"CANCEL_PENDING"}}
           exiting == [m EXCEPT !.life = "EXIT_PENDING", !.recovery = TRUE]
<1>1. Counts(m, exiting) /\ Counts(m, [m EXCEPT !.recovery = FALSE])
  BY RecoverCounts
<1>2. Counts(m, Retire(SequentialTransition(ClearOutbox(m), m.setup.final)))
  BY DEF Shape, Counts, Watched, Retire, ClearSetup, ClearOutbox, SequentialTransition
<1>3. Counts(m, Ask(ClearOutbox(Mark(exiting, waiting, "CANCELED"))))
  <2> HIDE DEF waiting
  <2> QED
    BY DEF Shape, Counts, Watched, ClearOutbox, Mark, Ask
<1>4. Counts(m, ReconcileBasePending(m))
  BY BasePendingCounts
<1>5. Counts(m, Retire(ClearOutbox(Mark(m, Active(m), "CANCELED"))))
  BY ClearedCounts
<1> QED
  BY <1>1, <1>2, <1>3, <1>4, <1>5 DEF ReconcileFlat

\* A reconciliation of an entry that ended.
LEMMA PendingEntryCounts ==
    ASSUME NEW m, Shape(m), NEW open
    PROVE  Counts(m, ReconcilePendingEntry(m, open))
BY DEF Shape, Counts, Watched, ReconcilePendingEntry

\* A reconciliation of an open position.
LEMMA OpenCounts ==
    ASSUME NEW m, Shape(m), NEW e
    PROVE  Counts(m, ReconcileOpen(m, e))
<1> DEFINE missing == Active(m) \ e.open
           lost == missing \ Replayable(m, missing)
           gone == Ack(Mark(Replay(m, missing), lost, "CANCELED"), lost)
           exiting == [gone EXCEPT !.recovery = TRUE, !.life = "EXIT_PENDING"]
           quiet == CancelAll(exiting, "MISSING_PROTECTION")
<1>1. Keeps(m, gone)
  <2> HIDE DEF missing, lost
  <2> QED
    BY DEF Shape, Counts, Keeps, Watched, Replay, Mark, Ack
<1>2. Keeps(m, exiting) /\ Keeps(m, Ask([gone EXCEPT !.recovery = TRUE]))
  <2> HIDE DEF gone
  <2> QED
    BY <1>1 DEF Shape, Counts, Keeps, Watched, Ask
<1>3. Keeps(m, quiet)
  <2> HIDE DEF exiting
  <2>1. Shape(exiting)
    BY <1>2 DEF Keeps, Counts
  <2> QED
    BY <1>2, <2>1, CancelAllKeeps, KeepsTrans
<1>4. \A discriminator : Keeps(m, CloseActual(quiet, "ENGINE_ERROR", discriminator, e.actual))
  <2> HIDE DEF quiet
  <2>1. Shape(quiet)
    BY <1>3 DEF Keeps, Counts
  <2> QED
    BY <1>3, <2>1, CloseActualKeeps, KeepsTrans
<1>5. \A reason, discriminator : Keeps(m, CloseActual(exiting, reason, discriminator, e.actual))
  <2> HIDE DEF exiting
  <2>1. Shape(exiting)
    BY <1>2 DEF Keeps, Counts
  <2> QED
    BY <1>2, <2>1, CloseActualKeeps, KeepsTrans
<1>6. Counts(m, ReconcilePendingEntry(gone, e.open))
  <2> HIDE DEF gone
  <2> QED
    BY <1>1, KeepsCounts, PendingEntryCounts, CountsTrans
<1> QED
  BY <1>2, <1>4, <1>5, <1>6, KeepsCounts DEF ReconcileOpen

\* Adopting the venue's view and acknowledging what it shows.
LEMMA HeardKeeps ==
    ASSUME NEW m, Shape(m), NEW e
    PROVE  Keeps(m, Heard(IF e.rich THEN Adopt(m, e.open) ELSE m, e))
<1>1. Keeps(m, IF e.rich THEN Adopt(m, e.open) ELSE m)
  BY KeepsSelf DEF Shape, Counts, Keeps, Watched, Adopt, Mark
<1> DEFINE shown == IF e.rich THEN Adopt(m, e.open) ELSE m
<1> HIDE DEF shown
<1>2. Keeps(m, shown)
  BY <1>1 DEF shown
<1>3. Keeps(m, Heard(shown, e))
  BY <1>2 DEF Shape, Counts, Keeps, Watched, Heard, Ack
<1> QED
  BY <1>3 DEF shown

\* A reconciliation that could leave recovery is answered by Ask while
\* something is owed.
LEMMA ReconciliationSafe ==
    ASSUME NEW m, Shape(m), Blocked(m), NEW e
    PROVE  Safe(m, OnReconciliation(m, e))
<1> DEFINE heard == Heard(IF e.rich THEN Adopt(m, e.open) ELSE m, e)
           m1 == SendCancels(heard, e.open \ Active(heard), "RECONCILIATION_ORPHAN")
           settled == [m1 EXCEPT !.drift = NoDrift]
<1>1. Keeps(m, m1)
  <2>1. Keeps(m, heard)
    BY HeardKeeps
  <2> HIDE DEF heard
  <2>2. Shape(heard)
    BY <2>1 DEF Keeps, Counts
  <2> QED
    BY <2>1, <2>2, SendCancelsKeeps, KeepsTrans
<1> HIDE DEF m1
<1>2. Shape(m1) /\ m1.owed = m.owed
  BY <1>1 DEF Keeps, Counts
<1>3. Safe(m, ReconcileMismatch(m1, e.actual))
  BY <1>1, <1>2, MismatchKeeps, KeepsTrans, KeepsSafe
<1>4. Safe(m, Ask([m1 EXCEPT !.recovery = TRUE]))
  BY <1>1 DEF Shape, Counts, Keeps, Watched, Ask, Safe, Blocked
<1>5. ASSUME m.owed = {}
      PROVE  Safe(m, ReconcileFlat(settled, e.open)) /\ Safe(m, ReconcileOpen(settled, e))
  <2>1. Keeps(m1, settled)
    BY <1>2 DEF Shape, Counts, Keeps, Watched
  <2> HIDE DEF settled
  <2>2. Shape(settled) /\ settled.owed = {}
    BY <1>2, <1>5, <2>1 DEF Keeps, Counts
  <2>3. Counts(settled, ReconcileFlat(settled, e.open)) /\ Counts(settled, ReconcileOpen(settled, e))
    BY <2>2, FlatCounts, OpenCounts
  <2> QED
    BY <1>5, <2>2, <2>3 DEF Counts, Safe, Blocked
<1> QED
  BY <1>2, <1>3, <1>4, <1>5 DEF OnReconciliation, m1

----------------------------------------------------------------------------
(* The fail-safe.                                                          *)

\* The fail-safe starts in recovery.
LEMMA RescuedKeeps ==
    ASSUME NEW m, Shape(m)
    PROVE  Keeps(m, Rescued(m)) /\ Shape(Rescued(m)) /\ Rescued(m).recovery = TRUE
BY DEF Shape, Counts, Keeps, Watched, Rescued

\* The common fail-safe stays in recovery.
LEMMA FailSafeKeeps ==
    ASSUME NEW m, Shape(m)
    PROVE  Keeps(m, FailSafe(m)) /\ FailSafe(m).recovery = TRUE
<1> DEFINE r == Rescued(m)
<1>1. Keeps(m, r) /\ Shape(r) /\ r.recovery = TRUE
  BY RescuedKeeps
<1> HIDE DEF r
<1>2. Keeps(r, EmergencyClose(r, "INVARIANT_FAILSAFE", <<"invariant-failsafe", {}>>))
  BY <1>1, EmergencyCloseKeeps
<1>3. Keeps(r, Ask(r))
  BY <1>1, AskKeeps
<1>4. Keeps(r, FailSafe(m))
  BY <1>2, <1>3 DEF FailSafe, r
<1> QED
  BY <1>1, <1>4, KeepsTrans DEF Keeps

\* Funding refused by its handler is owed, in recovery.
LEMMA FailSafeFundingSafe ==
    ASSUME NEW m, Shape(m), Blocked(m), NEW settlement, NEW amount
    PROVE  Safe(m, FailSafeFunding(m, settlement, amount))
<1> DEFINE owing == [m EXCEPT !.settled = @ \cup {settlement},
                              !.owed = IF amount = 0 THEN @ ELSE @ \cup {settlement}]
<1>1. /\ Shape(owing) /\ m.owed \subseteq owing.owed
      /\ owing.born = m.born /\ owing.addons = m.addons
  BY DEF Shape, Watched
<1> HIDE DEF owing
<1>2. Keeps(owing, FailSafe(owing)) /\ FailSafe(owing).recovery = TRUE
  BY <1>1, FailSafeKeeps
<1>3. Safe(m, FailSafe(owing))
  BY <1>1, <1>2 DEF Keeps, Counts, Safe, Blocked
<1> QED
  BY <1>3 DEF FailSafeFunding, owing

\* A refused reconciliation.
LEMMA FailSafeReconciliationKeeps ==
    ASSUME NEW m, Shape(m), NEW e
    PROVE  Keeps(m, FailSafeReconciliation(m, e))
<1> DEFINE r == Rescued(m)
           unknown == SendCancels(r, e.open \ Active(m), "INVALID_RECONCILIATION_ORDER")
           quiet == CancelAll(unknown, "INVALID_RECONCILIATION")
           drifted == [quiet EXCEPT
                         !.drift = [seen |-> TRUE, qty |-> e.actual],
                         !.life = "EXIT_PENDING",
                         !.setup.pend = IF HasSetup(m) THEN "ENGINE_ERROR" ELSE @]
<1>1. Keeps(m, r) /\ Shape(r)
  BY RescuedKeeps
<1>2. Keeps(m, Ask(r))
  BY <1>1, AskKeeps, KeepsTrans
<1>3. Keeps(m, unknown)
  BY <1>1, SendCancelsKeeps, KeepsTrans
<1>4. Keeps(m, quiet)
  <2> HIDE DEF unknown
  <2>1. Shape(unknown)
    BY <1>3 DEF Keeps, Counts
  <2> QED
    BY <1>3, <2>1, CancelAllKeeps, KeepsTrans
<1>5. Keeps(m, drifted)
  <2> HIDE DEF quiet
  <2> QED
    BY <1>4 DEF Shape, Counts, Keeps, Watched
<1> HIDE DEF drifted
<1>6. Shape(drifted)
  BY <1>5 DEF Keeps, Counts
<1>7. Keeps(m, Ask(drifted))
  BY <1>5, <1>6, AskKeeps, KeepsTrans
<1>8. Keeps(m, CloseActual(drifted, "ENGINE_ERROR", <<"invalid-reconciliation", {}>>, e.actual))
  BY <1>5, <1>6, CloseActualKeeps, KeepsTrans
<1> QED
  BY <1>2, <1>7, <1>8 DEF FailSafeReconciliation, drifted

\* A refused entry fill.
LEMMA FailSafeEntryFillKeeps ==
    ASSUME NEW m, Shape(m), NEW o, NEW q
    PROVE  Keeps(m, FailSafeEntryFill(m, o, q))
<1> DEFINE asked == Ask([Rescued(m) EXCEPT !.setup.final = None, !.setup.print = 0])
           known == IF m.drift.seen THEN m.drift.qty ELSE ExpectedSigned(m)
           observed == known + q * m.orders[o].side
           drifted == [asked EXCEPT !.drift = [seen |-> TRUE, qty |-> observed]]
           exiting == [drifted EXCEPT !.life = "EXIT_PENDING"]
           quiet == CancelAll(exiting, "STALE_ENTRY_DRIFT")
<1> HIDE DEF observed
<1>1. Keeps(m, asked)
  BY DEF Shape, Counts, Keeps, Watched, Ask, Rescued
<1>2. Keeps(m, drifted)
  <2> HIDE DEF asked
  <2> QED
    BY <1>1 DEF Shape, Counts, Keeps, Watched
<1>3. Keeps(m, exiting)
  <2> HIDE DEF drifted
  <2> QED
    BY <1>2 DEF Shape, Counts, Keeps, Watched
<1>4. Keeps(m, quiet)
  <2> HIDE DEF exiting
  <2>1. Shape(exiting)
    BY <1>3 DEF Keeps, Counts
  <2> QED
    BY <1>3, <2>1, CancelAllKeeps, KeepsTrans
<1>5. Keeps(m, CloseActual(quiet, "ENGINE_ERROR", <<"attributed-stale-entry-fill", {}>>, observed))
  <2> HIDE DEF quiet
  <2>1. Shape(quiet)
    BY <1>4 DEF Keeps, Counts
  <2> QED
    BY <1>4, <2>1, CloseActualKeeps, KeepsTrans
<1> QED
  BY <1>2, <1>5 DEF FailSafeEntryFill, observed

\* A refused fill.
LEMMA FailSafeFillKeeps ==
    ASSUME NEW m, Shape(m), NEW o, NEW q
    PROVE  Keeps(m, FailSafeFill(m, o, q))
<1> DEFINE m1 == [m EXCEPT !.execs = @ + 1]
<1>1. Keeps(m, m1)
  BY DEF Shape, Counts, Keeps, Watched
<1> HIDE DEF m1
<1>2. Shape(m1)
  BY <1>1 DEF Keeps, Counts
<1>3. Keeps(m, FailSafeEntryFill(m1, o, q)) /\ Keeps(m, FailSafe(m1))
  BY <1>1, <1>2, FailSafeEntryFillKeeps, FailSafeKeeps, KeepsTrans
<1> QED
  BY <1>3 DEF FailSafeFill, m1

----------------------------------------------------------------------------
(* Apply and the actions.                                                  *)

BlockedInv == Shape(machine) /\ Blocked(machine)

\* The marker of the previous fail-safe is reset before an event.
LEMMA FreshKeeps ==
    ASSUME BlockedInv
    PROVE  Keeps(machine, Fresh) /\ Shape(Fresh) /\ Blocked(Fresh)
BY DEF BlockedInv, Fresh, Shape, Counts, Keeps, Watched, Blocked

\* Whichever of the handler and the fail-safe takes effect, the step is as
\* safe as both are.
LEMMA ApplySafe ==
    ASSUME BlockedInv, NEW refused, NEW post, NEW rescue,
           Safe(Fresh, post), Safe(Fresh, rescue), Apply(refused, post, rescue)
    PROVE  Safe(machine, machine')
<1> DEFINE done == Store(post)
           tripped == [rescue EXCEPT !.tripped = TRUE]
           saved == Store(tripped)
<1>1. Keeps(machine, Fresh)
  BY FreshKeeps
<1>2. Keeps(post, done)
  BY StoreKeeps DEF Safe
<1>3. Keeps(rescue, tripped)
  BY DEF Safe, Shape, Counts, Keeps, Watched
<1>4. Keeps(rescue, saved)
  <2> HIDE DEF tripped
  <2>1. Shape(tripped)
    BY <1>3 DEF Keeps, Counts
  <2> QED
    BY <1>3, <2>1, StoreKeeps, KeepsTrans
<1>5. machine' = done \/ machine' = saved
  BY DEF Apply
<1> HIDE DEF done, saved
<1>6. Safe(machine, done)
  BY <1>1, <1>2 DEF Safe, Keeps, Counts, Blocked
<1>7. Safe(machine, saved)
  BY <1>1, <1>4 DEF Safe, Keeps, Counts, Blocked
<1> QED
  BY <1>5, <1>6, <1>7

\* Every action is safe from a state that satisfies the invariant.
LEMMA StepSafe ==
    ASSUME BlockedInv, [Next]_vars
    PROVE  Safe(machine, machine')
<1> USE DEF BlockedInv
<1>a. Keeps(machine, Fresh) /\ Shape(Fresh) /\ Blocked(Fresh)
  BY FreshKeeps
<1>b. Safe(Fresh, FailSafe(Fresh))
  BY <1>a, FailSafeKeeps, KeepsSafe
<1>1. CASE EquityUpdated
  <2>1. Safe(Fresh, [Fresh EXCEPT !.equity = TRUE]) /\ Safe(Fresh, Fresh)
    <3> DEFINE f == Fresh
    <3>1. Shape(f) /\ Blocked(f)
      BY <1>a
    <3> HIDE DEF f
    <3>2. Keeps(f, f) /\ Keeps(f, [f EXCEPT !.equity = TRUE])
      BY <3>1 DEF Shape, Counts, Keeps, Watched
    <3> QED
      BY <3>1, <3>2, KeepsSafe DEF f
  <2> QED
    BY <1>1, <2>1, ApplySafe DEF EquityUpdated
<1>2. CASE BarClosed
  <2>1. PICK react \in Sides \cup {0}, trigger \in BOOLEAN, preview \in BOOLEAN, moved \in BOOLEAN :
          /\ react # 0 => FlatEligible(machine)
          /\ trigger => AddonObservable(machine)
          /\ Apply(FALSE, OnBar(Fresh, react, trigger, preview, moved), FailSafe(Fresh))
    BY <1>2 DEF BarClosed
  <2>2. Fresh.recovery = machine.recovery
    BY DEF Fresh, Shape, Watched
  <2>3. /\ react # 0 => Fresh.recovery # TRUE
        /\ trigger => Fresh.recovery # TRUE
    BY <2>1, <2>2 DEF FlatEligible, AddonObservable
  <2>4. Safe(Fresh, OnBar(Fresh, react, trigger, preview, moved))
    BY <1>a, <2>3, BarSafe
  <2> QED
    BY <1>b, <2>1, <2>4, ApplySafe
<1>3. CASE OrderSubmitted
  <2>1. \A o : Safe(Fresh, OnSubmitted(Fresh, o))
    BY <1>a, SubmittedKeeps, KeepsSafe
  <2> QED
    BY <1>3, <1>b, <2>1, ApplySafe DEF OrderSubmitted
<1>4. CASE OrderAccepted
  <2>1. \A o : Safe(Fresh, OnAccepted(Fresh, o))
    BY <1>a, SubmittedKeeps, KeepsSafe
  <2> QED
    BY <1>4, <1>b, <2>1, ApplySafe DEF OrderAccepted
<1>5. CASE OrderTerminal
  <2>1. \A o, kind : Safe(Fresh, OnTerminal(Fresh, o, kind))
    BY <1>a, TerminalKeeps, KeepsSafe
  <2> QED
    BY <1>5, <1>b, <2>1, ApplySafe DEF OrderTerminal
<1>6. CASE OrderFilled
  <2>1. \A o, q, full, valid, moved : Safe(Fresh, OnFill(Fresh, o, q, full, valid, moved))
    BY <1>a, FillKeeps, KeepsSafe
  <2>2. \A o, q : Safe(Fresh, FailSafeFill(Fresh, o, q))
    BY <1>a, FailSafeFillKeeps, KeepsSafe
  <2> QED
    BY <1>6, <2>1, <2>2, ApplySafe DEF OrderFilled
<1>7. CASE PositionChanged
  <2>1. \A actual : Safe(Fresh, OnPositionChanged(Fresh, actual))
    BY <1>a, PositionChangedKeeps, KeepsSafe
  <2> QED
    BY <1>7, <1>b, <2>1, ApplySafe DEF PositionChanged
<1>8. CASE PositionClosed
  <2>1. \A reason, net, scope : Safe(Fresh, OnPositionClosed(Fresh, reason, net, scope))
    BY <1>a, PositionClosedKeeps, KeepsSafe
  <2> QED
    BY <1>8, <1>b, <2>1, ApplySafe DEF PositionClosed
<1>9. CASE FundingApplied
  <2>1. \A settlement, amount :
          /\ Safe(Fresh, OnFunding(Fresh, settlement, amount))
          /\ Safe(Fresh, FailSafeFunding(Fresh, settlement, amount))
    BY <1>a, FundingSafe, FailSafeFundingSafe
  <2> QED
    BY <1>9, <2>1, ApplySafe DEF FundingApplied
<1>10. CASE ForcedClose
  <2>1. \A reason, discriminator : Safe(Fresh, OnForcedClose(Fresh, reason, discriminator))
    BY <1>a, ForcedCloseKeeps, KeepsSafe
  <2> QED
    BY <1>10, <1>b, <2>1, ApplySafe DEF ForcedClose
<1>11. CASE RecoverySnapshotLoaded
  <2>1. Safe(Fresh, OnRecoveryLoaded(Fresh))
    BY <1>a, RecoveryLoadedKeeps, KeepsSafe
  <2> QED
    BY <1>11, <1>b, <2>1, ApplySafe DEF RecoverySnapshotLoaded
<1>12. CASE ReconciliationCompleted
  <2>1. \A e : /\ Safe(Fresh, OnReconciliation(Fresh, e))
               /\ Safe(Fresh, FailSafeReconciliation(Fresh, e))
    BY <1>a, ReconciliationSafe, FailSafeReconciliationKeeps, KeepsSafe
  <2>2. PICK e : Apply(ReconciliationRefused(Fresh, e), OnReconciliation(Fresh, e),
                       FailSafeReconciliation(Fresh, e))
    BY <1>12 DEF ReconciliationCompleted
  <2> QED
    BY <2>1, <2>2, ApplySafe
<1>13. CASE UNCHANGED vars
  BY <1>13, KeepsSelf, KeepsSafe DEF vars
<1> QED
  BY <1>1, <1>2, <1>3, <1>4, <1>5, <1>6, <1>7, <1>8, <1>9, <1>10, <1>11, <1>12, <1>13 DEF Next

\* While something is owed the machine is in recovery, in every reachable
\* state: the inductive invariant.
THEOREM OwedMeansRecovery == Spec => []BlockedInv
<1>1. Init => BlockedInv
  BY DEF Init, InitialMachine, BlockedInv, Shape, Watched, Blocked
<1>2. BlockedInv /\ [Next]_vars => BlockedInv'
  BY StepSafe DEF BlockedInv, Safe
<1> QED
  BY <1>1, <1>2, PTL DEF Spec

\* Funding that belongs to no setup is never forgotten, and until it is
\* settled no setup is opened and no add-on is submitted (_on_funding,
\* _on_reconciliation_completed, _on_bar).
THEOREM OwedFundingBlocks == Spec => OwedBlocks
<1>1. BlockedInv /\ [Next]_vars =>
        [machine.owed # {} => /\ machine.owed \subseteq machine'.owed
                              /\ machine'.born = machine.born
                              /\ machine'.addons = machine.addons]_vars
  BY StepSafe DEF Safe
<1> QED
  BY <1>1, OwedMeansRecovery, PTL DEF Spec, OwedBlocks
============================================================================
