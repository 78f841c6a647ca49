------------------------ MODULE MastermindOrderProofs ------------------------
(***************************************************************************)
(* The ledger of orders of Mastermind, for every value of the constants.   *)
(* OrderInv holds whatever the venue does: the names of orders are fresh,  *)
(* an order that moved on never waits again, and one close at most waits.  *)
(* StageInv needs a position feed that does not disagree by itself (no     *)
(* "drift" among Faults): an order that stands for exposure belongs to the *)
(* running setup, entries exist only where the setup can answer for them,  *)
(* and what the venue may not have received is stored.                     *)
(* Tally needs that no position is reported closed before it is flat (no   *)
(* "early" among Faults): the legs are what the fills of the orders say.   *)
(* Relations between the machine before and after carry the proof, one     *)
(* lemma per helper and handler:                                           *)
(*   Follows   the helpers of MastermindState;                             *)
(*   Moves     handlers that leave the legs alone;                         *)
(*   Fares     order reports: the setup's stage is kept or the setup ends; *)
(*   Fills     fills, which change the legs and end nothing;               *)
(*   Resolves  a reconciliation, which may take orders over from the venue;*)
(*   Proceeds  what any event may do.                                      *)
(* Guarded needs a feed that ends no order unasked and reconciles with     *)
(* every guard in view (Faithful): a setup is either answered for by its   *)
(* stops or closed with nothing beside it that adds risk. Two relations    *)
(* carry that proof:                                                       *)
(*   Bars      what brings nothing to life that adds risk;                 *)
(*   Spares    what also leaves every order that answers for exposure.     *)
(***************************************************************************)
EXTENDS MastermindProofs, FiniteSetTheorems

\* Orders that are ours or the venue's to execute and have executed nothing.
Waiting == {"INTENDED", "SUBMITTED", "ACCEPTED"}
WaitingOf(m) == {o \in DOMAIN m.orders : m.orders[o].st \in Waiting}

\* The numbers in the names of orders: what a handler registers next is new.
Numbered(m) ==
    /\ m.addons \in Nat /\ m.execs \in Nat /\ m.setup.bs \in Nat /\ m.setup.tp \in Nat
    /\ \A o \in DOMAIN m.orders :
        /\ RoleOf(o) = "ADDON_ENTRY" => o[3] \in Nat /\ o[3] <= m.addons
        /\ RoleOf(o) = "ADDON_STOP" => o[3] \in Nat /\ o[3] <= m.execs
        /\ RoleOf(o) \in ProtectiveRoles \cup {"REDUCE_ADDON"} => SetupOf(o) # 0
        /\ RoleOf(o) = "BASE_STOP" /\ SetupOf(o) = m.setup.id => o[3] \in Nat /\ o[3] <= m.setup.bs
        /\ RoleOf(o) = "TAKE_PROFIT" /\ SetupOf(o) = m.setup.id => o[3] \in Nat /\ o[3] <= m.setup.tp

\* At most one close of a setup waits to execute.
Single(m) ==
    \A a, b \in WaitingOf(m) :
        RoleOf(a) = "CLOSE_ALL" /\ RoleOf(b) = "CLOSE_ALL" /\ SetupOf(a) = SetupOf(b) => a = b

\* An order is partially filled only by a fill; closes are single.
Orderly(m) ==
    /\ \A o \in DOMAIN m.orders : m.orders[o].st = "PARTIALLY_FILLED" => m.orders[o].fill > 0
    /\ Single(m)

\* What the venue may not have received is stored or about to be.
Subs(m) == m.outbox.subs \cup m.out.subs
Durable(m) == \A o \in DOMAIN m.orders : m.orders[o].st = "INTENDED" => o \in Subs(m)

\* No order that moved on waits again.
Later(m, n) ==
    /\ DOMAIN m.orders \subseteq DOMAIN n.orders
    /\ \A o \in DOMAIN m.orders : o \in WaitingOf(n) => o \in WaitingOf(m)

\* What every handler but a reconciliation keeps.
Goes(m, n) ==
    /\ Later(m, n)
    /\ Orderly(m) => Orderly(n)
    /\ Numbered(m) => Numbered(n)
    /\ Durable(m) => Durable(n)

\* The orders a step registers.
NewIn(m, n) == DOMAIN n.orders \ DOMAIN m.orders

\* What the helpers do to the ledger: no order comes to life but new ones, of
\* the setup, which stand for exposure or close it.
Tends(m, n) ==
    /\ m.setup.pend # None => n.setup.pend # None
    /\ \A o \in DOMAIN m.orders :
        n.orders[o].fill = m.orders[o].fill /\ (o \in Active(n) => o \in Active(m))
    /\ \A o \in NewIn(m, n) :
        /\ SetupOf(o) = m.setup.id /\ RoleOf(o) # "BASE_ENTRY" /\ n.orders[o].fill = 0
        /\ IF RoleOf(o) = "CLOSE_ALL" THEN HasSetup(m) => n.setup.pend # None ELSE RealOpen(m) > 0
    /\ Subs(n) \subseteq Subs(m) \cup NewIn(m, n)

\* The legs are what the fills say: an entry's lots are open or cut, and what was
\* cut an exit has filled.
Told(m, roles, lots) == IsFiniteSet(LotsOf(m, roles)) /\ Cardinality(LotsOf(m, roles)) = lots
Tally(m) ==
    HasSetup(m) =>
        /\ Told(m, {"BASE_ENTRY"}, m.base.qty + m.base.cut)
        /\ Told(m, {"ADDON_ENTRY"}, m.addon.qty + m.addon.cut)
        /\ Told(m, Roles \ EntryRoles, m.base.cut + m.addon.cut)

\* A step keeps that, where no position is closed before it is flat.
Tallies(m, n) == "early" \notin Faults /\ Tally(m) => Tally(n)

\* What no helper touches.
Same(m, n) == n.life = m.life /\ n.recovery = m.recovery /\ n.execs = m.execs /\ n.addons = m.addons

\* What a helper does.
Follows(m, n) == Goes(m, n) /\ Tends(m, n) /\ Same(m, n)

----------------------------------------------------------------------------
(* The helpers of MastermindState.                                         *)

\* Doing nothing.
LEMMA GoesSelf ==
    ASSUME NEW m
    PROVE  Goes(m, m)
BY DEF Goes, Later

\* Two in a row.
LEMMA GoesTrans ==
    ASSUME NEW m, NEW n, NEW p, Goes(m, n), Goes(n, p)
    PROVE  Goes(m, p)
BY DEF Goes, Later

\* Doing nothing is a helper's work.
LEMMA FollowsSelf ==
    ASSUME NEW m
    PROVE  Follows(m, m)
BY GoesSelf DEF Follows, Same, Tends, NewIn

\* Two helpers in a row are one.
LEMMA FollowsTrans ==
    ASSUME NEW m, NEW n, NEW p, Still(m, n), Follows(m, n), Follows(n, p)
    PROVE  Follows(m, p)
<1>1. Goes(m, p)
  BY GoesTrans DEF Follows, Same
<1>2. RealOpen(n) = RealOpen(m) /\ (HasSetup(n) <=> HasSetup(m)) /\ n.setup.id = m.setup.id
  BY DEF Still, Calm, RealOpen, HasSetup
<1>3. NewIn(m, p) \subseteq NewIn(m, n) \cup NewIn(n, p)
  BY DEF NewIn
<1>4. DOMAIN m.orders \subseteq DOMAIN n.orders
  BY DEF Still, Calm
<1>5. NewIn(m, n) \subseteq NewIn(m, p)
  BY DEF Follows, Same, Goes, Later, NewIn
<1>6. NewIn(n, p) \subseteq NewIn(m, p)
  BY <1>4 DEF NewIn
<1>7. Tends(m, n) /\ Tends(n, p)
  BY DEF Follows, Same
<1>8. \A o \in DOMAIN m.orders :
        p.orders[o].fill = m.orders[o].fill /\ (o \in Active(p) => o \in Active(m))
  BY <1>4, <1>7 DEF Tends
<1>9. \A o \in NewIn(m, p) :
        /\ SetupOf(o) = m.setup.id /\ RoleOf(o) # "BASE_ENTRY" /\ p.orders[o].fill = 0
        /\ IF RoleOf(o) = "CLOSE_ALL" THEN HasSetup(m) => p.setup.pend # None ELSE RealOpen(m) > 0
  BY <1>2, <1>3, <1>7 DEF Tends, NewIn
<1>10. Subs(p) \subseteq Subs(m) \cup NewIn(m, p)
  BY <1>5, <1>6, <1>7 DEF Tends
<1> QED
  BY <1>1, <1>7, <1>8, <1>9, <1>10 DEF Follows, Same, Tends

\* Marking orders as canceled, ended or waiting for their cancel.
LEMMA MarkFollows ==
    ASSUME NEW m, Typed(m), NEW ids, NEW st \in TerminalStatuses \cup {"CANCEL_PENDING"}
    PROVE  Follows(m, Mark(m, ids, st))
<1> DEFINE n == Mark(m, ids, st)
<1>1. /\ DOMAIN n.orders = DOMAIN m.orders
      /\ \A o \in DOMAIN m.orders :
            n.orders[o].fill = m.orders[o].fill /\ n.orders[o].st \in {st, m.orders[o].st}
      /\ n.life = m.life /\ n.recovery = m.recovery /\ n.execs = m.execs /\ n.addons = m.addons
      /\ n.setup = m.setup /\ n.outbox = m.outbox /\ n.out = m.out
  BY DEF Mark, Typed, Heads, Fields, Ledger, RowOK
<1>2. st \notin Waiting /\ st \notin ActiveStatuses /\ st # "PARTIALLY_FILLED" /\ st # "INTENDED"
  BY DEF Waiting, ActiveStatuses, TerminalStatuses
<1> HIDE DEF n
<1>3. \A o \in DOMAIN m.orders :
        (o \in WaitingOf(n) => o \in WaitingOf(m)) /\ (o \in Active(n) => o \in Active(m))
  BY <1>1, <1>2 DEF WaitingOf, Active, ActiveOf
<1>4. Orderly(m) => Orderly(n)
  BY <1>1, <1>2, <1>3 DEF Orderly, Single, WaitingOf
<1>5. Numbered(m) => Numbered(n)
  BY <1>1 DEF Numbered, HasSetup
<1>6. Durable(m) => Durable(n)
  BY <1>1, <1>2 DEF Durable, Subs
<1>7. Goes(m, n)
  BY <1>1, <1>3, <1>4, <1>5, <1>6 DEF Goes, Later
<1>8. Tends(m, n)
  BY <1>1, <1>3 DEF Tends, NewIn, Subs
<1> QED
  BY <1>1, <1>7, <1>8 DEF Follows, Same, n

\* What leaves the ledger, the names and the submits alone.
LEMMA SameFollows ==
    ASSUME NEW m, NEW n,
           n.orders = m.orders, n.setup = m.setup, n.execs = m.execs, n.addons = m.addons,
           Subs(n) = Subs(m)
    PROVE  /\ Goes(m, n)
           /\ n.life = m.life /\ n.recovery = m.recovery => Follows(m, n)
<1>1. Goes(m, n)
  BY DEF Goes, Later, Orderly, Single, WaitingOf, Numbered, HasSetup, Durable
<1> QED
  BY <1>1 DEF Follows, Same, Tends, NewIn, Active, ActiveOf

\* Emitting cancels; asking for a reconciliation; acknowledging cancels.
LEMMA CancelsFollow ==
    ASSUME NEW m, Typed(m), NEW ids, NEW reason
    PROVE  /\ Follows(m, SendCancels(m, ids, reason))
           /\ Follows(m, Ask(m))
           /\ Follows(m, AckCancels(m, ids))
<1>1. Follows(m, SendCancels(m, ids, reason))
  <2> DEFINE n == SendCancels(m, ids, reason)
  <2>1. n.orders = m.orders /\ n.setup = m.setup /\ n.execs = m.execs /\ n.addons = m.addons
        /\ n.outbox = m.outbox /\ n.out.subs = m.out.subs /\ n.life = m.life /\ n.recovery = m.recovery
    BY DEF SendCancels, Typed, Heads, Fields, Outboxes, IntentsOK
  <2> HIDE DEF n
  <2>2. Subs(n) = Subs(m)
    BY <2>1 DEF Subs
  <2>3. Follows(m, n)
    BY <2>1, <2>2, SameFollows
  <2> QED
    BY <2>3 DEF n
<1>2. Follows(m, Ask(m))
  <2> DEFINE n == Ask(m)
  <2>1. n.orders = m.orders /\ n.setup = m.setup /\ n.execs = m.execs /\ n.addons = m.addons
        /\ n.outbox = m.outbox /\ n.out.subs = m.out.subs /\ n.life = m.life /\ n.recovery = m.recovery
    BY DEF Ask, Typed, Heads, Fields, Outboxes, IntentsOK
  <2> HIDE DEF n
  <2>2. Subs(n) = Subs(m)
    BY <2>1 DEF Subs
  <2>3. Follows(m, n)
    BY <2>1, <2>2, SameFollows
  <2> QED
    BY <2>3 DEF n
<1>3. Follows(m, AckCancels(m, ids))
  <2> DEFINE n == AckCancels(m, ids)
  <2>1. n.orders = m.orders /\ n.setup = m.setup /\ n.execs = m.execs /\ n.addons = m.addons
        /\ n.outbox.subs = m.outbox.subs /\ n.out = m.out /\ n.life = m.life /\ n.recovery = m.recovery
    BY DEF AckCancels, Typed, Heads, Fields, Outboxes, IntentsOK
  <2> HIDE DEF n
  <2>2. Subs(n) = Subs(m)
    BY <2>1 DEF Subs
  <2>3. Follows(m, n)
    BY <2>1, <2>2, SameFollows
  <2> QED
    BY <2>3 DEF n
<1> QED
  BY <1>1, <1>2, <1>3

\* Acknowledging submits of orders that are past INTENDED.
LEMMA AckFollows ==
    ASSUME NEW m, Typed(m), NEW ids,
           \A o \in DOMAIN m.orders : o \in ids => m.orders[o].st # "INTENDED"
    PROVE  Follows(m, Ack(m, ids))
<1> DEFINE n == Ack(m, ids)
<1>1. /\ n.orders = m.orders /\ n.setup = m.setup /\ n.execs = m.execs /\ n.addons = m.addons
      /\ n.outbox.subs = m.outbox.subs \ ids /\ n.out = m.out /\ n.life = m.life /\ n.recovery = m.recovery
  BY DEF Ack, Typed, Heads, Fields, Outboxes, IntentsOK
<1> HIDE DEF n
<1>2. Goes(m, n)
  BY <1>1 DEF Goes, Later, Orderly, Single, WaitingOf, Numbered, HasSetup, Durable, Subs
<1>3. Tends(m, n)
  BY <1>1 DEF Tends, NewIn, Active, ActiveOf, Subs
<1> QED
  BY <1>1, <1>2, <1>3 DEF Follows, Same, n

\* Registering a new order of the live setup, and its submit.
Registrable(m, o) ==
    /\ o \notin DOMAIN m.orders /\ SetupOf(o) = m.setup.id /\ RoleOf(o) # "BASE_ENTRY"
    /\ IF RoleOf(o) = "CLOSE_ALL"
       THEN /\ HasSetup(m) => m.setup.pend # None
            /\ \A a \in WaitingOf(m) : RoleOf(a) = "CLOSE_ALL" => SetupOf(a) # m.setup.id
       ELSE RealOpen(m) > 0

\* What registering changes.
LEMMA Registered ==
    ASSUME NEW m, Typed(m), NEW o, NEW qty, NEW side
    PROVE  LET n == Register(m, o, qty, side)
           IN  /\ DOMAIN n.orders = DOMAIN m.orders \cup {o}
               /\ n.orders[o].st = "INTENDED" /\ n.orders[o].fill = 0
               /\ n.orders[o].req = qty /\ n.orders[o].side = side
               /\ \A x \in DOMAIN m.orders : x # o => n.orders[x] = m.orders[x]
               /\ n.life = m.life /\ n.recovery = m.recovery /\ n.execs = m.execs /\ n.addons = m.addons
               /\ n.setup = m.setup /\ n.outbox = m.outbox /\ n.out.subs = m.out.subs \cup {o}
               /\ n.base = m.base /\ n.addon = m.addon
BY DEF Register, Typed, Heads, Fields, Outboxes, IntentsOK

\* The ledger after it, but for the numbers.
LEMMA RegisterRest ==
    ASSUME NEW m, Typed(m), NEW o, NEW qty, NEW side, o \notin DOMAIN m.orders,
           RoleOf(o) = "CLOSE_ALL" =>
               \A a \in WaitingOf(m) : RoleOf(a) = "CLOSE_ALL" => SetupOf(a) # SetupOf(o)
    PROVE  LET n == Register(m, o, qty, side)
           IN  /\ Later(m, n) /\ (Orderly(m) => Orderly(n)) /\ (Durable(m) => Durable(n))
               /\ WaitingOf(n) = WaitingOf(m) \cup {o}
               /\ Subs(n) = Subs(m) \cup {o}
<1> DEFINE n == Register(m, o, qty, side)
<1>1. /\ DOMAIN n.orders = DOMAIN m.orders \cup {o}
      /\ n.orders[o].st = "INTENDED" /\ n.orders[o].fill = 0
      /\ \A x \in DOMAIN m.orders : x # o => n.orders[x] = m.orders[x]
      /\ n.outbox = m.outbox /\ n.out.subs = m.out.subs \cup {o}
  BY Registered
<1> HIDE DEF n
<1>2. WaitingOf(n) = WaitingOf(m) \cup {o}
  BY <1>1 DEF WaitingOf, Waiting
<1>3. Later(m, n)
  BY <1>1, <1>2 DEF Later
<1>4. Orderly(m) => Orderly(n)
  <2>1. Single(m) => Single(n)
    BY <1>2 DEF Single
  <2> QED
    BY <1>1, <2>1 DEF Orderly
<1>5. Subs(n) = Subs(m) \cup {o}
  BY <1>1 DEF Subs
<1>6. Durable(m) => Durable(n)
  BY <1>1, <1>5 DEF Durable
<1> QED
  BY <1>2, <1>3, <1>4, <1>5, <1>6 DEF n

\* An order whose name is below the numbers the machine gives out.
NumberOK(m, o) ==
    /\ RoleOf(o) = "ADDON_ENTRY" => o[3] \in Nat /\ o[3] <= m.addons
    /\ RoleOf(o) = "ADDON_STOP" => HasSetup(m) /\ o[3] \in Nat /\ o[3] <= m.execs
    /\ RoleOf(o) = "REDUCE_ADDON" => HasSetup(m)
    /\ RoleOf(o) = "BASE_STOP" => HasSetup(m) /\ o[3] \in Nat /\ o[3] <= m.setup.bs
    /\ RoleOf(o) = "TAKE_PROFIT" => HasSetup(m) /\ o[3] \in Nat /\ o[3] <= m.setup.tp

\* _register_order: a new order of the setup, stored before it is sent.
LEMMA RegisterFollows ==
    ASSUME NEW m, Typed(m), NEW o, NEW qty, NEW side, Registrable(m, o), NumberOK(m, o)
    PROVE  Follows(m, Register(m, o, qty, side))
<1> DEFINE n == Register(m, o, qty, side)
<1>1. /\ DOMAIN n.orders = DOMAIN m.orders \cup {o} /\ n.orders[o].fill = 0
      /\ \A x \in DOMAIN m.orders : x # o => n.orders[x] = m.orders[x]
      /\ n.life = m.life /\ n.recovery = m.recovery /\ n.execs = m.execs /\ n.addons = m.addons
      /\ n.setup = m.setup
  BY Registered
<1>2. /\ Later(m, n) /\ (Orderly(m) => Orderly(n)) /\ (Durable(m) => Durable(n))
      /\ Subs(n) = Subs(m) \cup {o}
  BY RegisterRest DEF Registrable
<1> HIDE DEF n
<1>3. Numbered(m) => Numbered(n)
  BY <1>1 DEF Numbered, NumberOK, HasSetup, Registrable, ProtectiveRoles
<1>4. NewIn(m, n) = {o}
  BY <1>1 DEF NewIn, Registrable
<1>5. Tends(m, n)
  BY <1>1, <1>2, <1>4 DEF Tends, Registrable, Active, ActiveOf, HasSetup
<1> QED
  BY <1>1, <1>2, <1>3, <1>5 DEF Follows, Same, Goes, n

\* Storing the emitted intents.
LEMMA StoreFollows ==
    ASSUME NEW m, Typed(m)
    PROVE  Follows(m, Store(m)) /\ Subs(Store(m)) = Subs(m)
           /\ Store(m).orders = m.orders /\ Store(m).outbox.subs = Subs(m)
<1> DEFINE n == Store(m)
<1>1. /\ n.orders = m.orders /\ n.setup = m.setup /\ n.execs = m.execs /\ n.addons = m.addons
      /\ n.life = m.life /\ n.recovery = m.recovery
      /\ n.outbox.subs = m.outbox.subs \cup m.out.subs /\ n.out.subs = {}
  BY DEF Store, NoIntents, Typed, Heads, Fields, Outboxes, IntentsOK
<1> HIDE DEF n
<1>2. Subs(n) = Subs(m)
  BY <1>1 DEF Subs
<1>3. Follows(m, n)
  BY <1>1, <1>2, SameFollows
<1> QED
  BY <1>1, <1>2, <1>3 DEF n, Subs

\* Replaying intended submits.
LEMMA ReplayFollows ==
    ASSUME NEW m, Typed(m), NEW ids
    PROVE  Follows(m, Replay(m, ids))
<1> DEFINE n == Replay(m, ids)
<1>1. /\ n.orders = m.orders /\ n.setup = m.setup /\ n.execs = m.execs /\ n.addons = m.addons
      /\ n.life = m.life /\ n.recovery = m.recovery
      /\ n.outbox = m.outbox /\ n.out.subs = m.out.subs \cup Replayable(m, ids)
      /\ Replayable(m, ids) \subseteq m.outbox.subs
  BY DEF Replay, Replayable, Typed, Heads, Fields, Outboxes, IntentsOK
<1> HIDE DEF n
<1>2. Subs(n) = Subs(m)
  BY <1>1 DEF Subs
<1>3. Follows(m, n)
  BY <1>1, <1>2, SameFollows
<1> QED
  BY <1>3 DEF n

\* Replacing a protective order by its next version, whose name is new; the
\* number of the version is counted afterwards.
LEMMA SupersedeRest ==
    ASSUME NEW m, Typed(m), NEW previous, NEW o, o \notin DOMAIN m.orders, RoleOf(o) # "CLOSE_ALL"
    PROVE  LET n == Supersede(m, previous, o)
           IN  /\ Later(m, n) /\ (Orderly(m) => Orderly(n)) /\ (Durable(m) => Durable(n))
               /\ Subs(n) = Subs(m) \cup {o}
               /\ DOMAIN n.orders = DOMAIN m.orders \cup {o} /\ n.orders[o].fill = 0
               /\ \A x \in DOMAIN m.orders :
                      n.orders[x].fill = m.orders[x].fill /\ (x \in Active(n) => x \in Active(m))
               /\ n.life = m.life /\ n.recovery = m.recovery /\ n.execs = m.execs /\ n.addons = m.addons
               /\ n.setup = m.setup
<1> DEFINE marked == Mark(m, {previous} \cap Active(m), "CANCEL_PENDING")
           n == Register(marked, o, RealOpen(m), ExitSide(m))
<1>1. Typed(marked)
  BY MarkStill DEF Statuses, Still
<1>2. Follows(m, marked)
  BY MarkFollows
<1>3. /\ DOMAIN marked.orders = DOMAIN m.orders /\ marked.setup = m.setup
      /\ marked.outbox = m.outbox /\ marked.out = m.out
      /\ marked.life = m.life /\ marked.recovery = m.recovery
      /\ marked.execs = m.execs /\ marked.addons = m.addons
  BY DEF Mark, Typed, Heads, Fields
<1> HIDE DEF marked
<1>4. /\ Later(marked, n) /\ (Orderly(marked) => Orderly(n)) /\ (Durable(marked) => Durable(n))
      /\ Subs(n) = Subs(marked) \cup {o}
  BY <1>1, <1>3, RegisterRest
<1>5. /\ DOMAIN n.orders = DOMAIN marked.orders \cup {o} /\ n.orders[o].fill = 0
      /\ \A x \in DOMAIN marked.orders : x # o => n.orders[x] = marked.orders[x]
      /\ n.life = marked.life /\ n.recovery = marked.recovery /\ n.execs = marked.execs
      /\ n.addons = marked.addons /\ n.setup = marked.setup
  BY <1>1, Registered
<1> HIDE DEF n
<1>6. \A x \in DOMAIN m.orders :
          n.orders[x].fill = m.orders[x].fill /\ (x \in Active(n) => x \in Active(m))
  BY <1>2, <1>3, <1>5 DEF Follows, Same, Tends, Active, ActiveOf
<1>7. /\ Later(m, n) /\ (Orderly(m) => Orderly(n)) /\ (Durable(m) => Durable(n))
      /\ Subs(n) = Subs(m) \cup {o}
  BY <1>2, <1>3, <1>4 DEF Follows, Same, Goes, Later, Subs
<1>8. Supersede(m, previous, o) = n
  BY DEF Supersede, marked, n
<1> QED
  BY <1>3, <1>5, <1>6, <1>7, <1>8

\* Canceling every active order: none is left that waits.
LEMMA CancelAllFollows ==
    ASSUME NEW m, Typed(m), NEW reason
    PROVE  /\ Follows(m, CancelAll(m, reason))
           /\ Active(CancelAll(m, reason)) = {}
           /\ Subs(CancelAll(m, reason)) = m.out.subs
           /\ DOMAIN CancelAll(m, reason).orders = DOMAIN m.orders
           /\ CancelAll(m, reason).setup = m.setup
<1> DEFINE marked == Mark(m, Active(m), "CANCEL_PENDING")
           sent == SendCancels(marked, Active(m), reason)
           n == [sent EXCEPT !.outbox.subs = {}]
<1>1. Typed(marked) /\ Follows(m, marked) /\ Still(m, marked)
  BY MarkStill, MarkFollows DEF Statuses, Still
<1>2. DOMAIN marked.orders = DOMAIN m.orders /\ Active(marked) = {} /\ marked.out = m.out
      /\ marked.setup = m.setup
  BY DEF Mark, Active, ActiveOf, ActiveStatuses, Typed, Heads, Fields, Ledger, RowOK
<1> HIDE DEF marked
<1>3. Still(m, sent) /\ Follows(m, sent)
  BY <1>1, SendCancelsStill, CancelsFollow, StillTrans, FollowsTrans
<1>4. sent.orders = marked.orders /\ sent.out.subs = marked.out.subs /\ sent.setup = marked.setup
  BY <1>1 DEF SendCancels, Typed, Heads, Fields, Outboxes, IntentsOK
<1> HIDE DEF sent
<1>5. /\ n.orders = sent.orders /\ n.setup = sent.setup /\ n.execs = sent.execs /\ n.addons = sent.addons
      /\ n.outbox.subs = {} /\ n.out = sent.out /\ n.life = sent.life /\ n.recovery = sent.recovery
  BY <1>3 DEF Still, Typed, Heads, Fields, Outboxes, IntentsOK
<1> HIDE DEF n
<1>6. \A o \in DOMAIN sent.orders : sent.orders[o].st # "INTENDED"
  BY <1>2, <1>3, <1>4 DEF Active, ActiveOf, ActiveStatuses, Still, Typed, Ledger
<1>7. Goes(sent, n)
  BY <1>5, <1>6 DEF Goes, Later, Orderly, Single, WaitingOf, Numbered, HasSetup, Durable
<1>8. Tends(sent, n)
  BY <1>5 DEF Tends, NewIn, Active, ActiveOf, Subs
<1>9. Follows(m, n)
  <2>1. Same(sent, n)
    BY <1>5 DEF Same
  <2>2. Follows(sent, n)
    BY <1>7, <1>8, <2>1 DEF Follows
  <2> QED
    BY <1>3, <2>2, FollowsTrans
<1>10. Active(n) = {} /\ Subs(n) = m.out.subs /\ DOMAIN n.orders = DOMAIN m.orders /\ n.setup = m.setup
  BY <1>2, <1>4, <1>5 DEF Active, ActiveOf, Subs
<1>11. CancelAll(m, reason) = n
  BY DEF CancelAll, marked, sent, n
<1> QED
  BY <1>9, <1>10, <1>11

\* Canceling the orders of some roles.
LEMMA CancelRolesFollows ==
    ASSUME NEW m, Typed(m), NEW roles
    PROVE  /\ Follows(m, CancelRoles(m, roles))
           /\ DOMAIN CancelRoles(m, roles).orders = DOMAIN m.orders
           /\ CancelRoles(m, roles).setup = m.setup
           /\ ActiveOf(CancelRoles(m, roles), roles) = {}
<1> DEFINE ids == ActiveOf(m, roles)
           marked == Mark(m, ids, "CANCEL_PENDING")
           acked == Ack(marked, ids)
           n == SendCancels(acked, ids, "ROLE_CANCEL")
<1>1. Still(m, marked) /\ Follows(m, marked)
  BY MarkStill, MarkFollows DEF Statuses
<1>2. /\ DOMAIN marked.orders = DOMAIN m.orders /\ marked.setup = m.setup
      /\ \A o \in ids : marked.orders[o].st = "CANCEL_PENDING"
      /\ \A o \in DOMAIN m.orders : o \notin ids => marked.orders[o] = m.orders[o]
  BY DEF Mark, ActiveOf, Typed, Heads, Fields, Ledger, RowOK
<1>3. ids = ActiveOf(m, roles)
  OBVIOUS
<1> HIDE DEF marked, ids
<1>4. Still(marked, acked)
  BY <1>1, AckStill DEF Still
<1>5. Follows(marked, acked)
  BY <1>1, <1>2, AckFollows DEF Still
<1>6. acked.orders = marked.orders /\ acked.setup = marked.setup
  BY <1>1 DEF Ack, Still, Typed, Heads, Fields, Outboxes, IntentsOK
<1> HIDE DEF acked
<1>7. Still(m, acked) /\ Follows(m, acked)
  BY <1>1, <1>4, <1>5, StillTrans, FollowsTrans
<1>8. Follows(m, n)
  BY <1>7, CancelsFollow, FollowsTrans DEF Still
<1>9. n.orders = acked.orders /\ n.setup = acked.setup
  BY <1>7 DEF SendCancels, Still, Typed, Heads, Fields, Outboxes, IntentsOK
<1> HIDE DEF n
<1>10. ActiveOf(n, roles) = {}
  BY <1>2, <1>3, <1>6, <1>9 DEF ActiveOf, ActiveStatuses
<1>11. CancelRoles(m, roles) = n
  BY DEF CancelRoles, ids, marked, acked, n
<1> QED
  BY <1>2, <1>6, <1>8, <1>9, <1>10, <1>11

\* Marks of the setup, and a pending close reason.
LEMMA SetupFollows ==
    ASSUME NEW m, Typed(m), NEW v, NEW reason \in CloseReasons
    PROVE  /\ Follows(m, [m EXCEPT !.setup.lock = v])
           /\ Follows(m, [m EXCEPT !.setup.stale = v])
           /\ Follows(m, [m EXCEPT !.setup.consumed = v])
           /\ Follows(m, [m EXCEPT !.setup.pend = reason])
<1>1. ASSUME NEW n, n.orders = m.orders, n.execs = m.execs, n.addons = m.addons,
             n.outbox = m.outbox, n.out = m.out, n.life = m.life, n.recovery = m.recovery,
             n.setup.id = m.setup.id, n.setup.bs = m.setup.bs, n.setup.tp = m.setup.tp,
             n.setup.pend = m.setup.pend \/ n.setup.pend # None
      PROVE  Follows(m, n)
  <2>1. Goes(m, n)
    BY <1>1 DEF Goes, Later, Orderly, Single, WaitingOf, Numbered, HasSetup, Durable, Subs
  <2> QED
    BY <1>1, <2>1 DEF Follows, Same, Tends, NewIn, Active, ActiveOf, Subs
<1>2. reason # None
  BY DEF CloseReasons, None
<1>3. Follows(m, [m EXCEPT !.setup.lock = v])
  BY <1>1 DEF Typed, Heads, Fields, SetupOK
<1>4. Follows(m, [m EXCEPT !.setup.stale = v])
  BY <1>1 DEF Typed, Heads, Fields, SetupOK
<1>5. Follows(m, [m EXCEPT !.setup.consumed = v])
  BY <1>1 DEF Typed, Heads, Fields, SetupOK
<1>6. Follows(m, [m EXCEPT !.setup.pend = reason])
  BY <1>1, <1>2 DEF Typed, Heads, Fields, SetupOK
<1> QED
  BY <1>3, <1>4, <1>5, <1>6

\* Registering a whole-position close withdraws the others of the setup.
LEMMA CloseAllFollows ==
    ASSUME NEW m, Typed(m), NEW reason \in CloseReasons, NEW discriminator,
           NEW qty \in Nat, NEW side \in {1, -1}
    PROVE  LET n == CloseAll(m, reason, discriminator, qty, side)
           IN  Follows(m, n) /\ (HasSetup(m) => n.setup.pend = reason)
<1> DEFINE o == <<"CLOSE_ALL", m.setup.id, <<discriminator, reason, side, qty>>>>
           m1 == IF HasSetup(m) THEN [m EXCEPT !.setup.pend = reason] ELSE m
           others == {x \in ActiveOf(m, {"CLOSE_ALL"}) : SetupOf(x) = m.setup.id}
           marked == Mark(m1, others, "CANCEL_PENDING")
           sent == SendCancels(marked, others, "CLOSE_ALL_REPLACE")
           n == Register(sent, o, qty, side)
<1>1. /\ Still(m, m1) /\ Follows(m, m1) /\ m1.orders = m.orders
      /\ HasSetup(m) => m1.setup.pend = reason
  <2>1. Still(m, m1)
    BY PendStill, StillSelf DEF Reasons
  <2>2. Follows(m, m1)
    BY SetupFollows, FollowsSelf
  <2>3. m1.orders = m.orders /\ (HasSetup(m) => m1.setup.pend = reason)
    BY DEF Typed, Heads, Fields, SetupOK
  <2> QED
    BY <2>1, <2>2, <2>3
<1>2. others = {x \in ActiveOf(m, {"CLOSE_ALL"}) : SetupOf(x) = m.setup.id}
  OBVIOUS
<1>3. o[1] = "CLOSE_ALL" /\ o[2] = m.setup.id
  OBVIOUS
<1>4. CloseAll(m, reason, discriminator, qty, side) = IF o \in DOMAIN m.orders THEN m1 ELSE n
  BY DEF CloseAll
<1> HIDE DEF o, m1, others
<1>5. Still(m1, marked) /\ Follows(m1, marked)
  BY <1>1, MarkStill, MarkFollows DEF Statuses, Still
<1>6. /\ DOMAIN marked.orders = DOMAIN m.orders /\ marked.setup = m1.setup
      /\ \A x \in others : x \in DOMAIN m.orders => marked.orders[x].st = "CANCEL_PENDING"
      /\ \A x \in DOMAIN m.orders : x \notin others => marked.orders[x] = m.orders[x]
  BY <1>1 DEF Mark, Still, Typed, Heads, Fields, Ledger, RowOK
<1> HIDE DEF marked
<1>7. Still(m, marked) /\ Follows(m, marked)
  BY <1>1, <1>5, StillTrans, FollowsTrans
<1>8. Still(m, sent) /\ Follows(m, sent)
  BY <1>7, SendCancelsStill, CancelsFollow, StillTrans, FollowsTrans DEF Still
<1>9. sent.orders = marked.orders /\ sent.setup = marked.setup
  BY <1>7 DEF SendCancels, Still, Typed, Heads, Fields, Outboxes, IntentsOK
<1> HIDE DEF sent
<1>10. \A a \in WaitingOf(sent) : RoleOf(a) = "CLOSE_ALL" => SetupOf(a) # m.setup.id
  <2> SUFFICES ASSUME NEW a \in WaitingOf(sent), RoleOf(a) = "CLOSE_ALL", SetupOf(a) = m.setup.id
               PROVE  FALSE
    OBVIOUS
  <2>1. a \in DOMAIN m.orders /\ a \notin others
    BY <1>6, <1>9 DEF WaitingOf, Waiting
  <2>2. m.orders[a].st \in ActiveStatuses
    BY <1>6, <1>9, <2>1 DEF WaitingOf, Waiting, ActiveStatuses
  <2> QED
    BY <1>2, <2>1, <2>2 DEF ActiveOf
<1>11. ASSUME o \notin DOMAIN m.orders
       PROVE  Follows(m, n) /\ (HasSetup(m) => n.setup.pend = reason)
  <2>1. SetupOf(o) = sent.setup.id /\ RoleOf(o) = "CLOSE_ALL" /\ sent.setup.id = m.setup.id
    BY <1>3, <1>8 DEF SetupOf, RoleOf, Still, Calm
  <2>2. HasSetup(sent) => sent.setup.pend # None
    BY <1>1, <1>6, <1>9, <2>1 DEF HasSetup, CloseReasons, None
  <2>3. Registrable(sent, o)
    BY <1>6, <1>9, <1>10, <1>11, <2>1, <2>2 DEF Registrable
  <2>4. NumberOK(sent, o)
    BY <2>1 DEF NumberOK
  <2>5. Follows(sent, n)
    BY <1>8, <2>3, <2>4, RegisterFollows DEF Still
  <2>6. Follows(m, n)
    BY <1>8, <2>5, FollowsTrans
  <2>7. n.setup = sent.setup
    BY <1>8, Registered DEF Still
  <2> QED
    BY <1>1, <1>6, <1>9, <2>6, <2>7
<1> HIDE DEF n
<1> QED
  BY <1>1, <1>4, <1>11

\* The close of the venue's position, and of the legs.
LEMMA CloseActualFollows ==
    ASSUME NEW m, Typed(m), NEW reason \in CloseReasons, NEW discriminator, NEW actual \in Int
    PROVE  LET n == CloseActual(m, reason, discriminator, actual)
           IN  Follows(m, n) /\ (HasSetup(m) => n.setup.pend = reason)
<1>1. Abs(actual) \in Nat
  BY DEF Abs
<1> QED
  BY <1>1, CloseAllFollows DEF CloseActual

\* _close_open: what is open is closed under a reason.
LEMMA CloseOpenFollows ==
    ASSUME NEW m, Typed(m), NEW reason \in CloseReasons, NEW discriminator
    PROVE  LET n == CloseOpen(m, reason, discriminator)
           IN  Follows(m, n) /\ (HasSetup(m) => n.setup.pend = reason)
BY Lots, CloseAllFollows DEF CloseOpen

\* The reduction of the add-on, which is open.
LEMMA ReduceAddonFollows ==
    ASSUME NEW m, Typed(m), HasSetup(m), RealOpen(m) > 0
    PROVE  Follows(m, ReduceAddon(m))
<1> DEFINE o == <<"REDUCE_ADDON", m.setup.id, 1>>
<1>1. SetupOf(o) = m.setup.id /\ RoleOf(o) = "REDUCE_ADDON"
  BY DEF RoleOf, SetupOf
<1> HIDE DEF o
<1>2. o \notin DOMAIN m.orders => Registrable(m, o) /\ NumberOK(m, o)
  BY <1>1 DEF Registrable, NumberOK
<1>3. o \notin DOMAIN m.orders => Follows(m, Register(m, o, m.addon.qty, ExitSide(m)))
  BY <1>2, RegisterFollows
<1> QED
  BY <1>3, FollowsSelf DEF ReduceAddon, o

\* A protective order that is registered before its version is counted.
LEMMA Versioned ==
    ASSUME NEW m, NEW n, NEW p, Typed(m), Numbered(m), HasSetup(m), RealOpen(m) > 0, NEW o,
           SetupOf(o) = m.setup.id,
           \/ /\ RoleOf(o) = "BASE_STOP" /\ o[3] = m.setup.bs + 1
              /\ p.setup.bs = m.setup.bs + 1 /\ p.setup.tp = m.setup.tp
           \/ /\ RoleOf(o) = "TAKE_PROFIT" /\ o[3] = m.setup.tp + 1
              /\ p.setup.tp = m.setup.tp + 1 /\ p.setup.bs = m.setup.bs,
           Later(m, n), Orderly(m) => Orderly(n), Durable(m) => Durable(n),
           Subs(n) = Subs(m) \cup {o}, DOMAIN n.orders = DOMAIN m.orders \cup {o}, n.orders[o].fill = 0,
           \A x \in DOMAIN m.orders :
               n.orders[x].fill = m.orders[x].fill /\ (x \in Active(n) => x \in Active(m)),
           n.life = m.life, n.recovery = m.recovery, n.execs = m.execs, n.addons = m.addons,
           n.setup.pend = m.setup.pend,
           p.orders = n.orders, p.outbox = n.outbox, p.out = n.out,
           p.life = n.life, p.recovery = n.recovery, p.execs = n.execs, p.addons = n.addons,
           p.setup.id = m.setup.id, p.setup.pend = n.setup.pend
    PROVE  Follows(m, p)
<1>1. Subs(p) = Subs(n) /\ Active(p) = Active(n) /\ WaitingOf(p) = WaitingOf(n)
  BY DEF Subs, Active, ActiveOf, WaitingOf
<1>2. Later(m, p) /\ (Orderly(m) => Orderly(p)) /\ (Durable(m) => Durable(p))
  BY <1>1 DEF Later, Orderly, Single, Durable
<1>3. Numbered(p)
  BY DEF Numbered, HasSetup
<1>4. RoleOf(o) # "BASE_ENTRY" /\ RoleOf(o) # "CLOSE_ALL"
  OBVIOUS
<1>5. NewIn(m, p) \subseteq {o} /\ {o} \subseteq DOMAIN p.orders
  BY DEF NewIn
<1>6. o \notin DOMAIN m.orders
  BY DEF Numbered
<1>7. NewIn(m, p) = {o}
  BY <1>5, <1>6 DEF NewIn
<1>8. Tends(m, p)
  BY <1>1, <1>4, <1>7 DEF Tends
<1> QED
  BY <1>2, <1>3, <1>8 DEF Follows, Same, Goes

\* The next version of a protective order has a name of its own.
LEMMA NextIsNew ==
    ASSUME NEW m, Numbered(m), NEW o, SetupOf(o) = m.setup.id,
           \/ RoleOf(o) = "BASE_STOP" /\ o[3] = m.setup.bs + 1
           \/ RoleOf(o) = "TAKE_PROFIT" /\ o[3] = m.setup.tp + 1
    PROVE  o \notin DOMAIN m.orders
BY DEF Numbered

\* Either way of placing it, as one statement.
LEMMA PlacedRest ==
    ASSUME NEW m, Typed(m), NEW previous, NEW o, o \notin DOMAIN m.orders, RoleOf(o) # "CLOSE_ALL",
           NEW n, n = Supersede(m, previous, o) \/ n = Register(m, o, RealOpen(m), ExitSide(m))
    PROVE  /\ Later(m, n) /\ (Orderly(m) => Orderly(n)) /\ (Durable(m) => Durable(n))
           /\ Subs(n) = Subs(m) \cup {o}
           /\ DOMAIN n.orders = DOMAIN m.orders \cup {o} /\ n.orders[o].fill = 0
           /\ \A x \in DOMAIN m.orders :
                  n.orders[x].fill = m.orders[x].fill /\ (x \in Active(n) => x \in Active(m))
           /\ n.life = m.life /\ n.recovery = m.recovery /\ n.execs = m.execs /\ n.addons = m.addons
           /\ n.setup = m.setup
<1>1. CASE n = Supersede(m, previous, o)
  BY <1>1, SupersedeRest
<1>2. CASE n = Register(m, o, RealOpen(m), ExitSide(m))
  <2>1. /\ Later(m, n) /\ (Orderly(m) => Orderly(n)) /\ (Durable(m) => Durable(n))
        /\ Subs(n) = Subs(m) \cup {o}
    BY <1>2, RegisterRest
  <2>2. /\ DOMAIN n.orders = DOMAIN m.orders \cup {o} /\ n.orders[o].fill = 0
        /\ \A x \in DOMAIN m.orders : x # o => n.orders[x] = m.orders[x]
        /\ n.life = m.life /\ n.recovery = m.recovery /\ n.execs = m.execs /\ n.addons = m.addons
        /\ n.setup = m.setup
    BY <1>2, Registered
  <2>3. \A x \in DOMAIN m.orders :
            n.orders[x].fill = m.orders[x].fill /\ (x \in Active(n) => x \in Active(m))
    BY <2>2 DEF Active, ActiveOf
  <2> QED
    BY <2>1, <2>2, <2>3
<1> QED
  BY <1>1, <1>2

\* Installing or moving the base stop.
LEMMA UpsertBaseStopFollows ==
    ASSUME NEW m, Typed(m), Numbered(m), HasSetup(m), RealOpen(m) > 0, NEW moved
    PROVE  LET n == UpsertBaseStop(m, moved)
           IN  Follows(m, n) /\ n.setup.pend = m.setup.pend
<1> DEFINE previous == <<"BASE_STOP", m.setup.id, m.setup.bs>>
           next == <<"BASE_STOP", m.setup.id, m.setup.bs + 1>>
<1>1. SetupOf(next) = m.setup.id /\ RoleOf(next) = "BASE_STOP" /\ next[3] = m.setup.bs + 1
  BY DEF RoleOf, SetupOf
<1>2. UpsertBaseStop(m, moved) =
          IF m.setup.bs = 0
          THEN [Register(m, next, RealOpen(m), ExitSide(m)) EXCEPT !.setup.bs = 1]
          ELSE IF ~moved THEN m ELSE [Supersede(m, previous, next) EXCEPT !.setup.bs = @ + 1]
  BY DEF UpsertBaseStop
<1> HIDE DEF next, previous
<1>3. next \notin DOMAIN m.orders
  BY <1>1, NextIsNew
<1>4. ASSUME NEW n, NEW p,
             n = Supersede(m, previous, next) \/ n = Register(m, next, RealOpen(m), ExitSide(m)),
             p = [n EXCEPT !.setup.bs = m.setup.bs + 1]
      PROVE  Follows(m, p) /\ p.setup.pend = m.setup.pend
  <2>1. /\ Later(m, n) /\ (Orderly(m) => Orderly(n)) /\ (Durable(m) => Durable(n))
        /\ Subs(n) = Subs(m) \cup {next}
        /\ DOMAIN n.orders = DOMAIN m.orders \cup {next} /\ n.orders[next].fill = 0
        /\ \A x \in DOMAIN m.orders :
               n.orders[x].fill = m.orders[x].fill /\ (x \in Active(n) => x \in Active(m))
        /\ n.life = m.life /\ n.recovery = m.recovery /\ n.execs = m.execs /\ n.addons = m.addons
        /\ n.setup = m.setup
    BY <1>1, <1>3, <1>4, PlacedRest
  <2>2. Typed(n)
    <3>1. RoleOf(next) \in Roles
      BY <1>1 DEF Roles, ProtectiveRoles
    <3> QED
      BY <1>1, <1>4, <3>1, Lots, SupersedeStill, RegisterStill DEF Still
  <2>3. /\ p.orders = n.orders /\ p.outbox = n.outbox /\ p.out = n.out
        /\ p.life = n.life /\ p.recovery = n.recovery /\ p.execs = n.execs /\ p.addons = n.addons
        /\ p.setup.id = n.setup.id /\ p.setup.pend = n.setup.pend /\ p.setup.tp = n.setup.tp
        /\ p.setup.bs = m.setup.bs + 1
    BY <1>4, <2>2 DEF Typed, Heads, Fields, SetupOK
  <2> QED
    BY <1>1, <2>1, <2>3, Versioned
<1>5. ASSUME m.setup.bs = 0
      PROVE  LET p == [Register(m, next, RealOpen(m), ExitSide(m)) EXCEPT !.setup.bs = 1]
             IN  Follows(m, p) /\ p.setup.pend = m.setup.pend
  <2> DEFINE n == Register(m, next, RealOpen(m), ExitSide(m))
  <2>1. m.setup.bs + 1 = 1
    BY <1>5
  <2>2. [n EXCEPT !.setup.bs = 1] = [n EXCEPT !.setup.bs = m.setup.bs + 1]
    BY <2>1
  <2> HIDE DEF n
  <2>3. n = Register(m, next, RealOpen(m), ExitSide(m))
    BY DEF n
  <2> QED
    BY <1>4, <2>2, <2>3
<1>6. LET p == [Supersede(m, previous, next) EXCEPT !.setup.bs = @ + 1]
      IN  Follows(m, p) /\ p.setup.pend = m.setup.pend
  <2> DEFINE n == Supersede(m, previous, next)
  <2>1. n.setup = m.setup
    BY <1>1, <1>3, SupersedeRest
  <2>2. n = Supersede(m, previous, next)
    OBVIOUS
  <2> HIDE DEF n
  <2>3. [n EXCEPT !.setup.bs = @ + 1] = [n EXCEPT !.setup.bs = m.setup.bs + 1]
    BY <2>1
  <2>4. Follows(m, [n EXCEPT !.setup.bs = @ + 1]) /\ [n EXCEPT !.setup.bs = @ + 1].setup.pend = m.setup.pend
    BY <1>4, <2>2, <2>3
  <2> QED
    BY <2>2, <2>4
<1> QED
  BY <1>2, <1>5, <1>6, FollowsSelf

\* The next version of the take profit.
LEMMA NextTakeProfitFollows ==
    ASSUME NEW m, Typed(m), Numbered(m), HasSetup(m), RealOpen(m) > 0
    PROVE  Follows(m, NextTakeProfit(m)) /\ NextTakeProfit(m).setup.pend = m.setup.pend
<1> DEFINE previous == <<"TAKE_PROFIT", m.setup.id, m.setup.tp>>
           next == <<"TAKE_PROFIT", m.setup.id, m.setup.tp + 1>>
           n == IF m.setup.tp = 0 THEN Register(m, next, RealOpen(m), ExitSide(m))
                ELSE Supersede(m, previous, next)
           p == [n EXCEPT !.setup.tp = @ + 1]
<1>1. SetupOf(next) = m.setup.id /\ RoleOf(next) = "TAKE_PROFIT" /\ next[3] = m.setup.tp + 1
  BY DEF RoleOf, SetupOf
<1>2. NextTakeProfit(m) = p
  BY DEF NextTakeProfit
<1> HIDE DEF next, previous
<1>3. next \notin DOMAIN m.orders
  BY <1>1, NextIsNew
<1>4. n = Supersede(m, previous, next) \/ n = Register(m, next, RealOpen(m), ExitSide(m))
  OBVIOUS
<1> HIDE DEF n
<1>5. /\ Later(m, n) /\ (Orderly(m) => Orderly(n)) /\ (Durable(m) => Durable(n))
      /\ Subs(n) = Subs(m) \cup {next}
      /\ DOMAIN n.orders = DOMAIN m.orders \cup {next} /\ n.orders[next].fill = 0
      /\ \A x \in DOMAIN m.orders :
             n.orders[x].fill = m.orders[x].fill /\ (x \in Active(n) => x \in Active(m))
      /\ n.life = m.life /\ n.recovery = m.recovery /\ n.execs = m.execs /\ n.addons = m.addons
      /\ n.setup = m.setup
  BY <1>1, <1>3, <1>4, PlacedRest
<1>6. Typed(n)
  <2>1. RoleOf(next) \in Roles
    BY <1>1 DEF Roles, ProtectiveRoles
  <2> QED
    BY <1>1, <1>4, <2>1, Lots, SupersedeStill, RegisterStill DEF Still
<1>7. /\ p.orders = n.orders /\ p.outbox = n.outbox /\ p.out = n.out
      /\ p.life = n.life /\ p.recovery = n.recovery /\ p.execs = n.execs /\ p.addons = n.addons
      /\ p.setup.id = n.setup.id /\ p.setup.pend = n.setup.pend /\ p.setup.bs = n.setup.bs
      /\ p.setup.tp = n.setup.tp + 1
  BY <1>6 DEF Typed, Heads, Fields, SetupOK
<1> HIDE DEF p
<1>8. Follows(m, p) /\ p.setup.pend = m.setup.pend
  BY <1>1, <1>5, <1>7, Versioned
<1> QED
  BY <1>2, <1>8

\* Installing or refreshing the take profit.
LEMMA TakeProfitFollows ==
    ASSUME NEW m, Typed(m), Numbered(m)
    PROVE  /\ Follows(m, UpsertTakeProfit(m)) /\ UpsertTakeProfit(m).setup.pend = m.setup.pend
           /\ Follows(m, RefreshTakeProfit(m)) /\ RefreshTakeProfit(m).setup.pend = m.setup.pend
<1> DEFINE n == NextTakeProfit(m)
<1>1. ASSUME HasSetup(m), RealOpen(m) > 0
      PROVE  Follows(m, n) /\ Still(m, n) /\ n.setup.pend = m.setup.pend
  BY <1>1, NextTakeProfitFollows, NextTakeProfitStill
<1> HIDE DEF n
<1>2. ASSUME HasSetup(m), RealOpen(m) > 0
      PROVE  Follows(m, [n EXCEPT !.setup.stale = FALSE])
             /\ [n EXCEPT !.setup.stale = FALSE].setup.pend = m.setup.pend
  <2>0. [n EXCEPT !.setup.stale = FALSE].setup.pend = n.setup.pend
    BY <1>1, <1>2 DEF Still, Typed, Heads, Fields, SetupOK
  <2>1. Follows(n, [n EXCEPT !.setup.stale = FALSE])
    <3>1. "TP" \in CloseReasons
      BY DEF CloseReasons
    <3> QED
      BY <1>1, <1>2, <3>1, SetupFollows DEF Still
  <2> QED
    BY <1>1, <1>2, <2>0, <2>1, FollowsTrans
<1>3. Follows(m, m)
  BY FollowsSelf
<1> QED
  BY <1>1, <1>2, <1>3 DEF UpsertTakeProfit, RefreshTakeProfit, n

----------------------------------------------------------------------------
(* Handlers that leave the legs alone.                                     *)

\* What such a handler does: modes and counters may change, the legs may not,
\* and a verdict is at most withdrawn.
Moves(m, n) ==
    /\ Goes(m, n) /\ Tends(m, n)
    /\ n.base = m.base /\ n.addon = m.addon
    /\ n.setup.id = m.setup.id /\ n.setup.final \in {m.setup.final, None}

\* Two of them in a row are one.
LEMMA MovesTrans ==
    ASSUME NEW m, NEW n, NEW p, Moves(m, n), Moves(n, p)
    PROVE  Moves(m, p)
<1>1. Goes(m, p)
  BY GoesTrans DEF Moves
<1>2. RealOpen(n) = RealOpen(m) /\ (HasSetup(n) <=> HasSetup(m)) /\ n.setup.id = m.setup.id
  BY DEF Moves, RealOpen, HasSetup
<1>3. DOMAIN m.orders \subseteq DOMAIN n.orders /\ DOMAIN n.orders \subseteq DOMAIN p.orders
  BY DEF Moves, Goes, Later
<1>4. NewIn(m, p) \subseteq NewIn(m, n) \cup NewIn(n, p)
      /\ NewIn(m, n) \subseteq NewIn(m, p) /\ NewIn(n, p) \subseteq NewIn(m, p)
  BY <1>3 DEF NewIn
<1>5. Tends(m, n) /\ Tends(n, p)
  BY DEF Moves
<1>6. \A o \in DOMAIN m.orders :
        p.orders[o].fill = m.orders[o].fill /\ (o \in Active(p) => o \in Active(m))
  BY <1>3, <1>5 DEF Tends
<1>7. \A o \in NewIn(m, p) :
        /\ SetupOf(o) = m.setup.id /\ RoleOf(o) # "BASE_ENTRY" /\ p.orders[o].fill = 0
        /\ IF RoleOf(o) = "CLOSE_ALL" THEN HasSetup(m) => p.setup.pend # None ELSE RealOpen(m) > 0
  BY <1>2, <1>4, <1>5 DEF Tends, NewIn
<1>8. Subs(p) \subseteq Subs(m) \cup NewIn(m, p)
  BY <1>4, <1>5 DEF Tends
<1>9. Tends(m, p)
  BY <1>5, <1>6, <1>7, <1>8 DEF Tends
<1> QED
  BY <1>1, <1>9 DEF Moves

\* A helper is one.
LEMMA FollowsMoves ==
    ASSUME NEW m, NEW n, Still(m, n), Follows(m, n)
    PROVE  Moves(m, n)
BY DEF Still, Calm, Follows, Moves

\* What changes neither ledger, legs nor names.
LEMMA SameMoves ==
    ASSUME NEW m, NEW n,
           n.orders = m.orders, Subs(n) = Subs(m), n.base = m.base, n.addon = m.addon,
           n.setup.id = m.setup.id, n.setup.bs = m.setup.bs, n.setup.tp = m.setup.tp,
           n.setup.final \in {m.setup.final, None}, n.setup.pend = m.setup.pend \/ n.setup.pend # None,
           n.addons \in {m.addons, m.addons + 1}, n.execs \in {m.execs, m.execs + 1}
    PROVE  Moves(m, n)
<1>1. Goes(m, n)
  BY DEF Goes, Later, Orderly, Single, WaitingOf, Numbered, HasSetup, Durable
<1> QED
  BY <1>1 DEF Moves, Tends, NewIn, Active, ActiveOf

----------------------------------------------------------------------------
(* Lots and fills.                                                         *)

\* The members of LotsOf.
LEMMA LotsOfIs ==
    ASSUME NEW m, NEW roles
    PROVE  \A s : s \in LotsOf(m, roles) <=>
               \E o \in DOMAIN m.orders : \E k \in 1 .. m.orders[o].fill :
                   RoleOf(o) \in roles /\ SetupOf(o) = m.setup.id /\ s = <<o, k>>
<1>1. ASSUME NEW s, s \in LotsOf(m, roles)
      PROVE  \E o \in DOMAIN m.orders : \E k \in 1 .. m.orders[o].fill :
                 RoleOf(o) \in roles /\ SetupOf(o) = m.setup.id /\ s = <<o, k>>
  BY <1>1 DEF LotsOf
<1>2. ASSUME NEW o \in DOMAIN m.orders, NEW k \in 1 .. m.orders[o].fill,
             RoleOf(o) \in roles, SetupOf(o) = m.setup.id
      PROVE  <<o, k>> \in LotsOf(m, roles)
  BY <1>2 DEF LotsOf
<1> QED
  BY <1>1, <1>2

\* No fill, no lot.
LEMMA LotsKept ==
    ASSUME NEW m, NEW n, n.setup.id = m.setup.id, DOMAIN m.orders \subseteq DOMAIN n.orders,
           \A o \in DOMAIN m.orders : n.orders[o].fill = m.orders[o].fill,
           \A o \in NewIn(m, n) : n.orders[o].fill = 0
    PROVE  \A roles : LotsOf(n, roles) = LotsOf(m, roles)
<1> SUFFICES ASSUME NEW roles
             PROVE  LotsOf(n, roles) = LotsOf(m, roles)
  OBVIOUS
<1>1. ASSUME NEW o \in DOMAIN n.orders, NEW k \in 1 .. n.orders[o].fill
      PROVE  o \in DOMAIN m.orders
  BY <1>1 DEF NewIn
<1>2. \A s : s \in LotsOf(n, roles) => s \in LotsOf(m, roles)
  BY <1>1, LotsOfIs
<1>3. \A s : s \in LotsOf(m, roles) => s \in LotsOf(n, roles)
  BY LotsOfIs
<1> QED
  BY <1>2, <1>3

\* The ledger after o has filled q more lots.
Grows(m, n, o, q) ==
    /\ n.setup.id = m.setup.id /\ DOMAIN n.orders = DOMAIN m.orders
    /\ n.orders[o].fill = m.orders[o].fill + q
    /\ \A x \in DOMAIN m.orders \ {o} : n.orders[x].fill = m.orders[x].fill

\* A fill adds its lots to the roles it belongs to.
LEMMA LotsGrow ==
    ASSUME NEW m, NEW n, NEW o \in DOMAIN m.orders, m.orders[o].fill \in Nat, SetupOf(o) = m.setup.id,
           NEW q \in Nat, Grows(m, n, o, q), NEW roles, NEW k \in Nat, Told(m, roles, k)
    PROVE  Told(n, roles, IF RoleOf(o) \in roles THEN k + q ELSE k)
<1> DEFINE f == m.orders[o].fill
           more == {o} \X (f + 1 .. f + q)
<1>1. CASE RoleOf(o) \notin roles
  <2>1. \A s : s \in LotsOf(n, roles) <=> s \in LotsOf(m, roles)
    BY <1>1, LotsOfIs DEF Grows
  <2>2. LotsOf(n, roles) = LotsOf(m, roles)
    BY <2>1
  <2> QED
    BY <1>1, <2>2 DEF Told
<1>2. CASE RoleOf(o) \in roles
  <2>1. IsFiniteSet(more) /\ Cardinality(more) = q
    <3>1. IsFiniteSet({o}) /\ Cardinality({o}) = 1
      BY FS_Singleton
    <3>2. IsFiniteSet(f + 1 .. f + q) /\ Cardinality(f + 1 .. f + q) = q
      <4>1. f + 1 \in Int /\ f + q \in Int
        OBVIOUS
      <4>2. IsFiniteSet(f + 1 .. f + q)
            /\ Cardinality(f + 1 .. f + q) = IF f + 1 > f + q THEN 0 ELSE (f + q) - (f + 1) + 1
        BY <4>1, FS_Interval
      <4> QED
        BY <4>2
    <3>3. IsFiniteSet(more) /\ Cardinality(more) = Cardinality({o}) * Cardinality(f + 1 .. f + q)
      BY <3>1, <3>2, FS_Product
    <3> QED
      BY <3>1, <3>2, <3>3
  <2>2. \A s : s \in more <=> \E j \in f + 1 .. f + q : s = <<o, j>>
    OBVIOUS
  <2> HIDE DEF more
  <2>3. ASSUME NEW s, s \in LotsOf(n, roles)
        PROVE  s \in LotsOf(m, roles) \cup more
    <3>1. PICK x \in DOMAIN n.orders : \E j \in 1 .. n.orders[x].fill :
              RoleOf(x) \in roles /\ SetupOf(x) = n.setup.id /\ s = <<x, j>>
      BY <2>3, LotsOfIs
    <3>2. PICK j \in 1 .. n.orders[x].fill :
              RoleOf(x) \in roles /\ SetupOf(x) = n.setup.id /\ s = <<x, j>>
      BY <3>1
    <3>3. CASE x # o \/ j \in 1 .. f
      BY <3>2, <3>3, LotsOfIs DEF Grows
    <3>4. CASE x = o /\ j \notin 1 .. f
      BY <2>2, <3>2, <3>4 DEF Grows
    <3> QED
      BY <3>3, <3>4
  <2>4. ASSUME NEW s, s \in LotsOf(m, roles)
        PROVE  s \in LotsOf(n, roles) /\ s \notin more
    <3>1. PICK x \in DOMAIN m.orders : \E j \in 1 .. m.orders[x].fill :
              RoleOf(x) \in roles /\ SetupOf(x) = m.setup.id /\ s = <<x, j>>
      BY <2>4, LotsOfIs
    <3>2. PICK j \in 1 .. m.orders[x].fill :
              RoleOf(x) \in roles /\ SetupOf(x) = m.setup.id /\ s = <<x, j>>
      BY <3>1
    <3>3. j \in 1 .. n.orders[x].fill
      BY <3>2 DEF Grows
    <3>4. s \in LotsOf(n, roles)
      BY <3>2, <3>3, LotsOfIs DEF Grows
    <3>5. s \notin more
      BY <2>2, <3>2
    <3> QED
      BY <3>4, <3>5
  <2>5. ASSUME NEW s, s \in more
        PROVE  s \in LotsOf(n, roles)
    <3>1. PICK j \in f + 1 .. f + q : s = <<o, j>>
      BY <2>2, <2>5
    <3>2. j \in 1 .. n.orders[o].fill
      BY <3>1 DEF Grows
    <3> QED
      BY <1>2, <3>1, <3>2, LotsOfIs DEF Grows
  <2>6. LotsOf(n, roles) = LotsOf(m, roles) \cup more /\ LotsOf(m, roles) \cap more = {}
    BY <2>3, <2>4, <2>5
  <2>7. Cardinality({}) = 0
    BY FS_EmptySet
  <2>8. /\ IsFiniteSet(LotsOf(m, roles) \cup more)
        /\ Cardinality(LotsOf(m, roles) \cup more) =
              Cardinality(LotsOf(m, roles)) + Cardinality(more)
              - Cardinality(LotsOf(m, roles) \cap more)
    BY <2>1, FS_Union DEF Told
  <2>9. Told(n, roles, k + q)
    <3>1. Cardinality(LotsOf(m, roles)) = k
      BY DEF Told
    <3>2. Cardinality(LotsOf(n, roles)) = k + q - 0
      BY <2>1, <2>6, <2>7, <2>8, <3>1
    <3>3. k + q - 0 = k + q
      OBVIOUS
    <3>4. IsFiniteSet(LotsOf(n, roles))
      BY <2>6, <2>8
    <3> QED
      BY <3>2, <3>3, <3>4 DEF Told
  <2> QED
    BY <1>2, <2>9
<1> QED
  BY <1>1, <1>2

\* What fills nothing and leaves the legs alone keeps the tally.
LEMMA TalliesKept ==
    ASSUME NEW m, NEW n, n.setup.id = m.setup.id, DOMAIN m.orders \subseteq DOMAIN n.orders,
           \A o \in DOMAIN m.orders : n.orders[o].fill = m.orders[o].fill,
           \A o \in NewIn(m, n) : n.orders[o].fill = 0,
           n.base.qty = m.base.qty, n.base.cut = m.base.cut,
           n.addon.qty = m.addon.qty, n.addon.cut = m.addon.cut
    PROVE  Tallies(m, n)
<1>1. \A roles : LotsOf(n, roles) = LotsOf(m, roles)
  BY LotsKept
<1> QED
  BY <1>1 DEF Tallies, Tally, Told, HasSetup

\* Two steps in a row.
LEMMA TalliesTrans ==
    ASSUME NEW m, NEW n, NEW p, Tallies(m, n), Tallies(n, p)
    PROVE  Tallies(m, p)
BY DEF Tallies

\* So does a handler that leaves the legs alone.
LEMMA MovesTally ==
    ASSUME NEW m, NEW n, Moves(m, n)
    PROVE  Tallies(m, n)
BY TalliesKept DEF Moves, Goes, Later, Tends

\* A fill keeps the tally when the legs it leaves account for it.
LEMMA GrownTally ==
    ASSUME NEW m, Typed(m), HasSetup(m), Tally(m), NEW o \in DOMAIN m.orders, SetupOf(o) = m.setup.id,
           NEW q \in Nat, NEW n, Grows(m, n, o, q),
           n.base.qty + n.base.cut =
               m.base.qty + m.base.cut + (IF RoleOf(o) = "BASE_ENTRY" THEN q ELSE 0),
           n.addon.qty + n.addon.cut =
               m.addon.qty + m.addon.cut + (IF RoleOf(o) = "ADDON_ENTRY" THEN q ELSE 0),
           n.base.cut + n.addon.cut =
               m.base.cut + m.addon.cut + (IF RoleOf(o) \in EntryRoles THEN 0 ELSE q)
    PROVE  Tally(n)
<1>1. m.orders[o].fill \in Nat /\ RoleOf(o) \in Roles
  BY DEF Typed, Ledger, RowOK
<1>2. /\ m.base.qty + m.base.cut \in Nat /\ m.addon.qty + m.addon.cut \in Nat
      /\ m.base.cut + m.addon.cut \in Nat
  BY DEF Typed, Heads, LegOK
<1> DEFINE b == m.base.qty + m.base.cut
           a == m.addon.qty + m.addon.cut
           c == m.base.cut + m.addon.cut
<1>3. /\ Told(m, {"BASE_ENTRY"}, b) /\ Told(m, {"ADDON_ENTRY"}, a)
      /\ Told(m, Roles \ EntryRoles, c)
  BY DEF Tally
<1>4. b \in Nat /\ a \in Nat /\ c \in Nat
  BY <1>2
<1>5. /\ n.base.qty + n.base.cut = IF RoleOf(o) \in {"BASE_ENTRY"} THEN b + q ELSE b
      /\ n.addon.qty + n.addon.cut = IF RoleOf(o) \in {"ADDON_ENTRY"} THEN a + q ELSE a
      /\ n.base.cut + n.addon.cut = IF RoleOf(o) \in Roles \ EntryRoles THEN c + q ELSE c
  BY <1>1, <1>4
<1> HIDE DEF a, b, c
<1>6. Told(n, {"BASE_ENTRY"}, IF RoleOf(o) \in {"BASE_ENTRY"} THEN b + q ELSE b)
  BY <1>1, <1>3, <1>4, LotsGrow
<1>7. Told(n, {"ADDON_ENTRY"}, IF RoleOf(o) \in {"ADDON_ENTRY"} THEN a + q ELSE a)
  BY <1>1, <1>3, <1>4, LotsGrow
<1>8. Told(n, Roles \ EntryRoles, IF RoleOf(o) \in Roles \ EntryRoles THEN c + q ELSE c)
  BY <1>1, <1>3, <1>4, LotsGrow
<1> QED
  BY <1>5, <1>6, <1>7, <1>8 DEF Tally

----------------------------------------------------------------------------
(* The stages of a setup.                                                  *)

\* The name of the base entry of a setup.
Entry(id) == <<"BASE_ENTRY", id, 1>>

\* The entry of the live setup is its first order; before it has filled there
\* are no orders but closes of it, and a close has a reason.
Rooted(m) ==
    /\ \A o \in DOMAIN m.orders : RoleOf(o) = "BASE_ENTRY" => o = Entry(SetupOf(o)) /\ SetupOf(o) # 0
    /\ HasSetup(m) =>
        /\ Entry(m.setup.id) \in DOMAIN m.orders
        /\ Traded(m) => m.orders[Entry(m.setup.id)].fill > 0
        /\ \A o \in DOMAIN m.orders :
            SetupOf(o) = m.setup.id /\ RoleOf(o) # "BASE_ENTRY" =>
                IF RoleOf(o) = "CLOSE_ALL" THEN m.setup.pend # None ELSE Traded(m)

\* All that is alive belongs to the live setup; without one and without
\* recovery nothing is.
Owned(m) ==
    IF HasSetup(m) THEN \A o \in Active(m) \cup Subs(m) : SetupOf(o) = m.setup.id
    ELSE m.recovery # TRUE => Active(m) = {} /\ Subs(m) = {}

\* An entry that waits has no reason to close, and if it traded it is open.
Pending(m) ==
    m.life = "BASE_PENDING" /\ HasSetup(m) => m.setup.pend = None /\ (Traded(m) => RealOpen(m) > 0)

\* A verdict is quiet.
Quiet(m) ==
    m.setup.final # None => m.setup.pend # None /\ RealOpen(m) = 0 /\ Active(m) = {}

\* An entry that is active after trades, with no reason to close, is open.
Based(m) ==
    HasSetup(m) /\ m.setup.pend = None /\ Traded(m) /\ Entry(m.setup.id) \in Active(m) => m.base.qty > 0

\* The stage of a setup, as its orders show it.
Staged(m) == Rooted(m) /\ Owned(m) /\ Pending(m) /\ Quiet(m) /\ Based(m)

\* A setup that ends leaves nothing alive.
Ends(m, n) == HasSetup(m) /\ n.setup.id # m.setup.id => Active(n) = {} /\ Subs(n) = {}

\* Handlers that leave the legs alone keep the stages, if they add orders only
\* where there is no verdict, and go neither back to waiting nor out of
\* recovery without a setup.
Gentle(m, n) ==
    /\ NewIn(m, n) = {} \/ (m.setup.final = None /\ (HasSetup(m) \/ n.recovery = TRUE))
    /\ n.life = "BASE_PENDING" => m.life = "BASE_PENDING" /\ n.setup.pend = m.setup.pend
    /\ n.recovery = TRUE \/ n.recovery = m.recovery \/ HasSetup(m)

\* They keep the stage of the setup.
LEMMA MovesStaged ==
    ASSUME NEW m, NEW n, Typed(m), Staged(m), Moves(m, n), Gentle(m, n)
    PROVE  Staged(n) /\ Ends(m, n)
<1>1. /\ RealOpen(n) = RealOpen(m) /\ (Traded(n) <=> Traded(m)) /\ (HasSetup(n) <=> HasSetup(m))
      /\ n.setup.id = m.setup.id /\ n.base = m.base
  BY DEF Moves, RealOpen, Traded, HasSetup
<1>2. Tends(m, n) /\ DOMAIN m.orders \subseteq DOMAIN n.orders
  BY DEF Moves, Goes, Later
<1>3. DOMAIN n.orders = DOMAIN m.orders \cup NewIn(m, n)
  BY <1>2 DEF NewIn
<1>4. Active(n) \subseteq Active(m) \cup NewIn(m, n)
  BY <1>2, <1>3 DEF Tends, Active, ActiveOf
<1>5. RealOpen(m) > 0 => Traded(m)
  BY DEF Typed, Heads, LegOK, RealOpen, Traded
<1>6. \A o \in NewIn(m, n) :
        /\ SetupOf(o) = m.setup.id /\ RoleOf(o) # "BASE_ENTRY"
        /\ IF RoleOf(o) = "CLOSE_ALL" THEN HasSetup(m) => n.setup.pend # None ELSE Traded(m)
  BY <1>2, <1>5 DEF Tends
<1>7. m.setup.pend # None => n.setup.pend # None
  BY <1>2 DEF Tends
<1>8. Rooted(n)
  <2>1. ASSUME HasSetup(m)
        PROVE  Traded(m) => n.orders[Entry(m.setup.id)].fill > 0
    BY <1>2, <2>1 DEF Staged, Rooted, Tends
  <2>2. ASSUME HasSetup(m), NEW o \in DOMAIN n.orders, SetupOf(o) = m.setup.id, RoleOf(o) # "BASE_ENTRY"
        PROVE  IF RoleOf(o) = "CLOSE_ALL" THEN n.setup.pend # None ELSE Traded(m)
    <3>1. CASE o \in DOMAIN m.orders
      BY <1>7, <2>2, <3>1 DEF Staged, Rooted
    <3>2. CASE o \in NewIn(m, n)
      BY <1>6, <2>2, <3>2
    <3> QED
      BY <1>3, <2>2, <3>1, <3>2
  <2>3. \A o \in DOMAIN n.orders : RoleOf(o) = "BASE_ENTRY" => o = Entry(SetupOf(o)) /\ SetupOf(o) # 0
    BY <1>3, <1>6 DEF Staged, Rooted
  <2>4. HasSetup(m) => Entry(m.setup.id) \in DOMAIN n.orders
    BY <1>2 DEF Staged, Rooted
  <2> QED
    BY <1>1, <2>1, <2>2, <2>3, <2>4 DEF Rooted
<1>9. Owned(n)
  <2>1. CASE HasSetup(m)
    BY <1>1, <1>2, <1>4, <1>6, <2>1 DEF Staged, Owned, Tends
  <2>2. CASE ~HasSetup(m)
    <3>1. ASSUME n.recovery # TRUE
          PROVE  NewIn(m, n) = {} /\ Active(m) = {} /\ Subs(m) = {}
      BY <2>2, <3>1 DEF Gentle, Staged, Owned
    <3> QED
      BY <1>1, <1>2, <1>4, <2>2, <3>1 DEF Owned, Tends
  <2> QED
    BY <2>1, <2>2
<1>10. Pending(n)
  BY <1>1 DEF Gentle, Staged, Pending
<1>11. Quiet(n)
  BY <1>1, <1>4, <1>7 DEF Gentle, Staged, Quiet, Moves
<1>12. Based(n)
  <2>1. Entry(m.setup.id) \in Active(n) => Entry(m.setup.id) \in Active(m)
    <3>1. RoleOf(Entry(m.setup.id)) = "BASE_ENTRY"
      BY DEF RoleOf, Entry
    <3> QED
      BY <1>4, <1>6, <3>1
  <2> QED
    BY <1>1, <1>7, <2>1 DEF Staged, Based
<1>13. Ends(m, n)
  BY <1>1 DEF Ends
<1> QED
  BY <1>8, <1>9, <1>10, <1>11, <1>12, <1>13 DEF Staged

----------------------------------------------------------------------------
(* Order reports.                                                          *)

\* What changes states of orders only, never back to life.
LEMMA RestatusMoves ==
    ASSUME NEW m, NEW n, DOMAIN n.orders = DOMAIN m.orders,
           \A x \in DOMAIN m.orders :
               /\ n.orders[x].fill = m.orders[x].fill
               /\ n.orders[x].st \in Waiting => m.orders[x].st \in Waiting
               /\ n.orders[x].st \in ActiveStatuses => m.orders[x].st \in ActiveStatuses
               /\ n.orders[x].st = "INTENDED" => m.orders[x].st = "INTENDED" /\ (x \in Subs(m) => x \in Subs(n))
               /\ n.orders[x].st = "PARTIALLY_FILLED" =>
                    m.orders[x].st = "PARTIALLY_FILLED" \/ m.orders[x].fill > 0,
           Subs(n) \subseteq Subs(m), n.base = m.base, n.addon = m.addon,
           n.setup.id = m.setup.id, n.setup.bs = m.setup.bs, n.setup.tp = m.setup.tp,
           n.setup.final \in {m.setup.final, None}, n.setup.pend = m.setup.pend \/ n.setup.pend # None,
           n.addons = m.addons, n.execs = m.execs
    PROVE  Moves(m, n) /\ NewIn(m, n) = {}
<1>1. WaitingOf(n) \subseteq WaitingOf(m) /\ Active(n) \subseteq Active(m)
  BY DEF WaitingOf, Active, ActiveOf
<1>2. Later(m, n)
  BY <1>1 DEF Later
<1>3. Orderly(m) => Orderly(n)
  BY <1>1 DEF Orderly, Single
<1>4. Numbered(m) => Numbered(n)
  BY DEF Numbered, HasSetup
<1>5. Durable(m) => Durable(n)
  BY DEF Durable
<1>6. Tends(m, n) /\ NewIn(m, n) = {}
  BY <1>1 DEF Tends, NewIn
<1> QED
  BY <1>2, <1>3, <1>4, <1>5, <1>6 DEF Moves, Goes

\* What a report of the state of an order changes at most.
Reports(m, o, st, n) ==
    /\ DOMAIN n.orders = DOMAIN m.orders /\ n.orders[o].st = st
    /\ \A x \in DOMAIN m.orders : n.orders[x].fill = m.orders[x].fill
    /\ \A x \in DOMAIN m.orders : x # o => n.orders[x] = m.orders[x]
    /\ Subs(n) \subseteq Subs(m) /\ Subs(m) \ {o} \subseteq Subs(n)
    /\ n.setup = m.setup /\ n.base = m.base /\ n.addon = m.addon
    /\ n.out = m.out /\ n.outbox.subs = m.outbox.subs \ {o} /\ Same(m, n)

\* Reported gives such a report.
LEMMA ReportedIs ==
    ASSUME NEW m, Typed(m), NEW o \in DOMAIN m.orders, NEW st,
           NEW a, a = Ack(m, {o}) \/ a = AckCancels(Ack(m, {o}), {o})
    PROVE  Reports(m, o, st, Mark(a, {o}, st))
<1> DEFINE n == Mark(a, {o}, st)
<1>1. /\ a.orders = m.orders /\ a.out = m.out /\ a.outbox.subs = m.outbox.subs \ {o}
      /\ a.setup = m.setup /\ a.base = m.base /\ a.addon = m.addon /\ Same(m, a)
      /\ Fields \subseteq DOMAIN a
  BY DEF Ack, AckCancels, Same, Typed, Heads, Fields, Outboxes, IntentsOK
<1>2. /\ DOMAIN n.orders = DOMAIN a.orders /\ n.out = a.out /\ n.outbox = a.outbox
      /\ n.setup = a.setup /\ n.base = a.base /\ n.addon = a.addon /\ Same(a, n)
      /\ \A x \in DOMAIN a.orders : x # o => n.orders[x] = a.orders[x]
  BY <1>1 DEF Mark, Same, Fields
<1>3. n.orders[o].st = st /\ n.orders[o].fill = m.orders[o].fill
  BY <1>1 DEF Mark, Fields, Typed, Ledger, RowOK
<1> HIDE DEF n
<1>4. Subs(n) \subseteq Subs(m) /\ Subs(m) \ {o} \subseteq Subs(n)
  BY <1>1, <1>2 DEF Subs
<1>5. Reports(m, o, st, n)
  BY <1>1, <1>2, <1>3, <1>4 DEF Same, Reports
<1> QED
  BY <1>5 DEF n

\* A report that an order moved on, or ended.
LEMMA ReportsMove ==
    ASSUME NEW m, NEW o \in DOMAIN m.orders, NEW st, NEW n, Reports(m, o, st, n),
           st \notin {"INTENDED", "PARTIALLY_FILLED"},
           st \in ActiveStatuses => m.orders[o].st \in Waiting
    PROVE  Moves(m, n) /\ NewIn(m, n) = {} /\ Same(m, n) /\ n.setup = m.setup
<1>1. \A x \in DOMAIN m.orders :
        /\ n.orders[x].fill = m.orders[x].fill
        /\ n.orders[x].st \in Waiting => m.orders[x].st \in Waiting
        /\ n.orders[x].st \in ActiveStatuses => m.orders[x].st \in ActiveStatuses
        /\ n.orders[x].st = "INTENDED" => m.orders[x].st = "INTENDED" /\ (x \in Subs(m) => x \in Subs(n))
        /\ n.orders[x].st = "PARTIALLY_FILLED" => m.orders[x].st = "PARTIALLY_FILLED" \/ m.orders[x].fill > 0
  BY DEF Reports, Waiting, ActiveStatuses
<1> QED
  BY <1>1, RestatusMoves DEF Reports, Same

\* Submissions and acceptances.
LEMMA SubmittedMoves ==
    ASSUME NEW m, Typed(m), NEW o \in DOMAIN m.orders, NEW n, n \in {OnSubmitted(m, o), OnAccepted(m, o)}
    PROVE  Moves(m, n) /\ NewIn(m, n) = {} /\ Same(m, n) /\ n.setup = m.setup
<1>1. CASE n = Ack(m, {o}) /\ m.orders[o].st # "INTENDED"
  <2>1. Follows(m, n) /\ Still(m, n)
    BY <1>1, AckFollows, AckStill
  <2>2. NewIn(m, n) = {} /\ n.setup = m.setup
    BY <1>1 DEF NewIn, Ack, Typed, Heads, Fields
  <2> QED
    BY <2>1, <2>2, FollowsMoves DEF Follows
<1>2. ASSUME NEW st \in {"SUBMITTED", "ACCEPTED"}, m.orders[o].st \in Waiting
      PROVE  LET p == Mark(Ack(m, {o}), {o}, st)
             IN  Moves(m, p) /\ NewIn(m, p) = {} /\ Same(m, p) /\ p.setup = m.setup
  <2> DEFINE p == Mark(Ack(m, {o}), {o}, st)
  <2>1. Reports(m, o, st, p)
    BY ReportedIs
  <2> HIDE DEF p
  <2>2. Moves(m, p) /\ NewIn(m, p) = {} /\ Same(m, p) /\ p.setup = m.setup
    BY <1>2, <2>1, ReportsMove DEF Waiting, ActiveStatuses
  <2> QED
    BY <2>2 DEF p
<1>3. \/ n = Ack(m, {o}) /\ m.orders[o].st # "INTENDED"
      \/ \E st \in {"SUBMITTED", "ACCEPTED"} : n = Mark(Ack(m, {o}), {o}, st) /\ m.orders[o].st \in Waiting
  BY DEF OnSubmitted, OnAccepted, Waiting
<1> QED
  BY <1>1, <1>2, <1>3

\* What a handler does: no order goes back, and the tally and the stages are kept.
Fares(m, n) == Goes(m, n) /\ Tallies(m, n) /\ (Staged(m) => Staged(n) /\ Ends(m, n))

\* A handler that leaves the legs alone.
LEMMA MovesFare ==
    ASSUME NEW m, NEW n, Typed(m), Moves(m, n), Staged(m) => Gentle(m, n)
    PROVE  Fares(m, n)
BY MovesStaged, MovesTally DEF Fares, Moves

\* Letting go of a setup: the names of its protective orders are given out again
\* only to another.
LEMMA LetGo ==
    ASSUME NEW m, NEW n, n.orders = m.orders, n.setup = NoSetup, n.execs = m.execs, n.addons = m.addons
    PROVE  /\ Tally(n)
           /\ Later(m, n) /\ (Orderly(m) => Orderly(n)) /\ (Numbered(m) => Numbered(n))
           /\ Rooted(m) /\ Active(n) = {} /\ Subs(n) = {} => Staged(n) /\ Ends(m, n)
<1>1. n.setup.id = 0 /\ n.setup.bs = 0 /\ n.setup.tp = 0 /\ n.setup.final = None
  BY DEF NoSetup
<1>2. Later(m, n) /\ (Orderly(m) => Orderly(n))
  BY DEF Later, Orderly, Single, WaitingOf
<1>3. Numbered(m) => Numbered(n)
  BY <1>1 DEF Numbered, ProtectiveRoles
<1>4. Rooted(m) /\ Active(n) = {} /\ Subs(n) = {} => Staged(n) /\ Ends(m, n)
  BY <1>1 DEF Staged, Rooted, Owned, Pending, Quiet, Based, HasSetup, Ends
<1>5. Tally(n)
  BY <1>1 DEF Tally, HasSetup
<1> QED
  BY <1>2, <1>3, <1>4, <1>5

\* What the end of an order means for its role: the setup goes when its entry
\* ends before it has filled.
LEMMA TerminalByRoleMoves ==
    ASSUME NEW m, Typed(m), NEW o
    PROVE  LET n == TerminalByRole(m, o)
           IN  \/ RoleOf(o) = "BASE_ENTRY" /\ m.base.qty = 0 /\ n = ClearSetup([m EXCEPT !.life = "NONE"])
               \/ Moves(m, n) /\ Gentle(m, n)
<1>1. ASSUME NEW n, n.orders = m.orders, Subs(n) = Subs(m), n.base = m.base, n.addon = m.addon,
             n.setup.id = m.setup.id, n.setup.bs = m.setup.bs, n.setup.tp = m.setup.tp,
             n.setup.final = m.setup.final, n.setup.pend = m.setup.pend,
             n.addons = m.addons, n.execs = m.execs, n.recovery = m.recovery, n.life # "BASE_PENDING"
      PROVE  Moves(m, n) /\ Gentle(m, n)
  <2>1. Moves(m, n)
    BY <1>1, SameMoves
  <2> QED
    BY <1>1, <2>1 DEF Gentle, NewIn
<1>2. ASSUME NEW life \in {"NONE", "REDUCE_PENDING", "EXIT_PENDING"}
      PROVE  LET n == [m EXCEPT !.life = life]
             IN  Moves(m, n) /\ Gentle(m, n) /\ Moves(m, Ask(n)) /\ Gentle(m, Ask(n))
  <2> DEFINE n == [m EXCEPT !.life = life]
  <2>1. /\ n.orders = m.orders /\ n.base = m.base /\ n.addon = m.addon /\ n.setup = m.setup
        /\ n.addons = m.addons /\ n.execs = m.execs /\ n.recovery = m.recovery /\ n.life = life
        /\ n.outbox = m.outbox /\ n.out = m.out
    BY DEF Typed, Heads, Fields
  <2>2. /\ Ask(n).orders = m.orders /\ Ask(n).base = m.base /\ Ask(n).addon = m.addon
        /\ Ask(n).setup = m.setup /\ Ask(n).addons = m.addons /\ Ask(n).execs = m.execs
        /\ Ask(n).recovery = m.recovery /\ Ask(n).life = life
        /\ Ask(n).outbox = m.outbox /\ Ask(n).out.subs = m.out.subs
    BY DEF Ask, Typed, Heads, Fields, Outboxes, IntentsOK
  <2> HIDE DEF n
  <2>3. Subs(n) = Subs(m) /\ Subs(Ask(n)) = Subs(m) /\ life # "BASE_PENDING"
    BY <2>1, <2>2 DEF Subs
  <2>4. Moves(m, n) /\ Gentle(m, n)
    BY <1>1, <2>1, <2>3
  <2>5. Moves(m, Ask(n)) /\ Gentle(m, Ask(n))
    BY <1>1, <2>2, <2>3
  <2> QED
    BY <2>4, <2>5 DEF n
<1>3. LET n == [[m EXCEPT !.life = "NONE"] EXCEPT !.setup.consumed = FALSE]
      IN  Moves(m, n) /\ Gentle(m, n)
  <2> DEFINE n == [[m EXCEPT !.life = "NONE"] EXCEPT !.setup.consumed = FALSE]
  <2>1. /\ n.orders = m.orders /\ n.base = m.base /\ n.addon = m.addon
        /\ n.setup.id = m.setup.id /\ n.setup.bs = m.setup.bs /\ n.setup.tp = m.setup.tp
        /\ n.setup.final = m.setup.final /\ n.setup.pend = m.setup.pend
        /\ n.addons = m.addons /\ n.execs = m.execs /\ n.recovery = m.recovery /\ n.life = "NONE"
        /\ n.outbox = m.outbox /\ n.out = m.out
    BY DEF Typed, Heads, Fields, SetupOK
  <2> HIDE DEF n
  <2>2. Subs(n) = Subs(m)
    BY <2>1 DEF Subs
  <2>3. Moves(m, n) /\ Gentle(m, n)
    BY <1>1, <2>1, <2>2
  <2> QED
    BY <2>3 DEF n
<1>4. LET n == BaseEntryTerminal(m)
      IN  \/ m.base.qty = 0 /\ n = ClearSetup([m EXCEPT !.life = "NONE"])
          \/ Moves(m, n) /\ Gentle(m, n)
  BY <1>2 DEF BaseEntryTerminal
<1>5. LET n == AddonEntryTerminal(m) IN Moves(m, n) /\ Gentle(m, n)
  BY <1>2, <1>3 DEF AddonEntryTerminal
<1>6. LET n == ReductionTerminal(m) IN Moves(m, n) /\ Gentle(m, n)
  BY <1>2 DEF ReductionTerminal
<1>7. LET n == WholeExitTerminal(m) IN Moves(m, n) /\ Gentle(m, n)
  BY <1>2 DEF WholeExitTerminal
<1> QED
  BY <1>4, <1>5, <1>6, <1>7 DEF TerminalByRole

\* Before its entry has filled, and with no reason to close, a setup has no
\* other order than the entry.
LEMMA EntryAlone ==
    ASSUME NEW m, Staged(m), HasSetup(m), ~Traded(m), m.setup.pend = None
    PROVE  Active(m) \cup (Subs(m) \cap DOMAIN m.orders) \subseteq {Entry(m.setup.id)}
<1>1. \A o \in DOMAIN m.orders : SetupOf(o) = m.setup.id => o = Entry(m.setup.id)
  BY DEF Staged, Rooted
<1> QED
  BY <1>1 DEF Staged, Owned, Active, ActiveOf

\* The end of an order that has not ended.
LEMMA TerminalFares ==
    ASSUME NEW m, Typed(m), m.out = NoIntents, NEW o \in DOMAIN m.orders,
           m.orders[o].st \notin TerminalStatuses,
           NEW kind \in {"REJECTED", "CANCELED", "TIMED_OUT"}, kind = "REJECTED" => m.orders[o].fill = 0
    PROVE  Fares(m, OnTerminal(m, o, kind))
<1> DEFINE acked == Ack(m, {o})
           heard == IF kind = "CANCELED" THEN AckCancels(acked, {o}) ELSE acked
           ended == Mark(heard, {o}, kind)
           late == [ended EXCEPT !.recovery = TRUE]
           foreign == SetupOf(o) # m.setup.id
           closing == m.setup.pend # None /\ RoleOf(o) \in EntryRoles
           n == OnTerminal(m, o, kind)
<1>1. Reports(m, o, kind, ended) /\ Still(m, ended)
  <2>1. Reports(m, o, kind, ended)
    BY ReportedIs
  <2>2. Still(m, heard)
    BY AckStill, StillTrans, StillSelf DEF Still
  <2>3. kind \in Statuses
    BY DEF Statuses, TerminalStatuses
  <2> HIDE DEF heard
  <2>4. Still(m, Mark(heard, {o}, kind))
    BY <2>2, <2>3, MarkStill, StillTrans DEF Still
  <2> QED
    BY <2>1, <2>4
<1>2. n = IF foreign \/ m.setup.final # None \/ closing THEN ended
          ELSE IF kind = "TIMED_OUT" THEN Ask(late)
          ELSE IF m.orders[o].st = "CANCEL_PENDING" /\ kind = "CANCELED" THEN ended
          ELSE TerminalByRole(ended, o)
  BY DEF OnTerminal
<1> HIDE DEF ended, n
<1>3. Moves(m, ended) /\ NewIn(m, ended) = {} /\ Same(m, ended) /\ ended.setup = m.setup
  <2>1. kind \notin {"INTENDED", "PARTIALLY_FILLED"} /\ kind \notin ActiveStatuses
    BY DEF ActiveStatuses
  <2> QED
    BY <1>1, <2>1, ReportsMove
<1>4. Gentle(m, ended)
  BY <1>3 DEF Gentle, Same
<1>5. Fares(m, ended)
  BY <1>3, <1>4, MovesFare
<1>6. Fares(m, Ask(late))
  <2>1. /\ Ask(late).orders = ended.orders /\ Ask(late).base = ended.base /\ Ask(late).addon = ended.addon
        /\ Ask(late).setup = ended.setup /\ Ask(late).addons = ended.addons /\ Ask(late).execs = ended.execs
        /\ Ask(late).recovery = TRUE /\ Ask(late).life = ended.life
        /\ Ask(late).outbox = ended.outbox /\ Ask(late).out.subs = ended.out.subs
    BY <1>1 DEF Ask, Still, Typed, Heads, Fields, Outboxes, IntentsOK
  <2> DEFINE p == Ask(late)
  <2> HIDE DEF late
  <2> HIDE DEF p
  <2>2. Subs(p) = Subs(ended)
    BY <2>1 DEF Subs, p
  <2>3. Moves(ended, p)
    BY <2>1, <2>2, SameMoves DEF p
  <2>4. Moves(m, p)
    BY <1>3, <2>3, MovesTrans
  <2>5. Gentle(m, p)
    BY <1>3, <2>1 DEF Gentle, Same, NewIn, p
  <2> QED
    BY <2>4, <2>5, MovesFare DEF p
<1>7. ASSUME ~foreign, m.setup.final = None, ~closing, kind # "TIMED_OUT",
             m.orders[o].st # "CANCEL_PENDING" \/ kind # "CANCELED"
      PROVE  Fares(m, TerminalByRole(ended, o))
  <2> DEFINE p == TerminalByRole(ended, o)
             idle == [ended EXCEPT !.life = "NONE"]
  <2>1. \/ RoleOf(o) = "BASE_ENTRY" /\ ended.base.qty = 0 /\ p = ClearSetup(idle)
        \/ Moves(ended, p) /\ Gentle(ended, p)
    BY <1>1, TerminalByRoleMoves DEF Still
  <2>2. ClearSetup(idle).orders = ended.orders /\ ClearSetup(idle).setup = NoSetup
        /\ ClearSetup(idle).outbox = ended.outbox /\ ClearSetup(idle).out = ended.out
        /\ ClearSetup(idle).execs = ended.execs /\ ClearSetup(idle).addons = ended.addons
    BY <1>1 DEF ClearSetup, Still, Typed, Heads, Fields
  <2> HIDE DEF p, idle
  <2>3. CASE Moves(ended, p) /\ Gentle(ended, p)
    <3>1. Moves(m, p)
      BY <1>3, <2>3, MovesTrans
    <3>2. NewIn(ended, p) = NewIn(m, p)
      BY <1>1 DEF Reports, NewIn
    <3>3. Gentle(m, p)
      BY <1>3, <2>3, <3>2 DEF Gentle, Same, HasSetup
    <3> QED
      BY <3>1, <3>3, MovesFare DEF p
  <2>4. CASE RoleOf(o) = "BASE_ENTRY" /\ ended.base.qty = 0 /\ p = ClearSetup(idle)
    <3>1. p.orders = ended.orders /\ p.setup = NoSetup /\ p.execs = ended.execs /\ p.addons = ended.addons
          /\ Subs(p) = Subs(ended)
      BY <2>2, <2>4 DEF Subs
    <3>2. Tally(p) /\ Later(ended, p) /\ (Orderly(ended) => Orderly(p)) /\ (Numbered(ended) => Numbered(p))
          /\ (Rooted(ended) /\ Active(p) = {} /\ Subs(p) = {} => Staged(p) /\ Ends(ended, p))
      BY <3>1, LetGo
    <3>3. Durable(ended) => Durable(p)
      BY <3>1 DEF Durable
    <3>4. Goes(m, p)
      BY <1>3, <3>2, <3>3, GoesTrans DEF Moves, Goes
    <3>5. ASSUME Staged(m)
          PROVE  Staged(p) /\ Ends(m, p)
      <4>1. HasSetup(m)
        BY <1>7, <2>4, <3>5 DEF Staged, Rooted, HasSetup
      <4>2. m.setup.pend = None
        BY <2>4, <1>7 DEF EntryRoles
      <4>3. o = Entry(m.setup.id)
        BY <1>7, <2>4, <3>5 DEF Staged, Rooted
      <4>4. ~Traded(m)
        <5>1. CASE m.orders[o].fill = 0
          BY <3>5, <4>1, <4>3, <5>1 DEF Staged, Rooted
        <5>2. CASE kind # "REJECTED"
          <6>1. m.orders[o].st \in ActiveStatuses
            BY <1>7, <5>2 DEF Typed, Ledger, RowOK, Statuses
          <6>2. o \in Active(m)
            BY <6>1 DEF Typed, Ledger, Active, ActiveOf
          <6>3. m.base.qty = 0
            BY <1>1, <2>4 DEF Reports
          <6> QED
            BY <3>5, <4>1, <4>2, <4>3, <6>2, <6>3 DEF Staged, Based
        <5> QED
          BY <5>1, <5>2
      <4>5. Active(m) \subseteq {o} /\ Subs(m) \subseteq {o}
        <5>1. Subs(m) \subseteq DOMAIN m.orders
          BY DEF Typed, Outboxes, IntentsOK, Subs
        <5> QED
          BY <3>5, <4>1, <4>2, <4>3, <4>4, <5>1, EntryAlone
      <4>6. Active(p) = {}
        BY <1>1, <3>1, <4>5 DEF Reports, Active, ActiveOf, ActiveStatuses
      <4>7. Subs(p) = {}
        BY <1>1, <3>1, <4>5 DEF Reports, Subs, NoIntents
      <4>8. Staged(ended)
        BY <1>3, <1>4, <3>5, MovesStaged
      <4> QED
        BY <3>2, <4>6, <4>7, <4>8 DEF Staged, Ends
    <3> QED
      BY <3>2, <3>4, <3>5 DEF Fares, Tallies, p
  <2> QED
    BY <2>1, <2>3, <2>4 DEF p
<1> QED
  BY <1>2, <1>5, <1>6, <1>7 DEF n

----------------------------------------------------------------------------
(* Fills.                                                                  *)

\* What leaves the ledger, the names and the submits alone.
LEMMA SameGoes ==
    ASSUME NEW m, NEW n, n.orders = m.orders, Subs(n) = Subs(m),
           n.setup.id = m.setup.id, n.setup.bs = m.setup.bs, n.setup.tp = m.setup.tp,
           n.addons = m.addons, n.execs = m.execs
    PROVE  Goes(m, n)
BY DEF Goes, Later, Orderly, Single, WaitingOf, Numbered, HasSetup, Durable

\* A step of the lifecycle alone.
LEMMA LifeFares ==
    ASSUME NEW m, Typed(m), NEW life
    PROVE  LET n == [m EXCEPT !.life = life]
           IN  /\ Goes(m, n) /\ Tallies(m, n) /\ n.setup = m.setup /\ n.orders = m.orders
               /\ Staged(m) /\ Pending(n) => Staged(n)
<1> DEFINE n == [m EXCEPT !.life = life]
<1>1. /\ n.orders = m.orders /\ n.setup = m.setup /\ n.base = m.base /\ n.addon = m.addon
      /\ n.outbox = m.outbox /\ n.out = m.out /\ n.recovery = m.recovery
      /\ n.execs = m.execs /\ n.addons = m.addons
  BY DEF Typed, Heads, Fields
<1> HIDE DEF n
<1>2. Subs(n) = Subs(m) /\ Active(n) = Active(m)
  BY <1>1 DEF Subs, Active, ActiveOf
<1>3. Goes(m, n)
  BY <1>1, <1>2, SameGoes
<1>4. Staged(m) /\ Pending(n) => Staged(n)
  BY <1>1, <1>2 DEF Staged, Rooted, Owned, Quiet, Based, HasSetup, Traded, RealOpen
<1>5. Tallies(m, n)
  BY <1>1, TalliesKept DEF NewIn
<1> QED
  BY <1>1, <1>3, <1>4, <1>5 DEF n

\* The ledger after a fill of o was booked and orders were canceled.
Booked(m, n, o) ==
    /\ DOMAIN n.orders = DOMAIN m.orders
    /\ n.orders[o].fill > 0 /\ SetupOf(o) = m.setup.id
    /\ \A x \in DOMAIN m.orders \ {o} :
        n.orders[x].fill = m.orders[x].fill /\ (x \in Active(n) => x \in Active(m))
    /\ Subs(n) \subseteq Subs(m)
    /\ n.setup.id = m.setup.id /\ (m.setup.pend # None => n.setup.pend # None)

\* A fill keeps the stages when the legs it leaves agree with the lifecycle.
LEMMA BookedStaged ==
    ASSUME NEW m, NEW n, NEW o, Booked(m, n, o), Staged(m), HasSetup(m),
           RoleOf(o) = "BASE_ENTRY" \/ Traded(m), o \in DOMAIN m.orders,
           n.setup.final = None, Traded(n), Pending(n), Based(n)
    PROVE  Staged(n)
<1>1. HasSetup(n) /\ n.setup.id = m.setup.id
  BY DEF Booked, HasSetup
<1>2. Rooted(n)
  <2>1. n.orders[Entry(m.setup.id)].fill > 0
    <3>1. CASE RoleOf(o) = "BASE_ENTRY"
      BY <3>1 DEF Booked, Staged, Rooted
    <3>2. CASE Traded(m) /\ RoleOf(o) # "BASE_ENTRY"
      <4>1. Entry(m.setup.id) # o
        BY <3>2 DEF Entry, RoleOf
      <4> QED
        BY <3>2, <4>1 DEF Booked, Staged, Rooted
    <3> QED
      BY <3>1, <3>2
  <2> QED
    BY <1>1, <2>1 DEF Booked, Staged, Rooted
<1>3. Owned(n)
  <2>1. \A x \in Active(n) : SetupOf(x) = m.setup.id
    BY DEF Booked, Staged, Owned, Active, ActiveOf
  <2> QED
    BY <1>1, <2>1 DEF Booked, Staged, Owned
<1>4. Quiet(n)
  BY DEF Quiet
<1> QED
  BY <1>2, <1>3, <1>4 DEF Staged

\* Booking a fill, as OnFill does before it moves the legs.
Book(m, o, q, full) ==
    [Ack(m, {o}) EXCEPT !.execs = @ + 1, !.orders[o].fill = @ + q,
                        !.orders[o].st = IF full THEN "FILLED" ELSE "PARTIALLY_FILLED"]

\* Where a fill is booked, what it finds is what Booked says.
LEMMA BookIs ==
    ASSUME NEW m, Typed(m), m.execs \in Nat, NEW o \in DOMAIN m.orders, SetupOf(o) = m.setup.id,
           NEW q \in Nat, q > 0, NEW full
    PROVE  LET n == Book(m, o, q, full)
           IN  /\ Still(m, n) /\ Goes(m, n) /\ Booked(m, n, o) /\ Grows(m, n, o, q)
               /\ n.setup = m.setup /\ n.base = m.base /\ n.addon = m.addon /\ n.life = m.life
               /\ n.recovery = m.recovery /\ n.addons = m.addons /\ n.execs = m.execs + 1
<1> DEFINE st == IF full THEN "FILLED" ELSE "PARTIALLY_FILLED"
           acked == Ack(m, {o})
           n == [acked EXCEPT !.execs = @ + 1, !.orders[o].fill = @ + q, !.orders[o].st = st]
<1>1. /\ Still(m, acked) /\ acked.orders = m.orders /\ acked.setup = m.setup
      /\ acked.base = m.base /\ acked.addon = m.addon /\ acked.life = m.life
      /\ acked.recovery = m.recovery /\ acked.addons = m.addons /\ acked.execs = m.execs
      /\ acked.out = m.out /\ acked.outbox.subs = m.outbox.subs \ {o}
  <2>1. Still(m, acked)
    BY AckStill
  <2> QED
    BY <2>1 DEF Ack, Typed, Heads, Fields, Outboxes, IntentsOK
<1>2. st \in Statuses /\ st \notin Waiting /\ st # "INTENDED"
  BY DEF Statuses, ActiveStatuses, TerminalStatuses, Waiting
<1> HIDE DEF acked, st
<1>3. Still(acked, n)
  BY <1>1, <1>2 DEF Typed, Heads, Fields, Ledger, Outboxes, IntentsOK, RowOK, Calm, Still
<1>4. /\ DOMAIN n.orders = DOMAIN m.orders /\ n.orders[o].fill = m.orders[o].fill + q /\ n.orders[o].st = st
      /\ \A x \in DOMAIN m.orders \ {o} : n.orders[x] = m.orders[x]
      /\ n.setup = acked.setup /\ n.base = acked.base /\ n.addon = acked.addon /\ n.life = acked.life
      /\ n.recovery = acked.recovery /\ n.addons = acked.addons /\ n.execs = m.execs + 1
      /\ n.out = acked.out /\ n.outbox = acked.outbox
  BY <1>1 DEF Still, Typed, Heads, Fields, Ledger, RowOK
<1>5. m.orders[o].fill \in Nat
  BY DEF Typed, Ledger, RowOK
<1> HIDE DEF n
<1>6. Still(m, n)
  BY <1>1, <1>3, StillTrans
<1>7. Subs(n) \subseteq Subs(m) /\ Subs(m) \ {o} \subseteq Subs(n)
  BY <1>1, <1>4 DEF Subs
<1>8. Goes(m, n)
  <2>1. WaitingOf(n) \subseteq WaitingOf(m)
    BY <1>2, <1>4 DEF WaitingOf
  <2>2. Later(m, n)
    BY <1>4, <2>1 DEF Later
  <2>3. Orderly(m) => Orderly(n)
    BY <1>4, <1>5, <2>1 DEF Orderly, Single
  <2>4. Numbered(m) => Numbered(n)
    BY <1>1, <1>4 DEF Numbered, HasSetup
  <2>5. Durable(m) => Durable(n)
    BY <1>2, <1>4, <1>7 DEF Durable
  <2> QED
    BY <2>2, <2>3, <2>4, <2>5 DEF Goes
<1>9. Booked(m, n, o)
  BY <1>1, <1>4, <1>5, <1>7 DEF Booked, Active, ActiveOf
<1>10. Book(m, o, q, full) = n
  BY DEF Book, n, acked, st
<1>11. Grows(m, n, o, q)
  BY <1>1, <1>4 DEF Grows
<1> QED
  BY <1>1, <1>4, <1>6, <1>8, <1>9, <1>10, <1>11

\* Canceling everything and closing what is open; the breach of the cap.
LEMMA EmergencyCloseMoves ==
    ASSUME NEW m, Typed(m), NEW reason, NEW discriminator
    PROVE  LET n == EmergencyClose(m, reason, discriminator)
           IN  Moves(m, n) /\ n.life = "EXIT_PENDING" /\ n.recovery = m.recovery
<1> DEFINE exiting == [m EXCEPT !.life = "EXIT_PENDING"]
           quiet == CancelAll(exiting, reason)
           n == CloseOpen(quiet, "ENGINE_ERROR", discriminator)
<1>1. Still(m, exiting) /\ exiting.life = "EXIT_PENDING" /\ exiting.recovery = m.recovery
  <2>1. Still(m, exiting)
    BY LifeStill DEF Lifecycles
  <2> QED
    BY <2>1 DEF Typed, Heads, Fields
<1>2. Moves(m, exiting)
  <2>1. /\ exiting.orders = m.orders /\ exiting.outbox = m.outbox /\ exiting.out = m.out
        /\ exiting.setup = m.setup /\ exiting.base = m.base /\ exiting.addon = m.addon
        /\ exiting.addons = m.addons /\ exiting.execs = m.execs
    BY DEF Typed, Heads, Fields
  <2> HIDE DEF exiting
  <2>2. Subs(exiting) = Subs(m)
    BY <2>1 DEF Subs
  <2> QED
    BY <2>1, <2>2, SameMoves
<1> HIDE DEF exiting
<1>3. Still(exiting, quiet) /\ Follows(exiting, quiet)
  BY <1>1, CancelAllStill, CancelAllFollows DEF Still
<1> HIDE DEF quiet
<1>4. Still(quiet, n) /\ Follows(quiet, n)
  <2>1. "ENGINE_ERROR" \in CloseReasons
    BY DEF CloseReasons
  <2> QED
    BY <1>3, <2>1, CloseOpenStill, CloseOpenFollows DEF Still
<1> HIDE DEF n
<1>5. Moves(exiting, quiet) /\ Moves(quiet, n)
  BY <1>3, <1>4, FollowsMoves
<1>6. Moves(m, n)
  BY <1>2, <1>5, MovesTrans
<1>7. n.life = "EXIT_PENDING" /\ n.recovery = m.recovery
  BY <1>1, <1>3, <1>4 DEF Follows, Same
<1> QED
  BY <1>6, <1>7 DEF EmergencyClose, exiting, quiet, n

\* A committed exposure beyond its cap locks the setup and closes it.
LEMMA BreachCapMoves ==
    ASSUME NEW m, Typed(m)
    PROVE  LET n == BreachCap(m) IN Moves(m, n) /\ (m.setup.final = None => Gentle(m, n))
<1> DEFINE locked == [m EXCEPT !.setup.lock = TRUE, !.recovery = TRUE]
           n == EmergencyClose(locked, "COMMITTED_CAP_BREACH", <<"committed-exposure-cap", {}>>)
<1>1. Still(m, locked) /\ locked.recovery = TRUE
  BY DEF Typed, Heads, Fields, Ledger, Outboxes, IntentsOK, SetupOK, Calm, Still
<1>2. Moves(m, locked)
  <2>1. /\ locked.orders = m.orders /\ locked.outbox = m.outbox /\ locked.out = m.out
        /\ locked.setup.id = m.setup.id /\ locked.setup.bs = m.setup.bs /\ locked.setup.tp = m.setup.tp
        /\ locked.setup.final = m.setup.final /\ locked.setup.pend = m.setup.pend
        /\ locked.base = m.base /\ locked.addon = m.addon
        /\ locked.addons = m.addons /\ locked.execs = m.execs
    BY DEF Typed, Heads, Fields, SetupOK
  <2> HIDE DEF locked
  <2>2. Subs(locked) = Subs(m)
    BY <2>1 DEF Subs
  <2> QED
    BY <2>1, <2>2, SameMoves
<1> HIDE DEF locked
<1>3. Moves(locked, n) /\ n.life = "EXIT_PENDING" /\ n.recovery = TRUE
  BY <1>1, EmergencyCloseMoves DEF Still
<1> HIDE DEF n
<1>4. Moves(m, n)
  BY <1>2, <1>3, MovesTrans
<1>5. m.setup.final = None => Gentle(m, n)
  BY <1>3 DEF Gentle
<1> QED
  BY <1>4, <1>5 DEF BreachCap, locked, n

\* What follows the growth of a leg keeps the stages of the grown machine.
LEMMA AddonEntryFillFares ==
    ASSUME NEW m, Typed(m), HasSetup(m), RealOpen(m) > 0, m.setup.pend = None,
           m.execs \in Nat,
           \A x \in DOMAIN m.orders : RoleOf(x) = "ADDON_STOP" => x[3] \in Nat /\ x[3] < m.execs,
           NEW q \in Nat, NEW full, NEW valid
    PROVE  LET n == AddonEntryFill(m, q, full, valid)
           IN  Goes(m, n) /\ Tallies(m, n) /\ (Staged(m) => Staged(n))
<1> DEFINE stop == <<"ADDON_STOP", m.setup.id, m.execs>>
           locked == [m EXCEPT !.setup.lock = TRUE, !.life = "REDUCE_PENDING"]
           unwound == CancelRoles(locked, {"ADDON_ENTRY", "ADDON_STOP"})
           reduced == ReduceAddon(unwound)
           stopped == Register(m, stop, q, ExitSide(m))
           life == IF full THEN "NONE" ELSE "ADDON_PENDING"
           lived == [stopped EXCEPT !.life = life]
<1>1. Goes(m, reduced) /\ Tallies(m, reduced) /\ (Staged(m) => Staged(reduced))
  <2>1. Still(m, locked) /\ locked.life = "REDUCE_PENDING" /\ locked.recovery = m.recovery
    BY DEF Typed, Heads, Fields, Ledger, Outboxes, IntentsOK, SetupOK, Calm, Still, Lifecycles
  <2>2. Moves(m, locked)
    <3>1. /\ locked.orders = m.orders /\ locked.outbox = m.outbox /\ locked.out = m.out
          /\ locked.setup.id = m.setup.id /\ locked.setup.bs = m.setup.bs /\ locked.setup.tp = m.setup.tp
          /\ locked.setup.final = m.setup.final /\ locked.setup.pend = m.setup.pend
          /\ locked.base = m.base /\ locked.addon = m.addon
          /\ locked.addons = m.addons /\ locked.execs = m.execs
      BY DEF Typed, Heads, Fields, SetupOK
    <3> HIDE DEF locked
    <3>2. Subs(locked) = Subs(m)
      BY <3>1 DEF Subs
    <3> QED
      BY <3>1, <3>2, SameMoves
  <2> HIDE DEF locked
  <2>3. Still(locked, unwound) /\ Follows(locked, unwound)
    BY <2>1, CancelRolesStill, CancelRolesFollows DEF Still
  <2> HIDE DEF unwound
  <2>4. Still(m, unwound)
    BY <2>1, <2>3, StillTrans
  <2>5. Typed(unwound) /\ HasSetup(unwound) /\ RealOpen(unwound) > 0
    BY <2>4 DEF Still, Calm, RealOpen, HasSetup
  <2>6. Still(unwound, reduced) /\ Follows(unwound, reduced)
    BY <2>5, ReduceAddonStill, ReduceAddonFollows
  <2> HIDE DEF reduced
  <2>7. Moves(locked, unwound) /\ Moves(unwound, reduced)
    BY <2>3, <2>6, FollowsMoves
  <2>8. Moves(m, reduced)
    BY <2>2, <2>7, MovesTrans
  <2>9. Staged(m) => Gentle(m, reduced)
    BY <2>1, <2>3, <2>6 DEF Gentle, Follows, Same, Staged, Quiet
  <2> QED
    BY <2>8, <2>9, MovesFare DEF Fares
<1>2. Goes(m, lived) /\ Tallies(m, lived) /\ (Staged(m) => Staged(lived))
  <2>1. RoleOf(stop) = "ADDON_STOP" /\ SetupOf(stop) = m.setup.id /\ stop[3] = m.execs
    BY DEF RoleOf, SetupOf
  <2> HIDE DEF stop
  <2>2. RoleOf(stop) \in Roles /\ ExitSide(m) \in {1, -1}
    BY <2>1, Lots DEF Roles, ProtectiveRoles
  <2>3. Registrable(m, stop) /\ NumberOK(m, stop)
    BY <2>1 DEF Registrable, NumberOK
  <2>4. Still(m, stopped) /\ Follows(m, stopped)
    BY <2>1, <2>2, <2>3, RegisterStill, RegisterFollows
  <2>5. stopped.life = m.life /\ stopped.setup = m.setup /\ stopped.recovery = m.recovery
    BY Registered
  <2> HIDE DEF stopped
  <2>6. Moves(m, stopped)
    BY <2>4, FollowsMoves
  <2>7. Staged(m) => Gentle(m, stopped)
    BY <2>5 DEF Gentle, Staged, Quiet
  <2>8. Fares(m, stopped)
    BY <2>6, <2>7, MovesFare
  <2>9. Goes(stopped, lived) /\ Tallies(stopped, lived) /\ (Staged(stopped) /\ Pending(lived) => Staged(lived))
    BY <2>4, LifeFares DEF Still
  <2>10. Pending(lived)
    <3>1. lived.life # "BASE_PENDING"
      BY <2>4 DEF Still, Typed, Heads, Fields
    <3> QED
      BY <3>1 DEF Pending
  <2> QED
    BY <2>8, <2>9, <2>10, GoesTrans, TalliesTrans DEF Fares
<1> QED
  BY <1>1, <1>2 DEF AddonEntryFill

\* A fill of the base entry: the setup becomes active with its first leg.
LEMMA BaseEntryFillFares ==
    ASSUME NEW m, Typed(m), Numbered(m), HasSetup(m), RealOpen(m) > 0,
           m.setup.pend = None, NEW full, NEW moved
    PROVE  LET n == BaseEntryFill(m, full, moved)
           IN  Goes(m, n) /\ Tallies(m, n) /\ (Staged(m) => Staged(n))
<1> DEFINE stopped == UpsertBaseStop(m, moved)
           covered == UpsertTakeProfit(stopped)
           life == IF full THEN "NONE" ELSE "BASE_PENDING"
           n == [covered EXCEPT !.life = life]
<1>1. Still(m, stopped) /\ Follows(m, stopped) /\ stopped.setup.pend = None
  BY UpsertBaseStopStill, UpsertBaseStopFollows
<1> HIDE DEF stopped
<1>2. Typed(stopped) /\ Numbered(stopped)
  BY <1>1 DEF Still, Follows, Goes
<1>3. Still(stopped, covered) /\ Follows(stopped, covered) /\ covered.setup.pend = None
  BY <1>1, <1>2, TakeProfitStill, TakeProfitFollows
<1> HIDE DEF covered
<1>4. Still(m, covered) /\ Follows(m, covered)
  BY <1>1, <1>3, StillTrans, FollowsTrans
<1>5. Moves(m, covered)
  BY <1>4, FollowsMoves
<1>6. Staged(m) => Gentle(m, covered)
  BY <1>3, <1>4 DEF Gentle, Follows, Same, Staged, Quiet
<1>7. Fares(m, covered)
  BY <1>5, <1>6, MovesFare
<1>8. RealOpen(covered) > 0 /\ Typed(covered)
  BY <1>4 DEF Still, Calm, RealOpen
<1>9. Goes(covered, n) /\ Tallies(covered, n) /\ n.setup = covered.setup
      /\ (Staged(covered) /\ Pending(n) => Staged(n))
  BY <1>8, LifeFares
<1>10. Pending(n)
  <2>1. n.base = covered.base /\ n.addon = covered.addon
    BY <1>8 DEF Typed, Heads, Fields
  <2> QED
    BY <1>3, <1>8, <1>9, <2>1 DEF Pending, RealOpen
<1> HIDE DEF n
<1>11. Goes(m, n) /\ Tallies(m, n) /\ (Staged(m) => Staged(n))
  BY <1>7, <1>9, <1>10, GoesTrans, TalliesTrans DEF Fares
<1> QED
  BY <1>11 DEF BaseEntryFill, n, covered, stopped, life

\* What a fill does.
Fills(m, n) == Goes(m, n) /\ Tallies(m, n) /\ (Staged(m) => Staged(n)) /\ n.setup.id = m.setup.id

\* A fill of an entry that is not refused.
LEMMA EntryFillFares ==
    ASSUME NEW m, Typed(m), Numbered(m), NEW o \in DOMAIN m.orders, SetupOf(o) = m.setup.id,
           RoleOf(o) \in EntryRoles, HasSetup(m), m.setup.pend = None,
           NEW q \in Nat, q > 0, NEW full, NEW valid, NEW moved
    PROVE  Fills(m, EntryFill(Book(m, o, q, full), o, q, full, valid, moved))
<1> DEFINE b == Book(m, o, q, full)
           grown == IF RoleOf(o) = "BASE_ENTRY" THEN [b EXCEPT !.base.qty = @ + q]
                    ELSE [b EXCEPT !.addon.qty = @ + q]
           n == EntryFill(b, o, q, full, valid, moved)
<1>0. Staged(m) => m.setup.final = None
  BY DEF Staged, Quiet
<1>1. /\ Still(m, b) /\ Goes(m, b) /\ Booked(m, b, o) /\ Grows(m, b, o, q)
      /\ b.setup = m.setup /\ b.base = m.base /\ b.addon = m.addon /\ b.life = m.life
      /\ b.recovery = m.recovery /\ b.addons = m.addons /\ b.execs = m.execs + 1
  BY BookIs DEF Numbered
<1>2. n = IF OverCap(grown) THEN BreachCap(grown)
          ELSE IF RoleOf(o) = "BASE_ENTRY" THEN BaseEntryFill(grown, full, moved)
          ELSE AddonEntryFill(grown, q, full, valid)
  BY DEF EntryFill
<1> HIDE DEF b
<1>3. /\ Typed(grown) /\ grown.orders = b.orders /\ grown.setup = b.setup /\ grown.outbox = b.outbox
      /\ grown.out = b.out /\ grown.execs = b.execs /\ grown.addons = b.addons /\ grown.life = b.life
      /\ grown.recovery = b.recovery
  BY <1>1 DEF Still, Typed, Heads, Fields, Ledger, Outboxes, IntentsOK, LegOK
<1>4. /\ m.base.qty \in Nat /\ m.base.cut \in Nat /\ m.addon.qty \in Nat /\ m.addon.cut \in Nat
  BY DEF Typed, Heads, LegOK
<1>5. /\ grown.base.cut = m.base.cut /\ grown.addon.cut = m.addon.cut
      /\ IF RoleOf(o) = "BASE_ENTRY" THEN grown.base.qty = m.base.qty + q /\ grown.addon.qty = m.addon.qty
         ELSE grown.base.qty = m.base.qty /\ grown.addon.qty = m.addon.qty + q
  BY <1>1 DEF Still, Typed, Heads, Fields, LegOK
<1> HIDE DEF grown
<1>6. RealOpen(grown) > 0 /\ Traded(grown) /\ HasSetup(grown)
  BY <1>1, <1>3, <1>4, <1>5 DEF RealOpen, Traded, HasSetup
<1>7. Goes(m, grown)
  <2>1. Subs(grown) = Subs(b)
    BY <1>3 DEF Subs
  <2>2. Goes(b, grown)
    BY <1>3, <2>1, SameGoes
  <2> QED
    BY <1>1, <2>2, GoesTrans
<1>8. ASSUME Staged(m)
      PROVE  Staged(grown)
  <2>1. Booked(m, grown, o)
    <3>1. Subs(grown) = Subs(b) /\ Active(grown) = Active(b)
      BY <1>3 DEF Subs, Active, ActiveOf
    <3> QED
      BY <1>1, <1>3, <3>1 DEF Booked
  <2>2. RoleOf(o) = "BASE_ENTRY" \/ Traded(m)
    <3>1. RoleOf(o) # "CLOSE_ALL"
      BY DEF EntryRoles
    <3> QED
      BY <1>8, <3>1 DEF Staged, Rooted
  <2>3. Pending(grown)
    BY <1>1, <1>3, <1>6 DEF Pending
  <2>4. Based(grown)
    <3>1. CASE RoleOf(o) = "BASE_ENTRY"
      BY <1>4, <1>5, <3>1 DEF Based
    <3>2. CASE RoleOf(o) # "BASE_ENTRY"
      <4>1. Entry(m.setup.id) # o
        BY <3>2 DEF Entry, RoleOf
      <4>2. Entry(m.setup.id) \in DOMAIN m.orders
        BY <1>8 DEF Staged, Rooted
      <4>3. Entry(m.setup.id) \in Active(grown) => Entry(m.setup.id) \in Active(m)
        BY <2>1, <4>1, <4>2 DEF Booked
      <4> QED
        BY <1>1, <1>3, <1>5, <1>8, <2>2, <3>2, <4>3 DEF Staged, Based
    <3> QED
      BY <3>1, <3>2
  <2> QED
    BY <1>0, <1>1, <1>3, <1>6, <1>8, <2>1, <2>2, <2>3, <2>4, BookedStaged
<1>9. (Staged(grown) => grown.setup.final = None) /\ grown.setup.pend = None
  BY <1>1, <1>3 DEF Staged, Quiet
<1>10. /\ Goes(grown, BreachCap(grown)) /\ Tallies(grown, BreachCap(grown))
       /\ (Staged(grown) => Staged(BreachCap(grown)))
  BY <1>3, <1>9, BreachCapMoves, MovesFare DEF Fares
<1>11. LET p == BaseEntryFill(grown, full, moved)
       IN  Goes(grown, p) /\ Tallies(grown, p) /\ (Staged(grown) => Staged(p))
  <2>1. Numbered(grown)
    BY <1>7 DEF Goes
  <2> QED
    BY <1>3, <1>6, <1>9, <2>1, BaseEntryFillFares
<1>12. LET p == AddonEntryFill(grown, q, full, valid)
       IN  Goes(grown, p) /\ Tallies(grown, p) /\ (Staged(grown) => Staged(p))
  <2>1. grown.execs \in Nat
        /\ \A x \in DOMAIN grown.orders : RoleOf(x) = "ADDON_STOP" => x[3] \in Nat /\ x[3] < grown.execs
    BY <1>1, <1>3 DEF Numbered, Booked
  <2> QED
    BY <1>3, <1>6, <1>9, <2>1, AddonEntryFillFares
<1>13. Goes(grown, n) /\ Tallies(grown, n) /\ (Staged(grown) => Staged(n))
  BY <1>2, <1>10, <1>11, <1>12
<1>14. n.setup.id = m.setup.id
  <2>1. Still(grown, n)
    BY <1>2, <1>3, BreachCapStill, BaseEntryFillStill, AddonEntryFillStill
  <2> QED
    BY <1>1, <1>3, <2>1 DEF Still, Calm
<1>15. Tallies(m, grown)
  <2> SUFFICES ASSUME Tally(m)
               PROVE  Tally(grown)
    BY DEF Tallies
  <2>1. Grows(m, grown, o, q)
    BY <1>1, <1>3 DEF Grows
  <2>2. /\ grown.base.qty + grown.base.cut =
               m.base.qty + m.base.cut + (IF RoleOf(o) = "BASE_ENTRY" THEN q ELSE 0)
        /\ grown.addon.qty + grown.addon.cut =
               m.addon.qty + m.addon.cut + (IF RoleOf(o) = "ADDON_ENTRY" THEN q ELSE 0)
        /\ grown.base.cut + grown.addon.cut =
               m.base.cut + m.addon.cut + (IF RoleOf(o) \in EntryRoles THEN 0 ELSE q)
    BY <1>4, <1>5 DEF EntryRoles
  <2> QED
    BY <2>1, <2>2, GrownTally
<1> HIDE DEF n
<1>16. Fills(m, n)
  BY <1>7, <1>8, <1>13, <1>14, <1>15, GoesTrans, TalliesTrans DEF Fills
<1> QED
  BY <1>16 DEF n, b

\* What an exit leaves of the legs.
LEMMA ReduceIs ==
    ASSUME NEW m, Typed(m), NEW q \in Nat, q > 0, q <= RealOpen(m)
    PROVE  LET n == Reduce(m, q)
           IN  /\ Typed(n) /\ n.orders = m.orders /\ n.setup = m.setup /\ n.outbox = m.outbox
               /\ n.out = m.out /\ n.execs = m.execs /\ n.addons = m.addons /\ n.life = m.life
               /\ n.recovery = m.recovery /\ Traded(n)
               /\ q <= m.addon.qty => n.base.qty = m.base.qty
               /\ n.base.qty + n.base.cut = m.base.qty + m.base.cut
               /\ n.addon.qty + n.addon.cut = m.addon.qty + m.addon.cut
               /\ n.base.cut + n.addon.cut = m.base.cut + m.addon.cut + q
               /\ m.base.qty > 0 /\ RealOpen(n) > 0 => n.base.qty > 0
<1> DEFINE a == Min2(q, m.addon.qty)
           n == [m EXCEPT !.addon = [qty |-> @.qty - a, cut |-> @.cut + a],
                          !.base = [qty |-> @.qty - (q - a), cut |-> @.cut + (q - a)]]
<1>1. m.addon.qty \in Nat /\ m.addon.cut \in Nat /\ m.base.qty \in Nat /\ m.base.cut \in Nat
  BY DEF Typed, Heads, LegOK
<1>2. /\ a \in Nat /\ a <= m.addon.qty /\ a <= q
      /\ q <= m.addon.qty => a = q
      /\ a < q => a = m.addon.qty
      /\ q - a <= m.base.qty
  BY <1>1 DEF Min2, RealOpen
<1> HIDE DEF a
<1>3. /\ n.orders = m.orders /\ n.setup = m.setup /\ n.outbox = m.outbox
      /\ n.out = m.out /\ n.execs = m.execs /\ n.addons = m.addons /\ n.life = m.life
      /\ n.recovery = m.recovery
      /\ n.addon.qty = m.addon.qty - a /\ n.addon.cut = m.addon.cut + a
      /\ n.base = [qty |-> m.base.qty - (q - a), cut |-> m.base.cut + (q - a)]
  BY DEF Typed, Heads, Fields
<1>4. Typed(n)
  BY ReduceKept DEF Kept, Reduce, a
<1> HIDE DEF n
<1>5. Traded(n)
  BY <1>1, <1>2, <1>3 DEF Traded, RealOpen
<1>6. m.base.qty > 0 /\ RealOpen(n) > 0 => n.base.qty > 0
  BY <1>1, <1>2, <1>3 DEF RealOpen
<1>7. q <= m.addon.qty => n.base.qty = m.base.qty
  BY <1>1, <1>2, <1>3
<1>8. /\ n.base.qty + n.base.cut = m.base.qty + m.base.cut
      /\ n.addon.qty + n.addon.cut = m.addon.qty + m.addon.cut
      /\ n.base.cut + n.addon.cut = m.base.cut + m.addon.cut + q
  BY <1>1, <1>2, <1>3
<1> QED
  BY <1>3, <1>4, <1>5, <1>6, <1>7, <1>8 DEF n, Reduce, a

\* Canceling after a fill was booked.
LEMMA BookedThen ==
    ASSUME NEW m, NEW n, NEW p, NEW o, Booked(m, n, o), o \in DOMAIN m.orders,
           Tends(n, p), DOMAIN p.orders = DOMAIN n.orders, p.setup.id = n.setup.id
    PROVE  Booked(m, p, o)
<1>1. NewIn(n, p) = {}
  BY DEF NewIn
<1> QED
  BY <1>1 DEF Booked, Tends

\* A fill that reduces the add-on, which is not refused.
LEMMA AddonReductionFares ==
    ASSUME NEW m, Typed(m), Numbered(m), NEW o \in DOMAIN m.orders, SetupOf(o) = m.setup.id,
           RoleOf(o) \in ReducingRoles, HasSetup(m), NEW q \in Nat, q > 0, q <= RealOpen(m),
           q > m.addon.qty => m.life = "EXIT_PENDING", NEW full
    PROVE  Fills(m, AddonReduction(Book(m, o, q, full), q))
<1> DEFINE b == Book(m, o, q, full)
           reduced == Reduce(b, q)
           cut == [reduced EXCEPT !.setup.lock = TRUE]
           idle == [cut EXCEPT !.life = "NONE"]
           reducing == [cut EXCEPT !.life = "REDUCE_PENDING"]
           flat == CancelAll(cut, "FLAT_ORPHAN")
           unstopped == CancelRoles(idle, {"ADDON_STOP"})
           refreshed == RefreshTakeProfit(unstopped)
           n == AddonReduction(b, q)
<1>1. /\ Still(m, b) /\ Goes(m, b) /\ Booked(m, b, o) /\ Grows(m, b, o, q)
      /\ b.setup = m.setup /\ b.base = m.base /\ b.addon = m.addon /\ b.life = m.life
      /\ b.recovery = m.recovery /\ b.addons = m.addons /\ b.execs = m.execs + 1
  BY BookIs DEF Numbered
<1>2. n = IF b.life = "EXIT_PENDING"
          THEN IF RealOpen(cut) = 0 THEN flat ELSE cut
          ELSE IF cut.addon.qty = 0 THEN refreshed ELSE reducing
  BY DEF AddonReduction
<1> HIDE DEF b, n
<1>3. /\ Typed(reduced) /\ reduced.orders = b.orders /\ reduced.setup = b.setup /\ reduced.outbox = b.outbox
      /\ reduced.out = b.out /\ reduced.execs = b.execs /\ reduced.addons = b.addons /\ reduced.life = b.life
      /\ reduced.recovery = b.recovery /\ Traded(reduced)
      /\ q <= m.addon.qty => reduced.base.qty = m.base.qty
      /\ reduced.base.qty + reduced.base.cut = m.base.qty + m.base.cut
      /\ reduced.addon.qty + reduced.addon.cut = m.addon.qty + m.addon.cut
      /\ reduced.base.cut + reduced.addon.cut = m.base.cut + m.addon.cut + q
      /\ m.base.qty > 0 /\ RealOpen(reduced) > 0 => reduced.base.qty > 0
  <2>1. Typed(b) /\ q <= RealOpen(b)
    BY <1>1 DEF Still, RealOpen
  <2> QED
    BY <1>1, <2>1, ReduceIs
<1> HIDE DEF reduced
<1>4. Still(reduced, cut)
  BY <1>3, SetupStill
<1>5. /\ cut.orders = b.orders /\ cut.outbox = b.outbox /\ cut.out = b.out
      /\ cut.setup.id = m.setup.id /\ cut.setup.bs = m.setup.bs /\ cut.setup.tp = m.setup.tp
      /\ cut.setup.final = m.setup.final /\ cut.setup.pend = m.setup.pend
      /\ cut.execs = b.execs /\ cut.addons = b.addons /\ cut.life = m.life /\ cut.recovery = m.recovery
      /\ cut.base = reduced.base /\ cut.addon = reduced.addon
  BY <1>1, <1>3 DEF Typed, Heads, Fields, SetupOK
<1> HIDE DEF cut
<1>6. Typed(cut) /\ RealOpen(cut) = RealOpen(reduced) /\ Traded(cut) /\ HasSetup(cut)
  BY <1>3, <1>4, <1>5 DEF Still, RealOpen, Traded, HasSetup
<1>7. Goes(m, cut)
  <2>1. Subs(cut) = Subs(b)
    BY <1>5 DEF Subs
  <2>2. Goes(b, cut)
    BY <1>1, <1>5, <2>1, SameGoes
  <2> QED
    BY <1>1, <2>2, GoesTrans
<1>8. Booked(m, cut, o)
  <2>1. Subs(cut) = Subs(b) /\ Active(cut) = Active(b)
    BY <1>5 DEF Subs, Active, ActiveOf
  <2> QED
    BY <1>1, <1>5, <2>1 DEF Booked
<1>19. Tallies(m, cut)
  <2> SUFFICES ASSUME Tally(m)
               PROVE  Tally(cut)
    BY DEF Tallies
  <2>1. Grows(m, cut, o, q)
    BY <1>1, <1>5 DEF Grows
  <2>2. /\ RoleOf(o) # "BASE_ENTRY" /\ RoleOf(o) # "ADDON_ENTRY" /\ RoleOf(o) \notin EntryRoles
        /\ m.base.qty \in Nat /\ m.base.cut \in Nat /\ m.addon.qty \in Nat /\ m.addon.cut \in Nat
    BY DEF ReducingRoles, EntryRoles, Typed, Heads, LegOK
  <2>3. /\ cut.base.qty + cut.base.cut = m.base.qty + m.base.cut + 0
        /\ cut.addon.qty + cut.addon.cut = m.addon.qty + m.addon.cut + 0
        /\ cut.base.cut + cut.addon.cut = m.base.cut + m.addon.cut + q
    BY <1>3, <1>5, <2>2
  <2> QED
    BY <2>1, <2>2, <2>3, GrownTally
<1>9. Traded(m)
  BY DEF Typed, Heads, LegOK, RealOpen, Traded
<1>10. Staged(m) => m.setup.final = None
  BY Lots DEF Staged, Quiet
<1>11. RoleOf(o) # "BASE_ENTRY" /\ Entry(m.setup.id) # o
  BY DEF ReducingRoles, Entry, RoleOf
<1>12. ASSUME Staged(m), m.life # "EXIT_PENDING" \/ RealOpen(cut) > 0, NEW p,
              p = cut \/ p = idle \/ p = reducing,
              p.life # "BASE_PENDING"
       PROVE  Goes(cut, p) /\ Staged(p)
  <2>1. Pending(p)
    BY <1>12 DEF Pending
  <2>2. p.orders = cut.orders /\ p.setup = cut.setup /\ p.outbox = cut.outbox /\ p.out = cut.out
        /\ p.base = cut.base /\ p.addon = cut.addon /\ p.execs = cut.execs /\ p.addons = cut.addons
    BY <1>6, <1>12 DEF Typed, Heads, Fields
  <2> HIDE DEF idle, reducing
  <2>3. Subs(p) = Subs(cut) /\ Active(p) = Active(cut)
    BY <2>2 DEF Subs, Active, ActiveOf
  <2>4. Goes(cut, p)
    BY <2>2, <2>3, SameGoes
  <2>5. Booked(m, p, o) /\ Traded(p) /\ p.setup.final = None
    BY <1>5, <1>6, <1>8, <1>10, <1>12, <2>2, <2>3 DEF Booked, Traded, RealOpen
  <2>6. Based(p)
    <3>1. Entry(m.setup.id) \in Active(p) => Entry(m.setup.id) \in Active(m)
      <4>1. Entry(m.setup.id) \in DOMAIN m.orders
        BY <1>12 DEF Staged, Rooted
      <4> QED
        BY <1>11, <2>5, <4>1 DEF Booked
    <3>2. m.base.qty > 0 => p.base.qty > 0
      <4>1. m.base.qty \in Nat /\ m.addon.qty \in Nat
        BY DEF Typed, Heads, LegOK
      <4>2. CASE q <= m.addon.qty
        BY <1>3, <1>5, <2>2, <4>1, <4>2
      <4>3. CASE RealOpen(cut) > 0
        BY <1>3, <1>5, <1>6, <2>2, <4>3
      <4> QED
        BY <1>12, <4>1, <4>2, <4>3
    <3> QED
      BY <1>5, <1>9, <1>12, <2>2, <3>1, <3>2 DEF Staged, Based
  <2> QED
    BY <1>9, <1>12, <2>1, <2>4, <2>5, <2>6, BookedStaged
<1>13. ASSUME RealOpen(cut) = 0
       PROVE  /\ flat.setup.id = m.setup.id /\ Goes(m, flat) /\ Tallies(m, flat)
              /\ Staged(m) /\ cut.life = "EXIT_PENDING" => Staged(flat)
  <2>1. Still(cut, flat) /\ Follows(cut, flat) /\ Active(flat) = {} /\ DOMAIN flat.orders = DOMAIN cut.orders
        /\ flat.setup = cut.setup
    BY <1>6, CancelAllStill, CancelAllFollows
  <2> HIDE DEF flat
  <2>2. Booked(m, flat, o)
    BY <1>8, <2>1, BookedThen DEF Follows
  <2>3. Traded(flat) /\ flat.setup.final = m.setup.final /\ Based(flat)
    BY <1>5, <1>6, <2>1 DEF Still, Calm, Traded, RealOpen, Based
  <2>4. cut.life = "EXIT_PENDING" => Pending(flat)
    BY <2>1 DEF Follows, Same, Pending
  <2>5. Goes(m, flat)
    BY <1>7, <2>1, GoesTrans DEF Follows
  <2>6. Tallies(m, flat)
    BY <1>19, <2>1, FollowsMoves, MovesTally, TalliesTrans
  <2> QED
    BY <1>5, <1>9, <1>10, <2>1, <2>2, <2>3, <2>4, <2>5, <2>6, BookedStaged
<1>14. Goes(m, cut) /\ (Staged(m) /\ cut.life = "EXIT_PENDING" /\ RealOpen(cut) > 0 => Staged(cut))
  BY <1>7, <1>12
<1>15. /\ reducing.setup.id = m.setup.id /\ Goes(m, reducing) /\ Tallies(m, reducing)
       /\ Staged(m) /\ m.life # "EXIT_PENDING" => Staged(reducing)
  <2>1. reducing.life # "BASE_PENDING" /\ Goes(cut, reducing) /\ Tallies(cut, reducing)
        /\ reducing.setup = cut.setup
    BY <1>6, LifeFares DEF Typed, Heads, Fields
  <2> QED
    BY <1>5, <1>7, <1>12, <1>19, <2>1, GoesTrans, TalliesTrans
<1>16. /\ refreshed.setup.id = m.setup.id /\ Goes(m, refreshed) /\ Tallies(m, refreshed)
       /\ Staged(m) /\ m.life # "EXIT_PENDING" => Staged(refreshed)
  <2>1. Still(cut, idle) /\ Goes(cut, idle) /\ Tallies(cut, idle) /\ idle.life # "BASE_PENDING"
    BY <1>6, LifeStill, LifeFares DEF Lifecycles, Typed, Heads, Fields
  <2>2. Staged(m) /\ m.life # "EXIT_PENDING" => Staged(idle)
    BY <1>12, <2>1
  <2> HIDE DEF idle
  <2>3. Still(idle, unstopped) /\ Follows(idle, unstopped)
    BY <2>1, CancelRolesStill, CancelRolesFollows DEF Still
  <2>4. DOMAIN unstopped.orders = DOMAIN idle.orders
    BY <2>1, CancelRolesFollows DEF Still
  <2> HIDE DEF unstopped
  <2>5. Typed(unstopped) /\ Numbered(unstopped)
    BY <1>7, <2>1, <2>3 DEF Still, Follows, Goes
  <2>6. Still(unstopped, refreshed) /\ Follows(unstopped, refreshed)
    BY <2>5, TakeProfitStill, TakeProfitFollows
  <2> HIDE DEF refreshed
  <2>7. Still(idle, refreshed) /\ Follows(idle, refreshed)
    BY <2>3, <2>6, StillTrans, FollowsTrans
  <2>8. Moves(idle, refreshed)
    BY <2>7, FollowsMoves
  <2>9. Staged(m) => Gentle(idle, refreshed)
    <3>1. refreshed.life # "BASE_PENDING" /\ refreshed.recovery = idle.recovery
      BY <2>1, <2>7 DEF Follows, Same
    <3>2. HasSetup(idle) /\ idle.setup.final = cut.setup.final
      BY <1>6, <2>1 DEF Still, Calm, HasSetup
    <3> QED
      BY <1>5, <1>10, <3>1, <3>2 DEF Gentle
  <2>10. Typed(idle)
    BY <2>1 DEF Still
  <2>11. Tallies(m, refreshed)
    BY <1>19, <2>1, <2>8, MovesTally, TalliesTrans
  <2> QED
    BY <1>5, <1>7, <2>1, <2>2, <2>7, <2>8, <2>9, <2>10, <2>11, MovesStaged, GoesTrans DEF Follows, Still, Calm
<1>17. RealOpen(cut) \in Nat
  BY <1>6, Lots
<1>18. Fills(m, n)
  BY <1>1, <1>2, <1>5, <1>13, <1>14, <1>15, <1>16, <1>17, <1>19 DEF Fills
<1> QED
  BY <1>18 DEF n, b

\* A fill of a whole-position exit: the entries are canceled first.
LEMMA WholeExitFillFares ==
    ASSUME NEW m, Typed(m), Numbered(m), NEW o \in DOMAIN m.orders, SetupOf(o) = m.setup.id,
           RoleOf(o) \notin EntryRoles, HasSetup(m), NEW q \in Nat, q > 0, q <= RealOpen(m), NEW full
    PROVE  Fills(m, WholeExitFill(Book(m, o, q, full), o, q))
<1> DEFINE b == Book(m, o, q, full)
           entriesOff == CancelRoles(b, EntryRoles)
           stopsOff == IF b.addon.qty > 0 THEN CancelRoles(entriesOff, {"ADDON_STOP"})
                       ELSE entriesOff
           reduced == Reduce(stopsOff, q)
           cut == [reduced EXCEPT
                     !.life = "EXIT_PENDING",
                     !.setup.pend = CASE RoleOf(o) = "BASE_STOP" -> "BASE_SL"
                                      [] RoleOf(o) = "TAKE_PROFIT" -> "TP"
                                      [] OTHER -> @]
           flat == CancelAll(cut, "FLAT_ORPHAN")
           refreshed == RefreshTakeProfit(cut)
           n == WholeExitFill(b, o, q)
<1>1. /\ Still(m, b) /\ Goes(m, b) /\ Booked(m, b, o) /\ Grows(m, b, o, q)
      /\ b.setup = m.setup /\ b.base = m.base /\ b.addon = m.addon /\ b.life = m.life
      /\ b.recovery = m.recovery /\ b.addons = m.addons /\ b.execs = m.execs + 1
  BY BookIs DEF Numbered
<1>2. n = IF RealOpen(cut) = 0 THEN flat ELSE refreshed
  BY DEF WholeExitFill
<1> HIDE DEF b, n
<1>3. /\ Still(b, entriesOff) /\ Follows(b, entriesOff) /\ ActiveOf(entriesOff, EntryRoles) = {}
      /\ DOMAIN entriesOff.orders = DOMAIN b.orders /\ entriesOff.setup = b.setup
  BY <1>1, CancelRolesStill, CancelRolesFollows DEF Still
<1>4. /\ Still(b, stopsOff) /\ Follows(b, stopsOff) /\ ActiveOf(stopsOff, EntryRoles) = {}
      /\ DOMAIN stopsOff.orders = DOMAIN b.orders /\ stopsOff.setup = b.setup
  <2> DEFINE p == CancelRoles(entriesOff, {"ADDON_STOP"})
  <2> HIDE DEF entriesOff
  <2>1. /\ Still(entriesOff, p) /\ Follows(entriesOff, p)
        /\ DOMAIN p.orders = DOMAIN entriesOff.orders /\ p.setup = entriesOff.setup
    BY <1>3, CancelRolesStill, CancelRolesFollows DEF Still
  <2> HIDE DEF p
  <2>2. Still(b, p) /\ Follows(b, p)
    BY <1>3, <2>1, StillTrans, FollowsTrans
  <2>3. ActiveOf(p, EntryRoles) = {}
    <3>1. \A x \in DOMAIN p.orders : x \in Active(p) => x \in Active(entriesOff)
      BY <2>1 DEF Follows, Tends
    <3>2. \A x : x \in ActiveOf(p, EntryRoles) =>
             x \in Active(p) /\ RoleOf(x) \in EntryRoles /\ x \in DOMAIN p.orders
      BY DEF ActiveOf, Active, Roles
    <3>3. \A x : x \in Active(entriesOff) /\ RoleOf(x) \in EntryRoles => x \in ActiveOf(entriesOff, EntryRoles)
      BY DEF ActiveOf, Active
    <3> QED
      BY <1>3, <3>1, <3>2, <3>3
  <2> QED
    BY <1>3, <2>1, <2>2, <2>3 DEF p
<1> HIDE DEF stopsOff
<1>5. /\ Typed(reduced) /\ reduced.orders = stopsOff.orders /\ reduced.setup = b.setup
      /\ reduced.outbox = stopsOff.outbox /\ reduced.out = stopsOff.out /\ reduced.execs = b.execs
      /\ reduced.addons = b.addons /\ reduced.recovery = b.recovery /\ Traded(reduced)
      /\ reduced.base.qty + reduced.base.cut = m.base.qty + m.base.cut
      /\ reduced.addon.qty + reduced.addon.cut = m.addon.qty + m.addon.cut
      /\ reduced.base.cut + reduced.addon.cut = m.base.cut + m.addon.cut + q
  <2>1. Typed(stopsOff) /\ q <= RealOpen(stopsOff)
        /\ stopsOff.base = m.base /\ stopsOff.addon = m.addon
    BY <1>1, <1>4 DEF Still, Calm, RealOpen
  <2> QED
    BY <1>4, <2>1, ReduceIs DEF Follows, Same
<1> HIDE DEF reduced
<1>6. /\ Typed(cut) /\ cut.orders = stopsOff.orders /\ cut.outbox = stopsOff.outbox /\ cut.out = stopsOff.out
      /\ cut.setup.id = m.setup.id /\ cut.setup.bs = m.setup.bs /\ cut.setup.tp = m.setup.tp
      /\ cut.setup.final = m.setup.final /\ (m.setup.pend # None => cut.setup.pend # None)
      /\ cut.execs = b.execs /\ cut.addons = b.addons /\ cut.life = "EXIT_PENDING"
      /\ cut.recovery = m.recovery /\ cut.base = reduced.base /\ cut.addon = reduced.addon
  <2> DEFINE pend == CASE RoleOf(o) = "BASE_STOP" -> "BASE_SL"
                       [] RoleOf(o) = "TAKE_PROFIT" -> "TP"
                       [] OTHER -> reduced.setup.pend
             p == [reduced EXCEPT !.life = "EXIT_PENDING", !.setup.pend = pend]
  <2>1. reduced.setup.pend \in Reasons
    BY <1>5 DEF Typed, Heads, SetupOK
  <2>2. pend \in Reasons /\ (reduced.setup.pend # None => pend # None)
    BY <2>1 DEF Reasons, CloseReasons, None
  <2>3. cut = p
    OBVIOUS
  <2> HIDE DEF pend, cut
  <2>4. Typed(p)
    BY <1>5, <2>2 DEF Typed, Heads, Fields, Ledger, Outboxes, IntentsOK, SetupOK, Lifecycles
  <2>5. /\ p.orders = reduced.orders /\ p.outbox = reduced.outbox /\ p.out = reduced.out
        /\ p.setup.id = reduced.setup.id /\ p.setup.bs = reduced.setup.bs /\ p.setup.tp = reduced.setup.tp
        /\ p.setup.final = reduced.setup.final /\ p.setup.pend = pend
        /\ p.execs = reduced.execs /\ p.addons = reduced.addons /\ p.life = "EXIT_PENDING"
        /\ p.recovery = reduced.recovery /\ p.base = reduced.base /\ p.addon = reduced.addon
    BY <1>5 DEF Typed, Heads, Fields, SetupOK
  <2> HIDE DEF p
  <2> QED
    BY <1>1, <1>5, <2>2, <2>3, <2>4, <2>5
<1> HIDE DEF cut
<1>7. Traded(cut) /\ HasSetup(cut)
  BY <1>5, <1>6 DEF Traded, RealOpen, HasSetup
<1>8. Subs(cut) = Subs(stopsOff) /\ Active(cut) = Active(stopsOff)
  BY <1>6 DEF Subs, Active, ActiveOf
<1>9. Goes(m, cut)
  <2>1. Goes(stopsOff, cut)
    BY <1>1, <1>4, <1>6, <1>8, SameGoes DEF Follows, Same
  <2> QED
    BY <1>1, <1>4, <2>1, GoesTrans DEF Follows
<1>10. ASSUME Staged(m)
       PROVE  Staged(cut) /\ cut.setup.final = None
  <2>1. Booked(m, stopsOff, o)
    BY <1>1, <1>4, BookedThen DEF Follows
  <2>2. Booked(m, cut, o)
    BY <1>6, <1>8, <2>1 DEF Booked
  <2>3. Traded(m) /\ m.setup.final = None
    <3>1. RealOpen(m) # 0
      BY Lots
    <3> QED
      BY <1>10, <3>1 DEF Staged, Quiet, Typed, Heads, LegOK, RealOpen, Traded
  <2>4. Entry(m.setup.id) \notin Active(cut)
    <3>1. RoleOf(Entry(m.setup.id)) \in EntryRoles
      BY DEF Entry, RoleOf, EntryRoles
    <3> QED
      BY <1>4, <1>8, <3>1 DEF Active, ActiveOf
  <2>5. Pending(cut) /\ Based(cut)
    BY <1>6, <2>4 DEF Pending, Based
  <2> QED
    BY <1>6, <1>7, <1>10, <2>2, <2>3, <2>5, BookedStaged
<1>15. Tallies(m, cut)
  <2> SUFFICES ASSUME Tally(m)
               PROVE  Tally(cut)
    BY DEF Tallies
  <2>1. Grows(m, cut, o, q)
    BY <1>1, <1>4, <1>6 DEF Grows, Follows, Tends
  <2>2. /\ RoleOf(o) # "BASE_ENTRY" /\ RoleOf(o) # "ADDON_ENTRY"
        /\ m.base.qty \in Nat /\ m.base.cut \in Nat /\ m.addon.qty \in Nat /\ m.addon.cut \in Nat
    BY DEF EntryRoles, Typed, Heads, LegOK
  <2>3. /\ cut.base.qty + cut.base.cut = m.base.qty + m.base.cut + 0
        /\ cut.addon.qty + cut.addon.cut = m.addon.qty + m.addon.cut + 0
        /\ cut.base.cut + cut.addon.cut = m.base.cut + m.addon.cut + q
    BY <1>5, <1>6, <2>2
  <2> QED
    BY <2>1, <2>2, <2>3, GrownTally
<1>11. ASSUME NEW p, Still(cut, p), Follows(cut, p)
       PROVE  Fills(m, p)
  <2>1. Moves(cut, p)
    BY <1>11, FollowsMoves
  <2>2. Staged(m) => Gentle(cut, p)
    BY <1>6, <1>7, <1>10, <1>11 DEF Gentle, Follows, Same
  <2> QED
    BY <1>6, <1>9, <1>10, <1>11, <1>15, <2>1, <2>2, MovesStaged, GoesTrans, MovesTally, TalliesTrans
       DEF Follows, Fills, Still, Calm
<1>12. Still(cut, flat) /\ Follows(cut, flat)
  BY <1>6, CancelAllStill, CancelAllFollows
<1>13. Still(cut, refreshed) /\ Follows(cut, refreshed)
  BY <1>6, <1>9, TakeProfitStill, TakeProfitFollows DEF Goes
<1> HIDE DEF flat, refreshed
<1>14. Fills(m, n)
  BY <1>2, <1>11, <1>12, <1>13
<1> QED
  BY <1>14 DEF n, b

\* A fill that is not refused.
LEMMA FillFares ==
    ASSUME NEW m, Typed(m), Numbered(m), NEW o \in DOMAIN m.orders, NEW q \in Nat, q > 0,
           NEW full, NEW valid, NEW moved, NEW cumOK, ~FillRefused(m, o, q, cumOK)
    PROVE  Fares(m, OnFill(m, o, q, full, valid, moved))
<1> DEFINE n == OnFill(m, o, q, full, valid, moved)
<1>1. /\ SetupOf(o) = m.setup.id /\ HasSetup(m)
      /\ RoleOf(o) \in EntryRoles => m.setup.pend = None
      /\ RoleOf(o) \notin EntryRoles => q <= RealOpen(m)
      /\ RoleOf(o) \in ReducingRoles => (q > m.addon.qty => m.life = "EXIT_PENDING")
  BY Lots DEF FillRefused
<1>2. n = IF RoleOf(o) \in EntryRoles THEN EntryFill(Book(m, o, q, full), o, q, full, valid, moved)
          ELSE IF RoleOf(o) \in ReducingRoles THEN AddonReduction(Book(m, o, q, full), q)
          ELSE WholeExitFill(Book(m, o, q, full), o, q)
  BY DEF OnFill, Book
<1> HIDE DEF n
<1>3. ASSUME RoleOf(o) \in EntryRoles
      PROVE  Fills(m, n)
  BY <1>1, <1>2, <1>3, EntryFillFares
<1>4. ASSUME RoleOf(o) \in ReducingRoles
      PROVE  Fills(m, n)
  <2>1. RoleOf(o) \notin EntryRoles
    BY <1>4 DEF ReducingRoles, EntryRoles
  <2> QED
    BY <1>1, <1>2, <1>4, <2>1, AddonReductionFares
<1>5. ASSUME RoleOf(o) \notin EntryRoles \cup ReducingRoles
      PROVE  Fills(m, n)
  BY <1>1, <1>2, <1>5, WholeExitFillFares
<1>6. Fills(m, n)
  BY <1>3, <1>4, <1>5
<1> QED
  BY <1>6 DEF Fills, Fares, Ends, n

----------------------------------------------------------------------------
(* Position, funding, limits, forced closes.                               *)

\* What touches none of ledger, legs and names, and sets recovery at most.
LEMMA AsideFares ==
    ASSUME NEW m, Typed(m), NEW n, n.orders = m.orders, n.outbox.subs = m.outbox.subs,
           n.out.subs = m.out.subs, n.base = m.base, n.addon = m.addon, n.setup = m.setup,
           n.addons = m.addons, n.execs = m.execs, n.life = m.life,
           n.recovery = m.recovery \/ n.recovery = TRUE
    PROVE  Moves(m, n) /\ Gentle(m, n) /\ Fares(m, n)
<1>1. Subs(n) = Subs(m)
  BY DEF Subs
<1>2. Moves(m, n)
  BY <1>1, SameMoves
<1>3. Gentle(m, n)
  BY DEF Gentle, NewIn
<1> QED
  BY <1>2, <1>3, MovesFare

\* Observing a drift, before the orders are canceled.
LEMMA DriftedMoves ==
    ASSUME NEW m, Typed(m), NEW actual \in Int
    PROVE  Moves(m, Drifted(m, actual))
<1> DEFINE pend == IF HasSetup(m) THEN "ENGINE_ERROR" ELSE m.setup.pend
           n == [m EXCEPT !.recovery = TRUE, !.drift = [seen |-> TRUE, qty |-> actual],
                          !.life = "EXIT_PENDING", !.setup.pend = pend]
<1>1. pend = m.setup.pend \/ pend # None
  BY DEF None
<1>2. Drifted(m, actual) = n
  BY DEF Drifted
<1> HIDE DEF pend
<1>3. /\ n.orders = m.orders /\ n.outbox = m.outbox /\ n.out = m.out /\ n.base = m.base /\ n.addon = m.addon
      /\ n.setup.id = m.setup.id /\ n.setup.bs = m.setup.bs /\ n.setup.tp = m.setup.tp
      /\ n.setup.final = m.setup.final /\ n.setup.pend = pend /\ n.addons = m.addons /\ n.execs = m.execs
  BY DEF Typed, Heads, Fields, SetupOK
<1> HIDE DEF n
<1>4. Subs(n) = Subs(m)
  BY <1>3 DEF Subs
<1>5. Moves(m, n)
  BY <1>1, <1>3, <1>4, SameMoves
<1> QED
  BY <1>2, <1>5

\* Canceling everything, then asking or closing what the venue holds.
LEMMA QuietedMoves ==
    ASSUME NEW m, Typed(m), NEW reason, NEW discriminator, NEW actual \in Int
    PROVE  LET quiet == CancelAll(m, reason)
               closing == CloseActual(quiet, "ENGINE_ERROR", discriminator, actual)
           IN  /\ Moves(m, quiet) /\ Moves(m, Ask(quiet)) /\ Moves(m, closing)
               /\ Same(m, quiet) /\ Same(m, Ask(quiet)) /\ Same(m, closing)
               /\ NewIn(m, Ask(quiet)) = {}
<1> DEFINE quiet == CancelAll(m, reason)
           closing == CloseActual(quiet, "ENGINE_ERROR", discriminator, actual)
<1>1. Still(m, quiet) /\ Follows(m, quiet)
  BY CancelAllStill, CancelAllFollows
<1> HIDE DEF quiet
<1>2. Still(quiet, Ask(quiet)) /\ Follows(quiet, Ask(quiet))
  BY <1>1, AskStill, CancelsFollow DEF Still
<1>3. Still(quiet, closing) /\ Follows(quiet, closing)
  <2>1. "ENGINE_ERROR" \in CloseReasons
    BY DEF CloseReasons
  <2> QED
    BY <1>1, <2>1, CloseActualStill, CloseActualFollows DEF Still
<1> HIDE DEF closing
<1>4. Moves(m, quiet) /\ Moves(quiet, Ask(quiet)) /\ Moves(quiet, closing)
  BY <1>1, <1>2, <1>3, FollowsMoves
<1>5. Moves(m, Ask(quiet)) /\ Moves(m, closing)
  BY <1>4, MovesTrans
<1>6. Same(m, quiet) /\ Same(m, Ask(quiet)) /\ Same(m, closing)
  BY <1>1, <1>2, <1>3 DEF Follows, Same
<1>7. NewIn(m, Ask(quiet)) = {}
  <2>1. DOMAIN quiet.orders = DOMAIN m.orders
    BY CancelAllFollows DEF quiet
  <2>2. Ask(quiet).orders = quiet.orders
    BY <1>1 DEF Ask, Still, Typed, Heads, Fields
  <2> QED
    BY <2>1, <2>2 DEF NewIn
<1> QED
  BY <1>4, <1>5, <1>6, <1>7 DEF quiet, closing

\* A report of the position: as expected, or a drift.
LEMMA PositionChangedFares ==
    ASSUME NEW m, Typed(m), NEW actual \in Int
    PROVE  LET n == OnPositionChanged(m, actual)
           IN  Moves(m, n) /\ (actual = ExpectedSigned(m) => Fares(m, n))
<1> DEFINE clear == [m EXCEPT !.drift = NoDrift]
           exiting == Drifted(m, actual)
           asked == Ask(exiting)
           quiet == CancelAll(asked, "POSITION_DRIFT")
           closing == CloseActual(quiet, "ENGINE_ERROR", <<"position-drift", {}>>, actual)
<1>1. Moves(m, clear) /\ Fares(m, clear)
  <2>1. /\ clear.orders = m.orders /\ clear.outbox = m.outbox /\ clear.out = m.out
        /\ clear.base = m.base /\ clear.addon = m.addon /\ clear.setup = m.setup
        /\ clear.addons = m.addons /\ clear.execs = m.execs /\ clear.life = m.life
        /\ clear.recovery = m.recovery
    BY DEF Typed, Heads, Fields
  <2> HIDE DEF clear
  <2> QED
    BY <2>1, AsideFares
<1>2. Still(m, exiting) /\ Moves(m, exiting)
  BY DriftedStill, DriftedMoves
<1>3. OnPositionChanged(m, actual) =
          IF actual = ExpectedSigned(m) THEN clear ELSE IF actual = 0 THEN quiet ELSE closing
  BY DEF OnPositionChanged, Drifted
<1> HIDE DEF exiting
<1>4. Typed(asked) /\ Moves(exiting, asked)
  <2>1. Still(exiting, asked) /\ Follows(exiting, asked)
    BY <1>2, AskStill, CancelsFollow DEF Still
  <2> QED
    BY <2>1, FollowsMoves DEF Still
<1> HIDE DEF asked
<1>5. Moves(asked, quiet) /\ Moves(asked, closing)
  BY <1>4, QuietedMoves
<1>6. Moves(m, quiet) /\ Moves(m, closing)
  BY <1>2, <1>4, <1>5, MovesTrans
<1> HIDE DEF clear, quiet, closing
<1> QED
  BY <1>1, <1>3, <1>6

\* The final verdict: nothing is open or alive after it.
LEMMA PositionClosedFares ==
    ASSUME NEW m, Typed(m), m.out = NoIntents, NEW reason \in CloseReasons, NEW net \in Int, NEW scope,
           ~PositionClosedRefused(m, reason, net, scope), "early" \notin Faults => RealOpen(m) = 0
    PROVE  Fares(m, OnPositionClosed(m, reason, net, scope))
<1> DEFINE unknown == Ask([m EXCEPT !.recovery = TRUE])
           final == [m EXCEPT !.setup.final = reason, !.setup.pend = reason,
                              !.setup.print = net, !.net = net,
                              !.base = Settle(@), !.addon = Settle(@),
                              !.life = "EXIT_PENDING"]
           n == CancelAll(final, "FLAT_ORPHAN")
<1>1. Fares(m, unknown)
  <2>1. /\ unknown.orders = m.orders /\ unknown.outbox = m.outbox /\ unknown.out.subs = m.out.subs
        /\ unknown.base = m.base /\ unknown.addon = m.addon /\ unknown.setup = m.setup
        /\ unknown.addons = m.addons /\ unknown.execs = m.execs /\ unknown.life = m.life
        /\ unknown.recovery = TRUE
    BY DEF Ask, Typed, Heads, Fields, Outboxes, IntentsOK
  <2> HIDE DEF unknown
  <2> QED
    BY <2>1, AsideFares
<1>2. Fares(m, m)
  BY GoesSelf DEF Fares, Ends, Tallies
<1>3. ASSUME HasSetup(m), scope, m.setup.final = None
      PROVE  Fares(m, n)
  <2>1. Traded(m)
    BY <1>3 DEF PositionClosedRefused
  <2>2. Typed(final)
    <3>1. LegOK(Settle(m.base)) /\ LegOK(Settle(m.addon))
      BY DEF Typed, Heads, LegOK, Settle
    <3> QED
      BY <3>1 DEF Typed, Heads, Fields, Ledger, Outboxes, IntentsOK, SetupOK, Lifecycles, Reasons
  <2>3. /\ final.orders = m.orders /\ final.outbox = m.outbox /\ final.out = m.out
        /\ final.setup.id = m.setup.id /\ final.setup.bs = m.setup.bs /\ final.setup.tp = m.setup.tp
        /\ final.setup.final = reason /\ final.setup.pend = reason
        /\ final.addons = m.addons /\ final.execs = m.execs /\ final.life = "EXIT_PENDING"
        /\ final.base = Settle(m.base) /\ final.addon = Settle(m.addon)
    BY DEF Typed, Heads, Fields, SetupOK
  <2>4. RealOpen(final) = 0 /\ Traded(final)
    BY <2>1, <2>3 DEF Typed, Heads, LegOK, Settle, RealOpen, Traded
  <2> HIDE DEF final
  <2>5. Goes(m, final)
    <3>1. Subs(final) = Subs(m)
      BY <2>3 DEF Subs
    <3> QED
      BY <2>3, <3>1, SameGoes
  <2>6. /\ Still(final, n) /\ Follows(final, n) /\ Active(n) = {} /\ Subs(n) = final.out.subs
        /\ DOMAIN n.orders = DOMAIN final.orders /\ n.setup = final.setup
    BY <2>2, CancelAllStill, CancelAllFollows
  <2> HIDE DEF n
  <2>7. Goes(m, n)
    BY <2>5, <2>6, GoesTrans DEF Follows
  <2>8. ASSUME Staged(m)
        PROVE  Staged(n) /\ Ends(m, n)
    <3>1. RealOpen(n) = 0 /\ Traded(n) /\ n.setup.id = m.setup.id /\ HasSetup(n)
      BY <1>3, <2>3, <2>4, <2>6 DEF Still, Calm, RealOpen, Traded, HasSetup
    <3>2. n.life = "EXIT_PENDING" /\ n.setup.pend = reason /\ reason # None
      BY <2>3, <2>6 DEF Follows, Same, CloseReasons, None
    <3>3. Active(n) = {} /\ Subs(n) = {}
      BY <2>3, <2>6 DEF NoIntents
    <3>4. Rooted(n)
      <4>1. \A x \in DOMAIN m.orders : n.orders[x].fill = m.orders[x].fill
        BY <2>3, <2>6 DEF Follows, Tends
      <4> QED
        BY <1>3, <2>1, <2>3, <2>6, <2>8, <3>1, <3>2, <4>1 DEF Staged, Rooted
    <3>5. Owned(n) /\ Pending(n) /\ Quiet(n) /\ Based(n)
      BY <3>1, <3>2, <3>3 DEF Owned, Pending, Quiet, Based
    <3> QED
      BY <3>1, <3>4, <3>5 DEF Staged, Ends
  <2>9. Tallies(m, final)
    <3> SUFFICES ASSUME RealOpen(m) = 0
                 PROVE  Tallies(m, final)
      BY DEF Tallies
    <3>1. final.base.qty = m.base.qty /\ final.base.cut = m.base.cut
          /\ final.addon.qty = m.addon.qty /\ final.addon.cut = m.addon.cut
      BY <2>3 DEF Typed, Heads, LegOK, Settle, RealOpen
    <3> QED
      BY <2>3, <3>1, TalliesKept DEF NewIn
  <2>10. Tallies(m, n)
    BY <2>6, <2>9, FollowsMoves, MovesTally, TalliesTrans
  <2> QED
    BY <2>7, <2>8, <2>10 DEF Fares
<1> HIDE DEF unknown, n
<1>4. OnPositionClosed(m, reason, net, scope) =
          IF ~HasSetup(m) \/ ~scope THEN unknown ELSE IF m.setup.final # None THEN m ELSE n
  BY DEF OnPositionClosed, unknown, n
<1>5. CASE ~HasSetup(m) \/ ~scope
  BY <1>1, <1>4, <1>5
<1>6. CASE HasSetup(m) /\ scope
  BY <1>2, <1>3, <1>4, <1>6
<1> QED
  BY <1>5, <1>6

\* Funding.
LEMMA FundingFares ==
    ASSUME NEW m, Typed(m), NEW settlement, NEW amount
    PROVE  Fares(m, OnFunding(m, settlement, amount))
<1> DEFINE m1 == [m EXCEPT !.settled = @ \cup {settlement}]
           owing == [m1 EXCEPT !.owed = @ \cup {settlement}, !.recovery = TRUE]
           n == OnFunding(m, settlement, amount)
<1>1. n = m1 \/ n = [m1 EXCEPT !.net = @ + amount] \/ n = Ask(owing)
  BY DEF OnFunding
<1>2. /\ n.orders = m.orders /\ n.outbox = m.outbox /\ n.out.subs = m.out.subs
      /\ n.base = m.base /\ n.addon = m.addon /\ n.setup = m.setup
      /\ n.addons = m.addons /\ n.execs = m.execs /\ n.life = m.life
      /\ n.recovery = m.recovery \/ n.recovery = TRUE
  <2> HIDE DEF n
  <2>1. CASE n = m1
    BY <2>1 DEF Typed, Heads, Fields
  <2>2. CASE n = [m1 EXCEPT !.net = @ + amount]
    BY <2>2 DEF Typed, Heads, Fields
  <2>3. CASE n = Ask(owing)
    BY <2>3 DEF Ask, Typed, Heads, Fields, Outboxes, IntentsOK
  <2> QED
    BY <1>1, <2>1, <2>2, <2>3
<1> HIDE DEF n
<1>3. Fares(m, n)
  BY <1>2, AsideFares
<1> QED
  BY <1>3 DEF n

\* A risk limit or the operator closes the position.
LEMMA ForcedCloseFares ==
    ASSUME NEW m, Typed(m), NEW reason \in CloseReasons, NEW discriminator
    PROVE  Fares(m, OnForcedClose(m, reason, discriminator))
<1> DEFINE exiting == [m EXCEPT !.setup.pend = reason, !.life = "EXIT_PENDING"]
           withdrawn == CancelRoles(exiting, EntryRoles)
           n == CloseOpen(withdrawn, reason, discriminator)
<1>1. Still(m, exiting)
  BY DEF Typed, Heads, Fields, Ledger, Outboxes, IntentsOK, SetupOK, Lifecycles, Reasons, Calm, Still
<1>2. Moves(m, exiting) /\ exiting.life = "EXIT_PENDING" /\ exiting.recovery = m.recovery
  <2>1. /\ exiting.orders = m.orders /\ exiting.outbox = m.outbox /\ exiting.out = m.out
        /\ exiting.base = m.base /\ exiting.addon = m.addon /\ exiting.setup.id = m.setup.id
        /\ exiting.setup.bs = m.setup.bs /\ exiting.setup.tp = m.setup.tp
        /\ exiting.setup.final = m.setup.final /\ exiting.setup.pend = reason
        /\ exiting.addons = m.addons /\ exiting.execs = m.execs /\ exiting.life = "EXIT_PENDING"
        /\ exiting.recovery = m.recovery
    BY DEF Typed, Heads, Fields, SetupOK
  <2>2. reason # None
    BY DEF CloseReasons, None
  <2> HIDE DEF exiting
  <2>3. Subs(exiting) = Subs(m)
    BY <2>1 DEF Subs
  <2> QED
    BY <2>1, <2>2, <2>3, SameMoves
<1> HIDE DEF exiting
<1>3. Still(exiting, withdrawn) /\ Follows(exiting, withdrawn)
  BY <1>1, CancelRolesStill, CancelRolesFollows DEF Still
<1> HIDE DEF withdrawn
<1>4. Still(withdrawn, n) /\ Follows(withdrawn, n)
  BY <1>3, CloseOpenStill, CloseOpenFollows DEF Still
<1> HIDE DEF n
<1>5. Moves(exiting, withdrawn) /\ Moves(withdrawn, n)
  BY <1>3, <1>4, FollowsMoves
<1>6. Moves(m, n)
  BY <1>2, <1>5, MovesTrans
<1>7. ASSUME RealOpen(m) # 0, HasSetup(m)
      PROVE  Fares(m, n)
  <2>1. n.life # "BASE_PENDING" /\ n.recovery = m.recovery
    BY <1>2, <1>3, <1>4 DEF Follows, Same
  <2>2. Staged(m) => Gentle(m, n)
    BY <1>7, <2>1 DEF Gentle, Staged, Quiet
  <2> QED
    BY <1>6, <2>2, MovesFare
<1>8. Fares(m, m)
  BY GoesSelf DEF Fares, Ends, Tallies
<1> QED
  BY <1>7, <1>8 DEF OnForcedClose, exiting, withdrawn, n

\* A restored snapshot is reconciled.
LEMMA RecoveryLoadedFares ==
    ASSUME NEW m, Typed(m)
    PROVE  Fares(m, OnRecoveryLoaded(m))
<1> DEFINE n == Ask([m EXCEPT !.recovery = TRUE])
<1>1. /\ n.orders = m.orders /\ n.outbox = m.outbox /\ n.out.subs = m.out.subs
      /\ n.base = m.base /\ n.addon = m.addon /\ n.setup = m.setup
      /\ n.addons = m.addons /\ n.execs = m.execs /\ n.life = m.life /\ n.recovery = TRUE
  BY DEF Ask, Typed, Heads, Fields, Outboxes, IntentsOK
<1> HIDE DEF n
<1>2. Fares(m, n)
  BY <1>1, AsideFares
<1> QED
  BY <1>2 DEF OnRecoveryLoaded, n

----------------------------------------------------------------------------
(* Bars.                                                                   *)

\* A setup opens where nothing is alive: its entry is its only order.
LEMMA CreateBaseSetupFares ==
    ASSUME NEW m, Typed(m), m.recovery # TRUE, ~HasSetup(m), NEW side \in {1, -1}
    PROVE  Fares(m, CreateBaseSetup(m, side))
<1> DEFINE id == m.born + 1
           opened == [m EXCEPT !.born = id, !.net = 0, !.base = EmptyLeg, !.addon = EmptyLeg,
                               !.setup = [NoSetup EXCEPT !.id = id, !.side = side],
                               !.life = "BASE_PENDING"]
           entry == <<"BASE_ENTRY", id, 1>>
           n == Register(opened, entry, BaseLots, side)
<1>1. m.born \in Nat /\ id \in Nat /\ id > m.born /\ id # 0
  BY DEF Typed, Heads
<1>2. /\ opened.orders = m.orders /\ opened.outbox = m.outbox /\ opened.out = m.out
      /\ opened.execs = m.execs /\ opened.addons = m.addons
      /\ opened.base = EmptyLeg /\ opened.addon = EmptyLeg /\ opened.born = id
      /\ opened.setup = [NoSetup EXCEPT !.id = id, !.side = side]
  BY DEF Typed, Heads, Fields
<1>3. /\ opened.setup.id = id /\ opened.setup.bs = 0 /\ opened.setup.tp = 0
      /\ opened.setup.final = None /\ opened.setup.pend = None
  <2> DEFINE fresh == [NoSetup EXCEPT !.id = id, !.side = side]
  <2>1. fresh.id = id /\ fresh.bs = 0 /\ fresh.tp = 0 /\ fresh.final = None /\ fresh.pend = None
    BY DEF NoSetup
  <2>2. opened.setup = fresh
    BY <1>2
  <2> HIDE DEF fresh, opened
  <2> QED
    BY <2>1, <2>2
<1>4. \A o \in DOMAIN m.orders : SetupOf(o) # id
  BY <1>1 DEF Typed, Ledger
<1>5. Typed(opened)
  <2>1. /\ SetupOK([NoSetup EXCEPT !.id = id, !.side = side]) /\ LegOK(EmptyLeg)
        /\ [NoSetup EXCEPT !.id = id, !.side = side].id = id
    BY <1>1 DEF SetupOK, LegOK, NoSetup, EmptyLeg, Reasons
  <2> DEFINE fresh == [NoSetup EXCEPT !.id = id, !.side = side]
  <2> HIDE DEF fresh
  <2>2. SetupOK(fresh) /\ fresh.id = id
    BY <2>1 DEF fresh
  <2>3. \A o \in DOMAIN m.orders : SetupOf(o) \in 0 .. m.born + 1
    BY <1>1 DEF Typed, Ledger
  <2>4. Typed([m EXCEPT !.born = id, !.net = 0, !.base = EmptyLeg, !.addon = EmptyLeg,
                        !.setup = fresh, !.life = "BASE_PENDING"])
    BY <1>1, <2>1, <2>2, <2>3
    DEF Typed, Heads, Fields, Ledger, Outboxes, IntentsOK, Lifecycles
  <2> QED
    BY <2>4 DEF fresh
<1>6. entry = Entry(id) /\ RoleOf(entry) = "BASE_ENTRY" /\ SetupOf(entry) = id
  BY DEF Entry, RoleOf, SetupOf
<1> HIDE DEF opened, entry, id
<1>7. entry \notin DOMAIN opened.orders
  BY <1>2, <1>4, <1>6
<1>8. /\ Later(opened, n) /\ (Orderly(opened) => Orderly(n)) /\ (Durable(opened) => Durable(n))
      /\ WaitingOf(n) = WaitingOf(opened) \cup {entry}
      /\ Subs(n) = Subs(opened) \cup {entry}
  BY <1>5, <1>6, <1>7, RegisterRest
<1>9. /\ DOMAIN n.orders = DOMAIN m.orders \cup {entry} /\ n.orders[entry].fill = 0
      /\ \A x \in DOMAIN m.orders : x # entry => n.orders[x] = m.orders[x]
      /\ n.execs = m.execs /\ n.addons = m.addons
      /\ n.setup = opened.setup /\ n.base = EmptyLeg /\ n.addon = EmptyLeg
  BY <1>2, <1>5, Registered
<1> HIDE DEF n
<1>10. Subs(opened) = Subs(m) /\ WaitingOf(opened) = WaitingOf(m)
  BY <1>2 DEF Subs, WaitingOf
<1>11. Goes(m, n)
  <2>1. Later(m, n)
    BY <1>2, <1>8, <1>10 DEF Later
  <2>2. Orderly(m) => Orderly(n)
    BY <1>2, <1>8, <1>10 DEF Orderly, Single
  <2>3. Durable(m) => Durable(n)
    BY <1>2, <1>8, <1>10 DEF Durable
  <2>4. Numbered(m) => Numbered(n)
    BY <1>1, <1>3, <1>4, <1>6, <1>9 DEF Numbered
  <2> QED
    BY <2>1, <2>2, <2>3, <2>4 DEF Goes
<1>12. ASSUME Staged(m)
       PROVE  Staged(n) /\ Ends(m, n)
  <2>1. Active(m) = {} /\ Subs(m) = {}
    BY <1>12 DEF Staged, Owned
  <2>2. Active(n) \subseteq {entry} /\ Subs(n) = {entry}
    BY <1>8, <1>9, <1>10, <2>1 DEF Active, ActiveOf
  <2>3. ~Traded(n) /\ HasSetup(n) /\ n.setup.id = id
    BY <1>1, <1>3, <1>9 DEF Traded, RealOpen, EmptyLeg, HasSetup
  <2>4. Rooted(n)
    BY <1>1, <1>4, <1>6, <1>9, <1>12, <2>3 DEF Staged, Rooted
  <2>5. Owned(n) /\ Pending(n) /\ Quiet(n) /\ Based(n)
    BY <1>3, <1>6, <1>9, <2>2, <2>3 DEF Owned, Pending, Quiet, Based
  <2> QED
    BY <2>4, <2>5 DEF Staged, Ends
<1>13. Fares(m, m)
  BY GoesSelf DEF Fares, Ends, Tallies
<1>14. Tally(n)
  <2>1. \A roles : LotsOf(n, roles) = {}
    BY <1>3, <1>4, <1>9, LotsOfIs
  <2>2. \A roles : Told(n, roles, 0)
    BY <2>1, FS_EmptySet DEF Told
  <2>3. n.base.qty = 0 /\ n.base.cut = 0 /\ n.addon.qty = 0 /\ n.addon.cut = 0
    BY <1>9 DEF EmptyLeg
  <2> QED
    BY <2>2, <2>3 DEF Tally
<1> QED
  BY <1>11, <1>12, <1>13, <1>14 DEF Tallies, CreateBaseSetup, Fares, n, opened, entry, id

\* An add-on is armed on an open base.
LEMMA ConsumeAddonFactMoves ==
    ASSUME NEW m, Typed(m), Numbered(m), HasSetup(m), RealOpen(m) > 0, NEW preview
    PROVE  LET n == ConsumeAddonFact(m, preview)
           IN  Moves(m, n) /\ (Staged(m) => Gentle(m, n))
<1> DEFINE noticed == [m EXCEPT !.setup.consumed = TRUE]
           armed == [m EXCEPT !.setup.consumed = TRUE, !.setup.areq = AddonLots,
                              !.addons = @ + 1, !.life = "ADDON_PENDING"]
           entry == <<"ADDON_ENTRY", m.setup.id, m.addons + 1>>
           n == Register(armed, entry, AddonLots, m.setup.side)
<1>1. Moves(m, noticed) /\ Gentle(m, noticed)
  <2>1. /\ noticed.orders = m.orders /\ noticed.outbox = m.outbox /\ noticed.out = m.out
        /\ noticed.base = m.base /\ noticed.addon = m.addon /\ noticed.setup.id = m.setup.id
        /\ noticed.setup.bs = m.setup.bs /\ noticed.setup.tp = m.setup.tp
        /\ noticed.setup.final = m.setup.final /\ noticed.setup.pend = m.setup.pend
        /\ noticed.addons = m.addons /\ noticed.execs = m.execs /\ noticed.life = m.life
        /\ noticed.recovery = m.recovery
    BY DEF Typed, Heads, Fields, SetupOK
  <2> HIDE DEF noticed
  <2>2. Subs(noticed) = Subs(m)
    BY <2>1 DEF Subs
  <2>3. Moves(m, noticed)
    BY <2>1, <2>2, SameMoves
  <2> QED
    BY <2>1, <2>3 DEF Gentle, NewIn
<1>2. Moves(m, m) /\ Gentle(m, m)
  BY SameMoves DEF Gentle, NewIn
<1>3. Still(m, armed)
  BY DEF Typed, Heads, Fields, Ledger, Outboxes, IntentsOK, SetupOK, Lifecycles, Calm, Still
<1>4. /\ armed.orders = m.orders /\ armed.outbox = m.outbox /\ armed.out = m.out
      /\ armed.base = m.base /\ armed.addon = m.addon /\ armed.setup.id = m.setup.id
      /\ armed.setup.bs = m.setup.bs /\ armed.setup.tp = m.setup.tp
      /\ armed.setup.final = m.setup.final /\ armed.setup.pend = m.setup.pend
      /\ armed.addons = m.addons + 1 /\ armed.execs = m.execs /\ armed.life = "ADDON_PENDING"
      /\ armed.recovery = m.recovery
  BY DEF Typed, Heads, Fields, SetupOK
<1> HIDE DEF armed
<1>5. Moves(m, armed)
  <2>1. Subs(armed) = Subs(m)
    BY <1>4 DEF Subs
  <2> QED
    BY <1>4, <2>1, SameMoves
<1>6. RoleOf(entry) = "ADDON_ENTRY" /\ SetupOf(entry) = m.setup.id /\ entry[3] = m.addons + 1
  BY DEF RoleOf, SetupOf
<1> HIDE DEF entry
<1>7. entry \notin DOMAIN m.orders
  BY <1>6 DEF Numbered
<1>8. Still(armed, n) /\ Follows(armed, n)
  <2>1. Typed(armed) /\ Registrable(armed, entry) /\ NumberOK(armed, entry)
    BY <1>3, <1>4, <1>6, <1>7 DEF Still, Registrable, NumberOK, RealOpen, Numbered
  <2>2. m.setup.side \in {1, -1} /\ AddonLots \in Nat /\ RoleOf(entry) \in Roles
    BY <1>6, ConfigAssumption DEF Typed, Heads, SetupOK, Roles, EntryRoles
  <2> QED
    BY <1>4, <1>6, <2>1, <2>2, RegisterStill, RegisterFollows
<1> HIDE DEF n
<1>9. Moves(m, n)
  BY <1>5, <1>8, FollowsMoves, MovesTrans
<1>10. Staged(m) => Gentle(m, n)
  BY <1>4, <1>8 DEF Gentle, Follows, Same, Staged, Quiet
<1> QED
  BY <1>1, <1>2, <1>9, <1>10 DEF ConsumeAddonFact, n, armed, entry

\* A bar.
LEMMA BarFares ==
    ASSUME NEW m, Typed(m), Numbered(m), NEW react \in {0, 1, -1}, NEW trigger, NEW preview, NEW moved,
           react # 0 => m.recovery # TRUE /\ ~HasSetup(m) /\ RealOpen(m) = 0,
           trigger => HasSetup(m) /\ RealOpen(m) > 0
    PROVE  Fares(m, OnBar(m, react, trigger, preview, moved))
<1> DEFINE stale == [m EXCEPT !.setup.stale = TRUE]
           m1 == IF moved /\ m.setup.tp # 0 THEN stale ELSE m
           m2 == IF react # 0 THEN CreateBaseSetup(m1, react) ELSE m1
           m3 == IF trigger THEN ConsumeAddonFact(m2, preview) ELSE m2
           n == IF RealOpen(m) > 0 /\ HasSetup(m) THEN UpsertTakeProfit(m3) ELSE m3
<1>1. OnBar(m, react, trigger, preview, moved) = n
  BY DEF OnBar
<1>2. Still(m, m1) /\ Follows(m, m1) /\ m1.recovery = m.recovery
  <2>1. Still(m, stale) /\ Follows(m, stale)
    <3>1. "TP" \in CloseReasons
      BY DEF CloseReasons
    <3> QED
      BY <3>1, SetupStill, SetupFollows
  <2>2. Still(m, m) /\ Follows(m, m)
    BY StillSelf, FollowsSelf
  <2> HIDE DEF stale
  <2> QED
    BY <2>1, <2>2 DEF Follows, Same
<1> HIDE DEF m1
<1>3. Typed(m1) /\ Numbered(m1) /\ RealOpen(m1) = RealOpen(m) /\ (HasSetup(m1) <=> HasSetup(m))
      /\ m1.life = m.life
  BY <1>2 DEF Still, Calm, RealOpen, HasSetup, Follows, Goes, Same
<1>4. Moves(m, m1) /\ (Staged(m) => Gentle(m, m1)) /\ Fares(m, m1)
  <2>1. Moves(m, m1)
    BY <1>2, FollowsMoves
  <2>2. NewIn(m, m1) = {} /\ m1.setup.pend = m.setup.pend
    BY DEF NewIn, m1, Typed, Heads, Fields, SetupOK
  <2>3. Gentle(m, m1)
    BY <1>2, <1>3, <2>2 DEF Gentle
  <2> QED
    BY <2>1, <2>3, MovesFare
<1>5. CASE react # 0
  <2>1. n = CreateBaseSetup(m1, react)
    BY <1>5, Lots
  <2>2. Fares(m1, CreateBaseSetup(m1, react))
    BY <1>2, <1>3, <1>5, CreateBaseSetupFares
  <2> HIDE DEF n
  <2>3. Goes(m, n) /\ Tallies(m, n) /\ (Staged(m) => Staged(n))
    BY <1>4, <2>1, <2>2, GoesTrans, TalliesTrans DEF Fares
  <2> QED
    BY <1>1, <1>5, <2>3 DEF Fares, Ends
<1>6. CASE react = 0
  <2>1. m2 = m1
    BY <1>6
  <2> HIDE DEF m2
  <2>2. Moves(m1, m3) /\ (Staged(m1) => Gentle(m1, m3)) /\ Typed(m3) /\ Numbered(m3)
    <3>1. CASE trigger
      BY <1>3, <2>1, <3>1, ConsumeAddonFactMoves, ConsumeAddonFactKept DEF Kept, Moves, Goes
    <3>2. CASE ~trigger
      BY <1>3, <2>1, <3>2, SameMoves DEF Gentle, NewIn
    <3> QED
      BY <3>1, <3>2
  <2>3. Fares(m1, m3)
    BY <1>3, <2>2, MovesFare
  <2> HIDE DEF m3
  <2>4. Goes(m, m3) /\ Tallies(m, m3) /\ (Staged(m) => Staged(m3)) /\ m3.setup.id = m.setup.id
    BY <1>2, <1>4, <2>2, <2>3, GoesTrans, TalliesTrans DEF Fares, Moves, Still, Calm
  <2>5. ASSUME RealOpen(m) > 0, HasSetup(m)
        PROVE  Fares(m3, UpsertTakeProfit(m3)) /\ UpsertTakeProfit(m3).setup.id = m3.setup.id
    <3> DEFINE p == UpsertTakeProfit(m3)
    <3>1. Still(m3, p) /\ Follows(m3, p) /\ p.setup.pend = m3.setup.pend
      BY <2>2, TakeProfitStill, TakeProfitFollows
    <3> HIDE DEF p
    <3>2. Moves(m3, p)
      BY <3>1, FollowsMoves
    <3>3. RealOpen(m3) > 0 /\ HasSetup(m3)
      BY <1>3, <2>2, <2>5 DEF Moves, RealOpen, HasSetup
    <3>4. Staged(m3) => Gentle(m3, p)
      BY <3>1, <3>3 DEF Gentle, Follows, Same, Staged, Quiet
    <3>5. Fares(m3, p) /\ p.setup.id = m3.setup.id
      BY <2>2, <3>1, <3>2, <3>4, MovesFare DEF Still, Calm
    <3> QED
      BY <3>5 DEF p
  <2>6. Goes(m, n) /\ Tallies(m, n) /\ (Staged(m) => Staged(n)) /\ n.setup.id = m.setup.id
    <3>1. CASE RealOpen(m) > 0 /\ HasSetup(m)
      BY <2>4, <2>5, <3>1, GoesTrans, TalliesTrans DEF Fares
    <3>2. CASE ~(RealOpen(m) > 0 /\ HasSetup(m))
      BY <2>4, <3>2
    <3> QED
      BY <3>1, <3>2
  <2> QED
    BY <1>1, <2>6 DEF Fares, Ends
<1> QED
  BY <1>5, <1>6

----------------------------------------------------------------------------
(* Reconciliation.                                                         *)

\* What the checked invariants say of a setup that is pending or absent.
Sane(m) ==
    /\ m.life \in {"BASE_PENDING", "ADDON_PENDING"} => HasSetup(m)
    /\ ~HasSetup(m) => RealOpen(m) = 0

\* What any event does to the orders and the tally.
Past(m, n) ==
    /\ Later(m, n) /\ (Orderly(m) => Orderly(n)) /\ (Numbered(m) => Numbered(n))
    /\ Tallies(m, n)

\* What an event that agrees with the position does.
Resolves(m, n) ==
    /\ Past(m, n)
    /\ Staged(m) => Staged(n) /\ Ends(m, n) /\ (Durable(m) => Durable(n))

\* A handler that keeps the intents resolves.
LEMMA FaresResolve ==
    ASSUME NEW m, NEW n
    PROVE  (Fares(m, n) => Resolves(m, n)) /\ (Moves(m, n) => Past(m, n))
BY MovesTally DEF Fares, Resolves, Past, Goes, Moves

\* Adopting the venue's view and acknowledging what it shows.
LEMMA AdoptedMoves ==
    ASSUME NEW m, Typed(m), Orderly(m), NEW e, e.rich <=> e.open # {}
    PROVE  LET n == Heard(IF e.rich THEN Adopt(m, e.open) ELSE m, e)
           IN  /\ Moves(m, n) /\ NewIn(m, n) = {} /\ n.life = m.life /\ n.recovery = m.recovery
               /\ n.setup = m.setup /\ n.out = m.out
<1> DEFINE shown == e.open \cap Active(m)
           partial == {o \in shown : m.orders[o].fill > 0}
           accepted == Mark(m, shown, "ACCEPTED")
           adopted == Mark(accepted, partial, "PARTIALLY_FILLED")
           seen == IF e.rich THEN Adopt(m, e.open) ELSE m
           n == Heard(seen, e)
<1>1. /\ DOMAIN adopted.orders = DOMAIN m.orders /\ adopted.setup = m.setup
      /\ adopted.outbox = m.outbox /\ adopted.out = m.out /\ adopted.life = m.life
      /\ adopted.recovery = m.recovery /\ adopted.execs = m.execs /\ adopted.addons = m.addons
      /\ adopted.base = m.base /\ adopted.addon = m.addon
      /\ \A x \in DOMAIN m.orders :
          /\ adopted.orders[x].fill = m.orders[x].fill
          /\ adopted.orders[x].st = IF x \in partial THEN "PARTIALLY_FILLED"
                                    ELSE IF x \in shown THEN "ACCEPTED" ELSE m.orders[x].st
  <2> HIDE DEF partial, shown
  <2>1. /\ DOMAIN accepted.orders = DOMAIN m.orders /\ accepted.setup = m.setup
        /\ accepted.outbox = m.outbox /\ accepted.out = m.out /\ accepted.life = m.life
        /\ accepted.recovery = m.recovery /\ accepted.execs = m.execs /\ accepted.addons = m.addons
        /\ accepted.base = m.base /\ accepted.addon = m.addon
        /\ \A x \in DOMAIN m.orders :
            /\ accepted.orders[x].fill = m.orders[x].fill
            /\ accepted.orders[x].st = IF x \in shown THEN "ACCEPTED" ELSE m.orders[x].st
    BY DEF Mark, Typed, Heads, Fields, Ledger, RowOK
  <2>2. Typed(accepted)
    BY MarkStill DEF Still, Statuses, ActiveStatuses
  <2> HIDE DEF accepted
  <2>3. /\ DOMAIN adopted.orders = DOMAIN accepted.orders /\ adopted.setup = accepted.setup
        /\ adopted.outbox = accepted.outbox /\ adopted.out = accepted.out
        /\ adopted.life = accepted.life /\ adopted.recovery = accepted.recovery
        /\ adopted.execs = accepted.execs /\ adopted.addons = accepted.addons
        /\ adopted.base = accepted.base /\ adopted.addon = accepted.addon
        /\ \A x \in DOMAIN accepted.orders :
            /\ adopted.orders[x].fill = accepted.orders[x].fill
            /\ adopted.orders[x].st = IF x \in partial THEN "PARTIALLY_FILLED" ELSE accepted.orders[x].st
    BY <2>2 DEF Mark, Typed, Heads, Fields, Ledger, RowOK
  <2> HIDE DEF adopted
  <2> QED
    BY <2>1, <2>3
<1>2. Typed(seen)
  <2>1. Still(m, accepted)
    BY MarkStill DEF Statuses, ActiveStatuses
  <2> HIDE DEF accepted, partial
  <2>2. Still(accepted, adopted)
    BY <2>1, MarkStill DEF Still, Statuses, ActiveStatuses
  <2> HIDE DEF adopted
  <2>3. Adopt(m, e.open) = adopted
    BY DEF Adopt, adopted, accepted, partial
  <2> QED
    BY <2>2, <2>3 DEF Still
<1>3. seen = IF e.rich THEN adopted ELSE m
  BY DEF Adopt
<1> HIDE DEF seen, adopted
<1>4. /\ n.orders = seen.orders /\ n.setup = seen.setup /\ n.out = seen.out
      /\ n.outbox.subs = seen.outbox.subs \ e.open /\ n.life = seen.life
      /\ n.recovery = seen.recovery /\ n.execs = seen.execs /\ n.addons = seen.addons
      /\ n.base = seen.base /\ n.addon = seen.addon
  BY <1>2 DEF Heard, Ack, Typed, Heads, Fields, Outboxes, IntentsOK
<1> HIDE DEF n
<1>5. /\ DOMAIN n.orders = DOMAIN m.orders /\ n.setup = m.setup
      /\ n.outbox.subs = m.outbox.subs \ e.open /\ n.out = m.out /\ n.life = m.life
      /\ n.recovery = m.recovery /\ n.execs = m.execs /\ n.addons = m.addons
      /\ n.base = m.base /\ n.addon = m.addon
  BY <1>1, <1>3, <1>4
<1>6. \A x \in DOMAIN m.orders :
          /\ n.orders[x].fill = m.orders[x].fill
          /\ n.orders[x].st = IF e.rich /\ x \in partial THEN "PARTIALLY_FILLED"
                              ELSE IF e.rich /\ x \in shown THEN "ACCEPTED" ELSE m.orders[x].st
  BY <1>1, <1>3, <1>4
<1>7. \A x \in DOMAIN m.orders :
          /\ x \in shown <=> x \in e.open /\ m.orders[x].st \in ActiveStatuses
          /\ x \in partial <=> x \in shown /\ m.orders[x].fill > 0
          /\ m.orders[x].fill \in Nat
          /\ m.orders[x].st = "PARTIALLY_FILLED" => m.orders[x].fill > 0
  BY DEF Active, ActiveOf, Typed, Ledger, RowOK, Orderly
<1> HIDE DEF shown, partial
<1>8. ~e.rich => e.open = {}
  OBVIOUS
<1>9. ASSUME NEW x \in DOMAIN m.orders
      PROVE  /\ n.orders[x].fill = m.orders[x].fill
             /\ n.orders[x].st \in Waiting => m.orders[x].st \in Waiting
             /\ n.orders[x].st \in ActiveStatuses => m.orders[x].st \in ActiveStatuses
             /\ n.orders[x].st = "PARTIALLY_FILLED" =>
                  m.orders[x].st = "PARTIALLY_FILLED" \/ m.orders[x].fill > 0
  BY <1>6, <1>7, <1>9 DEF Waiting, ActiveStatuses
<1>10. ASSUME NEW x \in DOMAIN m.orders, n.orders[x].st = "INTENDED"
       PROVE  m.orders[x].st = "INTENDED" /\ (x \in Subs(m) => x \in Subs(n))
  <2>1. m.orders[x].st = "INTENDED" /\ x \notin e.open
    BY <1>6, <1>7, <1>8, <1>10 DEF ActiveStatuses
  <2> QED
    BY <1>5, <2>1 DEF Subs
<1>11. Subs(n) \subseteq Subs(m)
  BY <1>5 DEF Subs
<1>12. Moves(m, n) /\ NewIn(m, n) = {}
  BY <1>5, <1>9, <1>10, <1>11, RestatusMoves
<1> QED
  BY <1>5, <1>12 DEF n, seen

\* A setup that is let go of after its orders were canceled.
LEMMA RetiredResolves ==
    ASSUME NEW m, Typed(m), NEW p, Moves(m, p), NewIn(m, p) = {}, p.life = m.life,
           p.recovery = m.recovery, p.setup = m.setup, Typed(p), Staged(m) => Active(p) = {},
           NEW n, n.orders = p.orders, n.setup = NoSetup, n.execs = p.execs, n.addons = p.addons,
           Subs(n) = {}
    PROVE  Resolves(m, n)
<1>1. /\ Tally(n)
      /\ Later(p, n) /\ (Orderly(p) => Orderly(n)) /\ (Numbered(p) => Numbered(n))
      /\ Rooted(p) /\ Active(n) = {} /\ Subs(n) = {} => Staged(n) /\ Ends(p, n)
  BY LetGo
<1>2. Past(m, n)
  BY <1>1 DEF Moves, Goes, Later, Past, Tallies
<1>3. ASSUME Staged(m)
      PROVE  Staged(n) /\ Ends(m, n) /\ Durable(n)
  <2>1. Gentle(m, p)
    BY DEF Gentle
  <2>2. Rooted(p)
    BY <1>3, <2>1, MovesStaged DEF Staged
  <2>3. Active(n) = {}
    BY <1>3 DEF Active, ActiveOf
  <2>4. Durable(n)
    <3>1. \A o \in DOMAIN n.orders : RoleOf(o) \in Roles
      BY DEF Typed, Ledger
    <3> QED
      BY <2>3, <3>1 DEF Durable, Active, ActiveOf, ActiveStatuses
  <2> QED
    BY <1>1, <2>2, <2>3, <2>4 DEF Ends
<1> QED
  BY <1>2, <1>3 DEF Resolves

\* What retiring and clearing the outbox change.
LEMMA RetiredIs ==
    ASSUME NEW m, Typed(m), m.out.subs = {}, NEW reason
    PROVE  \A n \in {Retire(ClearOutbox(m)), Retire(SequentialTransition(ClearOutbox(m), reason))} :
               /\ n.orders = m.orders /\ n.setup = NoSetup /\ n.execs = m.execs
               /\ n.addons = m.addons /\ Subs(n) = {}
<1> DEFINE c == ClearOutbox(m)
           t == SequentialTransition(c, reason)
<1>1. /\ c.orders = m.orders /\ c.execs = m.execs /\ c.addons = m.addons /\ c.out = m.out
      /\ c.outbox.subs = {} /\ Typed(c)
  BY StoreStill DEF ClearOutbox, NoIntents, Typed, Heads, Fields, Still
<1> HIDE DEF c
<1>2. /\ t.orders = c.orders /\ t.execs = c.execs /\ t.addons = c.addons /\ t.out = c.out
      /\ t.outbox = c.outbox /\ Fields \subseteq DOMAIN t
  BY <1>1 DEF SequentialTransition, Typed, Heads, Fields
<1> HIDE DEF t
<1>3. ASSUME NEW x, Fields \subseteq DOMAIN x
      PROVE  LET n == Retire(x)
             IN  /\ n.orders = x.orders /\ n.setup = NoSetup /\ n.execs = x.execs
                 /\ n.addons = x.addons /\ n.out = x.out /\ n.outbox = x.outbox
  BY <1>3 DEF Retire, ClearSetup, Fields
<1>4. Fields \subseteq DOMAIN c
  BY <1>1 DEF Typed, Heads
<1>5. /\ Retire(c).orders = m.orders /\ Retire(c).setup = NoSetup /\ Retire(c).execs = m.execs
      /\ Retire(c).addons = m.addons /\ Subs(Retire(c)) = {}
  BY <1>1, <1>3, <1>4 DEF Subs
<1>6. /\ Retire(t).orders = m.orders /\ Retire(t).setup = NoSetup /\ Retire(t).execs = m.execs
      /\ Retire(t).addons = m.addons /\ Subs(Retire(t)) = {}
  BY <1>1, <1>2, <1>3 DEF Subs
<1> QED
  BY <1>5, <1>6 DEF c, t

\* Marking orders as canceled leaves the rest of the machine alone.
LEMMA CanceledIs ==
    ASSUME NEW m, Typed(m), NEW ids
    PROVE  LET p == Mark(m, ids, "CANCELED")
           IN  /\ Typed(p) /\ Moves(m, p) /\ NewIn(m, p) = {} /\ p.life = m.life
               /\ p.recovery = m.recovery /\ p.setup = m.setup /\ p.out = m.out
               /\ p.outbox = m.outbox /\ p.base = m.base /\ p.addon = m.addon
               /\ p.execs = m.execs /\ p.addons = m.addons
               /\ DOMAIN p.orders = DOMAIN m.orders
               /\ \A x \in DOMAIN m.orders :
                   /\ p.orders[x].fill = m.orders[x].fill
                   /\ p.orders[x].st = IF x \in ids THEN "CANCELED" ELSE m.orders[x].st
<1> DEFINE p == Mark(m, ids, "CANCELED")
<1>1. Still(m, p) /\ Follows(m, p)
  BY MarkStill, MarkFollows DEF Statuses, TerminalStatuses
<1>2. /\ DOMAIN p.orders = DOMAIN m.orders /\ p.life = m.life
      /\ p.recovery = m.recovery /\ p.setup = m.setup /\ p.out = m.out
      /\ p.outbox = m.outbox /\ p.base = m.base /\ p.addon = m.addon
      /\ p.execs = m.execs /\ p.addons = m.addons
      /\ \A x \in DOMAIN m.orders :
          /\ p.orders[x].fill = m.orders[x].fill
          /\ p.orders[x].st = IF x \in ids THEN "CANCELED" ELSE m.orders[x].st
  BY DEF Mark, Typed, Heads, Fields, Ledger, RowOK
<1> HIDE DEF p
<1>3. Moves(m, p) /\ NewIn(m, p) = {} /\ Typed(p)
  BY <1>1, <1>2, FollowsMoves DEF NewIn, Still
<1> QED
  BY <1>2, <1>3 DEF p

\* A flat reconciliation of a base entry that has not filled: it timed out, it
\* is not at the venue, or it was never sent.
LEMMA BasePendingResolves ==
    ASSUME NEW m, Typed(m), HasSetup(m), RealOpen(m) = 0, m.life = "BASE_PENDING", m.out.subs = {}
    PROVE  Resolves(m, ReconcileBasePending(m))
<1> DEFINE bases == {o \in DOMAIN m.orders : RoleOf(o) = "BASE_ENTRY" /\ SetupOf(o) = m.setup.id}
           absent == {o \in bases : m.orders[o].st \in ActiveStatuses \ {"INTENDED"}}
           marked == Mark(m, absent, "CANCELED")
           replayed == Replay(m, bases)
           clean == [replayed EXCEPT !.recovery = FALSE]
           asked == Ask([m EXCEPT !.recovery = TRUE])
<1>1. ASSUME Staged(m)
      PROVE  /\ Active(m) \subseteq {Entry(m.setup.id)} /\ Entry(m.setup.id) \in bases
             /\ \A o \in bases : o = Entry(m.setup.id)
  <2>1. ~Traded(m) /\ m.setup.pend = None
    BY <1>1 DEF Staged, Pending
  <2>2. Active(m) \subseteq {Entry(m.setup.id)}
    BY <1>1, <2>1, EntryAlone
  <2>3. \A o \in bases : o = Entry(m.setup.id)
    BY <1>1 DEF Staged, Rooted
  <2>4. Entry(m.setup.id) \in bases
    BY <1>1 DEF Staged, Rooted, Entry, RoleOf, SetupOf
  <2> QED
    BY <2>2, <2>3, <2>4
<1> HIDE DEF bases
<1>2. ASSUME NEW o \in bases, m.orders[o].st = "TIMED_OUT"
      PROVE  Resolves(m, Retire(ClearOutbox(m)))
  <2>1. Staged(m) => Active(m) = {}
    BY <1>1, <1>2 DEF Active, ActiveOf, ActiveStatuses
  <2>2. Moves(m, m) /\ NewIn(m, m) = {}
    BY SameMoves DEF NewIn
  <2> DEFINE n == Retire(ClearOutbox(m))
  <2>3. /\ n.orders = m.orders /\ n.setup = NoSetup /\ n.execs = m.execs
        /\ n.addons = m.addons /\ Subs(n) = {}
    BY RetiredIs
  <2> HIDE DEF n
  <2>4. Resolves(m, n)
    BY <2>1, <2>2, <2>3, RetiredResolves
  <2> QED
    BY <2>4 DEF n
<1>3. ASSUME absent # {}
      PROVE  Resolves(m, Retire(ClearOutbox(marked)))
  <2>1. /\ Typed(marked) /\ Moves(m, marked) /\ NewIn(m, marked) = {} /\ marked.life = m.life
        /\ marked.recovery = m.recovery /\ marked.setup = m.setup /\ marked.out = m.out
        /\ DOMAIN marked.orders = DOMAIN m.orders
        /\ \A x \in DOMAIN m.orders :
            marked.orders[x].st = IF x \in absent THEN "CANCELED" ELSE m.orders[x].st
    BY CanceledIs
  <2>2. Staged(m) => Entry(m.setup.id) \in absent
    BY <1>1, <1>3
  <2> HIDE DEF absent
  <2> HIDE DEF marked
  <2>3. Staged(m) => Active(marked) = {}
    BY <1>1, <2>1, <2>2 DEF Active, ActiveOf, ActiveStatuses
  <2> DEFINE n == Retire(ClearOutbox(marked))
  <2>4. /\ n.orders = marked.orders /\ n.setup = NoSetup /\ n.execs = marked.execs
        /\ n.addons = marked.addons /\ Subs(n) = {}
    BY <2>1, RetiredIs
  <2> HIDE DEF n
  <2>5. Resolves(m, n)
    BY <2>1, <2>3, <2>4, RetiredResolves
  <2> QED
    BY <2>5 DEF n
<1>4. Resolves(m, clean)
  <2>1. Still(m, replayed) /\ Follows(m, replayed) /\ replayed.orders = m.orders
        /\ replayed.setup = m.setup
    BY ReplayStill, ReplayFollows DEF Replay, Typed, Heads, Fields
  <2> HIDE DEF replayed
  <2>2. /\ clean.orders = replayed.orders /\ clean.setup = replayed.setup
        /\ clean.base = replayed.base /\ clean.addon = replayed.addon
        /\ clean.outbox = replayed.outbox /\ clean.out = replayed.out
        /\ clean.execs = replayed.execs /\ clean.addons = replayed.addons
        /\ clean.life = replayed.life
    BY <2>1 DEF Still, Typed, Heads, Fields
  <2> HIDE DEF clean
  <2>3. Subs(clean) = Subs(replayed)
    BY <2>2 DEF Subs
  <2>4. Moves(replayed, clean)
    BY <2>2, <2>3, SameMoves
  <2>5. Moves(m, clean)
    BY <2>1, <2>4, FollowsMoves, MovesTrans
  <2>6. Gentle(m, clean)
    BY <2>1, <2>2 DEF Gentle, NewIn, Follows, Same
  <2> QED
    BY <2>5, <2>6, MovesFare, FaresResolve
<1>5. Resolves(m, asked)
  <2>1. Fares(m, OnRecoveryLoaded(m))
    BY RecoveryLoadedFares
  <2> QED
    BY <2>1, FaresResolve DEF OnRecoveryLoaded
<1>6. ReconcileBasePending(m) =
          IF \E o \in bases : m.orders[o].st = "TIMED_OUT" THEN Retire(ClearOutbox(m))
          ELSE IF absent # {} THEN Retire(ClearOutbox(marked))
          ELSE IF Replayable(m, bases) # {} THEN clean ELSE asked
  BY DEF ReconcileBasePending, bases
<1> HIDE DEF absent, marked, clean, asked
<1> QED
  BY <1>2, <1>3, <1>4, <1>5, <1>6

\* A flat reconciliation of a setup that was exiting: every order is canceled.
LEMMA ExitingFares ==
    ASSUME NEW m, Typed(m), NEW waiting,
           waiting = {o \in DOMAIN m.orders : m.orders[o].st \in ActiveStatuses \cup {"CANCEL_PENDING"}}
    PROVE  LET exiting == [m EXCEPT !.life = "EXIT_PENDING", !.recovery = TRUE]
           IN  Fares(m, Ask(ClearOutbox(Mark(exiting, waiting, "CANCELED"))))
<1> DEFINE exiting == [m EXCEPT !.life = "EXIT_PENDING", !.recovery = TRUE]
           marked == Mark(exiting, waiting, "CANCELED")
           cleared == ClearOutbox(marked)
           n == Ask(cleared)
<1>1. /\ exiting.orders = m.orders /\ exiting.setup = m.setup /\ exiting.base = m.base
      /\ exiting.addon = m.addon /\ exiting.outbox = m.outbox /\ exiting.out = m.out
      /\ exiting.execs = m.execs /\ exiting.addons = m.addons
      /\ exiting.life = "EXIT_PENDING" /\ exiting.recovery = TRUE
  BY DEF Typed, Heads, Fields
<1>2. Typed(exiting)
  BY LifeRecoverStill DEF Still, Lifecycles
<1> HIDE DEF exiting
<1>3. /\ Typed(marked) /\ marked.life = exiting.life
      /\ marked.recovery = exiting.recovery /\ marked.setup = exiting.setup /\ marked.out = exiting.out
      /\ marked.base = exiting.base /\ marked.addon = exiting.addon
      /\ marked.execs = exiting.execs /\ marked.addons = exiting.addons
      /\ DOMAIN marked.orders = DOMAIN exiting.orders
      /\ \A x \in DOMAIN exiting.orders :
          /\ marked.orders[x].fill = exiting.orders[x].fill
          /\ marked.orders[x].st = IF x \in waiting THEN "CANCELED" ELSE exiting.orders[x].st
  BY <1>2, CanceledIs
<1> HIDE DEF marked
<1>4. /\ n.orders = marked.orders /\ n.setup = marked.setup /\ n.base = marked.base
      /\ n.addon = marked.addon /\ n.out.subs = marked.out.subs /\ n.outbox.subs = {}
      /\ n.execs = marked.execs /\ n.addons = marked.addons /\ n.life = marked.life
      /\ n.recovery = marked.recovery
  BY <1>3 DEF Ask, ClearOutbox, NoIntents, Typed, Heads, Fields, Outboxes, IntentsOK
<1> HIDE DEF n
<1>5. Subs(n) \subseteq Subs(m)
  BY <1>1, <1>3, <1>4 DEF Subs
<1>6. ASSUME NEW x \in DOMAIN m.orders
      PROVE  /\ n.orders[x].fill = m.orders[x].fill
             /\ n.orders[x].st \in Waiting => m.orders[x].st \in Waiting
             /\ n.orders[x].st \in ActiveStatuses => m.orders[x].st \in ActiveStatuses
             /\ n.orders[x].st # "INTENDED"
             /\ n.orders[x].st = "PARTIALLY_FILLED" => m.orders[x].st = "PARTIALLY_FILLED"
  <2>1. /\ n.orders[x].fill = m.orders[x].fill
        /\ n.orders[x].st = IF x \in waiting THEN "CANCELED" ELSE m.orders[x].st
    BY <1>1, <1>3, <1>4
  <2>2. x \in waiting <=> m.orders[x].st \in ActiveStatuses \cup {"CANCEL_PENDING"}
    OBVIOUS
  <2> QED
    BY <2>1, <2>2 DEF Waiting, ActiveStatuses
<1>7. Moves(m, n) /\ NewIn(m, n) = {}
  BY <1>1, <1>3, <1>4, <1>5, <1>6, RestatusMoves
<1>8. Gentle(m, n)
  BY <1>1, <1>3, <1>4, <1>7 DEF Gentle
<1>9. Fares(m, n)
  BY <1>7, <1>8, MovesFare
<1> QED
  BY <1>9 DEF n, cleared, marked, exiting

\* A flat reconciliation.
LEMMA FlatResolves ==
    ASSUME NEW m, Typed(m), Sane(m), RealOpen(m) = 0, m.out.subs = {}, NEW open
    PROVE  Resolves(m, ReconcileFlat(m, open))
<1> DEFINE waiting == {o \in DOMAIN m.orders : m.orders[o].st \in ActiveStatuses \cup {"CANCEL_PENDING"}}
           pending == [m EXCEPT !.recovery = FALSE]
           exiting == [m EXCEPT !.life = "EXIT_PENDING", !.recovery = TRUE]
           verdict == Retire(SequentialTransition(ClearOutbox(m), m.setup.final))
           canceled == Ask(ClearOutbox(Mark(exiting, waiting, "CANCELED")))
           marked == Mark(m, Active(m), "CANCELED")
           retired == Retire(ClearOutbox(marked))
           n == ReconcileFlat(m, open)
<1>1. HasSetup(m) => Resolves(m, pending)
  <2>1. /\ pending.orders = m.orders /\ pending.setup = m.setup /\ pending.base = m.base
        /\ pending.addon = m.addon /\ pending.outbox = m.outbox /\ pending.out = m.out
        /\ pending.execs = m.execs /\ pending.addons = m.addons /\ pending.life = m.life
    BY DEF Typed, Heads, Fields
  <2> HIDE DEF pending
  <2>2. Subs(pending) = Subs(m)
    BY <2>1 DEF Subs
  <2>3. Moves(m, pending)
    BY <2>1, <2>2, SameMoves
  <2>4. HasSetup(m) => Gentle(m, pending)
    BY <2>1 DEF Gentle, NewIn
  <2> QED
    BY <2>3, <2>4, MovesFare, FaresResolve
<1>2. Resolves(m, exiting)
  <2>1. /\ exiting.orders = m.orders /\ exiting.setup = m.setup /\ exiting.base = m.base
        /\ exiting.addon = m.addon /\ exiting.outbox = m.outbox /\ exiting.out = m.out
        /\ exiting.execs = m.execs /\ exiting.addons = m.addons
        /\ exiting.life = "EXIT_PENDING" /\ exiting.recovery = TRUE
    BY DEF Typed, Heads, Fields
  <2> HIDE DEF exiting
  <2>2. Subs(exiting) = Subs(m)
    BY <2>1 DEF Subs
  <2>3. Moves(m, exiting)
    BY <2>1, <2>2, SameMoves
  <2>4. Gentle(m, exiting)
    BY <2>1 DEF Gentle, NewIn
  <2> QED
    BY <2>3, <2>4, MovesFare, FaresResolve
<1>3. m.setup.final # None => Resolves(m, verdict)
  <2>1. /\ verdict.orders = m.orders /\ verdict.setup = NoSetup /\ verdict.execs = m.execs
        /\ verdict.addons = m.addons /\ Subs(verdict) = {}
    BY RetiredIs
  <2> HIDE DEF verdict
  <2>2. Moves(m, m) /\ NewIn(m, m) = {}
    BY SameMoves DEF NewIn
  <2>3. m.setup.final # None => (Staged(m) => Active(m) = {})
    BY DEF Staged, Quiet
  <2> QED
    BY <2>1, <2>2, <2>3, RetiredResolves
<1>4. Resolves(m, canceled)
  <2>1. waiting = {o \in DOMAIN m.orders : m.orders[o].st \in ActiveStatuses \cup {"CANCEL_PENDING"}}
    OBVIOUS
  <2> HIDE DEF waiting
  <2> QED
    BY <2>1, ExitingFares, FaresResolve
<1>5. Resolves(m, retired)
  <2>1. /\ Typed(marked) /\ Moves(m, marked) /\ NewIn(m, marked) = {} /\ marked.life = m.life
        /\ marked.recovery = m.recovery /\ marked.setup = m.setup /\ marked.out = m.out
        /\ DOMAIN marked.orders = DOMAIN m.orders
        /\ \A x \in DOMAIN m.orders :
            marked.orders[x].st = IF x \in Active(m) THEN "CANCELED" ELSE m.orders[x].st
    BY CanceledIs
  <2> HIDE DEF marked
  <2>2. Active(marked) = {}
    BY <2>1 DEF Active, ActiveOf, ActiveStatuses
  <2>3. /\ retired.orders = marked.orders /\ retired.setup = NoSetup /\ retired.execs = marked.execs
        /\ retired.addons = marked.addons /\ Subs(retired) = {}
    BY <2>1, RetiredIs
  <2> HIDE DEF retired
  <2> QED
    BY <2>1, <2>2, <2>3, RetiredResolves
<1>6. m.life = "BASE_PENDING" /\ HasSetup(m) => Resolves(m, ReconcileBasePending(m))
  BY BasePendingResolves
<1>7. \/ n = pending /\ m.life \in {"BASE_PENDING", "ADDON_PENDING"}
      \/ n = exiting
      \/ n = verdict /\ m.setup.final # None
      \/ n = canceled
      \/ n = ReconcileBasePending(m) /\ m.life = "BASE_PENDING" /\ HasSetup(m)
      \/ n = retired
  BY DEF ReconcileFlat
<1> HIDE DEF n, pending, exiting, verdict, canceled, retired
<1>8. Resolves(m, n)
  BY <1>1, <1>2, <1>3, <1>4, <1>5, <1>6, <1>7 DEF Sane
<1> QED
  BY <1>8 DEF n

\* A reconciliation of an entry that ended.
LEMMA PendingEntryMoves ==
    ASSUME NEW m, Typed(m), NEW open
    PROVE  LET n == ReconcilePendingEntry(m, open)
           IN  /\ Moves(m, n) /\ NewIn(m, n) = {} /\ n.life \in {m.life, "NONE"}
               /\ n.setup.pend = m.setup.pend
<1> DEFINE clean == [m EXCEPT !.recovery = FALSE]
           consumed == m.setup.consumed /\ ~(StochCross /\ m.addon.qty = 0)
           n == ReconcilePendingEntry(m, open)
<1>1. \/ n = clean \/ n = [m EXCEPT !.recovery = TRUE]
      \/ \E v : n = [clean EXCEPT !.life = "NONE", !.setup.consumed = v]
  BY DEF ReconcilePendingEntry
<1> HIDE DEF n
<1>2. /\ n.orders = m.orders /\ n.base = m.base /\ n.addon = m.addon
      /\ n.outbox = m.outbox /\ n.out = m.out /\ n.execs = m.execs /\ n.addons = m.addons
      /\ n.life \in {m.life, "NONE"} /\ n.setup.id = m.setup.id /\ n.setup.bs = m.setup.bs
      /\ n.setup.tp = m.setup.tp /\ n.setup.final = m.setup.final /\ n.setup.pend = m.setup.pend
  <2>1. CASE n = clean
    BY <2>1 DEF Typed, Heads, Fields
  <2>2. CASE n = [m EXCEPT !.recovery = TRUE]
    BY <2>2 DEF Typed, Heads, Fields
  <2>3. CASE \E v : n = [clean EXCEPT !.life = "NONE", !.setup.consumed = v]
    <3>1. PICK v : n = [clean EXCEPT !.life = "NONE", !.setup.consumed = v]
      BY <2>3
    <3> QED
      BY <3>1 DEF Typed, Heads, Fields, SetupOK
  <2> QED
    BY <1>1, <2>1, <2>2, <2>3
<1>3. Subs(n) = Subs(m) /\ NewIn(m, n) = {}
  BY <1>2 DEF Subs, NewIn
<1>4. Moves(m, n)
  BY <1>2, <1>3, SameMoves
<1> QED
  BY <1>2, <1>3, <1>4 DEF n

\* A reconciliation of an open position: what is missing and can be sent again
\* is, the rest is canceled, and what protected the position is replaced by a
\* close.
LEMMA OpenResolves ==
    ASSUME NEW m, Typed(m), HasSetup(m), RealOpen(m) > 0, NEW e, e.actual \in Int
    PROVE  Resolves(m, ReconcileOpen(m, e))
<1> DEFINE missing == Active(m) \ e.open
           lost == missing \ Replayable(m, missing)
           replayed == Replay(m, missing)
           marked == Mark(replayed, lost, "CANCELED")
           gone == Ack(marked, lost)
           exiting == [gone EXCEPT !.recovery = TRUE, !.life = "EXIT_PENDING"]
           quiet == CancelAll(exiting, "MISSING_PROTECTION")
           alone == [gone EXCEPT !.recovery = TRUE]
           pend == IF m.setup.pend = None THEN "ENGINE_ERROR" ELSE m.setup.pend
           n == ReconcileOpen(m, e)
<1>0. /\ \/ n = CloseActual(quiet, "ENGINE_ERROR", <<"missing-protection", lost>>, e.actual)
         \/ n = CloseActual(exiting, pend, <<"missing-whole-exit", e.seq>>, e.actual)
         \/ n = Ask(alone)
         \/ n = ReconcilePendingEntry(gone, e.open)
  BY DEF ReconcileOpen
<1> HIDE DEF n
<1> HIDE DEF missing, lost
<1>1. Still(m, replayed) /\ Follows(m, replayed) /\ replayed.setup = m.setup
  BY ReplayStill, ReplayFollows DEF Replay, Typed, Heads, Fields
<1> HIDE DEF replayed
<1>2. /\ Still(m, marked) /\ Follows(m, marked) /\ marked.setup = m.setup
      /\ \A x \in DOMAIN marked.orders : x \in lost => marked.orders[x].st # "INTENDED"
  <2>1. Still(replayed, marked) /\ Follows(replayed, marked)
    BY <1>1, MarkStill, MarkFollows DEF Still, Statuses, TerminalStatuses
  <2>2. /\ marked.setup = replayed.setup
        /\ DOMAIN marked.orders = DOMAIN replayed.orders
        /\ \A x \in DOMAIN replayed.orders :
            marked.orders[x].st = IF x \in lost THEN "CANCELED" ELSE replayed.orders[x].st
    BY <1>1, CanceledIs DEF Still
  <2> HIDE DEF marked
  <2> QED
    BY <1>1, <2>1, <2>2, StillTrans, FollowsTrans
<1> HIDE DEF marked
<1>3. Still(m, gone) /\ Follows(m, gone) /\ gone.setup = m.setup
  <2>1. Typed(marked)
    BY <1>2 DEF Still
  <2>2. Still(marked, gone) /\ Follows(marked, gone)
    BY <1>2, <2>1, AckStill, AckFollows
  <2>3. gone.setup = marked.setup
    BY <2>1 DEF Ack, Typed, Heads, Fields
  <2> HIDE DEF gone
  <2> QED
    BY <1>2, <2>2, <2>3, StillTrans, FollowsTrans
<1> HIDE DEF gone
<1>4. Typed(gone) /\ Moves(m, gone) /\ gone.life = m.life
  BY <1>3, FollowsMoves DEF Still, Follows, Same
<1>5. /\ Typed(exiting) /\ Moves(gone, exiting) /\ exiting.life = "EXIT_PENDING"
      /\ Typed(alone) /\ Moves(gone, alone) /\ alone.life = gone.life /\ alone.setup = gone.setup
      /\ exiting.setup = gone.setup
      /\ NewIn(gone, exiting) = {} /\ NewIn(gone, alone) = {}
  <2>1. Typed(exiting) /\ Typed(alone)
    BY <1>4, LifeRecoverStill, RecoverStill DEF Still, Lifecycles
  <2>2. /\ exiting.orders = gone.orders /\ exiting.base = gone.base /\ exiting.addon = gone.addon
        /\ exiting.outbox = gone.outbox /\ exiting.out = gone.out /\ exiting.execs = gone.execs
        /\ exiting.addons = gone.addons /\ exiting.setup = gone.setup
        /\ exiting.life = "EXIT_PENDING"
    BY <1>4 DEF Typed, Heads, Fields
  <2>3. /\ alone.orders = gone.orders /\ alone.base = gone.base /\ alone.addon = gone.addon
        /\ alone.outbox = gone.outbox /\ alone.out = gone.out /\ alone.execs = gone.execs
        /\ alone.addons = gone.addons /\ alone.setup = gone.setup /\ alone.life = gone.life
    BY <1>4 DEF Typed, Heads, Fields
  <2> HIDE DEF exiting, alone
  <2>4. Subs(exiting) = Subs(gone) /\ Subs(alone) = Subs(gone)
    BY <2>2, <2>3 DEF Subs
  <2>5. Moves(gone, exiting)
    BY <2>2, <2>4, SameMoves
  <2>6. Moves(gone, alone)
    BY <2>3, <2>4, SameMoves
  <2> QED
    BY <2>1, <2>2, <2>3, <2>5, <2>6 DEF NewIn
<1> HIDE DEF exiting, alone
<1>6. ASSUME Moves(gone, n), n.life # "BASE_PENDING" \/ (n.life = m.life /\ n.setup.pend = m.setup.pend)
      PROVE  Resolves(m, n)
  <2>1. Moves(m, n)
    BY <1>4, <1>6, MovesTrans
  <2>2. Staged(m) => Gentle(m, n)
    BY <1>6 DEF Gentle, Staged, Quiet
  <2> QED
    BY <2>1, <2>2, MovesFare, FaresResolve
<1>7. ASSUME n = CloseActual(quiet, "ENGINE_ERROR", <<"missing-protection", lost>>, e.actual)
      PROVE  Moves(gone, n) /\ n.life = "EXIT_PENDING"
  <2>1. Still(exiting, quiet) /\ Follows(exiting, quiet)
    BY <1>5, CancelAllStill, CancelAllFollows
  <2> HIDE DEF quiet
  <2>2. "ENGINE_ERROR" \in CloseReasons
    BY DEF CloseReasons
  <2>3. Still(quiet, n) /\ Follows(quiet, n)
    BY <1>7, <2>1, <2>2, CloseActualStill, CloseActualFollows DEF Still
  <2>4. Moves(exiting, quiet) /\ Moves(quiet, n)
    BY <2>1, <2>3, FollowsMoves
  <2>5. Moves(gone, n)
    BY <1>5, <2>4, MovesTrans
  <2> QED
    BY <1>5, <2>1, <2>3, <2>5 DEF Follows, Same
<1>8. ASSUME n = CloseActual(exiting, pend, <<"missing-whole-exit", e.seq>>, e.actual)
      PROVE  Moves(gone, n) /\ n.life = "EXIT_PENDING"
  <2>1. pend \in CloseReasons
    BY DEF Typed, Heads, SetupOK, Reasons, CloseReasons
  <2> HIDE DEF pend
  <2>2. Still(exiting, n) /\ Follows(exiting, n)
    BY <1>5, <1>8, <2>1, CloseActualStill, CloseActualFollows
  <2>3. Moves(gone, n)
    BY <1>5, <2>2, FollowsMoves, MovesTrans
  <2> QED
    BY <1>5, <2>2, <2>3 DEF Follows, Same
<1>9. ASSUME n = Ask(alone)
      PROVE  Moves(gone, n) /\ n.life = m.life /\ n.setup.pend = m.setup.pend
  <2>1. Still(alone, n) /\ Follows(alone, n) /\ n.setup = alone.setup
    BY <1>5, <1>9, AskStill, CancelsFollow DEF Ask, Typed, Heads, Fields
  <2>2. Moves(gone, n)
    BY <1>5, <2>1, FollowsMoves, MovesTrans
  <2> QED
    BY <1>3, <1>4, <1>5, <2>1, <2>2 DEF Follows, Same
<1>10. ASSUME n = ReconcilePendingEntry(gone, e.open)
       PROVE  Moves(gone, n) /\ n.life \in {m.life, "NONE"} /\ n.setup.pend = m.setup.pend
  BY <1>3, <1>4, <1>10, PendingEntryMoves
<1>11. Resolves(m, n)
  BY <1>0, <1>6, <1>7, <1>8, <1>9, <1>10
<1> QED
  BY <1>11 DEF n

\* A reconciliation that shows another position.
LEMMA MismatchMoves ==
    ASSUME NEW m, Typed(m), NEW actual \in Int
    PROVE  Moves(m, ReconcileMismatch(m, actual))
<1> DEFINE exiting == Drifted(m, actual)
           quiet == CancelAll(exiting, "RECONCILIATION_DRIFT")
           closing == CloseActual(quiet, "ENGINE_ERROR", <<"reconciliation-mismatch", {}>>, actual)
<1>1. Typed(exiting) /\ Moves(m, exiting)
  BY DriftedStill, DriftedMoves DEF Still
<1>2. ReconcileMismatch(m, actual) = IF actual = 0 THEN Ask(quiet) ELSE closing
  BY DEF ReconcileMismatch, Drifted
<1> HIDE DEF exiting
<1>3. Moves(exiting, Ask(quiet)) /\ Moves(exiting, closing)
  BY <1>1, QuietedMoves
<1> HIDE DEF quiet, closing
<1> QED
  BY <1>1, <1>2, <1>3, MovesTrans

\* Two in a row, the first of which leaves the legs alone.
LEMMA MovesResolve ==
    ASSUME NEW m, NEW s, NEW n, Typed(m), Moves(m, s), Gentle(m, s), Resolves(s, n)
    PROVE  Resolves(m, n)
<1>1. Staged(m) => Staged(s)
  BY MovesStaged
<1>2. Past(m, n)
  BY MovesTally, TalliesTrans DEF Moves, Goes, Resolves, Past, Later
<1>3. Ends(s, n) => Ends(m, n)
  BY DEF Moves, Ends, HasSetup
<1> QED
  BY <1>1, <1>2, <1>3 DEF Resolves, Moves, Goes

\* A reconciliation that is not refused.
LEMMA ReconciliationResolves ==
    ASSUME NEW m, Typed(m), Orderly(m), Sane(m), m.out = NoIntents, NEW e, e.actual \in Int,
           e.rich <=> e.open # {}
    PROVE  LET n == OnReconciliation(m, e)
           IN  Past(m, n) /\ (e.actual = ExpectedSigned(m) => Resolves(m, n))
<1> DEFINE heard == Heard(IF e.rich THEN Adopt(m, e.open) ELSE m, e)
           m1 == SendCancels(heard, e.open \ Active(heard), "RECONCILIATION_ORPHAN")
           settled == [m1 EXCEPT !.drift = NoDrift]
           blocked == Ask([m1 EXCEPT !.recovery = TRUE])
<1>0. OnReconciliation(m, e) =
          IF e.actual # ExpectedSigned(m) THEN ReconcileMismatch(m1, e.actual)
          ELSE IF m.owed # {} THEN blocked
          ELSE IF e.actual = 0 THEN ReconcileFlat(settled, e.open)
          ELSE ReconcileOpen(settled, e)
  BY DEF OnReconciliation
<1>1. /\ Typed(heard) /\ Moves(m, heard) /\ NewIn(m, heard) = {} /\ heard.life = m.life
      /\ heard.recovery = m.recovery /\ heard.setup = m.setup /\ heard.out = m.out
  BY HeardStill, AdoptedMoves DEF Still
<1> HIDE DEF heard
<1>2. /\ Typed(m1) /\ Moves(m, m1) /\ NewIn(m, m1) = {} /\ m1.life = m.life
      /\ m1.recovery = m.recovery /\ m1.setup = m.setup /\ m1.out.subs = {}
  <2>1. Still(heard, m1) /\ Follows(heard, m1)
    BY <1>1, SendCancelsStill, CancelsFollow
  <2>2. m1.orders = heard.orders /\ m1.setup = heard.setup /\ m1.out.subs = heard.out.subs
    BY <1>1 DEF SendCancels, Typed, Heads, Fields, Outboxes, IntentsOK
  <2> HIDE DEF m1
  <2>3. Moves(m, m1)
    BY <1>1, <2>1, FollowsMoves, MovesTrans
  <2> QED
    BY <1>1, <2>1, <2>2, <2>3 DEF Still, Follows, Same, NewIn, NoIntents
<1> HIDE DEF m1
<1>3. Gentle(m, m1)
  BY <1>2 DEF Gentle
<1>4. Past(m, ReconcileMismatch(m1, e.actual))
  <2>1. Moves(m, ReconcileMismatch(m1, e.actual))
    BY <1>2, MismatchMoves, MovesTrans
  <2> QED
    BY <2>1, FaresResolve
<1>5. Resolves(m, blocked)
  <2>1. Resolves(m1, blocked)
    BY <1>2, RecoveryLoadedFares, FaresResolve DEF OnRecoveryLoaded
  <2> QED
    BY <1>2, <1>3, <2>1, MovesResolve
<1>6. /\ settled.orders = m1.orders /\ settled.setup = m1.setup /\ settled.base = m1.base
      /\ settled.addon = m1.addon /\ settled.outbox = m1.outbox /\ settled.out = m1.out
      /\ settled.execs = m1.execs /\ settled.addons = m1.addons /\ settled.life = m1.life
      /\ settled.recovery = m1.recovery
  BY <1>2 DEF Typed, Heads, Fields
<1>7. Typed(settled)
  BY <1>2 DEF Typed, Heads, Fields, Ledger, Outboxes, IntentsOK, NoDrift
<1> HIDE DEF settled
<1>8. Moves(m, settled) /\ Gentle(m, settled)
  <2>1. Subs(settled) = Subs(m1)
    BY <1>6 DEF Subs
  <2>2. Moves(m1, settled)
    BY <1>6, <2>1, SameMoves
  <2>3. Moves(m, settled)
    BY <1>2, <2>2, MovesTrans
  <2>4. Gentle(m, settled)
    BY <1>2, <1>6 DEF Gentle, NewIn
  <2> QED
    BY <2>3, <2>4
<1>9. /\ RealOpen(settled) = RealOpen(m) /\ (HasSetup(settled) <=> HasSetup(m)) /\ settled.life = m.life
      /\ settled.out.subs = {}
  BY <1>2, <1>6, <1>8 DEF Moves, RealOpen, HasSetup
<1>10. ASSUME e.actual = ExpectedSigned(m), e.actual = 0
       PROVE  Resolves(m, ReconcileFlat(settled, e.open))
  <2>1. RealOpen(settled) = 0 /\ Sane(settled)
    BY <1>9, <1>10, Lots DEF Sane
  <2>2. Resolves(settled, ReconcileFlat(settled, e.open))
    BY <1>7, <1>9, <2>1, FlatResolves
  <2> QED
    BY <1>8, <2>2, MovesResolve
<1>11. ASSUME e.actual = ExpectedSigned(m), e.actual # 0
       PROVE  Resolves(m, ReconcileOpen(settled, e))
  <2>1. RealOpen(settled) > 0 /\ HasSetup(settled)
    BY <1>9, <1>11, Lots DEF ExpectedSigned
  <2>2. Resolves(settled, ReconcileOpen(settled, e))
    BY <1>7, <2>1, OpenResolves
  <2> QED
    BY <1>8, <2>2, MovesResolve
<1>12. \A n : Resolves(m, n) => Past(m, n)
  BY DEF Resolves
<1> HIDE DEF blocked
<1> QED
  BY <1>0, <1>4, <1>5, <1>10, <1>11, <1>12

----------------------------------------------------------------------------
(* The fail-safe.                                                          *)

\* Raising recovery mode.
LEMMA RescuedIs ==
    ASSUME NEW m, Typed(m)
    PROVE  /\ Typed(Rescued(m)) /\ Moves(m, Rescued(m)) /\ NewIn(m, Rescued(m)) = {}
           /\ Rescued(m).life = m.life /\ Rescued(m).recovery = TRUE /\ Rescued(m).setup = m.setup
           /\ Rescued(m).base = m.base /\ Rescued(m).addon = m.addon /\ Rescued(m).drift = m.drift
<1> DEFINE n == Rescued(m)
<1>1. /\ n.orders = m.orders /\ n.setup = m.setup /\ n.base = m.base
      /\ n.addon = m.addon /\ n.outbox = m.outbox /\ n.out = m.out
      /\ n.execs = m.execs /\ n.addons = m.addons /\ n.life = m.life /\ n.recovery = TRUE
      /\ n.drift = m.drift
  BY DEF Rescued, Typed, Heads, Fields
<1>2. Typed(n)
  BY FailSafeStill DEF Still
<1> HIDE DEF n
<1>3. Moves(m, n)
  BY <1>1, AsideFares
<1> QED
  BY <1>1, <1>2, <1>3 DEF n, NewIn

\* The common fail-safe: closes what is open, or asks.
LEMMA FailSafeFares ==
    ASSUME NEW m, Typed(m)
    PROVE  Fares(m, FailSafe(m))
<1> DEFINE r == Rescued(m)
           closing == EmergencyClose(r, "INVARIANT_FAILSAFE", <<"invariant-failsafe", {}>>)
<1>1. /\ Typed(r) /\ Moves(m, r) /\ NewIn(m, r) = {} /\ r.life = m.life /\ r.recovery = TRUE
      /\ r.setup = m.setup
  BY RescuedIs
<1>2. Fares(m, Ask(r))
  <2>1. Fares(m, OnRecoveryLoaded(m))
    BY RecoveryLoadedFares
  <2> QED
    BY <2>1 DEF OnRecoveryLoaded, Rescued
<1> HIDE DEF r
<1>3. Moves(r, closing) /\ closing.life = "EXIT_PENDING" /\ closing.recovery = TRUE
  BY <1>1, EmergencyCloseMoves
<1> HIDE DEF closing
<1>4. ASSUME RealOpen(m) > 0, HasSetup(m)
      PROVE  Fares(m, closing)
  <2>1. Moves(m, closing)
    BY <1>1, <1>3, MovesTrans
  <2>2. Staged(m) => Gentle(m, closing)
    BY <1>3, <1>4 DEF Gentle, Staged, Quiet
  <2> QED
    BY <2>1, <2>2, MovesFare
<1> QED
  BY <1>2, <1>4 DEF FailSafe, r, closing

\* Refused funding is owed first.
LEMMA FailSafeFundingResolves ==
    ASSUME NEW m, Typed(m), NEW settlement, NEW amount
    PROVE  Resolves(m, FailSafeFunding(m, settlement, amount))
<1> DEFINE owed == IF amount = 0 THEN m.owed ELSE m.owed \cup {settlement}
           x == [m EXCEPT !.settled = @ \cup {settlement}, !.owed = owed]
           n == FailSafe(x)
<1>1. FailSafeFunding(m, settlement, amount) = n
  BY DEF FailSafeFunding
<1>2. owed \subseteq m.settled \cup {settlement}
  BY DEF Typed, Heads
<1> HIDE DEF owed
<1>3. Typed(x)
  BY <1>2 DEF Typed, Heads, Fields, Ledger, Outboxes, IntentsOK
<1>4. /\ x.orders = m.orders /\ x.outbox = m.outbox /\ x.out = m.out
      /\ x.base = m.base /\ x.addon = m.addon /\ x.setup = m.setup
      /\ x.addons = m.addons /\ x.execs = m.execs /\ x.life = m.life /\ x.recovery = m.recovery
  BY DEF Typed, Heads, Fields
<1> HIDE DEF x
<1>5. Moves(m, x) /\ Gentle(m, x)
  BY <1>4, AsideFares
<1>6. Resolves(x, n)
  BY <1>3, FailSafeFares, FaresResolve
<1> HIDE DEF n
<1> QED
  BY <1>1, <1>5, <1>6, MovesResolve

\* A refused reconciliation: everything is canceled, and what the venue holds is
\* closed.
LEMMA FailSafeReconciliationResolves ==
    ASSUME NEW m, Typed(m), NEW e, e.actual \in Int
    PROVE  LET n == FailSafeReconciliation(m, e)
           IN  Past(m, n) /\ (e.actual = ExpectedSigned(m) => Resolves(m, n))
<1> DEFINE r == Rescued(m)
           unknown == SendCancels(r, e.open \ Active(m), "INVALID_RECONCILIATION_ORDER")
           quiet == CancelAll(unknown, "INVALID_RECONCILIATION")
           pend == IF HasSetup(m) THEN "ENGINE_ERROR" ELSE quiet.setup.pend
           drifted == [quiet EXCEPT !.drift = [seen |-> TRUE, qty |-> e.actual],
                                    !.life = "EXIT_PENDING", !.setup.pend = pend]
           closing == CloseActual(drifted, "ENGINE_ERROR", <<"invalid-reconciliation", {}>>, e.actual)
<1>0. FailSafeReconciliation(m, e) =
          IF ~e.scope \/ e.seq < m.asOf THEN Ask(r)
          ELSE IF e.actual = 0 THEN Ask(drifted) ELSE closing
  BY DEF FailSafeReconciliation
<1>1. /\ Typed(r) /\ Moves(m, r) /\ NewIn(m, r) = {} /\ r.life = m.life /\ r.recovery = TRUE
      /\ r.setup = m.setup
  BY RescuedIs
<1>2. Fares(m, Ask(r))
  <2>1. Fares(m, OnRecoveryLoaded(m))
    BY RecoveryLoadedFares
  <2> QED
    BY <2>1 DEF OnRecoveryLoaded, Rescued
<1> HIDE DEF r
<1>3. /\ Still(r, unknown) /\ Follows(r, unknown) /\ unknown.orders = r.orders
  <2>1. Still(r, unknown) /\ Follows(r, unknown)
    BY <1>1, SendCancelsStill, CancelsFollow
  <2>2. unknown.orders = r.orders
    BY <1>1 DEF SendCancels, Typed, Heads, Fields, Outboxes, IntentsOK
  <2> QED
    BY <2>1, <2>2
<1> HIDE DEF unknown
<1>4. /\ Still(unknown, quiet) /\ Follows(unknown, quiet)
      /\ DOMAIN quiet.orders = DOMAIN unknown.orders
  BY <1>3, CancelAllStill, CancelAllFollows DEF Still
<1> HIDE DEF quiet
<1>5. /\ Typed(quiet) /\ Moves(m, quiet) /\ quiet.recovery = TRUE
      /\ DOMAIN quiet.orders = DOMAIN m.orders
  <2>1. Moves(r, unknown) /\ Moves(unknown, quiet)
    BY <1>3, <1>4, FollowsMoves
  <2>2. Moves(m, quiet)
    BY <1>1, <2>1, MovesTrans
  <2>3. DOMAIN r.orders = DOMAIN m.orders
    BY <1>1 DEF NewIn, Moves, Goes, Later
  <2> QED
    BY <1>1, <1>3, <1>4, <2>2, <2>3 DEF Still, Follows, Same
<1>6. pend \in Reasons /\ (pend = quiet.setup.pend \/ pend # None)
  BY <1>5 DEF Typed, Heads, SetupOK, Reasons, CloseReasons, None
<1> HIDE DEF pend
<1>7. /\ drifted.orders = quiet.orders /\ drifted.base = quiet.base /\ drifted.addon = quiet.addon
      /\ drifted.outbox = quiet.outbox /\ drifted.out = quiet.out /\ drifted.execs = quiet.execs
      /\ drifted.addons = quiet.addons /\ drifted.life = "EXIT_PENDING"
      /\ drifted.recovery = quiet.recovery
      /\ drifted.setup.id = quiet.setup.id /\ drifted.setup.bs = quiet.setup.bs
      /\ drifted.setup.tp = quiet.setup.tp /\ drifted.setup.final = quiet.setup.final
      /\ drifted.setup.pend = pend
  BY <1>5 DEF Typed, Heads, Fields, SetupOK
<1>8. Typed(drifted)
  BY <1>5, <1>6 DEF Typed, Heads, Fields, Ledger, Outboxes, IntentsOK, SetupOK, Lifecycles
<1> HIDE DEF drifted
<1>9. Moves(m, drifted)
  <2>1. Subs(drifted) = Subs(quiet)
    BY <1>7 DEF Subs
  <2>2. Moves(quiet, drifted)
    BY <1>6, <1>7, <2>1, SameMoves
  <2> QED
    BY <1>5, <2>2, MovesTrans
<1>10. Resolves(m, Ask(drifted))
  <2> DEFINE n == Ask(drifted)
  <2>1. Still(drifted, n) /\ Follows(drifted, n) /\ n.orders = drifted.orders
    BY <1>8, AskStill, CancelsFollow DEF Ask, Typed, Heads, Fields
  <2> HIDE DEF n
  <2>2. Moves(m, n)
    BY <1>9, <2>1, FollowsMoves, MovesTrans
  <2>3. Gentle(m, n)
    BY <1>5, <1>7, <2>1 DEF Gentle, NewIn, Follows, Same
  <2> QED
    BY <2>2, <2>3, MovesFare, FaresResolve DEF n
<1>11. Moves(m, closing) /\ closing.life = "EXIT_PENDING" /\ closing.recovery = TRUE
  <2>1. "ENGINE_ERROR" \in CloseReasons
    BY DEF CloseReasons
  <2>2. Still(drifted, closing) /\ Follows(drifted, closing)
    BY <1>8, <2>1, CloseActualStill, CloseActualFollows
  <2> HIDE DEF closing
  <2>3. Moves(m, closing)
    BY <1>9, <2>2, FollowsMoves, MovesTrans
  <2> QED
    BY <1>5, <1>7, <2>2, <2>3 DEF Follows, Same
<1> HIDE DEF closing
<1>12. ASSUME e.actual = ExpectedSigned(m), e.actual # 0
       PROVE  Resolves(m, closing)
  <2>1. HasSetup(m) /\ RealOpen(m) > 0
    BY <1>12, Lots DEF ExpectedSigned
  <2>2. Staged(m) => Gentle(m, closing)
    BY <1>11, <2>1 DEF Gentle, Staged, Quiet
  <2> QED
    BY <1>11, <2>2, MovesFare, FaresResolve
<1>13. Resolves(m, Ask(r))
  BY <1>2, FaresResolve
<1>14. Past(m, closing)
  BY <1>11, FaresResolve
<1>15. \A n : Resolves(m, n) => Past(m, n)
  BY DEF Resolves
<1> QED
  BY <1>0, <1>10, <1>12, <1>13, <1>14, <1>15

\* A refused entry fill withdraws the verdict before it closes what was filled.
LEMMA FailSafeEntryFillResolves ==
    ASSUME NEW m, Typed(m), NEW o \in DOMAIN m.orders, NEW q \in Nat
    PROVE  Resolves(m, FailSafeEntryFill(m, o, q))
<1> DEFINE r == Rescued(m)
           asked == Ask([r EXCEPT !.setup.final = None, !.setup.print = 0])
           known == IF m.drift.seen THEN m.drift.qty ELSE ExpectedSigned(m)
           observed == known + q * m.orders[o].side
           p == [asked EXCEPT !.drift = [seen |-> TRUE, qty |-> observed]]
           x == [p EXCEPT !.life = "EXIT_PENDING"]
           closing == CloseActual(CancelAll(x, "STALE_ENTRY_DRIFT"), "ENGINE_ERROR",
                                  <<"attributed-stale-entry-fill", {}>>, observed)
<1>0. FailSafeEntryFill(m, o, q) = IF observed = 0 THEN p ELSE closing
  BY DEF FailSafeEntryFill
<1>1. observed \in Int
  <2>1. known \in Int /\ m.orders[o].side \in {1, -1}
    BY Lots DEF Typed, Heads, Ledger, RowOK
  <2> HIDE DEF known
  <2> QED
    BY <2>1
<1> HIDE DEF observed
<1>2. /\ Typed(r) /\ Moves(m, r) /\ NewIn(m, r) = {} /\ r.life = m.life /\ r.recovery = TRUE
      /\ r.setup = m.setup
  BY RescuedIs
<1> HIDE DEF r
<1>3. /\ p.orders = r.orders /\ p.base = r.base /\ p.addon = r.addon
      /\ p.outbox = r.outbox /\ p.out.subs = r.out.subs /\ p.execs = r.execs
      /\ p.addons = r.addons /\ p.life = r.life /\ p.recovery = r.recovery
      /\ p.setup.id = r.setup.id /\ p.setup.bs = r.setup.bs /\ p.setup.tp = r.setup.tp
      /\ p.setup.final = None /\ p.setup.pend = r.setup.pend
  BY <1>2 DEF Ask, Typed, Heads, Fields, SetupOK, Outboxes, IntentsOK
<1>4. Typed(p)
  BY <1>1, <1>2 DEF Ask, Typed, Heads, Fields, Ledger, Outboxes, IntentsOK, SetupOK, Reasons
<1> HIDE DEF p
<1>5. Moves(m, p) /\ Gentle(m, p)
  <2>1. Subs(p) = Subs(r)
    BY <1>3 DEF Subs
  <2>2. Moves(r, p)
    BY <1>3, <2>1, SameMoves
  <2>3. Moves(m, p)
    BY <1>2, <2>2, MovesTrans
  <2>4. Gentle(m, p)
    BY <1>2, <1>3 DEF Gentle, NewIn
  <2> QED
    BY <2>3, <2>4
<1>6. Resolves(m, p)
  BY <1>5, MovesFare, FaresResolve
<1>7. /\ x.orders = p.orders /\ x.base = p.base /\ x.addon = p.addon
      /\ x.outbox = p.outbox /\ x.out = p.out /\ x.execs = p.execs
      /\ x.addons = p.addons /\ x.life = "EXIT_PENDING" /\ x.recovery = p.recovery
      /\ x.setup = p.setup
  BY <1>4 DEF Typed, Heads, Fields
<1>8. Typed(x)
  BY <1>4, LifeStill DEF Still, Lifecycles
<1> HIDE DEF x
<1>9. Moves(p, x)
  <2>1. Subs(x) = Subs(p)
    BY <1>7 DEF Subs
  <2> QED
    BY <1>7, <2>1, SameMoves
<1>10. Moves(x, closing) /\ Same(x, closing)
  BY <1>1, <1>8, QuietedMoves
<1> HIDE DEF closing
<1>11. Resolves(p, closing)
  <2>1. Moves(p, closing)
    BY <1>9, <1>10, MovesTrans
  <2>2. Gentle(p, closing)
    BY <1>2, <1>3, <1>7, <1>10 DEF Gentle, Same
  <2> QED
    BY <1>4, <2>1, <2>2, MovesFare, FaresResolve
<1> QED
  BY <1>0, <1>5, <1>6, <1>11, MovesResolve

\* A refused fill is counted first.
LEMMA FailSafeFillResolves ==
    ASSUME NEW m, Typed(m), NEW o \in DOMAIN m.orders, NEW q \in Nat
    PROVE  Resolves(m, FailSafeFill(m, o, q))
<1> DEFINE x == [m EXCEPT !.execs = @ + 1]
<1>1. /\ x.orders = m.orders /\ x.outbox = m.outbox /\ x.out = m.out
      /\ x.base = m.base /\ x.addon = m.addon /\ x.setup = m.setup
      /\ x.addons = m.addons /\ x.execs = m.execs + 1 /\ x.life = m.life /\ x.recovery = m.recovery
  BY DEF Typed, Heads, Fields
<1>2. Typed(x)
  BY DEF Typed, Heads, Fields, Ledger, Outboxes, IntentsOK
<1>3. FailSafeFill(m, o, q) = IF RoleOf(o) \in EntryRoles THEN FailSafeEntryFill(x, o, q) ELSE FailSafe(x)
  BY DEF FailSafeFill
<1> HIDE DEF x
<1>4. Moves(m, x) /\ Gentle(m, x)
  <2>1. Subs(x) = Subs(m)
    BY <1>1 DEF Subs
  <2>2. Moves(m, x)
    BY <1>1, <2>1, SameMoves
  <2> QED
    BY <1>1, <2>2 DEF Gentle, NewIn
<1>5. Resolves(x, FailSafeEntryFill(x, o, q)) /\ Resolves(x, FailSafe(x))
  BY <1>1, <1>2, FailSafeEntryFillResolves, FailSafeFares, FaresResolve
<1> QED
  BY <1>3, <1>4, <1>5, MovesResolve

----------------------------------------------------------------------------
(* Apply and the actions.                                                  *)

\* What every event does: no order goes back; and when no event reports a
\* drift, the stages and the intents are kept.
Proceeds(m, n) == Past(m, n) /\ ("drift" \notin Faults => Resolves(m, n))

\* The inductive invariant of all events, and of all but the drifts.
OrderInv ==
    /\ Orderly(machine) /\ Numbered(machine) /\ machine.out = NoIntents
    /\ ~halted => Sane(machine)
\* ... and, where the feed does not drift, of the stage.
StageInv == Staged(machine) /\ Durable(machine)

\* What the argument reads is the same.
Alike(p, q) ==
    /\ q.orders = p.orders /\ Subs(q) = Subs(p) /\ q.setup = p.setup
    /\ q.base = p.base /\ q.addon = p.addon /\ q.life = p.life /\ q.recovery = p.recovery
    /\ q.execs = p.execs /\ q.addons = p.addons

\* The invariants and relations do not see anything else.
LEMMA AlikeProceed ==
    ASSUME NEW p, NEW q, Alike(p, q)
    PROVE  /\ \A m : Proceeds(m, p) => Proceeds(m, q)
           /\ \A n : Proceeds(q, n) => Proceeds(p, n)
<1>1. /\ WaitingOf(q) = WaitingOf(p) /\ Active(q) = Active(p) /\ RealOpen(q) = RealOpen(p)
      /\ (HasSetup(q) <=> HasSetup(p)) /\ (Traded(q) <=> Traded(p))
  BY DEF Alike, WaitingOf, Active, ActiveOf, RealOpen, HasSetup, Traded
<1>2. /\ (Orderly(q) <=> Orderly(p)) /\ (Durable(q) <=> Durable(p))
  BY <1>1 DEF Alike, Orderly, Single, Durable
<1>3. Numbered(q) <=> Numbered(p)
  BY DEF Alike, Numbered
<1>4. Staged(q) <=> Staged(p)
  <2>1. Rooted(q) <=> Rooted(p)
    BY <1>1 DEF Alike, Rooted
  <2>2. /\ (Owned(q) <=> Owned(p)) /\ (Pending(q) <=> Pending(p)) /\ (Quiet(q) <=> Quiet(p))
        /\ (Based(q) <=> Based(p))
    BY <1>1 DEF Alike, Owned, Pending, Quiet, Based
  <2> QED
    BY <2>1, <2>2 DEF Staged
<1>7. /\ \A m : Tallies(m, p) => Tallies(m, q)
      /\ \A n : Tallies(q, n) => Tallies(p, n)
  <2>1. \A roles : LotsOf(q, roles) = LotsOf(p, roles)
    BY LotsKept DEF Alike, NewIn
  <2>2. Tally(q) <=> Tally(p)
    BY <1>1, <2>1 DEF Alike, Tally, Told
  <2> QED
    BY <2>2 DEF Tallies
<1>5. ASSUME NEW m, Proceeds(m, p)
      PROVE  Proceeds(m, q)
  <2>1. Later(m, q) /\ (Ends(m, p) => Ends(m, q))
    BY <1>1, <1>5 DEF Proceeds, Past, Alike, Later, Ends
  <2> QED
    BY <1>2, <1>3, <1>4, <1>5, <1>7, <2>1 DEF Proceeds, Past, Resolves
<1>6. ASSUME NEW n, Proceeds(q, n)
      PROVE  Proceeds(p, n)
  <2>1. Later(p, n) /\ (Ends(q, n) => Ends(p, n))
    BY <1>1, <1>6 DEF Proceeds, Past, Alike, Later, Ends
  <2> QED
    BY <1>2, <1>3, <1>4, <1>6, <1>7, <2>1 DEF Proceeds, Past, Resolves
<1> QED
  BY <1>5, <1>6

\* Handlers and fail-safes proceed.
LEMMA ProceedsIf ==
    ASSUME NEW m, NEW n
    PROVE  (Fares(m, n) => Proceeds(m, n)) /\ (Resolves(m, n) => Proceeds(m, n))
BY FaresResolve DEF Proceeds, Resolves

\* Resetting the marker of the previous fail-safe.
LEMMA FreshAlike ==
    ASSUME Typed(machine)
    PROVE  Typed(Fresh) /\ Alike(machine, Fresh) /\ Fresh.out = machine.out
<1>1. Typed(Fresh)
  BY FreshStill
<1>2. /\ Fresh.orders = machine.orders /\ Fresh.setup = machine.setup /\ Fresh.base = machine.base
      /\ Fresh.addon = machine.addon /\ Fresh.outbox = machine.outbox /\ Fresh.out = machine.out
      /\ Fresh.execs = machine.execs /\ Fresh.addons = machine.addons
      /\ Fresh.life = machine.life /\ Fresh.recovery = machine.recovery
  BY DEF Fresh, Typed, Heads, Fields
<1> QED
  BY <1>1, <1>2 DEF Alike, Subs

\* Storing the intents of a handler, and marking those of a fail-safe.
LEMMA StoredAlike ==
    ASSUME NEW m, Typed(m)
    PROVE  /\ Alike(m, Store(m)) /\ Store(m).out = NoIntents
           /\ Typed([m EXCEPT !.tripped = TRUE]) /\ Alike(m, [m EXCEPT !.tripped = TRUE])
<1> DEFINE n == Store(m)
           t == [m EXCEPT !.tripped = TRUE]
<1>1. /\ n.orders = m.orders /\ n.setup = m.setup /\ n.base = m.base
      /\ n.addon = m.addon /\ n.execs = m.execs /\ n.addons = m.addons
      /\ n.life = m.life /\ n.recovery = m.recovery /\ n.out = NoIntents
  BY DEF Store, Typed, Heads, Fields
<1>2. Subs(n) = Subs(m)
  BY StoreFollows
<1>3. Typed(t)
  BY DEF Typed, Heads, Fields, Ledger, Outboxes, IntentsOK
<1>4. /\ t.orders = m.orders /\ t.setup = m.setup /\ t.base = m.base
      /\ t.addon = m.addon /\ t.execs = m.execs /\ t.addons = m.addons
      /\ t.life = m.life /\ t.recovery = m.recovery /\ t.out = m.out /\ t.outbox = m.outbox
  BY DEF Typed, Heads, Fields
<1> HIDE DEF n, t
<1>5. Alike(m, n) /\ Alike(m, t)
  BY <1>1, <1>2, <1>4 DEF Alike, Subs
<1> QED
  BY <1>1, <1>3, <1>5 DEF n, t

\* Whichever of the handler and the fail-safe takes effect, the step proceeds
\* and what it leaves is consistent, or the machine is halted.
LEMMA ApplyProceeds ==
    ASSUME Typed(machine), NEW refused, NEW post, NEW rescue,
           ~refused => Typed(post) /\ Proceeds(Fresh, post), Typed(rescue), Proceeds(Fresh, rescue),
           Apply(refused, post, rescue)
    PROVE  /\ Proceeds(machine, machine') /\ machine'.out = NoIntents
           /\ ~halted' => Consistent(machine')
<1> DEFINE done == Store(post)
           tripped == [rescue EXCEPT !.tripped = TRUE]
           saved == Store(tripped)
<1>1. Alike(machine, Fresh)
  BY FreshAlike
<1>2. ASSUME ~refused
      PROVE  Proceeds(machine, done) /\ done.out = NoIntents
  BY <1>1, <1>2, StoredAlike, AlikeProceed
<1>3. Typed(tripped) /\ Proceeds(Fresh, tripped)
  BY StoredAlike, AlikeProceed
<1> HIDE DEF tripped
<1>4. Proceeds(machine, saved) /\ saved.out = NoIntents
  BY <1>1, <1>3, StoredAlike, AlikeProceed
<1>5. IF ~refused /\ Consistent(done)
      THEN machine' = done /\ halted' = FALSE
      ELSE machine' = saved /\ halted' = ~Consistent(saved)
  BY DEF Apply, tripped
<1> HIDE DEF done, saved
<1> QED
  BY <1>2, <1>4, <1>5

\* Every action proceeds.
LEMMA StepProceeds ==
    ASSUME TypeInv, OrderInv, [Next]_vars
    PROVE  /\ Proceeds(machine, machine') /\ machine'.out = NoIntents
           /\ ~halted' => Sane(machine')
<1> DEFINE f == Fresh
<1>a. /\ Typed(machine) /\ Typed(f) /\ Alike(machine, f) /\ f.out = NoIntents
  BY FreshAlike DEF TypeInv, OrderInv
<1>b. /\ f.orders = machine.orders /\ f.setup = machine.setup /\ f.life = machine.life
      /\ f.recovery = machine.recovery
      /\ RealOpen(f) = RealOpen(machine) /\ (HasSetup(f) <=> HasSetup(machine))
      /\ ExpectedSigned(f) = ExpectedSigned(machine)
  BY <1>a DEF Alike, RealOpen, HasSetup, ExpectedSigned
<1>c. Orderly(f) /\ Numbered(f)
  BY <1>a DEF OrderInv, Alike, Orderly, Single, WaitingOf, Numbered
<1>d. ~halted => Sane(f)
  BY <1>b DEF OrderInv, Sane
<1>e. f = Fresh
  OBVIOUS
<1> HIDE DEF f
<1>f. Typed(FailSafe(f)) /\ Proceeds(f, FailSafe(f))
  BY <1>a, FailSafeStill, FailSafeFares, ProceedsIf DEF Still
<1>g. ASSUME NEW refused, NEW post, NEW rescue, Apply(refused, post, rescue),
             ~refused => Typed(post) /\ Proceeds(f, post), Typed(rescue), Proceeds(f, rescue)
      PROVE  /\ Proceeds(machine, machine') /\ machine'.out = NoIntents
             /\ ~halted' => Sane(machine')
  <2>1. /\ Proceeds(machine, machine') /\ machine'.out = NoIntents
        /\ ~halted' => Consistent(machine')
    BY <1>a, <1>e, <1>g, ApplyProceeds
  <2>2. Consistent(machine') => Sane(machine')
    BY DEF Consistent, ModesConsistent, Sane
  <2> QED
    BY <2>1, <2>2
<1>1. CASE EquityUpdated
  <2>1. Apply(FALSE, [f EXCEPT !.equity = TRUE], f)
    BY <1>1, <1>e DEF EquityUpdated
  <2>2. Typed([f EXCEPT !.equity = TRUE])
    BY <1>a DEF Typed, Heads, Fields, Ledger, Outboxes, IntentsOK
  <2>3. Proceeds(f, [f EXCEPT !.equity = TRUE]) /\ Proceeds(f, f)
    <3> DEFINE n == [f EXCEPT !.equity = TRUE]
    <3>1. /\ n.orders = f.orders /\ n.setup = f.setup /\ n.base = f.base
          /\ n.addon = f.addon /\ n.outbox = f.outbox /\ n.out = f.out
          /\ n.execs = f.execs /\ n.addons = f.addons
          /\ n.life = f.life /\ n.recovery = f.recovery
      BY <1>a DEF Typed, Heads, Fields
    <3> HIDE DEF n
    <3>2. Fares(f, n) /\ Fares(f, f)
      BY <1>a, <3>1, AsideFares
    <3> QED
      BY <3>2, ProceedsIf DEF n
  <2> QED
    BY <1>a, <1>g, <2>1, <2>2, <2>3
<1>2. CASE BarClosed
  <2>1. PICK react \in Sides \cup {0}, trigger \in BOOLEAN, preview \in BOOLEAN, moved \in BOOLEAN :
          /\ react # 0 => FlatEligible(machine)
          /\ trigger => AddonObservable(machine)
          /\ Apply(FALSE, OnBar(f, react, trigger, preview, moved), FailSafe(f))
    BY <1>2, <1>e DEF BarClosed
  <2>2. react \in {0, 1, -1}
    BY EnvironmentAssumption
  <2>3. react # 0 => f.recovery # TRUE /\ ~HasSetup(f) /\ RealOpen(f) = 0
    BY <1>b, <2>1 DEF FlatEligible
  <2>4. trigger => HasSetup(f) /\ RealOpen(f) > 0
    <3>1. trigger => RealOpen(machine) # 0
      BY <2>1 DEF AddonObservable, PositionBuild
    <3>2. RealOpen(f) \in Nat
      BY <1>a, Lots
    <3> QED
      BY <1>b, <2>1, <3>1, <3>2 DEF AddonObservable
  <2>5. Typed(OnBar(f, react, trigger, preview, moved))
    BY <1>a, <2>2, BarKept DEF Kept
  <2>6. Proceeds(f, OnBar(f, react, trigger, preview, moved))
    BY <1>a, <1>c, <2>2, <2>3, <2>4, BarFares, ProceedsIf
  <2> QED
    BY <1>f, <1>g, <2>1, <2>5, <2>6
<1>3. CASE OrderSubmitted
  <2>1. PICK o \in ReportedOrders, match \in BOOLEAN : Apply(~match, OnSubmitted(f, o), FailSafe(f))
    BY <1>3, <1>e DEF OrderSubmitted
  <2>2. Typed(OnSubmitted(f, o)) /\ Proceeds(f, OnSubmitted(f, o))
    <3> DEFINE n == OnSubmitted(f, o)
    <3>1. Typed(n)
      BY <1>a, SubmittedStill DEF Still
    <3>2. Moves(f, n) /\ NewIn(f, n) = {} /\ Same(f, n) /\ n.setup = f.setup
      BY <1>a, <1>b, SubmittedMoves DEF ReportedOrders
    <3> HIDE DEF n
    <3>3. Gentle(f, n)
      BY <3>2 DEF Gentle, Same
    <3> QED
      BY <1>a, <3>1, <3>2, <3>3, MovesFare, ProceedsIf DEF n
  <2> QED
    BY <1>f, <1>g, <2>1, <2>2
<1>4. CASE OrderAccepted
  <2>1. PICK o \in ReportedOrders : Apply(FALSE, OnAccepted(f, o), FailSafe(f))
    BY <1>4, <1>e DEF OrderAccepted
  <2>2. Typed(OnAccepted(f, o)) /\ Proceeds(f, OnAccepted(f, o))
    <3> DEFINE n == OnAccepted(f, o)
    <3>1. Typed(n)
      BY <1>a, SubmittedStill DEF Still
    <3>2. Moves(f, n) /\ NewIn(f, n) = {} /\ Same(f, n) /\ n.setup = f.setup
      BY <1>a, <1>b, SubmittedMoves DEF ReportedOrders
    <3> HIDE DEF n
    <3>3. Gentle(f, n)
      BY <3>2 DEF Gentle, Same
    <3> QED
      BY <1>a, <3>1, <3>2, <3>3, MovesFare, ProceedsIf DEF n
  <2> QED
    BY <1>f, <1>g, <2>1, <2>2
<1>5. CASE OrderTerminal
  <2>1. PICK o \in ReportedOrders, kind \in {"REJECTED", "CANCELED", "TIMED_OUT"}, cumOK \in BOOLEAN :
          /\ machine.orders[o].st \notin TerminalStatuses
          /\ kind = "REJECTED" => machine.orders[o].fill = 0
          /\ Apply(~cumOK, OnTerminal(f, o, kind), FailSafe(f))
    BY <1>5, <1>e DEF OrderTerminal
  <2>2. Typed(OnTerminal(f, o, kind))
    BY <1>a, TerminalKept DEF Kept
  <2>3. o \in DOMAIN f.orders
    BY <1>b DEF ReportedOrders
  <2>4. Proceeds(f, OnTerminal(f, o, kind))
    BY <1>a, <1>b, <2>1, <2>3, TerminalFares, ProceedsIf
  <2> QED
    BY <1>f, <1>g, <2>1, <2>2, <2>4
<1>6. CASE OrderFilled
  <2>1. PICK o \in DOMAIN machine.orders : \E q \in FillSizes(o), cumOK \in BOOLEAN,
                                              valid \in BOOLEAN, moved \in BOOLEAN :
          Apply(FillRefused(f, o, q, cumOK), OnFill(f, o, q, Completes(o, q), valid, moved),
                FailSafeFill(f, o, q))
    BY <1>6, <1>e DEF OrderFilled
  <2>2. PICK q \in FillSizes(o), cumOK \in BOOLEAN, valid \in BOOLEAN, moved \in BOOLEAN :
          Apply(FillRefused(f, o, q, cumOK), OnFill(f, o, q, Completes(o, q), valid, moved),
                FailSafeFill(f, o, q))
    BY <2>1
  <2>3. q \in Nat /\ q > 0
    <3>1. RealOpen(machine) \in Nat
      BY <1>a, Lots
    <3>2. Remaining(machine, o) \in Nat
      BY <1>a DEF Typed, Ledger, RowOK, Remaining
    <3> QED
      BY <3>1, <3>2 DEF FillSizes
  <2> DEFINE full == Completes(o, q)
  <2>4. ~FillRefused(f, o, q, cumOK) =>
            Typed(OnFill(f, o, q, full, valid, moved)) /\ Proceeds(f, OnFill(f, o, q, full, valid, moved))
    <3> HIDE DEF full
    <3>1. ~FillRefused(f, o, q, cumOK) => Typed(OnFill(f, o, q, full, valid, moved))
      BY <1>a, <1>b, <2>3, FillKept DEF Kept
    <3>2. ~FillRefused(f, o, q, cumOK) => Fares(f, OnFill(f, o, q, full, valid, moved))
      BY <1>a, <1>b, <1>c, <2>3, FillFares
    <3> QED
      BY <3>1, <3>2, ProceedsIf
  <2>5. Typed(FailSafeFill(f, o, q)) /\ Proceeds(f, FailSafeFill(f, o, q))
    BY <1>a, <1>b, <2>3, FailSafeFillKept, FailSafeFillResolves, ProceedsIf DEF Kept
  <2> QED
    BY <1>g, <2>2, <2>4, <2>5
<1>h. VenueQuantities \subseteq Int
  BY <1>a, Lots DEF VenueQuantities
<1>7. CASE PositionChanged
  <2>1. PICK actual \in VenueQuantities :
          /\ "drift" \notin Faults => actual = ExpectedSigned(machine)
          /\ Apply(FALSE, OnPositionChanged(f, actual), FailSafe(f))
    BY <1>7, <1>e DEF PositionChanged, Budget, If
  <2>2. actual \in Int
    BY <1>h
  <2>3. Typed(OnPositionChanged(f, actual))
    BY <1>a, <2>2, PositionChangedStill DEF Still
  <2>4. Proceeds(f, OnPositionChanged(f, actual))
    BY <1>a, <1>b, <2>1, <2>2, PositionChangedFares, FaresResolve DEF Proceeds
  <2> QED
    BY <1>f, <1>g, <2>1, <2>3, <2>4
<1>8. CASE PositionClosed
  <2>1. PICK reason \in FinalReasons, net \in {-1, 1}, scope \in BOOLEAN :
          /\ "early" \notin Faults => ~(RealOpen(machine) > 0)
          /\ Apply(PositionClosedRefused(f, reason, net, scope),
                   OnPositionClosed(f, reason, net, scope), FailSafe(f))
    BY <1>8, <1>e DEF PositionClosed, Budget, If
  <2>2. reason \in CloseReasons /\ net \in Int
    BY EnvironmentAssumption
  <2>3. Typed(OnPositionClosed(f, reason, net, scope))
    BY <1>a, <2>2, PositionClosedKept DEF Kept
  <2>4. ~PositionClosedRefused(f, reason, net, scope) =>
            Proceeds(f, OnPositionClosed(f, reason, net, scope))
    <3>1. "early" \notin Faults => RealOpen(f) = 0
      BY <1>a, <1>b, <2>1, Lots
    <3> QED
      BY <1>a, <2>2, <3>1, PositionClosedFares, ProceedsIf
  <2> QED
    BY <1>f, <1>g, <2>1, <2>3, <2>4
<1>9. CASE FundingApplied
  <2>1. PICK settlement \in Settlements \ machine.settled, amount \in {-2, 0, 2}, scope \in BOOLEAN :
          Apply(FundingRefused(f, scope), OnFunding(f, settlement, amount),
                FailSafeFunding(f, settlement, amount))
    BY <1>9, <1>e DEF FundingApplied
  <2>2. amount \in Int
    OBVIOUS
  <2>3. Typed(OnFunding(f, settlement, amount)) /\ Proceeds(f, OnFunding(f, settlement, amount))
    BY <1>a, <2>2, FundingKept, FundingFares, ProceedsIf DEF Kept
  <2>4. /\ Typed(FailSafeFunding(f, settlement, amount))
        /\ Proceeds(f, FailSafeFunding(f, settlement, amount))
    BY <1>a, <2>2, FailSafeFundingKept, FailSafeFundingResolves, ProceedsIf DEF Kept
  <2> QED
    BY <1>g, <2>1, <2>3, <2>4
<1>10. CASE ForcedClose
  <2>1. PICK reason \in ForcedReasons : Apply(FALSE, OnForcedClose(f, reason, <<reason, {}>>), FailSafe(f))
    BY <1>10, <1>e DEF ForcedClose
  <2>2. reason \in CloseReasons
    BY EnvironmentAssumption DEF CloseReasons
  <2>3. \A d : Typed(OnForcedClose(f, reason, d)) /\ Proceeds(f, OnForcedClose(f, reason, d))
    BY <1>a, <2>2, ForcedCloseStill, ForcedCloseFares, ProceedsIf DEF Still
  <2> QED
    BY <1>f, <1>g, <2>1, <2>3
<1>11. CASE RecoverySnapshotLoaded
  <2>1. PICK attested \in BOOLEAN : Apply(~attested, OnRecoveryLoaded(f), FailSafe(f))
    BY <1>11, <1>e DEF RecoverySnapshotLoaded
  <2>2. Typed(OnRecoveryLoaded(f)) /\ Proceeds(f, OnRecoveryLoaded(f))
    BY <1>a, RecoveryLoadedStill, RecoveryLoadedFares, ProceedsIf DEF Still
  <2> QED
    BY <1>f, <1>g, <2>1, <2>2
<1>12. CASE ReconciliationCompleted
  <2>0. PICK actual \in VenueQuantities, open \in VenueViews, seq \in 0 .. MaxSeq,
             scope \in BOOLEAN, conflict \in BOOLEAN :
          LET e == [actual |-> actual, open |-> open, rich |-> open # {}, conflict |-> conflict,
                    seq |-> seq, scope |-> scope]
          IN  /\ ~halted
              /\ "drift" \notin Faults => actual = ExpectedSigned(machine)
              /\ Apply(ReconciliationRefused(f, e), OnReconciliation(f, e),
                       FailSafeReconciliation(f, e))
    BY <1>12, <1>e DEF ReconciliationCompleted, Budget, If
  <2> DEFINE e == [actual |-> actual, open |-> open, rich |-> open # {}, conflict |-> conflict,
                   seq |-> seq, scope |-> scope]
  <2>1. /\ e.actual \in VenueQuantities /\ (e.rich <=> e.open # {}) /\ ~halted
        /\ "drift" \notin Faults => e.actual = ExpectedSigned(machine)
        /\ Apply(ReconciliationRefused(f, e), OnReconciliation(f, e),
                 FailSafeReconciliation(f, e))
    BY <2>0
  <2> HIDE DEF e
  <2>2. e.actual \in Int
    BY <1>h, <2>1
  <2>3. Typed(OnReconciliation(f, e)) /\ Typed(FailSafeReconciliation(f, e))
    BY <1>a, <2>2, ReconciliationLegal, FailSafeReconciliationStill DEF Legal, Still
  <2>4. Proceeds(f, OnReconciliation(f, e))
    BY <1>a, <1>b, <1>c, <1>d, <2>1, <2>2, ReconciliationResolves DEF Proceeds
  <2>5. Proceeds(f, FailSafeReconciliation(f, e))
    BY <1>a, <1>b, <2>1, <2>2, FailSafeReconciliationResolves DEF Proceeds
  <2> QED
    BY <1>g, <2>1, <2>3, <2>4, <2>5
<1>13. CASE UNCHANGED vars
  <2>1. machine' = machine /\ halted' = halted
    BY <1>13 DEF vars
  <2>2. Fares(machine, machine)
    BY GoesSelf DEF Fares, Ends, Tallies
  <2> QED
    BY <2>1, <2>2, ProceedsIf DEF OrderInv
<1> QED
  BY <1>1, <1>2, <1>3, <1>4, <1>5, <1>6, <1>7, <1>8, <1>9, <1>10, <1>11, <1>12, <1>13 DEF Next

----------------------------------------------------------------------------
(* The theorems.                                                           *)

\* In every reachable state, whatever the environment does.
LEMMA OrderInvariant == Spec => []OrderInv
<1>1. Init => OrderInv
  <2>1. /\ InitialMachine.orders = NoOrders /\ InitialMachine.addons = 0
        /\ InitialMachine.execs = 0 /\ InitialMachine.setup = NoSetup
        /\ InitialMachine.out = NoIntents /\ InitialMachine.life = "NONE"
        /\ InitialMachine.base = EmptyLeg /\ InitialMachine.addon = EmptyLeg
    BY DEF InitialMachine
  <2>2. DOMAIN NoOrders = {} /\ NoSetup.bs = 0 /\ NoSetup.tp = 0 /\ NoSetup.id = 0 /\ EmptyLeg.qty = 0
    BY DEF NoOrders, NoSetup, EmptyLeg
  <2>3. Orderly(InitialMachine) /\ Numbered(InitialMachine) /\ Sane(InitialMachine)
    BY <2>1, <2>2 DEF Orderly, Single, WaitingOf, Numbered, Sane, RealOpen
  <2> QED
    BY <2>1, <2>3 DEF Init, OrderInv
<1>2. TypeInv /\ OrderInv /\ [Next]_vars => OrderInv'
  BY StepProceeds DEF OrderInv, Proceeds, Past
<1> QED
  BY <1>1, <1>2, TypeInvariant, PTL DEF Spec

\* A terminal order is never reported live again: only a fill that raced its
\* cancel is still booked on it (_on_order_submitted, _on_order_accepted,
\* _adopt_reconciled_orders).
THEOREM EndedOrdersStayEnded == Spec => TerminalNeverReopens
<1>1. TypeInv /\ OrderInv /\ [Next]_vars =>
        [\A o \in DOMAIN machine.orders :
            machine.orders[o].st \in TerminalStatuses =>
                machine'.orders[o].st \notin {"INTENDED", "SUBMITTED", "ACCEPTED"}]_vars
  <2> SUFFICES ASSUME TypeInv, OrderInv, [Next]_vars, NEW o \in DOMAIN machine.orders,
                      machine.orders[o].st \in TerminalStatuses
               PROVE  machine'.orders[o].st \notin {"INTENDED", "SUBMITTED", "ACCEPTED"}
    OBVIOUS
  <2>1. Later(machine, machine')
    BY StepProceeds DEF Proceeds, Past
  <2> QED
    BY <2>1 DEF Later, WaitingOf, Waiting, TerminalStatuses
<1> QED
  BY <1>1, TypeInvariant, OrderInvariant, PTL DEF Spec, TerminalNeverReopens

\* At most one whole-position close of a setup is waiting to execute, whatever
\* events asked for it (_close_all_intent).
THEOREM OneCloseWaits == Spec => []OneClose
<1>1. OrderInv => OneClose
  <2> SUFFICES ASSUME OrderInv
               PROVE  OneClose
    OBVIOUS
  <2> DEFINE closes == {o \in ActiveOf(machine, {"CLOSE_ALL"}) :
                           /\ SetupOf(o) = machine.setup.id
                           /\ machine.orders[o].st # "PARTIALLY_FILLED"}
  <2>1. \A a, b \in closes : a = b
    BY DEF OrderInv, Orderly, Single, WaitingOf, Waiting, ActiveOf, ActiveStatuses
  <2>2. OneClose <=> Cardinality(closes) <= 1
    BY DEF OneClose
  <2> HIDE DEF closes
  <2>3. closes = {} \/ \E a : closes = {a}
    BY <2>1
  <2>4. Cardinality(closes) = 0 \/ Cardinality(closes) = 1
    BY <2>3, FS_EmptySet, FS_Singleton
  <2> QED
    BY <2>2, <2>4
<1> QED
  BY <1>1, OrderInvariant, PTL

\* While no event reports another position, in every reachable state.
LEMMA StageInvariant ==
    ASSUME "drift" \notin Faults
    PROVE  Spec => []StageInv
<1>1. Init => StageInv
  <2>1. /\ InitialMachine.orders = NoOrders /\ InitialMachine.setup = NoSetup
        /\ InitialMachine.out = NoIntents /\ InitialMachine.outbox = NoIntents
    BY DEF InitialMachine
  <2>2. /\ DOMAIN NoOrders = {} /\ NoSetup.id = 0 /\ NoSetup.final = None
        /\ NoIntents.subs = {}
    BY DEF NoOrders, NoSetup, NoIntents
  <2>3. Active(InitialMachine) = {} /\ Subs(InitialMachine) = {} /\ ~HasSetup(InitialMachine)
    BY <2>1, <2>2 DEF Active, ActiveOf, Subs, HasSetup
  <2>4. Staged(InitialMachine) /\ Durable(InitialMachine)
    BY <2>1, <2>2, <2>3 DEF Staged, Rooted, Owned, Pending, Quiet, Based, Durable
  <2> QED
    BY <2>4 DEF Init, StageInv
<1>2. TypeInv /\ OrderInv /\ StageInv /\ [Next]_vars => StageInv'
  BY StepProceeds DEF StageInv, Proceeds, Resolves
<1> QED
  BY <1>1, <1>2, TypeInvariant, OrderInvariant, PTL DEF Spec

\* No order the venue may not have received is ever missing from the durable
\* outbox (_emit, _store_outbox, the acknowledgements).
THEOREM IntentsAreDurable ==
    ASSUME "drift" \notin Faults
    PROVE  Spec => []IntendedIsDurable
<1>1. OrderInv /\ StageInv => IntendedIsDurable
  <2> SUFFICES ASSUME OrderInv, StageInv
               PROVE  IntendedIsDurable
    OBVIOUS
  <2>1. Subs(machine) = machine.outbox.subs
    BY DEF OrderInv, Subs, NoIntents
  <2> QED
    BY <2>1 DEF StageInv, Durable, IntendedIsDurable, Active, ActiveOf
<1> QED
  BY <1>1, OrderInvariant, StageInvariant, PTL

\* A setup that carries its final verdict holds no lots and no active order
\* (_on_position_closed, and every handler that could add to it afterwards).
THEOREM VerdictsAreQuiet ==
    ASSUME "drift" \notin Faults
    PROVE  Spec => []FinalIsQuiet
<1>1. StageInv => FinalIsQuiet
  BY DEF StageInv, Staged, Quiet, FinalIsQuiet
<1> QED
  BY <1>1, StageInvariant, PTL

\* What has ended does not come back: no terminal order is live again, and a
\* setup that is let go of leaves no active order and no submit to be sent.
THEOREM OrdersNeverReturn ==
    ASSUME "drift" \notin Faults
    PROVE  Spec => OrdersEndForGood
<1>1. TypeInv /\ OrderInv /\ StageInv /\ [Next]_vars =>
        [HasSetup(machine) /\ machine'.setup.id # machine.setup.id =>
            Active(machine') = {} /\ machine'.outbox.subs = {}]_vars
  BY StepProceeds DEF StageInv, Proceeds, Resolves, Ends, Subs
<1> QED
  BY <1>1, TypeInvariant, OrderInvariant, StageInvariant, EndedOrdersStayEnded, PTL
  DEF Spec, SetupEndsClean, OrdersEndForGood

\* The legs are what the fills say, while no position is reported closed early.
LEMMA TallyInvariant ==
    ASSUME "early" \notin Faults
    PROVE  Spec => []Tally(machine)
<1>1. Init => Tally(machine)
  <2>1. ~HasSetup(InitialMachine)
    BY DEF HasSetup, InitialMachine, NoSetup
  <2> QED
    BY <2>1 DEF Init, Tally
<1>2. TypeInv /\ OrderInv /\ Tally(machine) /\ [Next]_vars => Tally(machine)'
  BY StepProceeds DEF Proceeds, Past, Tallies
<1> QED
  BY <1>1, <1>2, TypeInvariant, OrderInvariant, PTL DEF Spec

\* Each leg is exactly what its entry orders filled, and what left the legs is
\* exactly what the exit orders filled, however fills of entries, stops,
\* reductions and closes race each other, their cancels and a reconciliation:
\* no lot is booked twice or lost (_apply_entry_fill, _reduce_leg,
\* _apply_whole_exit_fill). A position that is reported closed before it is
\* flat settles its legs without an exit fill, so that fault is left out.
THEOREM LegsFollowFills ==
    ASSUME "early" \notin Faults
    PROVE  Spec => []LegsMatchFills
<1>1. TypeInv /\ Tally(machine) => LegsMatchFills
  <2> SUFFICES ASSUME TypeInv, Tally(machine), HasSetup(machine)
               PROVE  LegsMatchFills
    BY DEF LegsMatchFills
  <2>1. /\ machine.base.qty + machine.base.cut = FilledBy({"BASE_ENTRY"})
        /\ machine.addon.qty + machine.addon.cut = FilledBy({"ADDON_ENTRY"})
        /\ FilledBy(Roles \ EntryRoles) = machine.base.cut + machine.addon.cut
    BY DEF Tally, Told, FilledBy
  <2>2. machine.base.cut + machine.addon.cut \in Nat
    BY DEF TypeInv, Typed, Heads, LegOK
  <2> QED
    BY <2>1, <2>2 DEF LegsMatchFills
<1> QED
  BY <1>1, TypeInvariant, TallyInvariant, PTL

----------------------------------------------------------------------------
(* Exposure is protected, and a close stands alone.                        *)

\* The orders that answer for exposure are the base stop and those that reduce
\* the add-on.
GuardRoles == {"BASE_STOP"} \cup ReducingRoles

\* No order that adds risk is active or waits in the outbox.
Entryless(m) == ActiveOf(m, EntryRoles) = {} /\ \A o \in Subs(m) : RoleOf(o) \notin EntryRoles

\* A whole-position exit is under way.
Closed(m) == HasSetup(m) /\ m.setup.pend # None /\ m.life = "EXIT_PENDING" /\ Entryless(m)

\* There is no setup, and nothing that could add risk waits to be sent.
Idle(m) ==
    /\ ~HasSetup(m) /\ m.setup.pend = None /\ RealOpen(m) = 0
    /\ \A o \in Subs(m) : RoleOf(o) \notin EntryRoles

\* The setup runs: its submits are of active entries, it has not been closed, its
\* base stop is active as long as it has a base, and its add-on is covered.
Queued(m) == \A o \in Subs(m) : RoleOf(o) \in EntryRoles => o \in Active(m)
Unclosed(m) == \A o \in DOMAIN m.orders : RoleOf(o) = "CLOSE_ALL" => SetupOf(o) # m.setup.id
StopOf(m) == <<"BASE_STOP", m.setup.id, m.setup.bs>>
Stopped(m) ==
    /\ m.base.qty > 0 <=> m.setup.bs # 0
    /\ m.setup.bs # 0 => StopOf(m) \in Active(m)
Covered(m) == ~Reduced(m) => IsFiniteSet(CoverOf(m)) /\ m.addon.qty <= Cardinality(CoverOf(m))
Answered(m) ==
    /\ HasSetup(m) /\ m.setup.pend = None
    /\ Queued(m) /\ Unclosed(m) /\ Stopped(m) /\ Covered(m)

\* An exit without a reason was ordered by a reconciliation that found it flat.
Held(m) == Answered(m) /\ (m.life = "EXIT_PENDING" => RealOpen(m) = 0)

Guarded(m) == Closed(m) \/ Idle(m) \/ Held(m)

\* Nothing that adds risk comes to life.
Bars(m, n) ==
    /\ ActiveOf(n, EntryRoles) \subseteq ActiveOf(m, EntryRoles)
    /\ \A o \in Subs(n) : RoleOf(o) \in EntryRoles => o \in Subs(m)

\* Nor does anything that answers for exposure go: only a take profit is new.
Spares(m, n) ==
    /\ Bars(m, n)
    /\ n.setup.id = m.setup.id /\ n.setup.bs = m.setup.bs /\ n.setup.pend = m.setup.pend
    /\ n.base.qty = m.base.qty /\ n.addon.qty = m.addon.qty
    /\ DOMAIN m.orders \subseteq DOMAIN n.orders
    /\ \A o \in NewIn(m, n) : RoleOf(o) = "TAKE_PROFIT"
    /\ \A o \in DOMAIN m.orders :
        /\ RoleOf(o) \in GuardRoles =>
            /\ n.orders[o].fill = m.orders[o].fill /\ n.orders[o].req = m.orders[o].req
            /\ o \in Active(n) <=> o \in Active(m)
        /\ RoleOf(o) \in EntryRoles /\ o \in Subs(n) /\ o \in Active(m) => o \in Active(n)

\* Doing nothing spares the guards.
LEMMA SparesSelf ==
    ASSUME NEW m
    PROVE  Spares(m, m) /\ Bars(m, m)
BY DEF Spares, Bars, NewIn

\* Two steps in a row.
LEMMA BarsTrans ==
    ASSUME NEW m, NEW n, NEW p, Bars(m, n), Bars(n, p)
    PROVE  Bars(m, p)
BY DEF Bars

\* The same of what spares the guards.
LEMMA SparesTrans ==
    ASSUME NEW m, NEW n, NEW p, Spares(m, n), Spares(n, p)
    PROVE  Spares(m, p)
<1>1. Bars(m, p)
  BY BarsTrans DEF Spares
<1>2. \A o \in NewIn(m, p) : RoleOf(o) = "TAKE_PROFIT"
  BY DEF Spares, NewIn
<1>3. \A o \in DOMAIN m.orders : RoleOf(o) \in GuardRoles =>
          /\ p.orders[o].fill = m.orders[o].fill /\ p.orders[o].req = m.orders[o].req
          /\ o \in Active(p) <=> o \in Active(m)
  BY DEF Spares
<1>4. \A o \in DOMAIN m.orders :
          RoleOf(o) \in EntryRoles /\ o \in Subs(p) /\ o \in Active(m) => o \in Active(p)
  BY DEF Spares, Bars
<1> QED
  BY <1>1, <1>2, <1>3, <1>4 DEF Spares

\* What leaves ledger and submits alone.
LEMMA SameSpares ==
    ASSUME NEW m, NEW n, n.orders = m.orders, Subs(n) \subseteq Subs(m),
           n.setup.id = m.setup.id, n.setup.bs = m.setup.bs, n.setup.pend = m.setup.pend,
           n.base.qty = m.base.qty, n.addon.qty = m.addon.qty
    PROVE  Spares(m, n)
BY DEF Spares, Bars, NewIn, Active, ActiveOf

\* Active orders of the roles that are spared keep covering the add-on.
LEMMA SparedCover ==
    ASSUME NEW m, NEW n, Spares(m, n)
    PROVE  CoverOf(n) = CoverOf(m) /\ (Reduced(n) <=> Reduced(m))
<1>1. ReducingRoles \subseteq GuardRoles /\ ReducingRoles \subseteq Roles
  BY DEF GuardRoles, ReducingRoles, Roles, ProtectiveRoles
<1>2. \A o \in DOMAIN n.orders : RoleOf(o) \in ReducingRoles => o \in DOMAIN m.orders
  BY DEF Spares, NewIn, ReducingRoles
<1>3. \A o \in DOMAIN m.orders : RoleOf(o) \in ReducingRoles =>
          /\ n.orders[o].fill = m.orders[o].fill /\ n.orders[o].req = m.orders[o].req
          /\ o \in ActiveOf(n, ReducingRoles) <=> o \in ActiveOf(m, ReducingRoles)
  BY <1>1 DEF Spares, Active, ActiveOf
<1> DEFINE X(k) == {x \in ActiveOf(k, ReducingRoles) : SetupOf(x) = k.setup.id}
<1>4. X(n) = X(m)
  BY <1>2, <1>3 DEF ActiveOf, Spares
<1>5. \A o \in X(m) : n.orders[o].fill = m.orders[o].fill /\ n.orders[o].req = m.orders[o].req
  BY <1>3 DEF ActiveOf
<1>6. CoverOf(n) = CoverOf(m)
  <2>1. CoverOf(n) = UNION {{o} \X (n.orders[o].fill + 1 .. n.orders[o].req) : o \in X(n)}
        /\ CoverOf(m) = UNION {{o} \X (m.orders[o].fill + 1 .. m.orders[o].req) : o \in X(m)}
    BY DEF CoverOf
  <2> HIDE DEF X
  <2>2. {{o} \X (n.orders[o].fill + 1 .. n.orders[o].req) : o \in X(n)}
            = {{o} \X (m.orders[o].fill + 1 .. m.orders[o].req) : o \in X(m)}
    BY <1>4, <1>5
  <2> QED
    BY <2>1, <2>2
<1>7. Reduced(n) <=> Reduced(m)
  BY <1>2 DEF Reduced, Spares, ReducingRoles
<1> QED
  BY <1>6, <1>7

\* What is answered for stays so.
LEMMA SparedAnswered ==
    ASSUME NEW m, NEW n, Spares(m, n), Answered(m)
    PROVE  Answered(n)
<1>1. Queued(n)
  <2> SUFFICES ASSUME NEW o \in Subs(n), RoleOf(o) \in EntryRoles
               PROVE  o \in Active(n)
    BY DEF Queued
  <2>1. o \in Subs(m) /\ o \in Active(m)
    BY DEF Spares, Bars, Answered, Queued
  <2> QED
    BY <2>1 DEF Spares, Active, ActiveOf
<1>2. Unclosed(n)
  BY DEF Spares, NewIn, Answered, Unclosed
<1>3. Stopped(n)
  <2>1. RoleOf(StopOf(m)) \in GuardRoles
    BY DEF StopOf, RoleOf, GuardRoles
  <2>2. StopOf(n) = StopOf(m)
    BY DEF StopOf, Spares
  <2>3. StopOf(m) \in Active(m) => StopOf(m) \in Active(n)
    BY <2>1 DEF Spares, Active, ActiveOf
  <2> QED
    BY <2>2, <2>3 DEF Answered, Stopped, Spares
<1>4. Covered(n)
  BY SparedCover DEF Answered, Covered, Spares
<1> QED
  BY <1>1, <1>2, <1>3, <1>4 DEF Answered, Spares, HasSetup

\* So does what is guarded, where the step orders or ends no exit.
LEMMA SparedGuarded ==
    ASSUME NEW m, NEW n, Spares(m, n), Guarded(m),
           (n.life = "EXIT_PENDING") = (m.life = "EXIT_PENDING")
    PROVE  Guarded(n)
<1>1. RealOpen(n) = RealOpen(m) /\ (HasSetup(n) <=> HasSetup(m)) /\ n.setup.pend = m.setup.pend
  BY DEF RealOpen, HasSetup, Spares
<1>2. CASE Closed(m)
  BY <1>1, <1>2 DEF Guarded, Closed, Entryless, Spares, Bars
<1>3. CASE Idle(m)
  BY <1>1, <1>3 DEF Guarded, Idle, Spares, Bars
<1>4. CASE Held(m)
  BY <1>1, <1>4, SparedAnswered DEF Guarded, Held
<1> QED
  BY <1>2, <1>3, <1>4 DEF Guarded

\* Marking orders: those that matter stay active or inactive.
LEMMA MarkSpares ==
    ASSUME NEW m, Typed(m), NEW ids, NEW st \in Statuses,
           \A o \in ids \cap DOMAIN m.orders :
               \/ (o \in Active(m)) = (st \in ActiveStatuses)
               \/ RoleOf(o) \notin GuardRoles \cup EntryRoles /\ st \notin ActiveStatuses
    PROVE  Spares(m, Mark(m, ids, st))
<1> DEFINE n == Mark(m, ids, st)
<1>1. /\ DOMAIN n.orders = DOMAIN m.orders
      /\ \A o \in DOMAIN m.orders :
            /\ n.orders[o].fill = m.orders[o].fill /\ n.orders[o].req = m.orders[o].req
            /\ n.orders[o].st = IF o \in ids THEN st ELSE m.orders[o].st
      /\ n.setup = m.setup /\ n.outbox = m.outbox /\ n.out = m.out
      /\ n.base = m.base /\ n.addon = m.addon
  BY DEF Mark, Typed, Heads, Fields, Ledger, RowOK
<1> HIDE DEF n
<1>2. \A o \in DOMAIN m.orders : RoleOf(o) \in GuardRoles \cup EntryRoles =>
          (o \in Active(n) <=> o \in Active(m))
  BY <1>1 DEF Active, ActiveOf, Typed, Ledger
<1>3. EntryRoles \subseteq Roles
  BY DEF Roles
<1>4. ActiveOf(n, EntryRoles) = ActiveOf(m, EntryRoles)
  BY <1>1, <1>2, <1>3 DEF Active, ActiveOf
<1>5. Bars(m, n)
  BY <1>1, <1>4 DEF Bars, Subs
<1> QED
  BY <1>1, <1>2, <1>5 DEF Spares, NewIn, n

\* Withdrawing orders with their submits, cancels, requests and acknowledgements.
LEMMA IntentsSpare ==
    ASSUME NEW m, Typed(m), NEW ids, NEW reason
    PROVE  /\ Spares(m, SendCancels(m, ids, reason))
           /\ Spares(m, Ask(m))
           /\ Spares(m, AckCancels(m, ids))
           /\ Spares(m, Ack(m, ids))
           /\ Spares(m, Store(m))
           /\ Spares(m, Replay(m, ids))
<1>1. ASSUME NEW n, n.orders = m.orders, n.setup = m.setup, n.base = m.base, n.addon = m.addon,
             n.outbox.subs \cup n.out.subs \subseteq m.outbox.subs \cup m.out.subs
      PROVE  Spares(m, n)
  BY <1>1, SameSpares DEF Subs
<1>2. Spares(m, SendCancels(m, ids, reason))
  <2> DEFINE n == SendCancels(m, ids, reason)
  <2>1. /\ n.orders = m.orders /\ n.setup = m.setup /\ n.base = m.base /\ n.addon = m.addon
        /\ n.outbox.subs \cup n.out.subs = m.outbox.subs \cup m.out.subs
    BY DEF SendCancels, Typed, Heads, Fields, Outboxes, IntentsOK
  <2> HIDE DEF n
  <2>2. Spares(m, n)
    BY <1>1, <2>1
  <2> QED
    BY <2>2 DEF n
<1>3. Spares(m, Ask(m))
  BY <1>1 DEF Ask, Typed, Heads, Fields, Outboxes, IntentsOK
<1>4. Spares(m, AckCancels(m, ids))
  BY <1>1 DEF AckCancels, Typed, Heads, Fields, Outboxes, IntentsOK
<1>5. Spares(m, Ack(m, ids))
  BY <1>1 DEF Ack, Typed, Heads, Fields, Outboxes, IntentsOK
<1>6. Spares(m, Store(m))
  <2> DEFINE n == Store(m)
  <2>1. /\ n.orders = m.orders /\ n.setup = m.setup /\ n.base = m.base /\ n.addon = m.addon
        /\ n.outbox.subs \cup n.out.subs = m.outbox.subs \cup m.out.subs
    BY DEF Store, NoIntents, Typed, Heads, Fields, Outboxes, IntentsOK
  <2> HIDE DEF n
  <2>2. Spares(m, n)
    BY <1>1, <2>1
  <2> QED
    BY <2>2 DEF n
<1>7. Spares(m, Replay(m, ids))
  <2>1. Replayable(m, ids) \subseteq m.outbox.subs
    BY DEF Replayable
  <2> QED
    BY <1>1, <2>1 DEF Replay, Typed, Heads, Fields, Outboxes, IntentsOK
<1> QED
  BY <1>2, <1>3, <1>4, <1>5, <1>6, <1>7

\* Withdrawing orders that do not answer for exposure, and their submits.
LEMMA WithdrawnSpares ==
    ASSUME NEW m, Typed(m), NEW ids, NEW st \in Statuses \ ActiveStatuses,
           \A o \in ids \cap DOMAIN m.orders : RoleOf(o) \notin GuardRoles,
           ids \cap m.out.subs = {}
    PROVE  Spares(m, Ack(Mark(m, ids, st), ids))
<1> DEFINE n == Ack(Mark(m, ids, st), ids)
<1>1. /\ DOMAIN n.orders = DOMAIN m.orders
      /\ \A o \in DOMAIN m.orders :
            /\ n.orders[o].fill = m.orders[o].fill /\ n.orders[o].req = m.orders[o].req
            /\ n.orders[o].st = IF o \in ids THEN st ELSE m.orders[o].st
      /\ n.setup = m.setup /\ n.outbox.subs = m.outbox.subs \ ids /\ n.out = m.out
      /\ n.base = m.base /\ n.addon = m.addon
  BY DEF Mark, Ack, Typed, Heads, Fields, Ledger, RowOK, Outboxes, IntentsOK
<1> HIDE DEF n
<1>2. \A o \in DOMAIN m.orders : o \notin ids => (o \in Active(n) <=> o \in Active(m))
  BY <1>1 DEF Active, ActiveOf
<1>3. \A o \in DOMAIN m.orders : o \in Subs(n) => o \notin ids
  BY <1>1 DEF Subs
<1>4. Bars(m, n)
  BY <1>1 DEF Bars, Subs, ActiveOf
<1> QED
  BY <1>1, <1>2, <1>3, <1>4 DEF Spares, NewIn, n

\* A new take profit.
LEMMA RegisterSpares ==
    ASSUME NEW m, Typed(m), NEW o, o \notin DOMAIN m.orders, RoleOf(o) = "TAKE_PROFIT",
           NEW qty, NEW side
    PROVE  Spares(m, Register(m, o, qty, side))
<1> DEFINE n == Register(m, o, qty, side)
<1>1. /\ DOMAIN n.orders = DOMAIN m.orders \cup {o}
      /\ \A x \in DOMAIN m.orders : x # o => n.orders[x] = m.orders[x]
      /\ n.setup = m.setup /\ n.base = m.base /\ n.addon = m.addon
      /\ n.outbox = m.outbox /\ n.out.subs = m.out.subs \cup {o}
  BY Registered
<1> HIDE DEF n
<1>2. RoleOf(o) \notin EntryRoles
  BY DEF EntryRoles
<1>3. Bars(m, n)
  BY <1>1, <1>2 DEF Bars, Subs, ActiveOf
<1> QED
  BY <1>1, <1>3 DEF Spares, NewIn, Active, ActiveOf, n

\* Installing or refreshing the take profit.
LEMMA NextTakeProfitSpares ==
    ASSUME NEW m, Typed(m), Numbered(m)
    PROVE  Spares(m, NextTakeProfit(m))
<1> DEFINE previous == <<"TAKE_PROFIT", m.setup.id, m.setup.tp>>
           next == <<"TAKE_PROFIT", m.setup.id, m.setup.tp + 1>>
           marked == Mark(m, {previous} \cap Active(m), "CANCEL_PENDING")
           n == IF m.setup.tp = 0 THEN Register(m, next, RealOpen(m), ExitSide(m))
                ELSE Supersede(m, previous, next)
           p == [n EXCEPT !.setup.tp = @ + 1]
<1>1. /\ SetupOf(next) = m.setup.id /\ RoleOf(next) = "TAKE_PROFIT" /\ next[3] = m.setup.tp + 1
      /\ RoleOf(previous) = "TAKE_PROFIT"
  BY DEF RoleOf, SetupOf
<1>2. NextTakeProfit(m) = p
  BY DEF NextTakeProfit
<1>3. Supersede(m, previous, next) = Register(marked, next, RealOpen(m), ExitSide(m))
  BY DEF Supersede
<1>4. Spares(m, marked) /\ Still(m, marked)
  <2>1. "CANCEL_PENDING" \in Statuses \ ActiveStatuses
    BY DEF Statuses, ActiveStatuses, TerminalStatuses
  <2>2. RoleOf(previous) \notin GuardRoles \cup EntryRoles
    BY <1>1 DEF GuardRoles, EntryRoles, ReducingRoles
  <2> QED
    BY <2>1, <2>2, MarkSpares, MarkStill
<1>5. DOMAIN marked.orders = DOMAIN m.orders
  BY DEF Mark, Typed, Heads, Fields
<1>6. next \notin DOMAIN m.orders
  BY <1>1, NextIsNew
<1> HIDE DEF next, previous, marked
<1>7. Spares(m, Register(m, next, RealOpen(m), ExitSide(m)))
  BY <1>1, <1>6, RegisterSpares
<1>8. Spares(m, Supersede(m, previous, next))
  <2>1. Spares(marked, Register(marked, next, RealOpen(m), ExitSide(m)))
    BY <1>1, <1>4, <1>5, <1>6, RegisterSpares DEF Still
  <2> QED
    BY <1>3, <1>4, <2>1, SparesTrans
<1>9. Typed(n) /\ Spares(m, n)
  <2>1. RoleOf(next) \in Roles
    BY <1>1 DEF Roles, ProtectiveRoles
  <2> QED
    BY <1>1, <1>7, <1>8, <2>1, Lots, SupersedeStill, RegisterStill DEF Still
<1> HIDE DEF n
<1>10. p.orders = n.orders /\ p.outbox = n.outbox /\ p.out = n.out /\ p.base = n.base
       /\ p.addon = n.addon /\ p.setup.id = n.setup.id /\ p.setup.bs = n.setup.bs
       /\ p.setup.pend = n.setup.pend
  BY <1>9 DEF Typed, Heads, Fields, SetupOK
<1>11. Spares(n, p)
  BY <1>10, SameSpares DEF Subs
<1> QED
  BY <1>2, <1>9, <1>11, SparesTrans

\* A change of the setup's marks.
LEMMA SetupSpares ==
    ASSUME NEW m, Typed(m), NEW v
    PROVE  /\ Spares(m, [m EXCEPT !.setup.lock = v])
           /\ Spares(m, [m EXCEPT !.setup.stale = v])
           /\ Spares(m, [m EXCEPT !.setup.consumed = v])
           /\ Spares(m, [m EXCEPT !.setup.final = v])
           /\ Spares(m, [m EXCEPT !.setup.print = v])
           /\ Spares(m, [m EXCEPT !.recovery = v])
           /\ Spares(m, [m EXCEPT !.drift = v])
           /\ Spares(m, [m EXCEPT !.life = v])
           /\ Spares(m, [m EXCEPT !.execs = v])
           /\ Spares(m, [m EXCEPT !.asOf = v])
           /\ Spares(m, [m EXCEPT !.tripped = v])
<1>1. ASSUME NEW n, n.orders = m.orders, n.outbox = m.outbox, n.out = m.out,
             n.setup.id = m.setup.id, n.setup.bs = m.setup.bs, n.setup.pend = m.setup.pend,
             n.base = m.base, n.addon = m.addon
      PROVE  Spares(m, n)
  BY <1>1, SameSpares DEF Subs
<1>2. Spares(m, [m EXCEPT !.setup.lock = v]) /\ Spares(m, [m EXCEPT !.setup.stale = v])
  BY <1>1 DEF Typed, Heads, Fields, SetupOK
<1>3. Spares(m, [m EXCEPT !.setup.consumed = v]) /\ Spares(m, [m EXCEPT !.setup.final = v])
  BY <1>1 DEF Typed, Heads, Fields, SetupOK
<1>4. Spares(m, [m EXCEPT !.setup.print = v])
  BY <1>1 DEF Typed, Heads, Fields, SetupOK
<1>5. Spares(m, [m EXCEPT !.recovery = v]) /\ Spares(m, [m EXCEPT !.drift = v])
  BY <1>1 DEF Typed, Heads, Fields, SetupOK
<1>6. Spares(m, [m EXCEPT !.life = v]) /\ Spares(m, [m EXCEPT !.execs = v])
  BY <1>1 DEF Typed, Heads, Fields, SetupOK
<1>7. Spares(m, [m EXCEPT !.asOf = v]) /\ Spares(m, [m EXCEPT !.tripped = v])
  BY <1>1 DEF Typed, Heads, Fields, SetupOK
<1> QED
  BY <1>2, <1>3, <1>4, <1>5, <1>6, <1>7

\* Placing or renewing the take profit spares the guards.
LEMMA TakeProfitSpares ==
    ASSUME NEW m, Typed(m), Numbered(m)
    PROVE  Spares(m, UpsertTakeProfit(m)) /\ Spares(m, RefreshTakeProfit(m))
<1> DEFINE n == NextTakeProfit(m)
<1>1. Spares(m, n)
  BY NextTakeProfitSpares
<1>2. ASSUME HasSetup(m), RealOpen(m) > 0
      PROVE  Typed(n)
  BY <1>2, NextTakeProfitStill DEF Still
<1> HIDE DEF n
<1>3. ASSUME HasSetup(m), RealOpen(m) > 0
      PROVE  Spares(m, [n EXCEPT !.setup.stale = FALSE])
  <2>1. Spares(n, [n EXCEPT !.setup.stale = FALSE])
    BY <1>2, <1>3, SetupSpares
  <2> QED
    BY <1>1, <2>1, SparesTrans
<1> QED
  BY <1>1, <1>3, SparesSelf DEF UpsertTakeProfit, RefreshTakeProfit, n

\* The exact effect of canceling the orders of some roles.
LEMMA CancelRolesIs ==
    ASSUME NEW m, Typed(m), NEW roles
    PROVE  LET n == CancelRoles(m, roles)
           IN  /\ DOMAIN n.orders = DOMAIN m.orders
               /\ \A o \in DOMAIN m.orders :
                     /\ n.orders[o].fill = m.orders[o].fill /\ n.orders[o].req = m.orders[o].req
                     /\ o \notin ActiveOf(m, roles) => n.orders[o].st = m.orders[o].st
               /\ ActiveOf(n, roles) = {}
               /\ n.setup = m.setup /\ n.base = m.base /\ n.addon = m.addon /\ n.life = m.life
               /\ n.outbox.subs = m.outbox.subs \ ActiveOf(m, roles) /\ n.out.subs = m.out.subs
<1> DEFINE ids == ActiveOf(m, roles)
           acked == Ack(Mark(m, ids, "CANCEL_PENDING"), ids)
           n == SendCancels(acked, ids, "ROLE_CANCEL")
<1>1. /\ DOMAIN acked.orders = DOMAIN m.orders
      /\ \A o \in DOMAIN m.orders :
            /\ acked.orders[o].fill = m.orders[o].fill /\ acked.orders[o].req = m.orders[o].req
            /\ acked.orders[o].st = IF o \in ids THEN "CANCEL_PENDING" ELSE m.orders[o].st
      /\ acked.setup = m.setup /\ acked.base = m.base /\ acked.addon = m.addon
      /\ acked.life = m.life
      /\ acked.outbox.subs = m.outbox.subs \ ids /\ acked.out = m.out
  BY DEF Mark, Ack, Typed, Heads, Fields, Ledger, RowOK, Outboxes, IntentsOK
<1>2. Typed(acked)
  <2>1. "CANCEL_PENDING" \in Statuses
    BY DEF Statuses
  <2> QED
    BY <2>1, MarkStill, AckStill DEF Still
<1>3. ids = ActiveOf(m, roles)
  OBVIOUS
<1> HIDE DEF acked, ids
<1>4. /\ n.orders = acked.orders /\ n.setup = acked.setup /\ n.base = acked.base
      /\ n.addon = acked.addon /\ n.life = acked.life
      /\ n.outbox = acked.outbox /\ n.out.subs = acked.out.subs
  BY <1>2 DEF SendCancels, Typed, Heads, Fields, Outboxes, IntentsOK
<1>5. CancelRoles(m, roles) = n
  BY DEF CancelRoles, n, acked, ids
<1> HIDE DEF n
<1>6. ActiveOf(n, roles) = {}
  BY <1>1, <1>3, <1>4 DEF ActiveOf, ActiveStatuses
<1> QED
  BY <1>1, <1>3, <1>4, <1>5, <1>6

\* Canceling orders adds no risk.
LEMMA CancelRolesBars ==
    ASSUME NEW m, Typed(m), NEW roles
    PROVE  Bars(m, CancelRoles(m, roles))
<1> DEFINE n == CancelRoles(m, roles)
<1>1. /\ DOMAIN n.orders = DOMAIN m.orders
      /\ \A o \in DOMAIN m.orders : o \notin ActiveOf(m, roles) => n.orders[o].st = m.orders[o].st
      /\ ActiveOf(n, roles) = {}
      /\ n.outbox.subs \subseteq m.outbox.subs /\ n.out.subs = m.out.subs
  BY CancelRolesIs
<1> HIDE DEF n
<1> QED
  BY <1>1 DEF Bars, ActiveOf, Subs, n

\* Withdrawing the entries leaves none, where none was emitted in this transition
\* and those in the outbox are active.
LEMMA EntriesOff ==
    ASSUME NEW m, Typed(m), m.out.subs = {}, Queued(m)
    PROVE  Entryless(CancelRoles(m, EntryRoles))
<1> DEFINE n == CancelRoles(m, EntryRoles)
<1>1. /\ ActiveOf(n, EntryRoles) = {}
      /\ n.outbox.subs = m.outbox.subs \ ActiveOf(m, EntryRoles) /\ n.out.subs = m.out.subs
  BY CancelRolesIs
<1> HIDE DEF n
<1>2. \A o \in Subs(m) : RoleOf(o) \in EntryRoles => o \in ActiveOf(m, EntryRoles)
  BY DEF Queued, Active, ActiveOf
<1> QED
  BY <1>1, <1>2 DEF Entryless, Subs, n

\* A whole-position close adds an order that takes no risk.
LEMMA CloseAllBars ==
    ASSUME NEW m, Typed(m), NEW reason \in CloseReasons, NEW discriminator,
           NEW qty \in Nat, NEW side \in {1, -1}
    PROVE  LET n == CloseAll(m, reason, discriminator, qty, side)
           IN  /\ Bars(m, n) /\ n.life = m.life /\ n.base = m.base /\ n.addon = m.addon
               /\ IF HasSetup(m) THEN n.setup.id = m.setup.id /\ n.setup.pend = reason
                  ELSE n.setup = m.setup
<1> DEFINE o == <<"CLOSE_ALL", m.setup.id, <<discriminator, reason, side, qty>>>>
           m1 == IF HasSetup(m) THEN [m EXCEPT !.setup.pend = reason] ELSE m
           others == {x \in ActiveOf(m, {"CLOSE_ALL"}) : SetupOf(x) = m.setup.id}
           sent == SendCancels(Mark(m1, others, "CANCEL_PENDING"), others, "CLOSE_ALL_REPLACE")
           n == Register(sent, o, qty, side)
<1>1. CloseAll(m, reason, discriminator, qty, side) = IF o \in DOMAIN m.orders THEN m1 ELSE n
  BY DEF CloseAll
<1>2. RoleOf(o) \notin EntryRoles
  BY DEF RoleOf, EntryRoles
<1> HIDE DEF o
<1>3. /\ Typed(m1) /\ m1.orders = m.orders /\ m1.outbox = m.outbox /\ m1.out = m.out
      /\ m1.life = m.life /\ m1.base = m.base /\ m1.addon = m.addon
      /\ IF HasSetup(m) THEN m1.setup.id = m.setup.id /\ m1.setup.pend = reason
                        ELSE m1.setup = m.setup
  <2>1. Typed(m1)
    BY PendStill DEF Still, Reasons
  <2> QED
    BY <2>1 DEF Typed, Heads, Fields, SetupOK
<1> HIDE DEF m1
<1>4. /\ Typed(sent) /\ DOMAIN sent.orders = DOMAIN m.orders
      /\ \A x \in DOMAIN m.orders : x \in Active(sent) => x \in Active(m)
      /\ sent.outbox.subs = m.outbox.subs /\ sent.out.subs = m.out.subs
      /\ sent.life = m1.life /\ sent.base = m1.base /\ sent.addon = m1.addon
      /\ sent.setup = m1.setup
  <2> DEFINE marked == Mark(m1, others, "CANCEL_PENDING")
  <2>1. "CANCEL_PENDING" \in Statuses \ ActiveStatuses
    BY DEF Statuses, ActiveStatuses, TerminalStatuses
  <2>2. Typed(marked)
    BY <1>3, <2>1, MarkStill DEF Still
  <2>3. /\ DOMAIN marked.orders = DOMAIN m.orders
        /\ \A x \in DOMAIN m.orders : x \in Active(marked) => x \in Active(m)
        /\ marked.outbox = m.outbox /\ marked.out = m.out
        /\ marked.life = m1.life /\ marked.base = m1.base /\ marked.addon = m1.addon
        /\ marked.setup = m1.setup
    BY <1>3, <2>1 DEF Mark, Active, ActiveOf, Typed, Heads, Fields, Ledger, RowOK
  <2> HIDE DEF marked
  <2>4. Typed(sent)
    BY <2>2, SendCancelsStill DEF Still, marked
  <2>5. /\ sent.orders = marked.orders /\ sent.setup = marked.setup /\ sent.base = marked.base
        /\ sent.addon = marked.addon /\ sent.life = marked.life
        /\ sent.outbox = marked.outbox /\ sent.out.subs = marked.out.subs
    BY <2>2 DEF marked, SendCancels, Typed, Heads, Fields, Outboxes, IntentsOK
  <2> HIDE DEF sent
  <2> QED
    BY <2>3, <2>4, <2>5 DEF Active, ActiveOf
<1> HIDE DEF sent
<1>5. o \notin DOMAIN m.orders =>
          /\ DOMAIN n.orders = DOMAIN m.orders \cup {o}
          /\ \A x \in DOMAIN m.orders : n.orders[x] = sent.orders[x]
          /\ n.outbox.subs = m.outbox.subs /\ n.out.subs = m.out.subs \cup {o}
          /\ n.life = m1.life /\ n.base = m1.base /\ n.addon = m1.addon /\ n.setup = m1.setup
  BY <1>4, Registered
<1> HIDE DEF n
<1>6. o \notin DOMAIN m.orders => Bars(m, n)
  <2>1. EntryRoles \subseteq Roles
    BY DEF Roles
  <2> QED
    BY <1>2, <1>4, <1>5, <2>1 DEF Bars, Active, ActiveOf, Subs
<1>7. Bars(m, m1)
  BY <1>3 DEF Bars, ActiveOf, Subs
<1> QED
  BY <1>1, <1>3, <1>5, <1>6, <1>7

\* An exit in which nothing can add risk any more, before its close is asked for.
Settled(m) == ~HasSetup(m) => m.setup.pend = None /\ RealOpen(m) = 0
Quenched(m) == Entryless(m) /\ m.life = "EXIT_PENDING" /\ Settled(m)

\* What is guarded is settled.
LEMMA GuardedSettled ==
    ASSUME NEW m, Guarded(m)
    PROVE  Settled(m) /\ (~HasSetup(m) => Idle(m)) /\ (HasSetup(m) => Queued(m))
BY DEF Guarded, Closed, Idle, Held, Answered, Settled, Entryless, Queued

\* With its reason it is closed, without a setup idle.
LEMMA QuenchedGuarded ==
    ASSUME NEW m, Quenched(m), HasSetup(m) => m.setup.pend # None
    PROVE  Guarded(m)
BY DEF Quenched, Guarded, Closed, Idle, Entryless, Settled

\* Nothing that adds risk comes to life where there is none.
LEMMA BarsEntryless ==
    ASSUME NEW m, NEW n, Bars(m, n), Entryless(m)
    PROVE  Entryless(n)
BY DEF Bars, Entryless

\* Withdrawing every order at once.
LEMMA CancelAllQuenches ==
    ASSUME NEW m, Typed(m), m.out.subs = {}, m.life = "EXIT_PENDING", Settled(m), NEW reason
    PROVE  LET n == CancelAll(m, reason)
           IN  Quenched(n) /\ Typed(n) /\ n.setup = m.setup
<1> DEFINE n == CancelAll(m, reason)
<1>1. Active(n) = {} /\ Subs(n) = {} /\ n.setup = m.setup /\ n.life = m.life /\ Still(m, n)
  BY CancelAllFollows, CancelAllStill DEF Follows, Same
<1> HIDE DEF n
<1>2. ActiveOf(n, EntryRoles) = {}
  <2>1. EntryRoles \subseteq Roles
    BY DEF Roles
  <2> QED
    BY <1>1, <2>1 DEF Active, ActiveOf
<1>3. Settled(n)
  BY <1>1 DEF Settled, HasSetup, RealOpen, Still, Calm
<1>4. Quenched(n)
  BY <1>1, <1>2, <1>3 DEF Quenched, Entryless
<1> QED
  BY <1>1, <1>4 DEF Still, n

\* The close that follows.
LEMMA CloseSeals ==
    ASSUME NEW m, Typed(m), Quenched(m), NEW reason \in CloseReasons, NEW discriminator
    PROVE  /\ Guarded(CloseOpen(m, reason, discriminator))
           /\ \A actual \in Int : Guarded(CloseActual(m, reason, discriminator, actual))
<1>1. ASSUME NEW qty \in Nat, NEW side \in {1, -1}
      PROVE  Guarded(CloseAll(m, reason, discriminator, qty, side))
  <2> DEFINE n == CloseAll(m, reason, discriminator, qty, side)
  <2>1. /\ Bars(m, n) /\ n.life = m.life /\ n.base = m.base /\ n.addon = m.addon
        /\ IF HasSetup(m) THEN n.setup.id = m.setup.id /\ n.setup.pend = reason
           ELSE n.setup = m.setup
    BY <1>1, CloseAllBars
  <2> HIDE DEF n
  <2>2. Entryless(n)
    BY <2>1, BarsEntryless DEF Quenched
  <2>3. Settled(n) /\ (HasSetup(n) => n.setup.pend # None)
    BY <2>1 DEF Quenched, Settled, HasSetup, RealOpen, CloseReasons, None
  <2>4. Guarded(n)
    BY <2>1, <2>2, <2>3, QuenchedGuarded DEF Quenched
  <2> QED
    BY <2>4 DEF n
<1>2. Guarded(CloseOpen(m, reason, discriminator))
  BY <1>1, Lots DEF CloseOpen
<1>3. ASSUME NEW actual \in Int
      PROVE  Guarded(CloseActual(m, reason, discriminator, actual))
  <2>1. Abs(actual) \in Nat
    BY DEF Abs
  <2> QED
    BY <1>1, <2>1 DEF CloseActual
<1> QED
  BY <1>2, <1>3

\* The emergency exits.
LEMMA EmergencyCloseSeals ==
    ASSUME NEW m, Typed(m), m.out.subs = {}, Settled(m), NEW reason, NEW discriminator
    PROVE  Guarded(EmergencyClose(m, reason, discriminator))
<1> DEFINE exiting == [m EXCEPT !.life = "EXIT_PENDING"]
<1>1. /\ exiting.life = "EXIT_PENDING" /\ exiting.out = m.out /\ exiting.setup = m.setup
      /\ exiting.base = m.base /\ exiting.addon = m.addon
  BY DEF Typed, Heads, Fields
<1>2. Typed(exiting)
  BY LifeStill DEF Lifecycles, Still
<1> HIDE DEF exiting
<1>3. Settled(exiting)
  BY <1>1 DEF Settled, HasSetup, RealOpen
<1>4. Quenched(CancelAll(exiting, reason)) /\ Typed(CancelAll(exiting, reason))
  BY <1>1, <1>2, <1>3, CancelAllQuenches
<1>5. "ENGINE_ERROR" \in CloseReasons
  BY DEF CloseReasons
<1>6. Guarded(CloseOpen(CancelAll(exiting, reason), "ENGINE_ERROR", discriminator))
  BY <1>4, <1>5, CloseSeals
<1> QED
  BY <1>6 DEF EmergencyClose, exiting

\* A cap that is breached closes what is open.
LEMMA BreachCapSeals ==
    ASSUME NEW m, Typed(m), m.out.subs = {}, Settled(m)
    PROVE  Guarded(BreachCap(m))
<1> DEFINE locked == [m EXCEPT !.setup.lock = TRUE, !.recovery = TRUE]
<1>1. Typed(locked)
  BY DEF Typed, Heads, Fields, Ledger, Outboxes, IntentsOK, SetupOK
<1>2. locked.out = m.out /\ Settled(locked)
  BY DEF Settled, HasSetup, RealOpen, Typed, Heads, Fields, SetupOK
<1> HIDE DEF locked
<1> QED
  BY <1>1, <1>2, EmergencyCloseSeals DEF BreachCap, locked

\* The fail-safe.
LEMMA FailSafeSeals ==
    ASSUME NEW m, Typed(m), m.out.subs = {}, Guarded(m)
    PROVE  Guarded(FailSafe(m))
<1> DEFINE r == Rescued(m)
<1>1. /\ Still(m, r) /\ r.out = m.out /\ r.setup = m.setup /\ r.life = m.life /\ Spares(m, r)
  <2>1. Still(m, r)
    BY RecoverStill DEF Rescued
  <2>2. r.out = m.out /\ r.setup = m.setup /\ r.life = m.life
    BY DEF Rescued, Typed, Heads, Fields
  <2> QED
    BY <2>1, <2>2, SetupSpares DEF Rescued
<1> HIDE DEF r
<1>2. Settled(r)
  BY <1>1, GuardedSettled DEF Settled, HasSetup, RealOpen, Still, Calm
<1>3. Guarded(EmergencyClose(r, "INVARIANT_FAILSAFE", <<"invariant-failsafe", {}>>))
  BY <1>1, <1>2, EmergencyCloseSeals DEF Still
<1>4. Guarded(Ask(r))
  <2>1. Spares(m, Ask(r))
    BY <1>1, IntentsSpare, SparesTrans DEF Still
  <2>2. Ask(r).life = r.life
    BY <1>1 DEF Ask, Still, Typed, Heads, Fields
  <2> QED
    BY <1>1, <2>1, <2>2, SparedGuarded
<1> QED
  BY <1>3, <1>4 DEF FailSafe, r

\* A change of nothing the argument looks at.
LEMMA AsideSeals ==
    ASSUME NEW m, NEW n, Guarded(m), n.orders = m.orders, Subs(n) \subseteq Subs(m),
           n.setup.id = m.setup.id, n.setup.bs = m.setup.bs, n.setup.pend = m.setup.pend,
           n.base.qty = m.base.qty, n.addon.qty = m.addon.qty, n.life = m.life
    PROVE  Guarded(n)
BY SameSpares, SparedGuarded

----------------------------------------------------------------------------
(* Reports of orders.                                                      *)

\* Submissions and acceptances leave an active order active.
LEMMA SubmittedSeals ==
    ASSUME NEW m, Typed(m), Guarded(m), NEW o \in DOMAIN m.orders
    PROVE  Guarded(OnSubmitted(m, o)) /\ Guarded(OnAccepted(m, o))
<1> DEFINE acked == Ack(m, {o})
<1>1. /\ Spares(m, acked) /\ Typed(acked) /\ acked.orders = m.orders /\ acked.life = m.life
  BY IntentsSpare, AckStill DEF Ack, Still, Typed, Heads, Fields
<1> HIDE DEF acked
<1>2. ASSUME NEW st \in {"SUBMITTED", "ACCEPTED"}, m.orders[o].st \in ActiveStatuses
      PROVE  Guarded(Mark(acked, {o}, st))
  <2>1. st \in Statuses /\ st \in ActiveStatuses
    BY DEF Statuses, ActiveStatuses
  <2>2. o \in Active(acked)
    BY <1>1, <1>2 DEF Active, ActiveOf, Typed, Ledger
  <2>3. Spares(acked, Mark(acked, {o}, st))
    BY <1>1, <2>1, <2>2, MarkSpares
  <2>4. Mark(acked, {o}, st).life = acked.life
    BY <1>1 DEF Mark, Typed, Heads, Fields
  <2> QED
    BY <1>1, <2>3, <2>4, SparesTrans, SparedGuarded
<1>3. Guarded(acked)
  BY <1>1, SparedGuarded
<1> QED
  BY <1>2, <1>3 DEF OnSubmitted, OnAccepted, acked, ActiveStatuses

\* The venue confirms a cancel.
LEMMA CanceledSeals ==
    ASSUME NEW m, Typed(m), Guarded(m), NEW o \in DOMAIN m.orders,
           m.orders[o].st = "CANCEL_PENDING"
    PROVE  Guarded(OnTerminal(m, o, "CANCELED"))
<1> DEFINE acked == Ack(m, {o})
           heard == AckCancels(acked, {o})
           n == Mark(heard, {o}, "CANCELED")
<1>1. /\ Spares(m, acked) /\ Typed(acked) /\ acked.orders = m.orders /\ acked.life = m.life
  BY IntentsSpare, AckStill DEF Ack, Still, Typed, Heads, Fields
<1>2. OnTerminal(m, o, "CANCELED") = n
  <2>1. "CANCEL_PENDING" \notin TerminalStatuses
    BY DEF TerminalStatuses
  <2> QED
    BY <2>1 DEF OnTerminal
<1> HIDE DEF acked
<1>3. /\ Spares(acked, heard) /\ Typed(heard) /\ heard.orders = acked.orders
      /\ heard.life = acked.life
  <2>1. Spares(acked, heard) /\ Typed(heard)
    BY <1>1, IntentsSpare, AckStill DEF Still
  <2>2. heard.orders = acked.orders /\ heard.life = acked.life
    BY <1>1 DEF AckCancels, Typed, Heads, Fields
  <2> QED
    BY <2>1, <2>2
<1> HIDE DEF heard
<1>4. Spares(heard, n)
  <2>1. "CANCELED" \in Statuses \ ActiveStatuses /\ "CANCEL_PENDING" \notin ActiveStatuses
    BY DEF Statuses, ActiveStatuses, TerminalStatuses
  <2>2. o \notin Active(heard)
    BY <1>1, <1>3, <2>1 DEF Active, ActiveOf
  <2> QED
    BY <1>3, <2>1, <2>2, MarkSpares
<1>5. n.life = heard.life
  BY <1>3 DEF Mark, Typed, Heads, Fields
<1> HIDE DEF n
<1>6. Spares(m, n)
  BY <1>1, <1>3, <1>4, SparesTrans
<1> QED
  BY <1>1, <1>2, <1>3, <1>5, <1>6, SparedGuarded

----------------------------------------------------------------------------
(* What covers the add-on.                                                 *)

\* The members of CoverOf.
LEMMA CoverOfIs ==
    ASSUME NEW m
    PROVE  \A s : s \in CoverOf(m) <=>
               \E o \in ActiveOf(m, ReducingRoles) : \E k \in m.orders[o].fill + 1 .. m.orders[o].req :
                   SetupOf(o) = m.setup.id /\ s = <<o, k>>
<1>1. ASSUME NEW s, s \in CoverOf(m)
      PROVE  \E o \in ActiveOf(m, ReducingRoles) : \E k \in m.orders[o].fill + 1 .. m.orders[o].req :
                 SetupOf(o) = m.setup.id /\ s = <<o, k>>
  BY <1>1 DEF CoverOf
<1>2. ASSUME NEW o \in ActiveOf(m, ReducingRoles),
             NEW k \in m.orders[o].fill + 1 .. m.orders[o].req, SetupOf(o) = m.setup.id
      PROVE  <<o, k>> \in CoverOf(m)
  BY <1>2 DEF CoverOf
<1> QED
  BY <1>1, <1>2

\* The next q lots of one order that has filled f.
Span(o, f, q) == {o} \X (f + 1 .. f + q)
\* A span has as many lots as it says.
LEMMA SpanIs ==
    ASSUME NEW o, NEW f \in Nat, NEW q \in Nat
    PROVE  IsFiniteSet(Span(o, f, q)) /\ Cardinality(Span(o, f, q)) = q
<1>1. IsFiniteSet({o}) /\ Cardinality({o}) = 1
  BY FS_Singleton
<1>2. IsFiniteSet(f + 1 .. f + q) /\ Cardinality(f + 1 .. f + q) = q
  <2>1. f + 1 \in Int /\ f + q \in Int
    OBVIOUS
  <2>2. IsFiniteSet(f + 1 .. f + q)
        /\ Cardinality(f + 1 .. f + q) = IF f + 1 > f + q THEN 0 ELSE (f + q) - (f + 1) + 1
    BY <2>1, FS_Interval
  <2> QED
    BY <2>2
<1>3. /\ IsFiniteSet({o} \X (f + 1 .. f + q))
      /\ Cardinality({o} \X (f + 1 .. f + q)) = Cardinality({o}) * Cardinality(f + 1 .. f + q)
  BY <1>1, <1>2, FS_Product
<1> QED
  BY <1>1, <1>2, <1>3 DEF Span

\* A cover that loses at most q lots of one order still covers q lots less.
LEMMA CoverLosing ==
    ASSUME NEW big, NEW small, IsFiniteSet(big), IsFiniteSet(small), NEW o, NEW f \in Nat,
           NEW q \in Nat, big \subseteq small \cup Span(o, f, q),
           NEW k \in Nat, k <= Cardinality(big), q <= k
    PROVE  k - q <= Cardinality(small)
<1> DEFINE gone == Span(o, f, q)
<1>1. IsFiniteSet(gone) /\ Cardinality(gone) = q
  BY SpanIs
<1>2. big \in SUBSET (small \cup gone)
  OBVIOUS
<1> HIDE DEF gone
<1>3. IsFiniteSet(small)
  OBVIOUS
<1>4. /\ IsFiniteSet(small \cup gone)
      /\ Cardinality(small \cup gone) =
            Cardinality(small) + Cardinality(gone) - Cardinality(small \cap gone)
  BY <1>1, <1>3, FS_Union
<1>5. Cardinality(big) <= Cardinality(small \cup gone)
  BY <1>2, <1>4, FS_Subset
<1>6. IsFiniteSet(small \cap gone)
  <2>1. small \cap gone \in SUBSET gone
    OBVIOUS
  <2> QED
    BY <1>1, <2>1, FS_Subset
<1>7. /\ Cardinality(small) \in Nat /\ Cardinality(small \cap gone) \in Nat
      /\ Cardinality(big) \in Nat
  BY <1>3, <1>6, FS_CardinalityType
<1> QED
  BY <1>1, <1>3, <1>4, <1>5, <1>7

\* A cover that gains q lots of a new order covers q lots more.
LEMMA CoverGaining ==
    ASSUME NEW old, IsFiniteSet(old), NEW o, NEW q \in Nat, \A k : <<o, k>> \notin old,
           NEW k \in Nat, k <= Cardinality(old)
    PROVE  LET new == old \cup Span(o, 0, q) IN IsFiniteSet(new) /\ k + q <= Cardinality(new)
<1> DEFINE more == Span(o, 0, q)
<1>1. IsFiniteSet(more) /\ Cardinality(more) = q
  BY SpanIs
<1>2. old \cap more = {}
  BY DEF Span
<1> HIDE DEF more
<1>3. Cardinality(old \cap more) = 0
  BY <1>2, FS_EmptySet
<1>4. /\ IsFiniteSet(old \cup more)
      /\ Cardinality(old \cup more) =
            Cardinality(old) + Cardinality(more) - Cardinality(old \cap more)
  BY <1>1, FS_Union
<1>5. Cardinality(old) \in Nat
  BY FS_CardinalityType
<1>6. IsFiniteSet(old \cup more) /\ k + q <= Cardinality(old \cup more)
  BY <1>1, <1>3, <1>4, <1>5
<1> QED
  BY <1>6 DEF more

\* Where nothing reduces the add-on, there is no cover.
LEMMA NoCover ==
    ASSUME NEW m, \A o \in ActiveOf(m, ReducingRoles) : SetupOf(o) # m.setup.id
    PROVE  CoverOf(m) = {} /\ IsFiniteSet(CoverOf(m)) /\ Cardinality(CoverOf(m)) = 0
<1>1. CoverOf(m) = {}
  BY CoverOfIs
<1> QED
  BY <1>1, FS_EmptySet

----------------------------------------------------------------------------
(* Fills.                                                                  *)

\* What booking a fill changes.
LEMMA BookChanges ==
    ASSUME NEW m, Typed(m), NEW o \in DOMAIN m.orders, NEW q \in Nat, NEW full
    PROVE  LET n == Book(m, o, q, full)
           IN  /\ DOMAIN n.orders = DOMAIN m.orders
               /\ n.orders[o].fill = m.orders[o].fill + q /\ n.orders[o].req = m.orders[o].req
               /\ n.orders[o].st = IF full THEN "FILLED" ELSE "PARTIALLY_FILLED"
               /\ \A x \in DOMAIN m.orders \ {o} : n.orders[x] = m.orders[x]
               /\ n.setup = m.setup /\ n.base = m.base /\ n.addon = m.addon /\ n.life = m.life
               /\ n.out = m.out /\ n.outbox.subs = m.outbox.subs \ {o}
<1> DEFINE st == IF full THEN "FILLED" ELSE "PARTIALLY_FILLED"
           acked == Ack(m, {o})
           n == [acked EXCEPT !.execs = @ + 1, !.orders[o].fill = @ + q, !.orders[o].st = st]
<1>1. /\ Typed(acked) /\ acked.orders = m.orders /\ acked.setup = m.setup
      /\ acked.base = m.base /\ acked.addon = m.addon /\ acked.life = m.life
      /\ acked.out = m.out /\ acked.outbox.subs = m.outbox.subs \ {o}
  <2>1. Typed(acked)
    BY AckStill DEF Still
  <2> QED
    BY <2>1 DEF Ack, Typed, Heads, Fields, Outboxes, IntentsOK
<1> HIDE DEF acked
<1>2. /\ DOMAIN n.orders = DOMAIN m.orders
      /\ n.orders[o].fill = m.orders[o].fill + q /\ n.orders[o].req = m.orders[o].req
      /\ n.orders[o].st = st
      /\ \A x \in DOMAIN m.orders \ {o} : n.orders[x] = m.orders[x]
  BY <1>1 DEF Typed, Heads, Fields, Ledger, RowOK
<1>3. /\ n.setup = acked.setup /\ n.base = acked.base /\ n.addon = acked.addon
      /\ n.life = acked.life /\ n.out = acked.out /\ n.outbox = acked.outbox
  BY <1>1 DEF Typed, Heads, Fields
<1>4. Book(m, o, q, full) = n
  BY DEF Book, n, acked
<1> HIDE DEF n
<1> QED
  BY <1>1, <1>2, <1>3, <1>4

\* Only the base stop is replaced, and an active one stands.
Restops(m, n) ==
    /\ n.setup.id = m.setup.id /\ n.setup.pend = m.setup.pend /\ n.setup.bs # 0
    /\ StopOf(n) \in Active(n)
    /\ n.base = m.base /\ n.addon = m.addon
    /\ DOMAIN m.orders \subseteq DOMAIN n.orders
    /\ \A x \in NewIn(m, n) : RoleOf(x) = "BASE_STOP"
    /\ \A x \in DOMAIN m.orders : RoleOf(x) # "BASE_STOP" => n.orders[x] = m.orders[x]
    /\ \A x \in Subs(n) : RoleOf(x) # "BASE_STOP" => x \in Subs(m)

\* That is what installing or moving the base stop does.
LEMMA UpsertedStop ==
    ASSUME NEW m, Typed(m), Numbered(m), HasSetup(m), NEW moved,
           m.setup.bs # 0 => StopOf(m) \in Active(m)
    PROVE  Restops(m, UpsertBaseStop(m, moved))
<1> DEFINE previous == <<"BASE_STOP", m.setup.id, m.setup.bs>>
           next == <<"BASE_STOP", m.setup.id, m.setup.bs + 1>>
           marked == Mark(m, {previous} \cap Active(m), "CANCEL_PENDING")
           fresh == Register(m, next, RealOpen(m), ExitSide(m))
           placed == Supersede(m, previous, next)
<1>1. /\ SetupOf(next) = m.setup.id /\ RoleOf(next) = "BASE_STOP" /\ next[3] = m.setup.bs + 1
      /\ RoleOf(previous) = "BASE_STOP"
  BY DEF RoleOf, SetupOf
<1>2. next \notin DOMAIN m.orders
  BY <1>1, NextIsNew
<1>3. m.setup.bs \in Nat /\ RoleOf(next) \in Roles
  BY <1>1 DEF Numbered, Roles, ProtectiveRoles
<1>4. ASSUME NEW k, Typed(k), k.setup = m.setup, k.base = m.base, k.addon = m.addon,
             DOMAIN k.orders = DOMAIN m.orders, Subs(k) = Subs(m),
             \A x \in DOMAIN m.orders : RoleOf(x) # "BASE_STOP" => k.orders[x] = m.orders[x],
             NEW r, r = Register(k, next, RealOpen(m), ExitSide(m)),
             NEW p, p = [r EXCEPT !.setup.bs = m.setup.bs + 1]
      PROVE  Restops(m, p)
  <2>1. /\ DOMAIN r.orders = DOMAIN k.orders \cup {next} /\ r.orders[next].st = "INTENDED"
        /\ \A x \in DOMAIN k.orders : x # next => r.orders[x] = k.orders[x]
        /\ r.setup = k.setup /\ r.base = k.base /\ r.addon = k.addon
        /\ r.outbox = k.outbox /\ r.out.subs = k.out.subs \cup {next}
    BY <1>4, Registered
  <2>2. Typed(r)
    BY <1>1, <1>3, <1>4, Lots, RegisterStill DEF Still
  <2>3. /\ p.orders = r.orders /\ p.outbox = r.outbox /\ p.out = r.out /\ p.base = r.base
        /\ p.addon = r.addon /\ p.setup.id = r.setup.id /\ p.setup.pend = r.setup.pend
        /\ p.setup.bs = m.setup.bs + 1
    BY <1>4, <2>2 DEF Typed, Heads, Fields, SetupOK
  <2>4. StopOf(p) = next
    BY <1>4, <2>1, <2>3 DEF StopOf
  <2>5. next \in Active(p)
    BY <1>3, <2>1, <2>3 DEF Active, ActiveOf, ActiveStatuses
  <2>6. NewIn(m, p) = {next}
    BY <1>2, <1>4, <2>1, <2>3 DEF NewIn
  <2>7. Subs(p) = Subs(m) \cup {next}
    BY <1>4, <2>1, <2>3 DEF Subs
  <2>8. m.setup.bs + 1 # 0
    BY <1>3
  <2>9. \A x \in DOMAIN m.orders : RoleOf(x) # "BASE_STOP" => p.orders[x] = m.orders[x]
    BY <1>1, <1>4, <2>1, <2>3
  <2> HIDE DEF next
  <2>10. DOMAIN m.orders \subseteq DOMAIN p.orders
    BY <1>4, <2>1, <2>3
  <2>11. p.setup.id = m.setup.id /\ p.setup.pend = m.setup.pend /\ p.base = m.base /\ p.addon = m.addon
    BY <1>4, <2>1, <2>3
  <2> QED
    BY <1>1, <2>3, <2>4, <2>5, <2>6, <2>7, <2>8, <2>9, <2>10, <2>11 DEF Restops
<1>5. m.setup.bs = 0 => Restops(m, [fresh EXCEPT !.setup.bs = 1])
  <2> SUFFICES ASSUME m.setup.bs = 0
               PROVE  Restops(m, [fresh EXCEPT !.setup.bs = 1])
    OBVIOUS
  <2>1. m.setup.bs + 1 = 1
    OBVIOUS
  <2>2. fresh = Register(m, next, RealOpen(m), ExitSide(m))
    OBVIOUS
  <2> HIDE DEF fresh, next
  <2>3. Restops(m, [fresh EXCEPT !.setup.bs = m.setup.bs + 1])
    BY <1>4, <2>2
  <2> QED
    BY <2>1, <2>3
<1>6. Restops(m, [placed EXCEPT !.setup.bs = @ + 1])
  <2>1. placed = Register(marked, next, RealOpen(m), ExitSide(m))
    BY DEF Supersede
  <2>2. "CANCEL_PENDING" \in Statuses
    BY DEF Statuses
  <2>3. Typed(marked)
    BY <2>2, MarkStill DEF Still
  <2>4. /\ marked.setup = m.setup /\ marked.base = m.base /\ marked.addon = m.addon
        /\ DOMAIN marked.orders = DOMAIN m.orders
        /\ marked.outbox = m.outbox /\ marked.out = m.out
    BY DEF Mark, Typed, Heads, Fields
  <2>5. \A x \in DOMAIN m.orders : RoleOf(x) # "BASE_STOP" => marked.orders[x] = m.orders[x]
    BY <1>1 DEF Mark, Typed, Heads, Fields, Ledger, RowOK
  <2>6. Subs(marked) = Subs(m)
    BY <2>4 DEF Subs
  <2> HIDE DEF marked, placed, next
  <2>7. placed.setup = m.setup
    BY <2>1, <2>3, <2>4, Registered
  <2>8. [placed EXCEPT !.setup.bs = @ + 1] = [placed EXCEPT !.setup.bs = m.setup.bs + 1]
    BY <2>7
  <2> QED
    BY <1>4, <2>1, <2>3, <2>4, <2>5, <2>6, <2>8
<1>7. m.setup.bs # 0 => Restops(m, m)
  BY DEF Restops, NewIn
<1> HIDE DEF fresh, placed
<1>8. UpsertBaseStop(m, moved) =
          IF m.setup.bs = 0 THEN [fresh EXCEPT !.setup.bs = 1]
          ELSE IF ~moved THEN m ELSE [placed EXCEPT !.setup.bs = @ + 1]
  BY DEF UpsertBaseStop, fresh, placed
<1> QED
  BY <1>5, <1>6, <1>7, <1>8

\* With it the setup is answered for.
LEMMA RestoppedAnswered ==
    ASSUME NEW m, NEW n, Restops(m, n), HasSetup(m), m.setup.pend = None, m.base.qty > 0,
           Queued(m), Unclosed(m), Covered(m)
    PROVE  Answered(n)
<1>1. \A x \in DOMAIN n.orders : RoleOf(x) # "BASE_STOP" =>
          /\ x \in DOMAIN m.orders /\ n.orders[x] = m.orders[x]
          /\ x \in Active(n) <=> x \in Active(m)
  BY DEF Restops, NewIn, Active, ActiveOf
<1>2. Queued(n)
  <2> SUFFICES ASSUME NEW x \in Subs(n), RoleOf(x) \in EntryRoles
               PROVE  x \in Active(n)
    BY DEF Queued
  <2>1. RoleOf(x) # "BASE_STOP"
    BY DEF EntryRoles
  <2>2. x \in Active(m)
    BY <2>1 DEF Restops, Queued
  <2>3. x \in DOMAIN n.orders
    BY <2>2 DEF Restops, Active, ActiveOf
  <2> QED
    BY <1>1, <2>1, <2>2, <2>3
<1>3. Unclosed(n)
  BY <1>1 DEF Restops, Unclosed
<1>4. Stopped(n)
  BY DEF Restops, Stopped
<1>5. Covered(n)
  <2>1. "BASE_STOP" \notin ReducingRoles
    BY DEF ReducingRoles
  <2>2. ActiveOf(n, ReducingRoles) = ActiveOf(m, ReducingRoles)
    BY <1>1, <2>1 DEF ActiveOf, Restops
  <2>3. \A x \in ActiveOf(m, ReducingRoles) : n.orders[x] = m.orders[x]
    BY <1>1, <2>1, <2>2 DEF ActiveOf
  <2>4. \A s : s \in CoverOf(n) <=> s \in CoverOf(m)
    BY <2>2, <2>3, CoverOfIs DEF Restops
  <2>5. CoverOf(n) = CoverOf(m)
    BY <2>4
  <2>6. Reduced(n) <=> Reduced(m)
    BY <1>1 DEF Restops, Reduced
  <2> QED
    BY <2>5, <2>6 DEF Covered, Restops
<1> QED
  BY <1>2, <1>3, <1>4, <1>5 DEF Answered, Restops, HasSetup

\* After a fill of the base entry.
LEMMA BaseEntryFillSeals ==
    ASSUME NEW m, Typed(m), Numbered(m), HasSetup(m), m.setup.pend = None, m.base.qty > 0,
           Queued(m), Unclosed(m), Covered(m), m.setup.bs # 0 => StopOf(m) \in Active(m),
           NEW full, NEW moved
    PROVE  Guarded(BaseEntryFill(m, full, moved))
<1> DEFINE stopped == UpsertBaseStop(m, moved)
           covered == UpsertTakeProfit(stopped)
           life == IF full THEN "NONE" ELSE "BASE_PENDING"
           n == [covered EXCEPT !.life = life]
<1>1. RealOpen(m) > 0
  BY DEF RealOpen, Typed, Heads, LegOK
<1>2. Typed(stopped) /\ Numbered(stopped)
  BY <1>1, UpsertBaseStopStill, UpsertBaseStopFollows DEF Still, Follows, Goes
<1>3. Answered(stopped)
  BY UpsertedStop, RestoppedAnswered
<1> HIDE DEF stopped
<1>4. Answered(covered) /\ Typed(covered)
  BY <1>2, <1>3, TakeProfitSpares, SparedAnswered, TakeProfitStill DEF Still
<1> HIDE DEF covered
<1>5. Answered(n)
  BY <1>4, SetupSpares, SparedAnswered
<1>6. n.life # "EXIT_PENDING"
  BY <1>4 DEF Typed, Heads, Fields
<1> HIDE DEF n
<1>7. Guarded(n)
  BY <1>5, <1>6 DEF Guarded, Held
<1> QED
  BY <1>7 DEF BaseEntryFill, n, covered, stopped, life

\* After a fill of an add-on entry.
LEMMA AddonEntryFillSeals ==
    ASSUME NEW m, Typed(m), m.out.subs = {}, HasSetup(m), m.setup.pend = None,
           NEW q \in Nat, NEW full, NEW valid,
           \A x \in DOMAIN m.orders : RoleOf(x) = "ADDON_STOP" => x[3] \in Nat /\ x[3] < m.execs,
           m.execs \in Nat, Queued(m), Unclosed(m), Stopped(m),
           ~Reduced(m) => /\ IsFiniteSet(CoverOf(m)) /\ q <= m.addon.qty
                          /\ m.addon.qty - q <= Cardinality(CoverOf(m))
    PROVE  Guarded(AddonEntryFill(m, q, full, valid))
<1> DEFINE stop == <<"ADDON_STOP", m.setup.id, m.execs>>
           locked == [m EXCEPT !.setup.lock = TRUE, !.life = "REDUCE_PENDING"]
           unwound == CancelRoles(locked, {"ADDON_ENTRY", "ADDON_STOP"})
           reduced == ReduceAddon(unwound)
           stopped == Register(m, stop, q, ExitSide(m))
           life == IF full THEN "NONE" ELSE "ADDON_PENDING"
           lived == [stopped EXCEPT !.life = life]
<1>1. Guarded(reduced)
  <2>1. /\ Typed(locked) /\ locked.life = "REDUCE_PENDING" /\ locked.orders = m.orders
        /\ locked.setup.id = m.setup.id /\ locked.setup.pend = m.setup.pend
        /\ locked.setup.bs = m.setup.bs /\ locked.base = m.base /\ locked.addon = m.addon
        /\ locked.outbox = m.outbox /\ locked.out = m.out
    BY DEF Typed, Heads, Fields, Ledger, Outboxes, IntentsOK, SetupOK, Lifecycles
  <2> HIDE DEF locked
  <2> DEFINE ids == ActiveOf(locked, {"ADDON_ENTRY", "ADDON_STOP"})
  <2>2. /\ DOMAIN unwound.orders = DOMAIN locked.orders
        /\ \A x \in DOMAIN locked.orders : x \notin ids =>
               unwound.orders[x].st = locked.orders[x].st
        /\ unwound.setup = locked.setup /\ unwound.base = locked.base
        /\ unwound.addon = locked.addon /\ unwound.life = locked.life
        /\ unwound.outbox.subs = locked.outbox.subs \ ids /\ unwound.out.subs = locked.out.subs
        /\ Typed(unwound)
    BY <2>1, CancelRolesIs, CancelRolesStill DEF Still
  <2>3. ids = ActiveOf(m, {"ADDON_ENTRY", "ADDON_STOP"})
    BY <2>1 DEF ActiveOf
  <2> HIDE DEF unwound, ids
  <2> DEFINE o == <<"REDUCE_ADDON", unwound.setup.id, 1>>
  <2>4. RoleOf(o) = "REDUCE_ADDON" /\ SetupOf(o) = m.setup.id
    BY <2>1, <2>2 DEF RoleOf, SetupOf
  <2>5. reduced = IF o \in DOMAIN unwound.orders THEN unwound
                  ELSE Register(unwound, o, unwound.addon.qty, ExitSide(unwound))
    BY DEF ReduceAddon
  <2> HIDE DEF o
  <2>6. /\ DOMAIN reduced.orders = DOMAIN m.orders \cup {o}
        /\ \A x \in DOMAIN m.orders : x # o \/ x \notin ids => reduced.orders[x].st = unwound.orders[x].st
        /\ reduced.setup = unwound.setup /\ reduced.base = m.base /\ reduced.addon = m.addon
        /\ reduced.life = "REDUCE_PENDING"
        /\ Subs(reduced) \subseteq Subs(unwound) \cup {o}
    <3>1. CASE o \in DOMAIN unwound.orders
      BY <2>1, <2>2, <2>5, <3>1
    <3>2. CASE o \notin DOMAIN unwound.orders
      <4> DEFINE r == Register(unwound, o, unwound.addon.qty, ExitSide(unwound))
      <4>1. /\ DOMAIN r.orders = DOMAIN unwound.orders \cup {o}
            /\ \A x \in DOMAIN unwound.orders : x # o => r.orders[x] = unwound.orders[x]
            /\ r.setup = unwound.setup /\ r.base = unwound.base /\ r.addon = unwound.addon
            /\ r.life = unwound.life
            /\ r.outbox = unwound.outbox /\ r.out.subs = unwound.out.subs \cup {o}
        BY <2>2, Registered
      <4>2. reduced = r
        BY <2>5, <3>2
      <4> HIDE DEF r, reduced
      <4>3. Subs(r) \subseteq Subs(unwound) \cup {o}
        BY <4>1 DEF Subs
      <4> QED
        BY <2>1, <2>2, <3>2, <4>1, <4>2, <4>3
    <3> QED
      BY <3>1, <3>2
  <2> HIDE DEF reduced
  <2>7. \A x \in Active(m) : x # o /\ x \notin ids => x \in Active(reduced)
    BY <2>1, <2>2, <2>6 DEF Active, ActiveOf
  <2>8. Queued(reduced)
    <3> SUFFICES ASSUME NEW x \in Subs(reduced), RoleOf(x) \in EntryRoles
                 PROVE  x \in Active(reduced)
      BY DEF Queued
    <3>1. x # o
      BY <2>4 DEF EntryRoles
    <3>2. x \in Subs(unwound)
      BY <2>6, <3>1
    <3>3. x \in Subs(m)
      BY <2>1, <2>2, <3>2 DEF Subs
    <3>4. x \in Active(m)
      BY <3>3 DEF Queued
    <3>5. CASE x \notin ids
      BY <2>7, <3>1, <3>4, <3>5
    <3>6. CASE x \in ids
      <4>1. x \in m.out.subs
        BY <2>1, <2>2, <3>2, <3>6 DEF Subs
      <4> QED
        BY <4>1
    <3> QED
      BY <3>5, <3>6
  <2>9. Unclosed(reduced)
    BY <2>1, <2>2, <2>4, <2>6 DEF Unclosed
  <2>10. Stopped(reduced)
    <3>1. RoleOf(StopOf(m)) = "BASE_STOP" /\ StopOf(reduced) = StopOf(m)
      BY <2>1, <2>2, <2>6 DEF StopOf, RoleOf
    <3>2. StopOf(m) # o /\ StopOf(m) \notin ids
      BY <2>3, <2>4, <3>1 DEF ActiveOf
    <3> QED
      BY <2>1, <2>2, <2>6, <2>7, <3>1, <3>2 DEF Stopped
  <2>11. Reduced(reduced)
    BY <2>1, <2>2, <2>4, <2>6 DEF Reduced
  <2>12. Answered(reduced)
    BY <2>1, <2>2, <2>6, <2>8, <2>9, <2>10, <2>11 DEF Answered, HasSetup, Covered
  <2> QED
    BY <2>6, <2>12 DEF Guarded, Held
<1>2. Guarded(lived)
  <2>1. RoleOf(stop) = "ADDON_STOP" /\ SetupOf(stop) = m.setup.id /\ stop[3] = m.execs
    BY DEF RoleOf, SetupOf
  <2>2. stop \notin DOMAIN m.orders
    BY <2>1
  <2> HIDE DEF stop
  <2>3. /\ DOMAIN stopped.orders = DOMAIN m.orders \cup {stop}
        /\ stopped.orders[stop].st = "INTENDED" /\ stopped.orders[stop].fill = 0
        /\ stopped.orders[stop].req = q
        /\ \A x \in DOMAIN m.orders : stopped.orders[x] = m.orders[x]
        /\ stopped.setup = m.setup /\ stopped.outbox = m.outbox
        /\ stopped.out.subs = m.out.subs \cup {stop}
        /\ stopped.base = m.base /\ stopped.addon = m.addon
    BY <2>2, Registered
  <2>4. Typed(stopped)
    <3>1. RoleOf(stop) \in Roles
      BY <2>1 DEF Roles, ProtectiveRoles
    <3> QED
      BY <2>1, <3>1, Lots, RegisterStill DEF Still
  <2> HIDE DEF stopped
  <2>5. Subs(stopped) = Subs(m) \cup {stop} /\ Active(m) \subseteq Active(stopped)
    BY <2>3 DEF Subs, Active, ActiveOf
  <2>6. Queued(stopped) /\ Unclosed(stopped)
    BY <2>1, <2>3, <2>5 DEF Queued, Unclosed, EntryRoles
  <2>7. Stopped(stopped)
    <3>1. StopOf(stopped) = StopOf(m)
      BY <2>3 DEF StopOf
    <3> QED
      BY <2>3, <2>5, <3>1 DEF Stopped
  <2>8. Covered(stopped)
    <3> SUFFICES ASSUME ~Reduced(stopped)
                 PROVE  IsFiniteSet(CoverOf(stopped))
                        /\ stopped.addon.qty <= Cardinality(CoverOf(stopped))
      BY DEF Covered
    <3>1. ~Reduced(m)
      BY <2>3 DEF Reduced
    <3>2. ActiveOf(stopped, ReducingRoles) = ActiveOf(m, ReducingRoles) \cup {stop}
      BY <2>1, <2>3 DEF ActiveOf, ReducingRoles, ActiveStatuses
    <3>3. \A s : s \in CoverOf(stopped) <=> s \in CoverOf(m) \cup Span(stop, 0, q)
      <4>1. \A x \in ActiveOf(m, ReducingRoles) : stopped.orders[x] = m.orders[x]
        BY <2>3 DEF ActiveOf
      <4>2. \A s : s \in Span(stop, 0, q) <=> \E k \in 1 .. q : s = <<stop, k>>
        BY DEF Span
      <4>3. \A s : s \in CoverOf(stopped) <=>
               \E x \in ActiveOf(m, ReducingRoles) \cup {stop} :
                  \E k \in stopped.orders[x].fill + 1 .. stopped.orders[x].req :
                      SetupOf(x) = m.setup.id /\ s = <<x, k>>
        BY <2>3, <3>2, CoverOfIs
      <4>4. stopped.orders[stop].fill + 1 .. stopped.orders[stop].req = 1 .. q
        BY <2>3
      <4>5. \A s : s \in CoverOf(m) <=>
               \E x \in ActiveOf(m, ReducingRoles) :
                  \E k \in stopped.orders[x].fill + 1 .. stopped.orders[x].req :
                      SetupOf(x) = m.setup.id /\ s = <<x, k>>
        BY <4>1, CoverOfIs
      <4>6. \A s : s \in Span(stop, 0, q) <=>
               \E k \in stopped.orders[stop].fill + 1 .. stopped.orders[stop].req :
                  SetupOf(stop) = m.setup.id /\ s = <<stop, k>>
        BY <2>1, <4>2, <4>4
      <4> QED
        BY <4>3, <4>5, <4>6
    <3>4. CoverOf(stopped) = CoverOf(m) \cup Span(stop, 0, q)
      BY <3>3
    <3>5. \A k : <<stop, k>> \notin CoverOf(m)
      BY <2>2, CoverOfIs DEF ActiveOf
    <3>6. m.addon.qty - q \in Nat /\ m.addon.qty - q + q = m.addon.qty
      BY <3>1 DEF Typed, Heads, LegOK
    <3>7. IsFiniteSet(CoverOf(stopped)) /\ m.addon.qty - q + q <= Cardinality(CoverOf(stopped))
      BY <3>1, <3>4, <3>5, <3>6, CoverGaining
    <3> QED
      BY <2>3, <3>6, <3>7
  <2>9. Answered(stopped)
    BY <2>3, <2>6, <2>7, <2>8 DEF Answered, HasSetup
  <2>10. Answered(lived)
    BY <2>4, <2>9, SetupSpares, SparedAnswered
  <2>11. lived.life # "EXIT_PENDING"
    BY <2>4 DEF Typed, Heads, Fields
  <2> QED
    BY <2>10, <2>11 DEF Guarded, Held
<1> QED
  BY <1>1, <1>2 DEF AddonEntryFill

\* Booking a fill of o disturbs no other order's part in what is answered for.
LEMMA BookedAnswered ==
    ASSUME NEW m, NEW n, Typed(m), m.out.subs = {}, NEW o \in DOMAIN m.orders,
           DOMAIN n.orders = DOMAIN m.orders,
           \A x \in DOMAIN m.orders \ {o} : n.orders[x] = m.orders[x],
           n.setup.id = m.setup.id, n.setup.bs = m.setup.bs,
           n.out = m.out, n.outbox.subs = m.outbox.subs \ {o}
    PROVE  /\ Queued(m) => Queued(n)
           /\ Unclosed(m) => Unclosed(n)
           /\ StopOf(n) = StopOf(m)
           /\ StopOf(m) # o => (StopOf(m) \in Active(n) <=> StopOf(m) \in Active(m))
           /\ Reduced(n) <=> Reduced(m)
           /\ RoleOf(o) \notin EntryRoles => (Entryless(m) => Entryless(n))
<1>1. \A x \in DOMAIN m.orders \ {o} : x \in Active(n) <=> x \in Active(m)
  BY DEF Active, ActiveOf
<1>2. Subs(n) = Subs(m) \ {o}
  BY DEF Subs
<1>3. Queued(m) => Queued(n)
  <2>1. Active(m) \subseteq DOMAIN m.orders
    BY DEF Active, ActiveOf
  <2> QED
    BY <1>1, <1>2, <2>1 DEF Queued
<1>4. Unclosed(m) => Unclosed(n)
  BY DEF Unclosed
<1>5. StopOf(n) = StopOf(m)
  BY DEF StopOf
<1>6. StopOf(m) # o => (StopOf(m) \in Active(n) <=> StopOf(m) \in Active(m))
  BY DEF Active, ActiveOf
<1>7. Reduced(n) <=> Reduced(m)
  BY DEF Reduced
<1>8. RoleOf(o) \notin EntryRoles => (Entryless(m) => Entryless(n))
  BY <1>2 DEF Entryless, ActiveOf
<1> QED
  BY <1>3, <1>4, <1>5, <1>6, <1>7, <1>8

\* A fill of an entry that is not refused.
LEMMA EntryFillSeals ==
    ASSUME NEW m, Typed(m), Numbered(m), m.out.subs = {}, Guarded(m),
           NEW o \in DOMAIN m.orders, SetupOf(o) = m.setup.id,
           RoleOf(o) \in EntryRoles, HasSetup(m), m.setup.pend = None,
           NEW q \in Nat, q > 0, NEW full, NEW valid, NEW moved
    PROVE  Guarded(EntryFill(Book(m, o, q, full), o, q, full, valid, moved))
<1> DEFINE b == Book(m, o, q, full)
           grown == IF RoleOf(o) = "BASE_ENTRY" THEN [b EXCEPT !.base.qty = @ + q]
                    ELSE [b EXCEPT !.addon.qty = @ + q]
           n == EntryFill(b, o, q, full, valid, moved)
<1>1. /\ Still(m, b) /\ Goes(m, b) /\ b.execs = m.execs + 1
  BY BookIs DEF Numbered
<1>2. /\ DOMAIN b.orders = DOMAIN m.orders
      /\ \A x \in DOMAIN m.orders \ {o} : b.orders[x] = m.orders[x]
      /\ b.setup = m.setup /\ b.base = m.base /\ b.addon = m.addon
      /\ b.out = m.out /\ b.outbox.subs = m.outbox.subs \ {o}
  BY BookChanges
<1>3. n = IF OverCap(grown) THEN BreachCap(grown)
          ELSE IF RoleOf(o) = "BASE_ENTRY" THEN BaseEntryFill(grown, full, moved)
          ELSE AddonEntryFill(grown, q, full, valid)
  BY DEF EntryFill
<1> HIDE DEF b, n
<1>4. /\ Typed(grown) /\ grown.orders = b.orders /\ grown.setup = b.setup /\ grown.outbox = b.outbox
      /\ grown.out = b.out /\ grown.execs = b.execs
  BY <1>1 DEF Still, Typed, Heads, Fields, Ledger, Outboxes, IntentsOK, LegOK
<1>5. m.base.qty \in Nat /\ m.addon.qty \in Nat
  BY DEF Typed, Heads, LegOK
<1>6. IF RoleOf(o) = "BASE_ENTRY" THEN grown.base.qty = m.base.qty + q /\ grown.addon.qty = m.addon.qty
      ELSE grown.base.qty = m.base.qty /\ grown.addon.qty = m.addon.qty + q
  BY <1>1, <1>2 DEF Still, Typed, Heads, Fields, LegOK
<1>7. Numbered(grown)
  <2>1. Subs(grown) = Subs(b)
    BY <1>4 DEF Subs
  <2>2. grown.addons = b.addons
    BY <1>1 DEF Still, Typed, Heads, Fields
  <2>3. Goes(b, grown)
    BY <1>4, <2>1, <2>2, SameGoes
  <2> QED
    BY <1>1, <2>3 DEF Goes
<1> HIDE DEF grown
<1>8. Answered(m)
  BY DEF Guarded, Closed, Idle, Held
<1>9. /\ Queued(grown) /\ Unclosed(grown)
      /\ StopOf(grown) = StopOf(m)
      /\ StopOf(m) \in Active(grown) <=> StopOf(m) \in Active(m)
      /\ Reduced(grown) <=> Reduced(m)
  <2>1. StopOf(m) # o
    BY DEF StopOf, RoleOf, EntryRoles
  <2> QED
    BY <1>2, <1>4, <1>8, <2>1, BookedAnswered DEF Answered
<1>10. CoverOf(grown) = CoverOf(m)
  <2>1. RoleOf(o) \notin ReducingRoles
    BY DEF EntryRoles, ReducingRoles
  <2>2. /\ ActiveOf(grown, ReducingRoles) = ActiveOf(m, ReducingRoles)
        /\ \A x \in ActiveOf(m, ReducingRoles) : grown.orders[x] = m.orders[x]
    BY <1>2, <1>4, <2>1 DEF ActiveOf
  <2>3. \A s : s \in CoverOf(grown) <=> s \in CoverOf(m)
    BY <1>2, <1>4, <2>2, CoverOfIs
  <2> QED
    BY <2>3
<1>11. HasSetup(grown) /\ grown.setup.pend = None /\ grown.out.subs = {}
  BY <1>2, <1>4 DEF HasSetup
<1>12. Guarded(BreachCap(grown))
  BY <1>4, <1>11, BreachCapSeals DEF Settled
<1>13. ASSUME RoleOf(o) = "BASE_ENTRY"
       PROVE  Guarded(BaseEntryFill(grown, full, moved))
  <2>1. grown.base.qty > 0
    BY <1>5, <1>6, <1>13
  <2>2. Covered(grown)
    BY <1>6, <1>8, <1>9, <1>10, <1>13 DEF Answered, Covered
  <2>3. grown.setup.bs # 0 => StopOf(grown) \in Active(grown)
    BY <1>2, <1>4, <1>8, <1>9 DEF Answered, Stopped
  <2> QED
    BY <1>4, <1>7, <1>9, <1>11, <2>1, <2>2, <2>3, BaseEntryFillSeals
<1>14. ASSUME RoleOf(o) # "BASE_ENTRY"
       PROVE  Guarded(AddonEntryFill(grown, q, full, valid))
  <2>1. grown.execs \in Nat
        /\ \A x \in DOMAIN grown.orders : RoleOf(x) = "ADDON_STOP" => x[3] \in Nat /\ x[3] < grown.execs
    BY <1>1, <1>2, <1>4 DEF Numbered
  <2>2. Stopped(grown)
    BY <1>2, <1>4, <1>6, <1>8, <1>9, <1>14 DEF Answered, Stopped
  <2>3. ~Reduced(grown) => /\ IsFiniteSet(CoverOf(grown)) /\ q <= grown.addon.qty
                           /\ grown.addon.qty - q <= Cardinality(CoverOf(grown))
    BY <1>5, <1>6, <1>8, <1>9, <1>10, <1>14 DEF Answered, Covered
  <2> QED
    BY <1>4, <1>9, <1>11, <2>1, <2>2, <2>3, AddonEntryFillSeals
<1>15. Guarded(n)
  BY <1>3, <1>12, <1>13, <1>14
<1> QED
  BY <1>15 DEF n, b

\* A setup that is being closed stays so.
LEMMA ClosedStays ==
    ASSUME NEW m, Typed(m), m.out.subs = {}, HasSetup(m), m.setup.pend # None,
           m.life = "EXIT_PENDING", Entryless(m)
    PROVE  Guarded(m) /\ Guarded(CancelAll(m, "FLAT_ORPHAN"))
<1>1. Guarded(m)
  BY DEF Guarded, Closed
<1>2. /\ Quenched(CancelAll(m, "FLAT_ORPHAN"))
      /\ CancelAll(m, "FLAT_ORPHAN").setup = m.setup
  BY CancelAllQuenches DEF Settled
<1>3. Guarded(CancelAll(m, "FLAT_ORPHAN"))
  BY <1>2, QuenchedGuarded
<1> QED
  BY <1>1, <1>3

\* The cover after a fill of one of its orders.
LEMMA BookedCover ==
    ASSUME NEW m, NEW n, Typed(m), NEW o \in DOMAIN m.orders, SetupOf(o) = m.setup.id,
           RoleOf(o) \in ReducingRoles, NEW q \in Nat, q > 0, NEW full,
           m.orders[o].fill + q <= m.orders[o].req, full => m.orders[o].fill + q >= m.orders[o].req,
           DOMAIN n.orders = DOMAIN m.orders, n.setup.id = m.setup.id,
           \A x \in DOMAIN m.orders \ {o} : n.orders[x] = m.orders[x],
           n.orders[o].fill = m.orders[o].fill + q, n.orders[o].req = m.orders[o].req,
           n.orders[o].st = IF full THEN "FILLED" ELSE "PARTIALLY_FILLED",
           IsFiniteSet(CoverOf(m)), q <= m.addon.qty, m.addon.qty <= Cardinality(CoverOf(m))
    PROVE  IsFiniteSet(CoverOf(n)) /\ m.addon.qty - q <= Cardinality(CoverOf(n))
<1> DEFINE f == m.orders[o].fill
           r == m.orders[o].req - (f + q)
<1>1. f \in Nat /\ r \in Nat /\ m.addon.qty \in Nat
  BY DEF Typed, Heads, LegOK, Ledger, RowOK
<1>2. \A s : s \in Span(o, f, q) <=> \E k \in f + 1 .. f + q : s = <<o, k>>
  BY DEF Span
<1>3. \A s : s \in Span(o, f + q, r) <=> \E k \in f + q + 1 .. m.orders[o].req : s = <<o, k>>
  <2>1. f + q + r = m.orders[o].req
    BY <1>1 DEF Typed, Ledger, RowOK
  <2> QED
    BY <2>1 DEF Span
<1>4. \A x \in DOMAIN m.orders \ {o} :
          x \in ActiveOf(n, ReducingRoles) <=> x \in ActiveOf(m, ReducingRoles)
  BY DEF ActiveOf
<1>5. ASSUME NEW s, s \in CoverOf(n)
      PROVE  s \in CoverOf(m) \cup Span(o, f + q, r)
  <2>1. PICK x \in ActiveOf(n, ReducingRoles) : \E k \in n.orders[x].fill + 1 .. n.orders[x].req :
            SetupOf(x) = n.setup.id /\ s = <<x, k>>
    BY <1>5, CoverOfIs
  <2>2. x \in DOMAIN m.orders
    BY DEF ActiveOf
  <2>3. CASE x = o
    BY <1>3, <2>1, <2>3
  <2>4. CASE x # o
    BY <1>4, <2>1, <2>2, <2>4, CoverOfIs
  <2> QED
    BY <2>3, <2>4
<1>6. ASSUME NEW s, s \in CoverOf(m)
      PROVE  s \in CoverOf(n) \cup Span(o, f, q)
  <2>1. PICK x \in ActiveOf(m, ReducingRoles) : \E k \in m.orders[x].fill + 1 .. m.orders[x].req :
            SetupOf(x) = m.setup.id /\ s = <<x, k>>
    BY <1>6, CoverOfIs
  <2>2. PICK k \in m.orders[x].fill + 1 .. m.orders[x].req :
            SetupOf(x) = m.setup.id /\ s = <<x, k>>
    BY <2>1
  <2>3. x \in DOMAIN m.orders
    BY DEF ActiveOf
  <2>4. CASE x # o
    BY <1>4, <2>2, <2>3, <2>4, CoverOfIs
  <2>5. CASE x = o /\ k <= f + q
    BY <1>1, <1>2, <2>2, <2>5
  <2>6. CASE x = o /\ k > f + q
    <3>1. ~full
      BY <1>1, <2>2, <2>6 DEF Typed, Ledger, RowOK
    <3>2. o \in ActiveOf(n, ReducingRoles)
      BY <3>1 DEF ActiveOf, ActiveStatuses
    <3>3. k \in n.orders[o].fill + 1 .. n.orders[o].req
      BY <1>1, <2>2, <2>6
    <3> QED
      BY <2>2, <2>6, <3>2, <3>3, CoverOfIs
  <2> QED
    BY <1>1, <2>2, <2>4, <2>5, <2>6
<1> HIDE DEF f, r
<1>7. IsFiniteSet(CoverOf(n))
  <2>1. IsFiniteSet(Span(o, f + q, r))
    BY <1>1, SpanIs
  <2>2. IsFiniteSet(CoverOf(m) \cup Span(o, f + q, r))
    BY <2>1, FS_Union
  <2>3. CoverOf(n) \in SUBSET (CoverOf(m) \cup Span(o, f + q, r))
    BY <1>5
  <2> QED
    BY <2>2, <2>3, FS_Subset
<1>8. CoverOf(m) \subseteq CoverOf(n) \cup Span(o, f, q)
  BY <1>6
<1> QED
  BY <1>1, <1>7, <1>8, CoverLosing

\* The end of the add-on, or a part of it: the lots that left it left the cover.
LEMMA AddonReductionSeals ==
    ASSUME NEW m, Typed(m), Numbered(m), m.out.subs = {}, Guarded(m),
           NEW o \in DOMAIN m.orders, SetupOf(o) = m.setup.id,
           RoleOf(o) \in ReducingRoles, HasSetup(m), NEW q \in Nat, q > 0, q <= RealOpen(m),
           q > m.addon.qty => m.life = "EXIT_PENDING", NEW full,
           m.orders[o].fill + q <= m.orders[o].req,
           full => m.orders[o].fill + q >= m.orders[o].req
    PROVE  Guarded(AddonReduction(Book(m, o, q, full), q))
<1> DEFINE b == Book(m, o, q, full)
           reduced == Reduce(b, q)
           cut == [reduced EXCEPT !.setup.lock = TRUE]
           idle == [cut EXCEPT !.life = "NONE"]
           reducing == [cut EXCEPT !.life = "REDUCE_PENDING"]
           flat == CancelAll(cut, "FLAT_ORPHAN")
           unstopped == CancelRoles(idle, {"ADDON_STOP"})
           refreshed == RefreshTakeProfit(unstopped)
           n == AddonReduction(b, q)
<1>1. Typed(b) /\ Goes(m, b) /\ b.setup = m.setup /\ b.execs = m.execs + 1 /\ b.addons = m.addons
  BY BookIs DEF Numbered, Still
<1>2. /\ DOMAIN b.orders = DOMAIN m.orders
      /\ b.orders[o].fill = m.orders[o].fill + q /\ b.orders[o].req = m.orders[o].req
      /\ b.orders[o].st = IF full THEN "FILLED" ELSE "PARTIALLY_FILLED"
      /\ \A x \in DOMAIN m.orders \ {o} : b.orders[x] = m.orders[x]
      /\ b.base = m.base /\ b.addon = m.addon /\ b.life = m.life
      /\ b.out = m.out /\ b.outbox.subs = m.outbox.subs \ {o}
  BY BookChanges
<1>3. n = IF b.life = "EXIT_PENDING"
          THEN IF RealOpen(cut) = 0 THEN flat ELSE cut
          ELSE IF cut.addon.qty = 0 THEN refreshed ELSE reducing
  BY DEF AddonReduction
<1> HIDE DEF b, n
<1>4. /\ Typed(reduced) /\ reduced.orders = b.orders /\ reduced.setup = b.setup /\ reduced.outbox = b.outbox
      /\ reduced.out = b.out /\ reduced.life = b.life /\ reduced.execs = b.execs /\ reduced.addons = b.addons
      /\ q <= m.addon.qty => reduced.base.qty = m.base.qty
  <2>1. q <= RealOpen(b)
    BY <1>2 DEF RealOpen
  <2> QED
    BY <1>1, <1>2, <2>1, ReduceIs
<1>5. q <= m.addon.qty => reduced.addon.qty = m.addon.qty - q
  <2>1. b.addon.qty \in Nat /\ (q <= b.addon.qty => Min2(q, b.addon.qty) = q)
    BY <1>1 DEF Typed, Heads, LegOK, Min2
  <2>2. reduced.addon.qty = b.addon.qty - Min2(q, b.addon.qty)
    BY <1>1 DEF Reduce, Typed, Heads, Fields
  <2> QED
    BY <1>2, <2>1, <2>2
<1> HIDE DEF reduced
<1>6. Still(reduced, cut)
  BY <1>4, SetupStill
<1>7. /\ cut.orders = b.orders /\ cut.outbox = b.outbox /\ cut.out = m.out
      /\ cut.setup.id = m.setup.id /\ cut.setup.bs = m.setup.bs
      /\ cut.setup.pend = m.setup.pend /\ cut.setup.tp = m.setup.tp
      /\ cut.execs = b.execs /\ cut.addons = b.addons
      /\ cut.base = reduced.base /\ cut.addon = reduced.addon /\ cut.life = m.life
  BY <1>1, <1>2, <1>4 DEF Typed, Heads, Fields, SetupOK
<1> HIDE DEF cut
<1>8. Typed(cut) /\ HasSetup(cut)
  BY <1>6, <1>7 DEF Still, HasSetup
<1>9. /\ Queued(m) => Queued(cut)
      /\ Unclosed(m) => Unclosed(cut)
      /\ StopOf(cut) = StopOf(m)
      /\ StopOf(m) # o => (StopOf(m) \in Active(cut) <=> StopOf(m) \in Active(m))
      /\ Reduced(cut) <=> Reduced(m)
      /\ RoleOf(o) \notin EntryRoles => (Entryless(m) => Entryless(cut))
  BY <1>2, <1>7, BookedAnswered
<1>10. RoleOf(o) \notin EntryRoles /\ StopOf(m) # o
  BY DEF ReducingRoles, EntryRoles, StopOf, RoleOf
<1>11. CASE Closed(m)
  <2>1. Guarded(cut) /\ Guarded(flat)
    BY <1>7, <1>8, <1>9, <1>10, <1>11, ClosedStays DEF Closed
  <2>2. n = flat \/ n = cut
    BY <1>2, <1>3, <1>11 DEF Closed
  <2> QED
    BY <2>1, <2>2 DEF b, n
<1>12. CASE Held(m)
  <2>1. m.life # "EXIT_PENDING" /\ q <= m.addon.qty /\ Answered(m)
    BY <1>12, Lots DEF Held
  <2>2. Covered(cut)
    <3> SUFFICES ASSUME ~Reduced(cut)
                 PROVE  IsFiniteSet(CoverOf(cut)) /\ cut.addon.qty <= Cardinality(CoverOf(cut))
      BY DEF Covered
    <3>1. IsFiniteSet(CoverOf(m)) /\ m.addon.qty <= Cardinality(CoverOf(m))
      BY <1>9, <2>1 DEF Answered, Covered
    <3>2. IsFiniteSet(CoverOf(cut)) /\ m.addon.qty - q <= Cardinality(CoverOf(cut))
      BY <1>2, <1>7, <2>1, <3>1, BookedCover
    <3> QED
      BY <1>5, <1>7, <2>1, <3>2
  <2>3. Answered(cut)
    <3>1. Stopped(cut)
      BY <1>4, <1>7, <1>9, <1>10, <2>1 DEF Answered, Stopped
    <3> QED
      BY <1>7, <1>8, <1>9, <2>1, <2>2, <3>1 DEF Answered
  <2>4. Spares(cut, idle) /\ Spares(cut, reducing)
    BY <1>8, SetupSpares
  <2>5. idle.life = "NONE" /\ reducing.life = "REDUCE_PENDING" /\ idle.setup = cut.setup
        /\ idle.orders = cut.orders
        /\ idle.out = cut.out /\ idle.addon = cut.addon /\ idle.execs = cut.execs /\ idle.addons = cut.addons
    BY <1>8 DEF Typed, Heads, Fields
  <2>6. Typed(idle)
    BY <1>8, LifeStill DEF Still, Lifecycles
  <2> HIDE DEF idle, reducing
  <2>7. CASE cut.addon.qty # 0
    <3>1. n = reducing
      BY <1>2, <1>3, <2>1, <2>7
    <3>2. Answered(reducing)
      BY <2>3, <2>4, SparedAnswered
    <3>3. Guarded(n)
      BY <2>5, <3>1, <3>2 DEF Guarded, Held
    <3> QED
      BY <3>3 DEF b, n
  <2>8. CASE cut.addon.qty = 0
    <3>1. n = refreshed
      BY <1>2, <1>3, <2>1, <2>8
    <3>2. Answered(idle)
      BY <2>3, <2>4, SparedAnswered
    <3>3. /\ DOMAIN unstopped.orders = DOMAIN idle.orders
          /\ \A x \in DOMAIN idle.orders :
                /\ unstopped.orders[x].fill = idle.orders[x].fill /\ unstopped.orders[x].req = idle.orders[x].req
                /\ x \notin ActiveOf(idle, {"ADDON_STOP"}) => unstopped.orders[x].st = idle.orders[x].st
          /\ ActiveOf(unstopped, {"ADDON_STOP"}) = {}
          /\ unstopped.setup = idle.setup /\ unstopped.base = idle.base /\ unstopped.addon = idle.addon
          /\ unstopped.life = idle.life
          /\ unstopped.outbox.subs = idle.outbox.subs \ ActiveOf(idle, {"ADDON_STOP"})
          /\ unstopped.out.subs = idle.out.subs
      BY <2>6, CancelRolesIs
    <3>4. Still(idle, unstopped) /\ Follows(idle, unstopped)
      BY <2>6, CancelRolesStill, CancelRolesFollows
    <3>5. Goes(cut, idle) /\ Goes(b, cut)
      <4>1. Subs(cut) = Subs(b)
        BY <1>2, <1>7 DEF Subs
      <4>2. idle.outbox = cut.outbox /\ idle.base = cut.base
        BY <1>8 DEF idle, Typed, Heads, Fields
      <4>3. Subs(idle) = Subs(cut)
        BY <2>5, <4>2 DEF Subs
      <4> QED
        BY <1>1, <1>7, <2>5, <4>1, <4>2, <4>3, SameGoes
    <3> HIDE DEF unstopped
    <3>6. Typed(unstopped) /\ Numbered(unstopped)
      BY <1>1, <3>4, <3>5 DEF Still, Follows, Goes
    <3>7. \A x \in DOMAIN idle.orders :
              RoleOf(x) # "ADDON_STOP" => (x \in Active(unstopped) <=> x \in Active(idle))
      BY <3>3 DEF Active, ActiveOf
    <3>8. Answered(unstopped)
      <4>1. Queued(unstopped)
        <5> SUFFICES ASSUME NEW x \in Subs(unstopped), RoleOf(x) \in EntryRoles
                     PROVE  x \in Active(unstopped)
          BY DEF Queued
        <5>1. x \in Subs(idle)
          BY <3>3 DEF Subs
        <5>2. x \in Active(idle) /\ RoleOf(x) # "ADDON_STOP"
          BY <3>2, <5>1 DEF Answered, Queued, EntryRoles
        <5> QED
          BY <3>7, <5>2 DEF Active, ActiveOf
      <4>2. Unclosed(unstopped)
        BY <3>2, <3>3 DEF Answered, Unclosed
      <4>3. Stopped(unstopped)
        <5>1. StopOf(unstopped) = StopOf(idle) /\ RoleOf(StopOf(idle)) # "ADDON_STOP"
          BY <3>3 DEF StopOf, RoleOf
        <5>2. StopOf(idle) \in Active(idle) => StopOf(idle) \in Active(unstopped)
          BY <3>7, <5>1 DEF Active, ActiveOf
        <5> QED
          BY <3>2, <3>3, <5>1, <5>2 DEF Answered, Stopped
      <4>4. Covered(unstopped)
        <5> SUFFICES ASSUME ~Reduced(unstopped)
                     PROVE  IsFiniteSet(CoverOf(unstopped))
                            /\ unstopped.addon.qty <= Cardinality(CoverOf(unstopped))
          BY DEF Covered
        <5>1. \A x \in ActiveOf(unstopped, ReducingRoles) : SetupOf(x) # unstopped.setup.id
          BY <3>3 DEF Reduced, ActiveOf, ReducingRoles
        <5>2. IsFiniteSet(CoverOf(unstopped)) /\ Cardinality(CoverOf(unstopped)) = 0
          BY <5>1, NoCover
        <5> QED
          BY <2>5, <2>8, <3>3, <5>2
      <4> QED
        BY <3>2, <3>3, <4>1, <4>2, <4>3, <4>4 DEF Answered, HasSetup
    <3>9. Spares(unstopped, refreshed) /\ refreshed.life = unstopped.life
      BY <3>6, TakeProfitSpares, TakeProfitFollows DEF Follows, Same
    <3>10. Answered(refreshed)
      BY <3>8, <3>9, SparedAnswered
    <3>11. Guarded(refreshed)
      BY <2>5, <3>3, <3>9, <3>10 DEF Guarded, Held
    <3>12. Guarded(n)
      BY <3>1, <3>11
    <3> QED
      BY <3>12 DEF b, n
  <2> QED
    BY <2>7, <2>8
<1> QED
  BY <1>11, <1>12 DEF Guarded, Idle

\* A fill of a whole-position exit names its reason and stands the entries off.
LEMMA WholeExitFillSeals ==
    ASSUME NEW m, Typed(m), Numbered(m), m.out.subs = {}, Guarded(m),
           NEW o \in DOMAIN m.orders, SetupOf(o) = m.setup.id,
           RoleOf(o) \notin EntryRoles, HasSetup(m), NEW q \in Nat, q > 0, q <= RealOpen(m), NEW full,
           RoleOf(o) \notin ReducingRoles
    PROVE  Guarded(WholeExitFill(Book(m, o, q, full), o, q))
<1> DEFINE b == Book(m, o, q, full)
           entriesOff == CancelRoles(b, EntryRoles)
           stopsOff == IF b.addon.qty > 0 THEN CancelRoles(entriesOff, {"ADDON_STOP"})
                       ELSE entriesOff
           reduced == Reduce(stopsOff, q)
           cut == [reduced EXCEPT
                     !.life = "EXIT_PENDING",
                     !.setup.pend = CASE RoleOf(o) = "BASE_STOP" -> "BASE_SL"
                                      [] RoleOf(o) = "TAKE_PROFIT" -> "TP"
                                      [] OTHER -> @]
           flat == CancelAll(cut, "FLAT_ORPHAN")
           refreshed == RefreshTakeProfit(cut)
           n == WholeExitFill(b, o, q)
<1>1. Typed(b) /\ Goes(m, b) /\ b.setup = m.setup /\ b.execs = m.execs + 1 /\ b.addons = m.addons
  BY BookIs DEF Numbered, Still
<1>2. /\ DOMAIN b.orders = DOMAIN m.orders
      /\ \A x \in DOMAIN m.orders \ {o} : b.orders[x] = m.orders[x]
      /\ b.base = m.base /\ b.addon = m.addon
      /\ b.out = m.out /\ b.outbox.subs = m.outbox.subs \ {o}
  BY BookChanges
<1>3. n = IF RealOpen(cut) = 0 THEN flat ELSE refreshed
  BY DEF WholeExitFill
<1> HIDE DEF b, n
<1>4. /\ Queued(m) => Queued(b)
      /\ Entryless(m) => Entryless(b)
  BY <1>1, <1>2, BookedAnswered
<1>5. Queued(b)
  BY <1>4, GuardedSettled
<1>6. Entryless(entriesOff)
  BY <1>1, <1>2, <1>5, EntriesOff
<1>7. /\ Still(b, entriesOff) /\ Typed(entriesOff) /\ Follows(b, entriesOff) /\ entriesOff.setup = b.setup
      /\ entriesOff.base = b.base /\ entriesOff.addon = b.addon /\ entriesOff.out.subs = b.out.subs
  BY <1>1, CancelRolesStill, CancelRolesFollows, CancelRolesIs DEF Still
<1> HIDE DEF entriesOff
<1>8. /\ Typed(stopsOff) /\ Follows(b, stopsOff) /\ stopsOff.setup = b.setup
      /\ stopsOff.base = b.base /\ stopsOff.addon = b.addon /\ stopsOff.out.subs = b.out.subs
      /\ Entryless(stopsOff)
  <2> DEFINE p == CancelRoles(entriesOff, {"ADDON_STOP"})
  <2>1. /\ Typed(p) /\ Follows(entriesOff, p) /\ p.setup = entriesOff.setup
        /\ p.base = entriesOff.base /\ p.addon = entriesOff.addon /\ p.out.subs = entriesOff.out.subs
    <3>1. p.setup = entriesOff.setup
          /\ p.base = entriesOff.base /\ p.addon = entriesOff.addon /\ p.out.subs = entriesOff.out.subs
      BY <1>7, CancelRolesIs
    <3>2. Still(entriesOff, p) /\ Follows(entriesOff, p)
      BY <1>7, CancelRolesStill, CancelRolesFollows
    <3> QED
      BY <3>1, <3>2 DEF Still
  <2>2. Bars(entriesOff, p)
    BY <1>7, CancelRolesBars
  <2> HIDE DEF p
  <2>3. Follows(b, p) /\ Entryless(p)
    <3>1. Follows(b, p)
      BY <1>7, <2>1, FollowsTrans
    <3>2. Entryless(p)
      BY <1>6, <2>2, BarsEntryless
    <3> QED
      BY <3>1, <3>2
  <2> QED
    BY <1>6, <1>7, <2>1, <2>3 DEF p
<1> HIDE DEF stopsOff
<1>9. /\ Typed(reduced) /\ reduced.orders = stopsOff.orders /\ reduced.setup = m.setup
      /\ reduced.outbox = stopsOff.outbox /\ reduced.out = stopsOff.out
      /\ reduced.execs = stopsOff.execs /\ reduced.addons = stopsOff.addons
  <2>1. q <= RealOpen(stopsOff)
    BY <1>2, <1>8 DEF RealOpen
  <2> QED
    BY <1>1, <1>8, <2>1, ReduceIs
<1> HIDE DEF reduced
<1>10. /\ Typed(cut) /\ cut.orders = stopsOff.orders /\ cut.outbox = stopsOff.outbox /\ cut.out = stopsOff.out
       /\ cut.setup.id = m.setup.id /\ cut.setup.bs = m.setup.bs /\ cut.setup.tp = m.setup.tp
       /\ cut.setup.pend # None
       /\ cut.execs = stopsOff.execs /\ cut.addons = stopsOff.addons /\ cut.life = "EXIT_PENDING"
  <2> DEFINE pend == CASE RoleOf(o) = "BASE_STOP" -> "BASE_SL"
                       [] RoleOf(o) = "TAKE_PROFIT" -> "TP"
                       [] OTHER -> reduced.setup.pend
             p == [reduced EXCEPT !.life = "EXIT_PENDING", !.setup.pend = pend]
  <2>1. reduced.setup.pend \in Reasons
    BY <1>9 DEF Typed, Heads, SetupOK
  <2>2. RoleOf(o) \notin {"BASE_STOP", "TAKE_PROFIT"} => m.setup.pend # None
    <3>1. RoleOf(o) \in Roles
      BY DEF Typed, Ledger
    <3>2. RoleOf(o) \notin {"BASE_STOP", "TAKE_PROFIT"} => RoleOf(o) = "CLOSE_ALL"
      BY <3>1 DEF Roles, EntryRoles, ProtectiveRoles, ReducingRoles
    <3> QED
      BY <3>2 DEF Guarded, Closed, Idle, Held, Answered, Unclosed
  <2>3. pend \in Reasons /\ pend # None
    BY <1>9, <2>1, <2>2 DEF Reasons, CloseReasons, None
  <2>4. cut = p
    OBVIOUS
  <2> HIDE DEF pend, cut
  <2>5. Typed(p)
    BY <1>9, <2>3 DEF Typed, Heads, Fields, Ledger, Outboxes, IntentsOK, SetupOK, Lifecycles
  <2>6. /\ p.orders = reduced.orders /\ p.outbox = reduced.outbox /\ p.out = reduced.out
        /\ p.setup.id = reduced.setup.id /\ p.setup.bs = reduced.setup.bs /\ p.setup.tp = reduced.setup.tp
        /\ p.setup.pend = pend
        /\ p.execs = reduced.execs /\ p.addons = reduced.addons /\ p.life = "EXIT_PENDING"
    BY <1>9 DEF Typed, Heads, Fields, SetupOK
  <2> HIDE DEF p
  <2> QED
    BY <1>9, <2>3, <2>4, <2>5, <2>6
<1> HIDE DEF cut
<1>11. Subs(cut) = Subs(stopsOff) /\ HasSetup(cut) /\ cut.out.subs = {}
  BY <1>2, <1>8, <1>10 DEF Subs, HasSetup
<1>12. Entryless(cut)
  BY <1>8, <1>10, <1>11 DEF Entryless, ActiveOf
<1>13. Numbered(cut)
  <2>1. Goes(stopsOff, cut)
    BY <1>1, <1>8, <1>10, <1>11, SameGoes
  <2> QED
    BY <1>1, <1>8, <2>1 DEF Follows, Goes
<1>14. Guarded(cut) /\ Guarded(flat)
  BY <1>10, <1>11, <1>12, ClosedStays
<1>15. Spares(cut, refreshed) /\ refreshed.life = cut.life
  BY <1>10, <1>13, TakeProfitSpares, TakeProfitFollows DEF Follows, Same
<1> HIDE DEF flat, refreshed
<1>16. Guarded(refreshed)
  BY <1>14, <1>15, SparedGuarded
<1>17. Guarded(n)
  BY <1>3, <1>14, <1>16
<1> QED
  BY <1>17 DEF n, b

\* A fill that is not refused: an exact order never fills beyond its request,
\* and one reported complete has nothing left.
LEMMA FillSeals ==
    ASSUME NEW m, Typed(m), Numbered(m), m.out.subs = {}, Guarded(m),
           NEW o \in DOMAIN m.orders, NEW q \in Nat, q > 0,
           NEW full, NEW valid, NEW moved, NEW cumOK, ~FillRefused(m, o, q, cumOK),
           full => m.orders[o].fill + q >= m.orders[o].req \/ RoleOf(o) \in WholeExitRoles
    PROVE  Guarded(OnFill(m, o, q, full, valid, moved))
<1> DEFINE n == OnFill(m, o, q, full, valid, moved)
<1>1. /\ SetupOf(o) = m.setup.id /\ HasSetup(m)
      /\ RoleOf(o) \in EntryRoles => m.setup.pend = None
      /\ RoleOf(o) \notin EntryRoles => q <= RealOpen(m)
      /\ RoleOf(o) \in ReducingRoles => (q > m.addon.qty => m.life = "EXIT_PENDING")
      /\ RoleOf(o) \in ReducingRoles => ~(m.orders[o].fill + q > m.orders[o].req)
  BY Lots DEF FillRefused, ExactRoles
<1>2. n = IF RoleOf(o) \in EntryRoles THEN EntryFill(Book(m, o, q, full), o, q, full, valid, moved)
          ELSE IF RoleOf(o) \in ReducingRoles THEN AddonReduction(Book(m, o, q, full), q)
          ELSE WholeExitFill(Book(m, o, q, full), o, q)
  BY DEF OnFill, Book
<1> HIDE DEF n
<1>3. ASSUME RoleOf(o) \in EntryRoles
      PROVE  Guarded(n)
  BY <1>1, <1>2, <1>3, EntryFillSeals
<1>4. ASSUME RoleOf(o) \in ReducingRoles
      PROVE  Guarded(n)
  <2>1. RoleOf(o) \notin EntryRoles /\ RoleOf(o) \notin WholeExitRoles
    BY <1>4 DEF ReducingRoles, EntryRoles, WholeExitRoles
  <2>2. m.orders[o].fill + q <= m.orders[o].req
    BY <1>1, <1>4 DEF Typed, Ledger, RowOK
  <2> QED
    BY <1>1, <1>2, <1>4, <2>1, <2>2, AddonReductionSeals
<1>5. ASSUME RoleOf(o) \notin EntryRoles, RoleOf(o) \notin ReducingRoles
      PROVE  Guarded(n)
  BY <1>1, <1>2, <1>5, WholeExitFillSeals
<1> QED
  BY <1>3, <1>4, <1>5 DEF n

----------------------------------------------------------------------------
(* Positions, verdicts, funding and forced closes.                         *)

\* An exit that withdraws every order, then asks or closes what is held.
LEMMA QuietSeals ==
    ASSUME NEW m, Typed(m), m.out.subs = {}, m.life = "EXIT_PENDING", Settled(m),
           HasSetup(m) => m.setup.pend # None, NEW reason
    PROVE  LET quiet == CancelAll(m, reason)
           IN  /\ Guarded(quiet) /\ Guarded(Ask(quiet))
               /\ \A actual \in Int : \A discriminator :
                     Guarded(CloseActual(quiet, "ENGINE_ERROR", discriminator, actual))
<1> DEFINE quiet == CancelAll(m, reason)
<1>1. Quenched(quiet) /\ Typed(quiet) /\ quiet.setup = m.setup
  BY CancelAllQuenches
<1> HIDE DEF quiet
<1>2. Guarded(quiet)
  BY <1>1, QuenchedGuarded DEF HasSetup
<1>3. Guarded(Ask(quiet))
  <2>1. Spares(quiet, Ask(quiet))
    BY <1>1, IntentsSpare
  <2>2. Ask(quiet).life = quiet.life
    BY <1>1 DEF Ask, Typed, Heads, Fields
  <2> QED
    BY <1>2, <2>1, <2>2, SparedGuarded
<1>4. ASSUME NEW actual \in Int, NEW discriminator
      PROVE  Guarded(CloseActual(quiet, "ENGINE_ERROR", discriminator, actual))
  <2>1. "ENGINE_ERROR" \in CloseReasons
    BY DEF CloseReasons
  <2> QED
    BY <1>1, <2>1, CloseSeals
<1> QED
  BY <1>2, <1>3, <1>4 DEF quiet

\* A drift is observed: what there is to close has its reason.
LEMMA DriftedIs ==
    ASSUME NEW m, Typed(m), m.out.subs = {}, Settled(m), NEW actual \in Int
    PROVE  LET n == Drifted(m, actual)
           IN  /\ Typed(n) /\ n.out.subs = {} /\ n.life = "EXIT_PENDING" /\ Settled(n)
               /\ HasSetup(n) => n.setup.pend # None
<1> DEFINE pend == IF HasSetup(m) THEN "ENGINE_ERROR" ELSE m.setup.pend
           n == [m EXCEPT !.recovery = TRUE, !.drift = [seen |-> TRUE, qty |-> actual],
                          !.life = "EXIT_PENDING", !.setup.pend = pend]
<1>1. Typed(Drifted(m, actual))
  BY DriftedStill DEF Still
<1>2. Drifted(m, actual) = n
  BY DEF Drifted
<1>3. HasSetup(m) => pend # None
  BY DEF None
<1>4. ~HasSetup(m) => pend = m.setup.pend
  OBVIOUS
<1> HIDE DEF pend
<1>5. /\ n.out = m.out /\ n.base = m.base /\ n.addon = m.addon /\ n.life = "EXIT_PENDING"
      /\ n.setup.id = m.setup.id /\ n.setup.pend = pend
  BY DEF Typed, Heads, Fields, SetupOK
<1> HIDE DEF n
<1> QED
  BY <1>1, <1>2, <1>3, <1>4, <1>5 DEF Settled, HasSetup, RealOpen

\* The venue reports a position.
LEMMA PositionChangedSeals ==
    ASSUME NEW m, Typed(m), m.out.subs = {}, Guarded(m), NEW actual \in Int
    PROVE  Guarded(OnPositionChanged(m, actual))
<1> DEFINE clear == [m EXCEPT !.drift = NoDrift]
           exiting == Drifted(m, actual)
           asked == Ask(exiting)
           quiet == CancelAll(asked, "POSITION_DRIFT")
           closing == CloseActual(quiet, "ENGINE_ERROR", <<"position-drift", {}>>, actual)
<1>1. Guarded(clear)
  <2>1. clear.life = m.life
    BY DEF Typed, Heads, Fields
  <2> QED
    BY <2>1, SetupSpares, SparedGuarded
<1>2. OnPositionChanged(m, actual) =
          IF actual = ExpectedSigned(m) THEN clear ELSE IF actual = 0 THEN quiet ELSE closing
  BY DEF OnPositionChanged, Drifted
<1>3. /\ Typed(exiting) /\ exiting.out.subs = {} /\ exiting.life = "EXIT_PENDING" /\ Settled(exiting)
      /\ HasSetup(exiting) => exiting.setup.pend # None
  BY GuardedSettled, DriftedIs
<1> HIDE DEF exiting
<1>4. /\ asked.out.subs = exiting.out.subs /\ asked.life = exiting.life /\ asked.setup = exiting.setup
      /\ asked.base = exiting.base /\ asked.addon = exiting.addon
  BY <1>3 DEF Ask, Typed, Heads, Fields, Outboxes, IntentsOK
<1>5. Typed(asked)
  BY <1>3, AskStill DEF Still
<1> HIDE DEF asked
<1>6. Settled(asked) /\ (HasSetup(asked) => asked.setup.pend # None)
  BY <1>3, <1>4 DEF Settled, HasSetup, RealOpen
<1>7. Guarded(quiet) /\ Guarded(closing)
  BY <1>3, <1>4, <1>5, <1>6, QuietSeals
<1> QED
  BY <1>1, <1>2, <1>7

\* The final verdict.
LEMMA PositionClosedSeals ==
    ASSUME NEW m, Typed(m), m.out.subs = {}, Guarded(m), NEW reason \in CloseReasons,
           NEW net \in Int, NEW scope
    PROVE  Guarded(OnPositionClosed(m, reason, net, scope))
<1> DEFINE unknown == Ask([m EXCEPT !.recovery = TRUE])
           final == [m EXCEPT !.setup.final = reason, !.setup.pend = reason,
                              !.setup.print = net, !.net = net,
                              !.base = Settle(@), !.addon = Settle(@),
                              !.life = "EXIT_PENDING"]
           n == CancelAll(final, "FLAT_ORPHAN")
<1>1. Guarded(unknown)
  <2>1. /\ unknown.orders = m.orders /\ unknown.outbox = m.outbox /\ unknown.out.subs = m.out.subs
        /\ unknown.base = m.base /\ unknown.addon = m.addon /\ unknown.setup = m.setup
        /\ unknown.life = m.life
    BY DEF Ask, Typed, Heads, Fields, Outboxes, IntentsOK
  <2> HIDE DEF unknown
  <2>2. Subs(unknown) = Subs(m)
    BY <2>1 DEF Subs
  <2> QED
    BY <2>1, <2>2, AsideSeals
<1>2. ASSUME HasSetup(m)
      PROVE  Guarded(n)
  <2>1. Typed(final)
    <3>1. LegOK(Settle(m.base)) /\ LegOK(Settle(m.addon))
      BY DEF Typed, Heads, LegOK, Settle
    <3> QED
      BY <3>1 DEF Typed, Heads, Fields, Ledger, Outboxes, IntentsOK, SetupOK, Lifecycles, Reasons
  <2>2. /\ final.out = m.out /\ final.setup.id = m.setup.id
        /\ final.setup.pend = reason /\ final.life = "EXIT_PENDING"
    BY DEF Typed, Heads, Fields, SetupOK
  <2>3. HasSetup(final) /\ final.setup.pend # None
    BY <1>2, <2>2 DEF HasSetup, CloseReasons, None
  <2> HIDE DEF final
  <2> QED
    BY <2>1, <2>2, <2>3, QuietSeals DEF Settled
<1> HIDE DEF unknown, n
<1>3. OnPositionClosed(m, reason, net, scope) =
          IF ~HasSetup(m) \/ ~scope THEN unknown ELSE IF m.setup.final # None THEN m ELSE n
  BY DEF OnPositionClosed, unknown, n
<1> QED
  BY <1>1, <1>2, <1>3

\* Funding.
LEMMA FundingSeals ==
    ASSUME NEW m, Typed(m), Guarded(m), NEW settlement, NEW amount
    PROVE  Guarded(OnFunding(m, settlement, amount))
<1> DEFINE m1 == [m EXCEPT !.settled = @ \cup {settlement}]
           owing == [m1 EXCEPT !.owed = @ \cup {settlement}, !.recovery = TRUE]
           n == OnFunding(m, settlement, amount)
<1>1. n = m1 \/ n = [m1 EXCEPT !.net = @ + amount] \/ n = Ask(owing)
  BY DEF OnFunding
<1>2. /\ n.orders = m.orders /\ n.outbox = m.outbox /\ n.out.subs = m.out.subs
      /\ n.base = m.base /\ n.addon = m.addon /\ n.setup = m.setup /\ n.life = m.life
  <2> HIDE DEF n
  <2>1. CASE n = m1
    BY <2>1 DEF Typed, Heads, Fields
  <2>2. CASE n = [m1 EXCEPT !.net = @ + amount]
    BY <2>2 DEF Typed, Heads, Fields
  <2>3. CASE n = Ask(owing)
    BY <2>3 DEF Ask, Typed, Heads, Fields, Outboxes, IntentsOK
  <2> QED
    BY <1>1, <2>1, <2>2, <2>3
<1> HIDE DEF n
<1>3. Subs(n) = Subs(m)
  BY <1>2 DEF Subs
<1>4. Guarded(n)
  BY <1>2, <1>3, AsideSeals
<1> QED
  BY <1>4 DEF n

\* A restored snapshot is reconciled.
LEMMA RecoveryLoadedSeals ==
    ASSUME NEW m, Typed(m), Guarded(m)
    PROVE  Guarded(OnRecoveryLoaded(m))
<1> DEFINE n == Ask([m EXCEPT !.recovery = TRUE])
<1>1. /\ n.orders = m.orders /\ n.outbox = m.outbox /\ n.out.subs = m.out.subs
      /\ n.base = m.base /\ n.addon = m.addon /\ n.setup = m.setup /\ n.life = m.life
  BY DEF Ask, Typed, Heads, Fields, Outboxes, IntentsOK
<1> HIDE DEF n
<1>2. Subs(n) = Subs(m)
  BY <1>1 DEF Subs
<1>3. Guarded(n)
  BY <1>1, <1>2, AsideSeals
<1> QED
  BY <1>3 DEF OnRecoveryLoaded, n

\* A risk limit or the operator closes the position.
LEMMA ForcedCloseSeals ==
    ASSUME NEW m, Typed(m), m.out.subs = {}, Guarded(m), NEW reason \in CloseReasons, NEW discriminator
    PROVE  Guarded(OnForcedClose(m, reason, discriminator))
<1> DEFINE exiting == [m EXCEPT !.setup.pend = reason, !.life = "EXIT_PENDING"]
           withdrawn == CancelRoles(exiting, EntryRoles)
           n == CloseOpen(withdrawn, reason, discriminator)
<1>1. Typed(exiting)
  BY DEF Typed, Heads, Fields, Ledger, Outboxes, IntentsOK, SetupOK, Lifecycles, Reasons
<1>2. /\ exiting.orders = m.orders /\ exiting.outbox = m.outbox /\ exiting.out = m.out
      /\ exiting.setup.id = m.setup.id /\ exiting.life = "EXIT_PENDING"
  BY DEF Typed, Heads, Fields, SetupOK
<1> HIDE DEF exiting
<1>3. ASSUME HasSetup(m)
      PROVE  Guarded(n)
  <2>1. Subs(exiting) = Subs(m) /\ Active(exiting) = Active(m)
    BY <1>2 DEF Subs, Active, ActiveOf
  <2>2. Queued(exiting)
    BY <1>3, <2>1, GuardedSettled DEF Queued
  <2>3. Entryless(withdrawn)
    BY <1>1, <1>2, <2>2, EntriesOff
  <2>4. Typed(withdrawn) /\ withdrawn.setup = exiting.setup /\ withdrawn.life = exiting.life
    BY <1>1, CancelRolesStill, CancelRolesFollows DEF Still, Follows, Same
  <2> HIDE DEF withdrawn
  <2>5. Quenched(withdrawn)
    BY <1>2, <1>3, <2>3, <2>4 DEF Quenched, Settled, HasSetup
  <2> QED
    BY <2>4, <2>5, CloseSeals
<1> QED
  BY <1>3 DEF OnForcedClose, exiting, withdrawn, n

----------------------------------------------------------------------------
(* Bars.                                                                   *)

\* A setup opens with nothing to protect but its entry.
LEMMA CreateBaseSetupSeals ==
    ASSUME NEW m, Typed(m), Guarded(m), ~HasSetup(m), NEW side \in {1, -1}
    PROVE  Guarded(CreateBaseSetup(m, side))
<1> DEFINE id == m.born + 1
           opened == [m EXCEPT !.born = id, !.net = 0, !.base = EmptyLeg, !.addon = EmptyLeg,
                               !.setup = [NoSetup EXCEPT !.id = id, !.side = side],
                               !.life = "BASE_PENDING"]
           entry == <<"BASE_ENTRY", id, 1>>
           n == Register(opened, entry, BaseLots, side)
<1>1. m.born \in Nat /\ id \in Nat /\ id > m.born /\ id # 0
  BY DEF Typed, Heads
<1>2. /\ opened.orders = m.orders /\ opened.outbox = m.outbox /\ opened.out = m.out
      /\ opened.base = EmptyLeg /\ opened.addon = EmptyLeg /\ opened.life = "BASE_PENDING"
      /\ opened.setup = [NoSetup EXCEPT !.id = id, !.side = side]
  BY DEF Typed, Heads, Fields
<1>3. opened.setup.id = id /\ opened.setup.bs = 0 /\ opened.setup.pend = None
  <2> DEFINE fresh == [NoSetup EXCEPT !.id = id, !.side = side]
  <2>1. fresh.id = id /\ fresh.bs = 0 /\ fresh.pend = None
    BY DEF NoSetup
  <2>2. opened.setup = fresh
    BY <1>2
  <2> HIDE DEF fresh, opened
  <2> QED
    BY <2>1, <2>2
<1>4. \A o \in DOMAIN m.orders : SetupOf(o) # id
  BY <1>1 DEF Typed, Ledger
<1>5. RoleOf(entry) = "BASE_ENTRY" /\ SetupOf(entry) = id
  BY DEF RoleOf, SetupOf
<1>6. /\ DOMAIN n.orders = DOMAIN m.orders \cup {entry} /\ n.orders[entry].st = "INTENDED"
      /\ \A x \in DOMAIN m.orders : x # entry => n.orders[x] = m.orders[x]
      /\ n.setup = opened.setup /\ n.base = EmptyLeg /\ n.addon = EmptyLeg
      /\ n.life = "BASE_PENDING" /\ Subs(n) = Subs(m) \cup {entry}
  <2>1. /\ n.orders = [x \in DOMAIN opened.orders \cup {entry} |->
                          IF x = entry THEN [req |-> BaseLots, fill |-> 0, st |-> "INTENDED", side |-> side]
                          ELSE opened.orders[x]]
        /\ n.outbox = opened.outbox /\ n.out.subs = opened.out.subs \cup {entry}
        /\ n.setup = opened.setup /\ n.base = opened.base /\ n.addon = opened.addon /\ n.life = opened.life
    <3>1. Fields \subseteq DOMAIN opened /\ {"subs", "cancels", "ask"} \subseteq DOMAIN opened.out
      BY <1>2 DEF Typed, Heads, Fields, Outboxes, IntentsOK
    <3> HIDE DEF opened, entry
    <3> QED
      BY <3>1 DEF Register, Fields
  <2> HIDE DEF opened, entry, n
  <2> QED
    BY <1>2, <2>1 DEF Subs
<1> HIDE DEF opened, entry, id, n
<1>7. Queued(n)
  <2>1. \A o \in Subs(m) : RoleOf(o) \notin EntryRoles
    BY DEF Guarded, Closed, Idle, Held, Answered
  <2>2. entry \in Active(n)
    BY <1>5, <1>6 DEF Active, ActiveOf, ActiveStatuses, Roles, EntryRoles
  <2> QED
    BY <1>6, <2>1, <2>2 DEF Queued
<1>8. Unclosed(n)
  BY <1>3, <1>4, <1>5, <1>6 DEF Unclosed
<1>9. Stopped(n)
  BY <1>3, <1>6 DEF Stopped, EmptyLeg
<1>10. Covered(n)
  <2>1. \A x \in ActiveOf(n, ReducingRoles) : SetupOf(x) # n.setup.id
    BY <1>3, <1>4, <1>5, <1>6 DEF ActiveOf, ReducingRoles
  <2>2. IsFiniteSet(CoverOf(n)) /\ Cardinality(CoverOf(n)) = 0
    BY <2>1, NoCover
  <2>3. n.addon.qty = 0
    BY <1>6 DEF EmptyLeg
  <2> QED
    BY <2>2, <2>3 DEF Covered
<1>11. Guarded(n)
  BY <1>1, <1>3, <1>6, <1>7, <1>8, <1>9, <1>10 DEF Guarded, Held, Answered, HasSetup
<1> QED
  BY <1>11 DEF CreateBaseSetup, n, opened, entry, id

\* An add-on is armed on an open base: its entry is active.
LEMMA ConsumeAddonFactSeals ==
    ASSUME NEW m, Typed(m), Guarded(m), HasSetup(m), m.life = "NONE", NEW preview
    PROVE  Guarded(ConsumeAddonFact(m, preview))
<1> DEFINE noticed == [m EXCEPT !.setup.consumed = TRUE]
           armed == [m EXCEPT !.setup.consumed = TRUE, !.setup.areq = AddonLots,
                              !.addons = @ + 1, !.life = "ADDON_PENDING"]
           entry == <<"ADDON_ENTRY", m.setup.id, m.addons + 1>>
           n == Register(armed, entry, AddonLots, m.setup.side)
<1>1. Guarded(noticed)
  <2>1. noticed.life = m.life
    BY DEF Typed, Heads, Fields
  <2> QED
    BY <2>1, SetupSpares, SparedGuarded
<1>2. Answered(m)
  BY DEF Guarded, Closed, Idle, Held
<1>3. Typed(armed)
  BY DEF Typed, Heads, Fields, Ledger, Outboxes, IntentsOK, SetupOK, Lifecycles
<1>4. /\ armed.orders = m.orders /\ armed.outbox = m.outbox /\ armed.out = m.out
      /\ armed.base = m.base /\ armed.addon = m.addon /\ armed.setup.id = m.setup.id
      /\ armed.setup.bs = m.setup.bs /\ armed.setup.pend = m.setup.pend
      /\ armed.life = "ADDON_PENDING"
  BY DEF Typed, Heads, Fields, SetupOK
<1> HIDE DEF armed
<1>5. RoleOf(entry) = "ADDON_ENTRY"
  BY DEF RoleOf
<1> HIDE DEF entry
<1>6. /\ DOMAIN n.orders = DOMAIN m.orders \cup {entry} /\ n.orders[entry].st = "INTENDED"
      /\ \A x \in DOMAIN m.orders : x # entry => n.orders[x] = m.orders[x]
      /\ n.setup = armed.setup /\ n.base = m.base /\ n.addon = m.addon
      /\ n.life = "ADDON_PENDING" /\ n.outbox = m.outbox /\ n.out.subs = m.out.subs \cup {entry}
  BY <1>3, <1>4, Registered
<1> HIDE DEF n
<1>7. \A x \in DOMAIN n.orders : RoleOf(x) # "ADDON_ENTRY" => x \in DOMAIN m.orders /\ n.orders[x] = m.orders[x]
  BY <1>5, <1>6
<1>8. Queued(n)
  <2>1. entry \in Active(n)
    BY <1>5, <1>6 DEF Active, ActiveOf, ActiveStatuses, Roles, EntryRoles
  <2> SUFFICES ASSUME NEW x \in Subs(n), RoleOf(x) \in EntryRoles, x # entry
               PROVE  x \in Active(n)
    BY <2>1 DEF Queued
  <2>2. x \in Active(m)
    BY <1>2, <1>6 DEF Answered, Queued, Subs
  <2> QED
    BY <1>6, <2>2 DEF Active, ActiveOf
<1>9. Unclosed(n)
  BY <1>2, <1>4, <1>6, <1>7 DEF Answered, Unclosed
<1>10. Stopped(n)
  <2>1. StopOf(n) = StopOf(m) /\ RoleOf(StopOf(m)) # "ADDON_ENTRY"
    BY <1>4, <1>6 DEF StopOf, RoleOf
  <2>2. StopOf(m) \in Active(m) => StopOf(m) \in Active(n)
    BY <1>5, <1>6, <2>1 DEF Active, ActiveOf
  <2> QED
    BY <1>2, <1>4, <1>6, <2>1, <2>2 DEF Answered, Stopped
<1>11. Covered(n)
  <2>1. Reduced(n) <=> Reduced(m)
    BY <1>4, <1>5, <1>6 DEF Reduced
  <2>2. \A x : x \in ActiveOf(n, ReducingRoles) <=> x \in ActiveOf(m, ReducingRoles)
    BY <1>5, <1>6 DEF ActiveOf, ReducingRoles
  <2>3. \A x \in ActiveOf(m, ReducingRoles) : n.orders[x] = m.orders[x]
    BY <1>5, <1>6 DEF ActiveOf, ReducingRoles
  <2>4. \A s : s \in CoverOf(n) <=> s \in CoverOf(m)
    BY <1>4, <1>6, <2>2, <2>3, CoverOfIs
  <2>5. CoverOf(n) = CoverOf(m)
    BY <2>4
  <2> QED
    BY <1>2, <1>6, <2>1, <2>5 DEF Answered, Covered
<1>12. Guarded(n)
  BY <1>2, <1>4, <1>6, <1>8, <1>9, <1>10, <1>11 DEF Guarded, Held, Answered, HasSetup
<1> QED
  BY <1>1, <1>12 DEF ConsumeAddonFact, n, armed, entry

\* A bar.
LEMMA BarSeals ==
    ASSUME NEW m, Typed(m), Numbered(m), Guarded(m), NEW react \in {0, 1, -1},
           NEW trigger, NEW preview, NEW moved,
           react # 0 => ~HasSetup(m),
           trigger => HasSetup(m) /\ RealOpen(m) > 0 /\ m.life = "NONE"
    PROVE  Guarded(OnBar(m, react, trigger, preview, moved))
<1> DEFINE stale == [m EXCEPT !.setup.stale = TRUE]
           m1 == IF moved /\ m.setup.tp # 0 THEN stale ELSE m
           m2 == IF react # 0 THEN CreateBaseSetup(m1, react) ELSE m1
           m3 == IF trigger THEN ConsumeAddonFact(m2, preview) ELSE m2
           n == IF RealOpen(m) > 0 /\ HasSetup(m) THEN UpsertTakeProfit(m3) ELSE m3
<1>1. OnBar(m, react, trigger, preview, moved) = n
  BY DEF OnBar
<1>2. Still(m, m1) /\ Follows(m, m1) /\ Spares(m, m1)
  <2>1. Still(m, stale) /\ Follows(m, stale) /\ Spares(m, stale)
    <3>1. "TP" \in CloseReasons
      BY DEF CloseReasons
    <3>2. Still(m, stale) /\ Follows(m, stale)
      BY <3>1, SetupStill, SetupFollows
    <3> QED
      BY <3>2, SetupSpares
  <2>2. Still(m, m) /\ Follows(m, m) /\ Spares(m, m)
    BY StillSelf, FollowsSelf, SparesSelf
  <2> HIDE DEF stale
  <2> QED
    BY <2>1, <2>2
<1> HIDE DEF m1
<1>3. /\ Typed(m1) /\ Numbered(m1) /\ RealOpen(m1) = RealOpen(m) /\ (HasSetup(m1) <=> HasSetup(m))
      /\ m1.life = m.life
  BY <1>2 DEF Still, Calm, RealOpen, HasSetup, Follows, Goes, Same
<1>4. Guarded(m1)
  BY <1>2, <1>3, SparedGuarded
<1>5. CASE react # 0
  <2>1. n = CreateBaseSetup(m1, react)
    BY <1>5, Lots
  <2>2. Guarded(CreateBaseSetup(m1, react))
    BY <1>3, <1>4, <1>5, CreateBaseSetupSeals
  <2> QED
    BY <1>1, <2>1, <2>2
<1>6. CASE react = 0
  <2>1. m2 = m1
    BY <1>6
  <2> HIDE DEF m2
  <2>2. Guarded(m3) /\ Typed(m3) /\ Numbered(m3)
    <3>1. CASE trigger
      BY <1>3, <1>4, <2>1, <3>1, ConsumeAddonFactSeals, ConsumeAddonFactMoves, ConsumeAddonFactKept
         DEF Kept, Moves, Goes
    <3>2. CASE ~trigger
      BY <1>3, <1>4, <2>1, <3>2
    <3> QED
      BY <3>1, <3>2
  <2> HIDE DEF m3
  <2>3. Guarded(UpsertTakeProfit(m3))
    BY <2>2, TakeProfitSpares, TakeProfitFollows, SparedGuarded DEF Follows, Same
  <2> QED
    BY <1>1, <2>2, <2>3
<1> QED
  BY <1>5, <1>6

----------------------------------------------------------------------------
(* Reconciliation, guarded.                                                *)

\* Adopting the venue's view, and acknowledging what it shows, spares everything.
LEMMA HeardSpares ==
    ASSUME NEW m, Typed(m), NEW e
    PROVE  LET n == Heard(IF e.rich THEN Adopt(m, e.open) ELSE m, e)
           IN  Typed(n) /\ Spares(m, n) /\ n.life = m.life /\ Active(n) = Active(m)
<1> DEFINE shown == e.open \cap Active(m)
           partial == {o \in shown : m.orders[o].fill > 0}
           accepted == Mark(m, shown, "ACCEPTED")
           adopted == Mark(accepted, partial, "PARTIALLY_FILLED")
           seen == IF e.rich THEN Adopt(m, e.open) ELSE m
           n == Heard(seen, e)
<1>1. "ACCEPTED" \in Statuses /\ "ACCEPTED" \in ActiveStatuses
      /\ "PARTIALLY_FILLED" \in Statuses /\ "PARTIALLY_FILLED" \in ActiveStatuses
  BY DEF Statuses, ActiveStatuses
<1>2. Typed(n)
  BY HeardStill DEF Still
<1>3. shown \subseteq Active(m) /\ partial \subseteq shown
  OBVIOUS
<1>4. seen = IF e.rich THEN adopted ELSE m
  BY DEF Adopt
<1> HIDE DEF shown, partial, seen
<1>5. Typed(accepted) /\ Spares(m, accepted) /\ accepted.life = m.life /\ Active(accepted) = Active(m)
  <2>1. Typed(accepted)
    BY <1>1, MarkStill DEF Still
  <2>2. Spares(m, accepted)
    BY <1>1, <1>3, MarkSpares
  <2>3. /\ accepted.life = m.life /\ DOMAIN accepted.orders = DOMAIN m.orders
        /\ \A x \in DOMAIN m.orders :
              accepted.orders[x].st = IF x \in shown THEN "ACCEPTED" ELSE m.orders[x].st
    BY DEF Mark, Typed, Heads, Fields, Ledger, RowOK
  <2>4. Active(accepted) = Active(m)
    BY <1>1, <1>3, <2>3 DEF Active, ActiveOf
  <2> QED
    BY <2>1, <2>2, <2>3, <2>4
<1> HIDE DEF accepted
<1>6. Typed(adopted) /\ Spares(m, adopted) /\ adopted.life = m.life /\ Active(adopted) = Active(m)
  <2>1. Typed(adopted)
    BY <1>1, <1>5, MarkStill DEF Still
  <2>2. Spares(accepted, adopted)
    BY <1>1, <1>3, <1>5, MarkSpares
  <2>3. /\ adopted.life = accepted.life /\ DOMAIN adopted.orders = DOMAIN accepted.orders
        /\ \A x \in DOMAIN accepted.orders :
              adopted.orders[x].st = IF x \in partial THEN "PARTIALLY_FILLED" ELSE accepted.orders[x].st
    BY <1>5 DEF Mark, Typed, Heads, Fields, Ledger, RowOK
  <2>4. Active(adopted) = Active(accepted)
    BY <1>1, <1>3, <1>5, <2>3 DEF Active, ActiveOf
  <2> QED
    BY <1>5, <2>1, <2>2, <2>3, <2>4, SparesTrans
<1> HIDE DEF adopted
<1>7. Typed(seen) /\ Spares(m, seen) /\ seen.life = m.life /\ Active(seen) = Active(m)
  BY <1>4, <1>6, SparesSelf
<1>8. /\ n.orders = seen.orders /\ n.setup = seen.setup /\ n.out = seen.out
      /\ n.outbox.subs = seen.outbox.subs \ e.open /\ n.life = seen.life
      /\ n.base = seen.base /\ n.addon = seen.addon
  BY <1>7 DEF Heard, Ack, Typed, Heads, Fields, Outboxes, IntentsOK
<1> HIDE DEF n
<1>9. Subs(n) \subseteq Subs(seen) /\ Active(n) = Active(seen)
  BY <1>8 DEF Subs, Active, ActiveOf
<1>10. Spares(seen, n)
  BY <1>8, <1>9, SameSpares
<1>11. Spares(m, n)
  BY <1>7, <1>10, SparesTrans
<1> QED
  BY <1>2, <1>7, <1>8, <1>9, <1>11 DEF n, seen

\* A setup that is let go of leaves nothing behind.
LEMMA RetiredSeals ==
    ASSUME NEW m, Typed(m), m.out.subs = {}, RealOpen(m) = 0, NEW reason
    PROVE  /\ Guarded(Retire(ClearOutbox(m)))
           /\ Guarded(Retire(SequentialTransition(ClearOutbox(m), reason)))
<1> DEFINE c == ClearOutbox(m)
           t == SequentialTransition(c, reason)
<1>1. c.base = m.base /\ c.addon = m.addon /\ Typed(c)
  BY StoreStill DEF ClearOutbox, Typed, Heads, Fields, Still
<1> HIDE DEF c
<1>2. t.base = c.base /\ t.addon = c.addon /\ Fields \subseteq DOMAIN t
  BY <1>1 DEF SequentialTransition, Typed, Heads, Fields
<1>3. Fields \subseteq DOMAIN c
  BY <1>1 DEF Typed, Heads
<1> HIDE DEF t
<1>4. ASSUME NEW x, Fields \subseteq DOMAIN x, x.base = m.base, x.addon = m.addon,
             Retire(x).setup = NoSetup, Subs(Retire(x)) = {}
      PROVE  Guarded(Retire(x))
  <2> DEFINE n == Retire(x)
  <2>1. n.base = x.base /\ n.addon = x.addon
    BY <1>4 DEF Retire, ClearSetup, Fields
  <2>2. n.setup.id = 0 /\ n.setup.pend = None
    BY <1>4 DEF NoSetup
  <2> HIDE DEF n
  <2>3. Subs(n) = {}
    BY <1>4 DEF n
  <2>4. Guarded(n)
    BY <1>4, <2>1, <2>2, <2>3 DEF Guarded, Idle, HasSetup, RealOpen
  <2> QED
    BY <2>4 DEF n
<1>5. /\ Retire(c).setup = NoSetup /\ Subs(Retire(c)) = {}
      /\ Retire(t).setup = NoSetup /\ Subs(Retire(t)) = {}
  BY RetiredIs DEF c, t
<1> QED
  BY <1>1, <1>2, <1>3, <1>4, <1>5 DEF c, t

\* A flat reconciliation of a base entry that has not filled.
LEMMA BasePendingSeals ==
    ASSUME NEW m, Typed(m), Guarded(m), RealOpen(m) = 0, m.out.subs = {}
    PROVE  Guarded(ReconcileBasePending(m))
<1> DEFINE bases == {o \in DOMAIN m.orders : RoleOf(o) = "BASE_ENTRY" /\ SetupOf(o) = m.setup.id}
           absent == {o \in bases : m.orders[o].st \in ActiveStatuses \ {"INTENDED"}}
           marked == Mark(m, absent, "CANCELED")
           replayed == Replay(m, bases)
           clean == [replayed EXCEPT !.recovery = FALSE]
           asked == Ask([m EXCEPT !.recovery = TRUE])
<1>1. Guarded(Retire(ClearOutbox(m)))
  BY RetiredSeals
<1>2. Guarded(Retire(ClearOutbox(marked)))
  <2> HIDE DEF absent
  <2>1. Typed(marked) /\ marked.out = m.out /\ marked.base = m.base /\ marked.addon = m.addon
    BY CanceledIs
  <2> HIDE DEF marked
  <2> QED
    BY <2>1, RetiredSeals DEF RealOpen
<1>3. Guarded(clean)
  <2> HIDE DEF bases
  <2>1. Typed(replayed) /\ Spares(m, replayed) /\ replayed.life = m.life
    BY ReplayStill, ReplayFollows, IntentsSpare DEF Still, Follows, Same
  <2> HIDE DEF replayed
  <2>2. Spares(replayed, clean) /\ clean.life = replayed.life
    BY <2>1, SetupSpares DEF Typed, Heads, Fields
  <2> QED
    BY <2>1, <2>2, SparesTrans, SparedGuarded
<1>4. Guarded(asked)
  BY RecoveryLoadedSeals DEF OnRecoveryLoaded
<1>5. ReconcileBasePending(m) =
          IF \E o \in bases : m.orders[o].st = "TIMED_OUT" THEN Retire(ClearOutbox(m))
          ELSE IF absent # {} THEN Retire(ClearOutbox(marked))
          ELSE IF Replayable(m, bases) # {} THEN clean ELSE asked
  BY DEF ReconcileBasePending, bases
<1> HIDE DEF bases, absent, marked, clean, asked
<1> QED
  BY <1>1, <1>2, <1>3, <1>4, <1>5

\* A flat setup without active orders is closed or has nothing to answer for.
LEMMA ExitingSeals ==
    ASSUME NEW m, Typed(m), Guarded(m), RealOpen(m) = 0, HasSetup(m), m.out.subs = {}, NEW waiting,
           waiting = {o \in DOMAIN m.orders : m.orders[o].st \in ActiveStatuses \cup {"CANCEL_PENDING"}}
    PROVE  LET exiting == [m EXCEPT !.life = "EXIT_PENDING", !.recovery = TRUE]
           IN  Guarded(Ask(ClearOutbox(Mark(exiting, waiting, "CANCELED"))))
<1> DEFINE exiting == [m EXCEPT !.life = "EXIT_PENDING", !.recovery = TRUE]
           marked == Mark(exiting, waiting, "CANCELED")
           cleared == ClearOutbox(marked)
           n == Ask(cleared)
<1>1. /\ exiting.orders = m.orders /\ exiting.setup = m.setup /\ exiting.base = m.base
      /\ exiting.addon = m.addon /\ exiting.out = m.out /\ exiting.life = "EXIT_PENDING"
  BY DEF Typed, Heads, Fields
<1>2. Typed(exiting)
  BY LifeRecoverStill DEF Still, Lifecycles
<1> HIDE DEF exiting
<1>3. /\ Typed(marked) /\ marked.life = exiting.life /\ marked.setup = exiting.setup /\ marked.out = exiting.out
      /\ marked.base = exiting.base /\ marked.addon = exiting.addon
      /\ DOMAIN marked.orders = DOMAIN exiting.orders
      /\ \A x \in DOMAIN exiting.orders :
            marked.orders[x].st = IF x \in waiting THEN "CANCELED" ELSE exiting.orders[x].st
  BY <1>2, CanceledIs
<1> HIDE DEF marked
<1>4. /\ cleared.orders = marked.orders /\ cleared.setup = marked.setup /\ cleared.base = marked.base
      /\ cleared.addon = marked.addon /\ cleared.out = marked.out /\ cleared.life = marked.life
      /\ cleared.outbox.subs = {} /\ Typed(cleared)
  BY <1>3, StoreStill DEF ClearOutbox, NoIntents, Typed, Heads, Fields, Still
<1> HIDE DEF cleared
<1>5. /\ n.orders = cleared.orders /\ n.setup = cleared.setup /\ n.base = cleared.base
      /\ n.addon = cleared.addon /\ n.out.subs = cleared.out.subs /\ n.life = cleared.life
      /\ n.outbox = cleared.outbox
  BY <1>4 DEF Ask, Typed, Heads, Fields, Outboxes, IntentsOK
<1> HIDE DEF n
<1>6. /\ DOMAIN n.orders = DOMAIN m.orders /\ n.setup = m.setup /\ n.base = m.base /\ n.addon = m.addon
      /\ n.life = "EXIT_PENDING" /\ Subs(n) = {}
      /\ \A x \in DOMAIN m.orders : n.orders[x].st \notin ActiveStatuses
  <2>1. \A x \in DOMAIN m.orders :
            n.orders[x].st = IF x \in waiting THEN "CANCELED" ELSE m.orders[x].st
    BY <1>1, <1>3, <1>4, <1>5
  <2>2. "CANCELED" \notin ActiveStatuses
    BY DEF ActiveStatuses
  <2> QED
    BY <1>1, <1>3, <1>4, <1>5, <2>1, <2>2 DEF Subs
<1>7. \A roles : ActiveOf(n, roles) = {}
  BY <1>6 DEF ActiveOf
<1>8. ASSUME m.setup.pend # None
      PROVE  Guarded(n)
  <2>1. HasSetup(n) /\ n.setup.pend # None
    BY <1>6, <1>8 DEF HasSetup
  <2>2. Entryless(n)
    BY <1>6, <1>7 DEF Entryless
  <2> QED
    BY <1>6, <2>1, <2>2 DEF Guarded, Closed
<1>9. ASSUME m.setup.pend = None
      PROVE  Guarded(n)
  <2>1. Answered(m)
    BY <1>9 DEF Guarded, Closed, Idle, Held
  <2>2. m.base.qty = 0 /\ m.addon.qty = 0
    BY DEF Typed, Heads, LegOK, RealOpen
  <2>3. Queued(n) /\ Unclosed(n)
    BY <1>6, <2>1 DEF Answered, Queued, Unclosed
  <2>4. Stopped(n)
    BY <1>6, <2>1, <2>2 DEF Answered, Stopped
  <2>5. Covered(n)
    <3>1. IsFiniteSet(CoverOf(n)) /\ Cardinality(CoverOf(n)) = 0
      BY <1>7, NoCover
    <3> QED
      BY <1>6, <2>2, <3>1 DEF Covered
  <2>6. Answered(n) /\ RealOpen(n) = 0
    BY <1>6, <1>9, <2>3, <2>4, <2>5 DEF Answered, HasSetup, RealOpen
  <2> QED
    BY <2>6 DEF Guarded, Held
<1> QED
  BY <1>8, <1>9 DEF n, cleared, marked, exiting

\* A reconciliation that finds the venue flat, as expected.
LEMMA FlatSeals ==
    ASSUME NEW m, Typed(m), Guarded(m), RealOpen(m) = 0, m.out.subs = {}, NEW open
    PROVE  Guarded(ReconcileFlat(m, open))
<1> DEFINE waiting == {o \in DOMAIN m.orders : m.orders[o].st \in ActiveStatuses \cup {"CANCEL_PENDING"}}
           pending == [m EXCEPT !.recovery = FALSE]
           exiting == [m EXCEPT !.life = "EXIT_PENDING", !.recovery = TRUE]
           verdict == Retire(SequentialTransition(ClearOutbox(m), m.setup.final))
           canceled == Ask(ClearOutbox(Mark(exiting, waiting, "CANCELED")))
           marked == Mark(m, Active(m), "CANCELED")
           retired == Retire(ClearOutbox(marked))
           n == ReconcileFlat(m, open)
<1>1. Guarded(pending)
  <2>1. pending.life = m.life
    BY DEF Typed, Heads, Fields
  <2> QED
    BY <2>1, SetupSpares, SparedGuarded
<1>2. Guarded(exiting)
  <2>1. /\ exiting.orders = m.orders /\ exiting.setup = m.setup /\ exiting.base = m.base
        /\ exiting.addon = m.addon /\ exiting.outbox = m.outbox /\ exiting.out = m.out
        /\ exiting.life = "EXIT_PENDING"
    BY DEF Typed, Heads, Fields
  <2> HIDE DEF exiting
  <2>2. Subs(exiting) = Subs(m)
    BY <2>1 DEF Subs
  <2>3. Spares(m, exiting)
    BY <2>1, <2>2, SameSpares
  <2>4. CASE Held(m)
    <3>1. Answered(exiting)
      BY <2>3, <2>4, SparedAnswered DEF Held
    <3> QED
      BY <2>1, <3>1 DEF Guarded, Held, RealOpen
  <2>5. CASE ~Held(m)
    <3>1. Closed(m) => exiting.life = m.life
      BY <2>1 DEF Closed
    <3>2. Closed(m) => Guarded(exiting)
      BY <2>3, <3>1, SparedGuarded
    <3>3. Idle(m) => Guarded(exiting)
      BY <2>1, <2>2 DEF Guarded, Idle, HasSetup, RealOpen
    <3> QED
      BY <2>5, <3>2, <3>3 DEF Guarded
  <2> QED
    BY <2>4, <2>5
<1>3. Guarded(verdict)
  BY RetiredSeals
<1>4. HasSetup(m) => Guarded(canceled)
  <2>1. waiting = {o \in DOMAIN m.orders : m.orders[o].st \in ActiveStatuses \cup {"CANCEL_PENDING"}}
    OBVIOUS
  <2> HIDE DEF waiting
  <2> QED
    BY <2>1, ExitingSeals
<1>5. Guarded(retired)
  <2>1. Typed(marked) /\ marked.out = m.out /\ marked.base = m.base /\ marked.addon = m.addon
    BY CanceledIs
  <2> HIDE DEF marked
  <2> QED
    BY <2>1, RetiredSeals DEF RealOpen
<1>6. Guarded(ReconcileBasePending(m))
  BY BasePendingSeals
<1>7. \/ n = pending
      \/ n = exiting
      \/ n = verdict
      \/ n = canceled /\ HasSetup(m)
      \/ n = ReconcileBasePending(m)
      \/ n = retired
  BY DEF ReconcileFlat
<1> HIDE DEF n, pending, exiting, verdict, canceled, retired
<1>8. Guarded(n)
  BY <1>1, <1>2, <1>3, <1>4, <1>5, <1>6, <1>7
<1> QED
  BY <1>8 DEF n

\* A reconciliation of an open position that misses entries at most: those that
\* can be sent again are, the others are canceled.
LEMMA OpenSeals ==
    ASSUME NEW m, Typed(m), Guarded(m), m.out.subs = {}, NEW e,
           ActiveOf(m, Roles \ EntryRoles) \subseteq e.open
    PROVE  Guarded(ReconcileOpen(m, e))
<1> DEFINE missing == Active(m) \ e.open
           lost == missing \ Replayable(m, missing)
           replayed == Replay(m, missing)
           marked == Mark(replayed, lost, "CANCELED")
           gone == Ack(marked, lost)
           lostRoles == {RoleOf(o) : o \in lost}
           clean == [gone EXCEPT !.recovery = FALSE]
           p == ReconcilePendingEntry(gone, e.open)
<1>1. \A o \in lost : RoleOf(o) \in EntryRoles
  BY DEF ActiveOf, Active
<1>2. lostRoles \subseteq EntryRoles
  BY <1>1
<1>3. /\ lostRoles \cap ProtectiveRoles = {} /\ "CLOSE_ALL" \notin lostRoles
      /\ lostRoles \ EntryRoles = {}
  BY <1>2 DEF EntryRoles, ProtectiveRoles
<1>4. ReconcileOpen(m, e) = p
  <2> HIDE DEF p
  <2>1. ReconcileOpen(m, e) =
            LET exiting == [gone EXCEPT !.recovery = TRUE, !.life = "EXIT_PENDING"]
            IN  IF lostRoles \cap ProtectiveRoles # {}
                THEN CloseActual(CancelAll(exiting, "MISSING_PROTECTION"), "ENGINE_ERROR",
                                 <<"missing-protection", lost>>, e.actual)
                ELSE IF "CLOSE_ALL" \in lostRoles
                THEN CloseActual(exiting, IF m.setup.pend = None THEN "ENGINE_ERROR" ELSE m.setup.pend,
                                 <<"missing-whole-exit", e.seq>>, e.actual)
                ELSE IF lostRoles \ EntryRoles # {} THEN Ask([gone EXCEPT !.recovery = TRUE])
                ELSE p
    BY DEF ReconcileOpen, p
  <2> QED
    BY <1>3, <2>1
<1>5. lost \cap (m.out.subs \cup Replayable(m, missing)) = {}
  OBVIOUS
<1> HIDE DEF lost, missing
<1>6. /\ Typed(replayed) /\ Spares(m, replayed) /\ replayed.life = m.life
      /\ replayed.out.subs = m.out.subs \cup Replayable(m, missing)
  <2>1. Typed(replayed) /\ Spares(m, replayed) /\ replayed.life = m.life
    BY ReplayStill, ReplayFollows, IntentsSpare DEF Still, Follows, Same
  <2>2. replayed.out.subs = m.out.subs \cup Replayable(m, missing)
    BY DEF Replay, Typed, Heads, Fields, Outboxes, IntentsOK
  <2> QED
    BY <2>1, <2>2
<1> HIDE DEF replayed
<1>7. Spares(replayed, gone) /\ Typed(gone) /\ gone.life = replayed.life
  <2>1. "CANCELED" \in Statuses \ ActiveStatuses
    BY DEF Statuses, ActiveStatuses, TerminalStatuses
  <2>2. \A o \in lost : RoleOf(o) \notin GuardRoles
    BY <1>1 DEF GuardRoles, ReducingRoles, EntryRoles
  <2>3. Spares(replayed, gone)
    BY <1>5, <1>6, <2>1, <2>2, WithdrawnSpares
  <2>4. Typed(marked) /\ marked.life = replayed.life
    BY <1>6, CanceledIs
  <2> HIDE DEF marked
  <2>5. Typed(gone) /\ gone.life = marked.life
    <3>1. Typed(gone)
      BY <2>4, AckStill DEF Still
    <3>2. gone.life = marked.life
      BY <2>4 DEF Ack, Typed, Heads, Fields
    <3> QED
      BY <3>1, <3>2
  <2> QED
    BY <2>3, <2>4, <2>5
<1> HIDE DEF gone
<1>8. \/ p = clean \/ p = [gone EXCEPT !.recovery = TRUE]
      \/ /\ \E v : p = [clean EXCEPT !.life = "NONE", !.setup.consumed = v]
         /\ gone.life # "EXIT_PENDING"
  BY DEF ReconcilePendingEntry
<1> HIDE DEF p
<1>9. /\ p.orders = gone.orders /\ p.base = gone.base /\ p.addon = gone.addon
      /\ p.outbox = gone.outbox /\ p.out = gone.out
      /\ p.setup.id = gone.setup.id /\ p.setup.bs = gone.setup.bs /\ p.setup.pend = gone.setup.pend
      /\ (p.life = "EXIT_PENDING") = (gone.life = "EXIT_PENDING")
  <2>1. CASE p = clean
    BY <1>7, <2>1 DEF Typed, Heads, Fields
  <2>2. CASE p = [gone EXCEPT !.recovery = TRUE]
    BY <1>7, <2>2 DEF Typed, Heads, Fields
  <2>3. CASE /\ \E v : p = [clean EXCEPT !.life = "NONE", !.setup.consumed = v]
             /\ gone.life # "EXIT_PENDING"
    <3>1. PICK v : p = [clean EXCEPT !.life = "NONE", !.setup.consumed = v]
      BY <2>3
    <3> QED
      BY <1>7, <2>3, <3>1 DEF Typed, Heads, Fields, SetupOK
  <2> QED
    BY <1>8, <2>1, <2>2, <2>3
<1>10. Spares(gone, p)
  <2>1. Subs(p) = Subs(gone)
    BY <1>9 DEF Subs
  <2> QED
    BY <1>9, <2>1, SameSpares
<1>11. Spares(m, p)
  BY <1>6, <1>7, <1>10, SparesTrans
<1> QED
  BY <1>4, <1>6, <1>7, <1>9, <1>11, SparedGuarded

\* A reconciliation that shows another position.
LEMMA MismatchSeals ==
    ASSUME NEW m, Typed(m), m.out.subs = {}, Settled(m), NEW actual \in Int
    PROVE  Guarded(ReconcileMismatch(m, actual))
<1> DEFINE exiting == Drifted(m, actual)
           quiet == CancelAll(exiting, "RECONCILIATION_DRIFT")
           closing == CloseActual(quiet, "ENGINE_ERROR", <<"reconciliation-mismatch", {}>>, actual)
<1>1. /\ Typed(exiting) /\ exiting.out.subs = {} /\ exiting.life = "EXIT_PENDING" /\ Settled(exiting)
      /\ HasSetup(exiting) => exiting.setup.pend # None
  BY DriftedIs
<1>2. ReconcileMismatch(m, actual) = IF actual = 0 THEN Ask(quiet) ELSE closing
  BY DEF ReconcileMismatch, Drifted
<1> HIDE DEF exiting
<1>3. Guarded(Ask(quiet)) /\ Guarded(closing)
  BY <1>1, QuietSeals
<1> HIDE DEF quiet, closing
<1> QED
  BY <1>2, <1>3

\* A reconciliation that is not refused and shows every guard.
LEMMA ReconciliationSeals ==
    ASSUME NEW m, Typed(m), m.out.subs = {}, Guarded(m), NEW e, e.actual \in Int,
           ActiveOf(m, Roles \ EntryRoles) \subseteq e.open
    PROVE  Guarded(OnReconciliation(m, e))
<1> DEFINE heard == Heard(IF e.rich THEN Adopt(m, e.open) ELSE m, e)
           m1 == SendCancels(heard, e.open \ Active(heard), "RECONCILIATION_ORPHAN")
           settled == [m1 EXCEPT !.drift = NoDrift]
           blocked == Ask([m1 EXCEPT !.recovery = TRUE])
           n == OnReconciliation(m, e)
<1>0. n = IF e.actual # ExpectedSigned(m) THEN ReconcileMismatch(m1, e.actual)
          ELSE IF m.owed # {} THEN blocked
          ELSE IF e.actual = 0 THEN ReconcileFlat(settled, e.open)
          ELSE ReconcileOpen(settled, e)
  BY DEF OnReconciliation
<1>1. /\ Typed(heard) /\ Spares(m, heard) /\ heard.life = m.life /\ Active(heard) = Active(m)
  BY HeardSpares
<1>2. heard.out = m.out
  BY DEF Heard, Ack, Adopt, Mark, Typed, Heads, Fields
<1> HIDE DEF heard
<1>3. /\ Typed(m1) /\ Spares(m, m1) /\ m1.life = m.life /\ Active(m1) = Active(m)
      /\ m1.out.subs = {}
  <2>1. Typed(m1)
    BY <1>1, SendCancelsStill DEF Still
  <2>2. Spares(heard, m1)
    BY <1>1, IntentsSpare
  <2>3. m1.orders = heard.orders /\ m1.life = heard.life /\ m1.out.subs = heard.out.subs
    BY <1>1 DEF SendCancels, Typed, Heads, Fields, Outboxes, IntentsOK
  <2> HIDE DEF m1
  <2>4. Spares(m, m1)
    BY <1>1, <2>2, SparesTrans
  <2>5. Active(m1) = Active(heard)
    BY <2>3 DEF Active, ActiveOf
  <2> QED
    BY <1>1, <1>2, <2>1, <2>3, <2>4, <2>5
<1> HIDE DEF m1
<1>4. Guarded(m1)
  BY <1>3, SparedGuarded
<1>5. Guarded(ReconcileMismatch(m1, e.actual))
  BY <1>3, <1>4, GuardedSettled, MismatchSeals
<1>6. Guarded(blocked)
  BY <1>3, <1>4, RecoveryLoadedSeals DEF OnRecoveryLoaded
<1>7. /\ settled.orders = m1.orders /\ settled.setup = m1.setup /\ settled.base = m1.base
      /\ settled.addon = m1.addon /\ settled.outbox = m1.outbox /\ settled.out = m1.out
      /\ settled.life = m1.life
  BY <1>3 DEF Typed, Heads, Fields
<1>8. Typed(settled)
  BY <1>3 DEF Typed, Heads, Fields, Ledger, Outboxes, IntentsOK, NoDrift
<1>9. Spares(m1, settled)
  BY <1>3, SetupSpares
<1> HIDE DEF settled
<1>10. Guarded(settled) /\ settled.out.subs = {} /\ RealOpen(settled) = RealOpen(m)
  <2>1. Guarded(settled)
    BY <1>4, <1>7, <1>9, SparedGuarded
  <2>2. RealOpen(m1) = RealOpen(m)
    BY <1>3 DEF Spares, RealOpen
  <2>3. RealOpen(settled) = RealOpen(m1)
    BY <1>7 DEF RealOpen
  <2> QED
    BY <1>3, <1>7, <2>1, <2>2, <2>3
<1>11. ActiveOf(settled, Roles \ EntryRoles) \subseteq e.open
  <2>1. Active(settled) = Active(m)
    BY <1>3, <1>7 DEF Active, ActiveOf
  <2>2. ActiveOf(settled, Roles \ EntryRoles) = ActiveOf(m, Roles \ EntryRoles)
    BY <2>1 DEF Active, ActiveOf
  <2> QED
    BY <2>2
<1>12. ASSUME e.actual = ExpectedSigned(m), e.actual = 0
       PROVE  Guarded(ReconcileFlat(settled, e.open))
  <2>1. RealOpen(m) = 0
    BY <1>12, Lots, GuardedSettled DEF Settled
  <2> QED
    BY <1>8, <1>10, <2>1, FlatSeals
<1>13. Guarded(ReconcileOpen(settled, e))
  BY <1>8, <1>10, <1>11, OpenSeals
<1> HIDE DEF n, blocked
<1>14. Guarded(n)
  BY <1>0, <1>5, <1>6, <1>12, <1>13
<1> QED
  BY <1>14 DEF n

----------------------------------------------------------------------------
(* The fail-safe, guarded.                                                 *)

\* Refused funding is owed, then the common fail-safe follows.
LEMMA FailSafeFundingSeals ==
    ASSUME NEW m, Typed(m), m.out.subs = {}, Guarded(m), NEW settlement, NEW amount
    PROVE  Guarded(FailSafeFunding(m, settlement, amount))
<1> DEFINE owed == IF amount = 0 THEN m.owed ELSE m.owed \cup {settlement}
           x == [m EXCEPT !.settled = @ \cup {settlement}, !.owed = owed]
<1>1. FailSafeFunding(m, settlement, amount) = FailSafe(x)
  BY DEF FailSafeFunding
<1>2. owed \subseteq m.settled \cup {settlement}
  BY DEF Typed, Heads
<1> HIDE DEF owed
<1>3. Typed(x)
  BY <1>2 DEF Typed, Heads, Fields, Ledger, Outboxes, IntentsOK
<1>4. /\ x.orders = m.orders /\ x.outbox = m.outbox /\ x.out = m.out
      /\ x.base = m.base /\ x.addon = m.addon /\ x.setup = m.setup /\ x.life = m.life
  BY DEF Typed, Heads, Fields
<1> HIDE DEF x
<1>5. Subs(x) = Subs(m)
  BY <1>4 DEF Subs
<1>6. Guarded(x)
  BY <1>4, <1>5, AsideSeals
<1> QED
  BY <1>1, <1>3, <1>4, <1>6, FailSafeSeals

\* A refused reconciliation leaves nothing active, and closes what is held.
LEMMA FailSafeReconciliationSeals ==
    ASSUME NEW m, Typed(m), m.out.subs = {}, Guarded(m), NEW e, e.actual \in Int
    PROVE  Guarded(FailSafeReconciliation(m, e))
<1> DEFINE r == Rescued(m)
           unknown == SendCancels(r, e.open \ Active(m), "INVALID_RECONCILIATION_ORDER")
           quiet == CancelAll(unknown, "INVALID_RECONCILIATION")
           pend == IF HasSetup(m) THEN "ENGINE_ERROR" ELSE quiet.setup.pend
           drifted == [quiet EXCEPT !.drift = [seen |-> TRUE, qty |-> e.actual],
                                    !.life = "EXIT_PENDING", !.setup.pend = pend]
           asked == Ask(drifted)
           closing == CloseActual(drifted, "ENGINE_ERROR", <<"invalid-reconciliation", {}>>, e.actual)
<1>0. FailSafeReconciliation(m, e) =
          IF ~e.scope \/ e.seq < m.asOf THEN Ask(r)
          ELSE IF e.actual = 0 THEN asked ELSE closing
  BY DEF FailSafeReconciliation
<1>1. Guarded(Ask(r))
  BY RecoveryLoadedSeals DEF OnRecoveryLoaded, Rescued
<1>2. /\ Typed(r) /\ r.setup = m.setup /\ r.base = m.base /\ r.addon = m.addon
  BY RescuedIs
<1>3. r.out = m.out
  BY DEF Rescued, Typed, Heads, Fields
<1> HIDE DEF r
<1>4. Typed(unknown)
  BY <1>2, SendCancelsStill DEF Still
<1>5. /\ unknown.setup = r.setup /\ unknown.base = r.base /\ unknown.addon = r.addon
      /\ unknown.out.subs = r.out.subs
  BY <1>2 DEF SendCancels, Typed, Heads, Fields, Outboxes, IntentsOK
<1> HIDE DEF unknown
<1>6. Active(quiet) = {} /\ Subs(quiet) = {} /\ quiet.setup = m.setup
  <2>1. unknown.out.subs = {} /\ unknown.setup = m.setup
    BY <1>2, <1>3, <1>5
  <2>2. Active(quiet) = {} /\ Subs(quiet) = unknown.out.subs /\ quiet.setup = unknown.setup
    BY <1>4, CancelAllFollows
  <2> QED
    BY <2>1, <2>2
<1>7. Typed(quiet) /\ Still(unknown, quiet)
  BY <1>4, CancelAllStill DEF Still
<1>8. quiet.base.qty = m.base.qty /\ quiet.addon.qty = m.addon.qty
  BY <1>2, <1>5, <1>7 DEF Still, Calm
<1> HIDE DEF quiet
<1>9. /\ pend \in Reasons /\ (HasSetup(m) => pend # None) /\ (~HasSetup(m) => pend = m.setup.pend)
  BY <1>6, <1>7 DEF Typed, Heads, SetupOK, Reasons, CloseReasons, None
<1> HIDE DEF pend
<1>10. /\ drifted.orders = quiet.orders /\ drifted.base = quiet.base /\ drifted.addon = quiet.addon
       /\ drifted.outbox = quiet.outbox /\ drifted.out = quiet.out
       /\ drifted.life = "EXIT_PENDING" /\ drifted.setup.id = quiet.setup.id
       /\ drifted.setup.pend = pend
  BY <1>7 DEF Typed, Heads, Fields, SetupOK
<1>11. Typed(drifted)
  BY <1>7, <1>9 DEF Typed, Heads, Fields, Ledger, Outboxes, IntentsOK, SetupOK, Lifecycles
<1> HIDE DEF drifted
<1>12. Entryless(drifted)
  <2>1. EntryRoles \subseteq Roles
    BY DEF Roles
  <2> QED
    BY <1>6, <1>10, <2>1 DEF Entryless, Active, ActiveOf, Subs
<1>13. Settled(drifted) /\ (HasSetup(drifted) => drifted.setup.pend # None)
  <2>1. Settled(m)
    BY GuardedSettled
  <2> QED
    BY <1>6, <1>8, <1>9, <1>10, <2>1 DEF Settled, HasSetup, RealOpen
<1>14. Quenched(drifted)
  BY <1>10, <1>12, <1>13 DEF Quenched
<1>15. Guarded(asked)
  <2>1. Spares(drifted, asked)
    BY <1>11, IntentsSpare
  <2>2. asked.life = drifted.life
    BY <1>11 DEF Ask, Typed, Heads, Fields
  <2>3. Guarded(drifted)
    BY <1>13, <1>14, QuenchedGuarded
  <2> QED
    BY <2>1, <2>2, <2>3, SparedGuarded
<1>16. Guarded(closing)
  <2>1. "ENGINE_ERROR" \in CloseReasons
    BY DEF CloseReasons
  <2> QED
    BY <1>11, <1>14, <2>1, CloseSeals
<1> QED
  BY <1>0, <1>1, <1>15, <1>16

\* A refused entry fill leaves nothing active, and closes what was filled.
LEMMA FailSafeEntryFillSeals ==
    ASSUME NEW m, Typed(m), m.out.subs = {}, Guarded(m), NEW o \in DOMAIN m.orders, NEW q \in Nat
    PROVE  Guarded(FailSafeEntryFill(m, o, q))
<1> DEFINE r == Rescued(m)
           asked == Ask([r EXCEPT !.setup.final = None, !.setup.print = 0])
           known == IF m.drift.seen THEN m.drift.qty ELSE ExpectedSigned(m)
           observed == known + q * m.orders[o].side
           p == [asked EXCEPT !.drift = [seen |-> TRUE, qty |-> observed]]
           x == [p EXCEPT !.life = "EXIT_PENDING"]
           quiet == CancelAll(x, "STALE_ENTRY_DRIFT")
           closing == CloseActual(quiet, "ENGINE_ERROR", <<"attributed-stale-entry-fill", {}>>, observed)
<1>0. FailSafeEntryFill(m, o, q) = IF observed = 0 THEN p ELSE closing
  BY DEF FailSafeEntryFill
<1>1. observed \in Int
  <2>1. known \in Int /\ m.orders[o].side \in {1, -1}
    BY Lots DEF Typed, Heads, Ledger, RowOK
  <2> HIDE DEF known
  <2> QED
    BY <2>1
<1> HIDE DEF observed
<1>2. /\ Typed(r) /\ r.setup = m.setup
  BY RescuedIs
<1>3. /\ r.orders = m.orders /\ r.outbox = m.outbox /\ r.out = m.out /\ r.life = m.life
      /\ r.base = m.base /\ r.addon = m.addon
  BY DEF Rescued, Typed, Heads, Fields
<1> HIDE DEF r
<1>4. /\ p.orders = r.orders /\ p.base = r.base /\ p.addon = r.addon
      /\ p.outbox = r.outbox /\ p.out.subs = r.out.subs /\ p.life = r.life
      /\ p.setup.id = r.setup.id /\ p.setup.bs = r.setup.bs /\ p.setup.pend = r.setup.pend
  BY <1>2 DEF Ask, Typed, Heads, Fields, SetupOK, Outboxes, IntentsOK
<1>5. Typed(p)
  BY <1>1, <1>2 DEF Ask, Typed, Heads, Fields, Ledger, Outboxes, IntentsOK, SetupOK, Reasons
<1> HIDE DEF p
<1>6. Guarded(p)
  <2>1. Subs(p) = Subs(m)
    BY <1>3, <1>4 DEF Subs
  <2> QED
    BY <1>2, <1>3, <1>4, <2>1, AsideSeals
<1>7. /\ x.base = p.base /\ x.addon = p.addon /\ x.out = p.out
      /\ x.life = "EXIT_PENDING" /\ x.setup = p.setup
  BY <1>5 DEF Typed, Heads, Fields
<1>8. Typed(x)
  BY <1>5, LifeStill DEF Still, Lifecycles
<1> HIDE DEF x
<1>9. Settled(x)
  <2>1. Settled(p)
    BY <1>6, GuardedSettled
  <2> QED
    BY <1>7, <2>1 DEF Settled, HasSetup, RealOpen
<1>10. x.out.subs = {}
  BY <1>3, <1>4, <1>7
<1>11. Quenched(quiet) /\ Typed(quiet)
  BY <1>7, <1>8, <1>9, <1>10, CancelAllQuenches
<1> HIDE DEF quiet
<1>12. Guarded(closing)
  <2>1. "ENGINE_ERROR" \in CloseReasons
    BY DEF CloseReasons
  <2> QED
    BY <1>1, <1>11, <2>1, CloseSeals
<1> QED
  BY <1>0, <1>6, <1>12

\* A refused fill is counted first.
LEMMA FailSafeFillSeals ==
    ASSUME NEW m, Typed(m), m.out.subs = {}, Guarded(m), NEW o \in DOMAIN m.orders, NEW q \in Nat
    PROVE  Guarded(FailSafeFill(m, o, q))
<1> DEFINE x == [m EXCEPT !.execs = @ + 1]
<1>1. /\ x.orders = m.orders /\ x.out = m.out /\ x.life = m.life
  BY DEF Typed, Heads, Fields
<1>2. Typed(x)
  BY DEF Typed, Heads, Fields, Ledger, Outboxes, IntentsOK
<1>3. Spares(m, x)
  BY SetupSpares
<1>4. FailSafeFill(m, o, q) = IF RoleOf(o) \in EntryRoles THEN FailSafeEntryFill(x, o, q) ELSE FailSafe(x)
  BY DEF FailSafeFill
<1> HIDE DEF x
<1>5. Guarded(x)
  BY <1>1, <1>3, SparedGuarded
<1>6. Guarded(FailSafeEntryFill(x, o, q)) /\ Guarded(FailSafe(x))
  BY <1>1, <1>2, <1>5, FailSafeEntryFillSeals, FailSafeSeals
<1> QED
  BY <1>4, <1>6

----------------------------------------------------------------------------
(* Guarded steps and their theorems.                                       *)

\* The guards do not read anything else.
LEMMA AlikeGuarded ==
    ASSUME NEW p, NEW q, Alike(p, q)
    PROVE  Guarded(p) <=> Guarded(q)
<1>1. Guarded(p) => Guarded(q)
  BY AsideSeals DEF Alike
<1>2. Guarded(q) => Guarded(p)
  BY AsideSeals DEF Alike
<1> QED
  BY <1>1, <1>2

\* Whichever of the handler and the fail-safe takes effect, the guard holds.
LEMMA ApplySeals ==
    ASSUME Typed(machine), NEW refused, NEW post, NEW rescue,
           ~refused => Typed(post) /\ Guarded(post), Typed(rescue), Guarded(rescue),
           Apply(refused, post, rescue)
    PROVE  Guarded(machine')
<1> DEFINE done == Store(post)
           tripped == [rescue EXCEPT !.tripped = TRUE]
           saved == Store(tripped)
<1>1. ASSUME ~refused
      PROVE  Guarded(done)
  BY <1>1, StoredAlike, AlikeGuarded
<1>2. Typed(tripped) /\ Guarded(tripped)
  BY StoredAlike, AlikeGuarded
<1> HIDE DEF tripped
<1>3. Guarded(saved)
  BY <1>2, StoredAlike, AlikeGuarded
<1>4. IF ~refused /\ Consistent(done)
      THEN machine' = done /\ halted' = FALSE
      ELSE machine' = saved /\ halted' = ~Consistent(saved)
  BY DEF Apply, tripped
<1> HIDE DEF done, saved
<1> QED
  BY <1>1, <1>3, <1>4

\* The feed reports no end of an order that was not asked for, and no
\* reconciliation leaves out an order that guards the position.
Faithful == "missing" \notin Faults /\ "unasked" \notin Faults

\* Every action keeps the guard.
LEMMA StepSeals ==
    ASSUME Faithful, TypeInv, OrderInv, Guarded(machine), [Next]_vars
    PROVE  Guarded(machine')
<1> DEFINE f == Fresh
<1>a. /\ Typed(machine) /\ Typed(f) /\ Alike(machine, f) /\ f.out.subs = {}
  BY FreshAlike DEF TypeInv, OrderInv, NoIntents
<1>b. /\ f.orders = machine.orders /\ f.setup = machine.setup /\ f.life = machine.life
      /\ RealOpen(f) = RealOpen(machine) /\ (HasSetup(f) <=> HasSetup(machine))
      /\ ExpectedSigned(f) = ExpectedSigned(machine) /\ Active(f) = Active(machine)
  BY <1>a DEF Alike, RealOpen, HasSetup, ExpectedSigned, Active, ActiveOf
<1>c. Numbered(f) /\ Guarded(f)
  BY <1>a, AlikeGuarded DEF OrderInv, Alike, Numbered
<1>e. f = Fresh
  OBVIOUS
<1> HIDE DEF f
<1>f. Typed(FailSafe(f)) /\ Guarded(FailSafe(f))
  BY <1>a, <1>c, FailSafeStill, FailSafeSeals DEF Still
<1>g. ASSUME NEW refused, NEW post, NEW rescue, Apply(refused, post, rescue),
             ~refused => Typed(post) /\ Guarded(post), Typed(rescue), Guarded(rescue)
      PROVE  Guarded(machine')
  BY <1>a, <1>g, ApplySeals
<1>1. CASE EquityUpdated
  <2> DEFINE n == [f EXCEPT !.equity = TRUE]
  <2>1. Apply(FALSE, n, f)
    BY <1>1, <1>e DEF EquityUpdated
  <2>2. Typed(n)
    BY <1>a DEF Typed, Heads, Fields, Ledger, Outboxes, IntentsOK
  <2>3. /\ n.orders = f.orders /\ n.setup = f.setup /\ n.base = f.base
        /\ n.addon = f.addon /\ n.outbox = f.outbox /\ n.out = f.out /\ n.life = f.life
    BY <1>a DEF Typed, Heads, Fields
  <2> HIDE DEF n
  <2>4. Guarded(n)
    <3>1. Subs(n) = Subs(f)
      BY <2>3 DEF Subs
    <3> QED
      BY <1>c, <2>3, <3>1, AsideSeals
  <2> QED
    BY <1>a, <1>c, <1>g, <2>1, <2>2, <2>4
<1>2. CASE BarClosed
  <2>1. PICK react \in Sides \cup {0}, trigger \in BOOLEAN, preview \in BOOLEAN, moved \in BOOLEAN :
          /\ react # 0 => FlatEligible(machine)
          /\ trigger => AddonObservable(machine)
          /\ Apply(FALSE, OnBar(f, react, trigger, preview, moved), FailSafe(f))
    BY <1>2, <1>e DEF BarClosed
  <2>2. react \in {0, 1, -1}
    BY EnvironmentAssumption
  <2>3. react # 0 => ~HasSetup(f)
    BY <1>b, <2>1 DEF FlatEligible
  <2>4. trigger => HasSetup(f) /\ RealOpen(f) > 0 /\ f.life = "NONE"
    <3>1. trigger => RealOpen(machine) # 0
      BY <2>1 DEF AddonObservable, PositionBuild
    <3>2. RealOpen(f) \in Nat
      BY <1>a, Lots
    <3> QED
      BY <1>b, <2>1, <3>1, <3>2 DEF AddonObservable
  <2>5. Typed(OnBar(f, react, trigger, preview, moved))
    BY <1>a, <2>2, BarKept DEF Kept
  <2>6. Guarded(OnBar(f, react, trigger, preview, moved))
    BY <1>a, <1>c, <2>2, <2>3, <2>4, BarSeals
  <2> QED
    BY <1>f, <1>g, <2>1, <2>5, <2>6
<1>3. CASE OrderSubmitted
  <2>1. PICK o \in ReportedOrders, match \in BOOLEAN : Apply(~match, OnSubmitted(f, o), FailSafe(f))
    BY <1>3, <1>e DEF OrderSubmitted
  <2>2. Typed(OnSubmitted(f, o))
    BY <1>a, SubmittedStill DEF Still
  <2>3. Guarded(OnSubmitted(f, o))
    BY <1>a, <1>b, <1>c, SubmittedSeals DEF ReportedOrders
  <2> QED
    BY <1>f, <1>g, <2>1, <2>2, <2>3
<1>4. CASE OrderAccepted
  <2>1. PICK o \in ReportedOrders : Apply(FALSE, OnAccepted(f, o), FailSafe(f))
    BY <1>4, <1>e DEF OrderAccepted
  <2>2. Typed(OnAccepted(f, o))
    BY <1>a, SubmittedStill DEF Still
  <2>3. Guarded(OnAccepted(f, o))
    BY <1>a, <1>b, <1>c, SubmittedSeals DEF ReportedOrders
  <2> QED
    BY <1>f, <1>g, <2>1, <2>2, <2>3
<1>5. CASE OrderTerminal
  <2>1. PICK o \in ReportedOrders, kind \in {"REJECTED", "CANCELED", "TIMED_OUT"}, cumOK \in BOOLEAN :
          /\ kind = "CANCELED" /\ machine.orders[o].st = "CANCEL_PENDING"
          /\ Apply(~cumOK, OnTerminal(f, o, kind), FailSafe(f))
    BY <1>5, <1>e DEF OrderTerminal, Budget, If, Faithful
  <2>2. Typed(OnTerminal(f, o, kind))
    BY <1>a, TerminalKept DEF Kept
  <2>3. Guarded(OnTerminal(f, o, kind))
    BY <1>a, <1>b, <1>c, <2>1, CanceledSeals DEF ReportedOrders
  <2> QED
    BY <1>f, <1>g, <2>1, <2>2, <2>3
<1>6. CASE OrderFilled
  <2>1. PICK o \in DOMAIN machine.orders : \E q \in FillSizes(o), cumOK \in BOOLEAN,
                                              valid \in BOOLEAN, moved \in BOOLEAN :
          Apply(FillRefused(f, o, q, cumOK), OnFill(f, o, q, Completes(o, q), valid, moved),
                FailSafeFill(f, o, q))
    BY <1>6, <1>e DEF OrderFilled
  <2>2. PICK q \in FillSizes(o), cumOK \in BOOLEAN, valid \in BOOLEAN, moved \in BOOLEAN :
          Apply(FillRefused(f, o, q, cumOK), OnFill(f, o, q, Completes(o, q), valid, moved),
                FailSafeFill(f, o, q))
    BY <2>1
  <2>3. q \in Nat /\ q > 0
    <3>1. RealOpen(machine) \in Nat
      BY <1>a, Lots
    <3>2. Remaining(machine, o) \in Nat
      BY <1>a DEF Typed, Ledger, RowOK, Remaining
    <3> QED
      BY <3>1, <3>2 DEF FillSizes
  <2> DEFINE full == Completes(o, q)
  <2>4. full => f.orders[o].fill + q >= f.orders[o].req \/ RoleOf(o) \in WholeExitRoles
    BY <1>b DEF Completes
  <2> HIDE DEF full
  <2>5. ~FillRefused(f, o, q, cumOK) => Typed(OnFill(f, o, q, full, valid, moved))
    BY <1>a, <1>b, <2>3, FillKept DEF Kept
  <2>6. ~FillRefused(f, o, q, cumOK) => Guarded(OnFill(f, o, q, full, valid, moved))
    BY <1>a, <1>b, <1>c, <2>3, <2>4, FillSeals
  <2>7. Typed(FailSafeFill(f, o, q))
    BY <1>a, <1>b, <2>3, FailSafeFillKept DEF Kept
  <2>8. Guarded(FailSafeFill(f, o, q))
    BY <1>a, <1>b, <1>c, <2>3, FailSafeFillSeals
  <2> QED
    BY <1>g, <2>2, <2>5, <2>6, <2>7, <2>8 DEF full
<1>h. VenueQuantities \subseteq Int
  BY <1>a, Lots DEF VenueQuantities
<1>7. CASE PositionChanged
  <2>1. PICK actual \in VenueQuantities : Apply(FALSE, OnPositionChanged(f, actual), FailSafe(f))
    BY <1>7, <1>e DEF PositionChanged
  <2>2. actual \in Int
    BY <1>h
  <2>3. Typed(OnPositionChanged(f, actual))
    BY <1>a, <2>2, PositionChangedStill DEF Still
  <2>4. Guarded(OnPositionChanged(f, actual))
    BY <1>a, <1>c, <2>2, PositionChangedSeals
  <2> QED
    BY <1>f, <1>g, <2>1, <2>3, <2>4
<1>8. CASE PositionClosed
  <2>1. PICK reason \in FinalReasons, net \in {-1, 1}, scope \in BOOLEAN :
          Apply(PositionClosedRefused(f, reason, net, scope),
                OnPositionClosed(f, reason, net, scope), FailSafe(f))
    BY <1>8, <1>e DEF PositionClosed
  <2>2. reason \in CloseReasons /\ net \in Int
    BY EnvironmentAssumption
  <2>3. Typed(OnPositionClosed(f, reason, net, scope))
    BY <1>a, <2>2, PositionClosedKept DEF Kept
  <2>4. Guarded(OnPositionClosed(f, reason, net, scope))
    BY <1>a, <1>c, <2>2, PositionClosedSeals
  <2> QED
    BY <1>f, <1>g, <2>1, <2>3, <2>4
<1>9. CASE FundingApplied
  <2>1. PICK settlement \in Settlements \ machine.settled, amount \in {-2, 0, 2}, scope \in BOOLEAN :
          Apply(FundingRefused(f, scope), OnFunding(f, settlement, amount),
                FailSafeFunding(f, settlement, amount))
    BY <1>9, <1>e DEF FundingApplied
  <2>2. amount \in Int
    OBVIOUS
  <2>3. Typed(OnFunding(f, settlement, amount)) /\ Typed(FailSafeFunding(f, settlement, amount))
    BY <1>a, <2>2, FundingKept, FailSafeFundingKept DEF Kept
  <2>4. Guarded(OnFunding(f, settlement, amount))
    BY <1>a, <1>c, FundingSeals
  <2>5. Guarded(FailSafeFunding(f, settlement, amount))
    BY <1>a, <1>c, FailSafeFundingSeals
  <2> QED
    BY <1>g, <2>1, <2>3, <2>4, <2>5
<1>10. CASE ForcedClose
  <2>1. PICK reason \in ForcedReasons : Apply(FALSE, OnForcedClose(f, reason, <<reason, {}>>), FailSafe(f))
    BY <1>10, <1>e DEF ForcedClose
  <2>2. reason \in CloseReasons
    BY EnvironmentAssumption DEF CloseReasons
  <2>3. \A d : Typed(OnForcedClose(f, reason, d)) /\ Guarded(OnForcedClose(f, reason, d))
    BY <1>a, <1>c, <2>2, ForcedCloseStill, ForcedCloseSeals DEF Still
  <2> QED
    BY <1>f, <1>g, <2>1, <2>3
<1>11. CASE RecoverySnapshotLoaded
  <2>1. PICK attested \in BOOLEAN : Apply(~attested, OnRecoveryLoaded(f), FailSafe(f))
    BY <1>11, <1>e DEF RecoverySnapshotLoaded
  <2>2. Typed(OnRecoveryLoaded(f)) /\ Guarded(OnRecoveryLoaded(f))
    BY <1>a, <1>c, RecoveryLoadedStill, RecoveryLoadedSeals DEF Still
  <2> QED
    BY <1>f, <1>g, <2>1, <2>2
<1>12. CASE ReconciliationCompleted
  <2>0. PICK actual \in VenueQuantities, open \in VenueViews, seq \in 0 .. MaxSeq,
             scope, conflict \in BOOLEAN :
          LET e == [actual |-> actual, open |-> open, rich |-> open # {}, conflict |-> conflict,
                    seq |-> seq, scope |-> scope]
          IN  /\ Budget(If(actual # ExpectedSigned(machine), "drift") \cup
                            If(~scope \/ seq < machine.asOf, "stale") \cup
                            If(conflict, "conflict") \cup
                            If(~ActiveOf(machine, Roles \ EntryRoles) \subseteq open, "missing"))
              /\ conflict => e.rich
              /\ Apply(ReconciliationRefused(Fresh, e), OnReconciliation(Fresh, e),
                       FailSafeReconciliation(Fresh, e))
    BY <1>12 DEF ReconciliationCompleted
  <2>a. ActiveOf(machine, Roles \ EntryRoles) \subseteq open
    <3> DEFINE shows == ActiveOf(machine, Roles \ EntryRoles) \subseteq open
               others == If(actual # ExpectedSigned(machine), "drift") \cup
                         If(~scope \/ seq < machine.asOf, "stale") \cup If(conflict, "conflict")
    <3>1. Budget(others \cup If(~shows, "missing"))
      BY <2>0
    <3> HIDE DEF shows, others
    <3>2. If(~shows, "missing") \subseteq Faults
      BY <3>1 DEF Budget
    <3>3. shows
      BY <3>2 DEF If, Faithful
    <3> QED
      BY <3>3 DEF shows
  <2> DEFINE e == [actual |-> actual, open |-> open, rich |-> open # {}, conflict |-> conflict,
                   seq |-> seq, scope |-> scope]
  <2>1. /\ e.actual \in VenueQuantities /\ ActiveOf(machine, Roles \ EntryRoles) \subseteq e.open
        /\ Apply(ReconciliationRefused(f, e), OnReconciliation(f, e),
                 FailSafeReconciliation(f, e))
    BY <1>e, <2>0, <2>a
  <2> HIDE DEF e
  <2>2. e.actual \in Int
    BY <1>h, <2>1
  <2>3. Typed(OnReconciliation(f, e)) /\ Typed(FailSafeReconciliation(f, e))
    BY <1>a, <2>2, ReconciliationLegal, FailSafeReconciliationStill DEF Legal, Still
  <2>4. ActiveOf(f, Roles \ EntryRoles) \subseteq e.open
    BY <1>b, <2>1 DEF ActiveOf
  <2>5. Guarded(OnReconciliation(f, e))
    BY <1>a, <1>c, <2>2, <2>4, ReconciliationSeals
  <2>6. Guarded(FailSafeReconciliation(f, e))
    BY <1>a, <1>c, <2>2, FailSafeReconciliationSeals
  <2> QED
    BY <1>g, <2>1, <2>3, <2>5, <2>6
<1>13. CASE UNCHANGED vars
  <2>1. machine' = machine
    BY <1>13 DEF vars
  <2> QED
    BY <2>1
<1> QED
  BY <1>1, <1>2, <1>3, <1>4, <1>5, <1>6, <1>7, <1>8, <1>9, <1>10, <1>11, <1>12, <1>13 DEF Next

\* In every reachable state, while the feed is faithful.
LEMMA GuardInvariant ==
    ASSUME Faithful
    PROVE  Spec => []Guarded(machine)
<1>1. Init => Guarded(machine)
  <2>1. /\ InitialMachine.setup = NoSetup
        /\ InitialMachine.out = NoIntents /\ InitialMachine.outbox = NoIntents
        /\ InitialMachine.base = EmptyLeg /\ InitialMachine.addon = EmptyLeg
    BY DEF InitialMachine
  <2>2. /\ NoSetup.id = 0 /\ NoSetup.pend = None /\ NoIntents.subs = {} /\ EmptyLeg.qty = 0
    BY DEF NoSetup, NoIntents, EmptyLeg
  <2>3. Idle(InitialMachine)
    BY <2>1, <2>2 DEF Idle, HasSetup, RealOpen, Subs
  <2> QED
    BY <2>3 DEF Init, Guarded
<1>2. TypeInv /\ OrderInv /\ Guarded(machine) /\ [Next]_vars => Guarded(machine)'
  BY StepSeals
<1> QED
  BY <1>1, <1>2, TypeInvariant, OrderInvariant, PTL DEF Spec

\* Exposure is never bare: unless a whole-position exit is under way, an open
\* base has an active stop, and every lot that the add-on holds is covered by
\* its own stops until their reduction is asked for, however fills, cancels,
\* restarts and fail-safes interleave (_upsert_base_stop, _apply_entry_fill,
\* _apply_addon_reduction, _cancel_all_orphans). A stop that times out leaves
\* the base bare until a reconciliation answers; such ends are left out, and so is
\* what breaks the other half of the invariant (see CloseStandsAlone).
THEOREM ExposureIsProtected ==
    ASSUME Faithful
    PROVE  Spec => []ExposureProtected
<1>1. TypeInv /\ OrderInv /\ Guarded(machine) => ExposureProtected
  <2> SUFFICES ASSUME TypeInv, OrderInv, Guarded(machine), machine.life # "EXIT_PENDING"
               PROVE  /\ machine.base.qty > 0 => ActiveOf(machine, {"BASE_STOP"}) # {}
                      /\ ~Reduced(machine) => machine.addon.qty <= Cardinality(CoverOf(machine))
    BY DEF ExposureProtected, Protected, AddonCovered
  <2>1. machine.base.qty \in Nat /\ machine.addon.qty \in Nat
    BY DEF TypeInv, Typed, Heads, LegOK
  <2>2. CASE Idle(machine)
    <3>1. machine.base.qty = 0 /\ machine.addon.qty = 0
      BY <2>1, <2>2 DEF Idle, RealOpen
    <3>2. CoverOf(machine) = {}
      <4>1. \A o \in ActiveOf(machine, ReducingRoles) : SetupOf(o) # machine.setup.id
        BY <2>2 DEF OrderInv, Numbered, ReducingRoles, ProtectiveRoles, Idle, HasSetup, ActiveOf
      <4> QED
        BY <4>1, CoverOfIs
    <3> QED
      BY <2>1, <3>1, <3>2, FS_EmptySet
  <2>3. CASE Held(machine)
    <3>1. machine.base.qty > 0 => StopOf(machine) \in ActiveOf(machine, {"BASE_STOP"})
      BY <2>3 DEF Held, Answered, Stopped, StopOf, RoleOf, Active, ActiveOf
    <3>2. ~Reduced(machine) => machine.addon.qty <= Cardinality(CoverOf(machine))
      BY <2>3 DEF Held, Answered, Covered
    <3> QED
      BY <3>1, <3>2
  <2> QED
    BY <2>2, <2>3 DEF Guarded, Closed
<1> QED
  BY <1>1, TypeInvariant, OrderInvariant, GuardInvariant, PTL

\* A whole-position close stands alone: while one is under way no entry is active
\* or waits to be sent, and there is no second close, whichever of the drift,
\* recovery, operator and fail-safe paths asked for it (_close_all_intent,
\* _cancel_role_orders). A reconciliation that misses a stop as well as an entry
\* replays the entry beside the close it asks for; that fault is left out.
THEOREM CloseStandsAlone ==
    ASSUME Faithful
    PROVE  Spec => []CloseIsExclusive
<1>1. OrderInv /\ Guarded(machine) => CloseWithdrawsEntries
  <2> SUFFICES ASSUME OrderInv, Guarded(machine), machine.setup.pend # None
               PROVE  /\ ActiveOf(machine, EntryRoles) = {}
                      /\ \A o \in machine.outbox.subs : RoleOf(o) \notin EntryRoles
    BY DEF CloseWithdrawsEntries
  <2>1. Entryless(machine)
    BY DEF Guarded, Idle, Held, Answered, Closed
  <2> QED
    BY <2>1 DEF Entryless, Subs
<1> QED
  BY <1>1, OrderInvariant, GuardInvariant, OneCloseWaits, PTL DEF CloseIsExclusive
=============================================================================
