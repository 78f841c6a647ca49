------------------------ MODULE MastermindAdapter ------------------------
(***************************************************************************)
(* The order routing of engine/nautilus_mastermind.py: how an intent of    *)
(* the reducer becomes native orders, and how the callbacks of those       *)
(* orders come back to it.  Base stop and take profit are groups of helper *)
(* orders, one per execution that opened exposure.                         *)
(*                                                                         *)
(* Every operator maps a system to the system the call leaves:             *)
(*   m     the reducer         a     the adapter's memory                  *)
(*   v     the venue's cache   disk  the persisted pair of m and a         *)
(*   fuse  effects left before the process dies (negative: it does not)    *)
(*   dead  it died             raised  the adapter or the reducer raised   *)
(* Native callbacks are answered one by one (EventIngest models their      *)
(* dedupe and numbering); money, prices and funding are left out.          *)
(***************************************************************************)
EXTENDS MastermindHandlers, Sequences, TLC

CoverageRoles == {"BASE_STOP", "TAKE_PROFIT"}
NoOrder == <<>>
NoFun == [x \in {} |-> 0]

\* A helper's native ID is the pair of its logical order and the execution it
\* covers; every other order keeps its logical ID.
IsHelper(id) == Len(id) = 2
Logical(id) == IF IsHelper(id) THEN id[1] ELSE id

EmptyAdapter ==
    [scheduled |-> {}, restored |-> {}, routed |-> {}, submitted |-> {}, bound |-> NoFun,
     exposure |-> NoFun, groups |-> [r \in CoverageRoles |-> NoOrder], lives |-> NoFun,
     terminal |-> {}, reason |-> None, awaiting |-> FALSE, busy |-> FALSE, deferred |-> FALSE,
     active |-> 0]

\* An order at the venue: left is the quantity not filled yet.
SentOrder(qty) == [left |-> qty, done |-> 0, st |-> "sent", cancel |-> FALSE]
\* pos is the cached position, delta what a fill just added to it: the cache
\* follows with the position event.  opener and closer name the orders.
EmptyVenue == [orders |-> NoFun, pos |-> 0, delta |-> 0, opener |-> NoOrder, closer |-> NoOrder]

IsOpen(v, id) == id \in DOMAIN v.orders /\ v.orders[id].st = "open"
OpenIds(v) == {id \in DOMAIN v.orders : v.orders[id].st = "open"}
Put(f, x, y) == (x :> y) @@ f

InitialSystem ==
    [m |-> InitialMachine, a |-> EmptyAdapter, v |-> EmptyVenue,
     disk |-> [m |-> InitialMachine, a |-> EmptyAdapter],
     fuse |-> -1, dead |-> FALSE, raised |-> FALSE]

Stopped(s) == s.dead \/ s.raised
Raise(s) == [s EXCEPT !.raised = TRUE]

\* _apply_domain_event, _route_intent and _reconcile call each other.
RECURSIVE Apply(_, _, _, _), Reconcile(_)

----------------------------------------------------------------------------
(* Persisting and commands: each is an effect the process may die before.  *)

Tick(s) ==
    IF Stopped(s) \/ s.fuse < 0 THEN s
    ELSE IF s.fuse = 0 THEN [s EXCEPT !.dead = TRUE] ELSE [s EXCEPT !.fuse = @ - 1]

\* recovery_checkpoint: what belongs to a setup is dropped once the reducer
\* has none; routed keys and a deferred reconciliation are never kept.
Checkpoint(m, a) ==
    LET kept == [a EXCEPT !.routed = {}, !.deferred = FALSE, !.active = m.setup.id,
                          !.restored = @ \cup a.scheduled, !.scheduled = {},
                          !.groups = EmptyAdapter.groups]
    IN  IF HasSetup(m) THEN kept
        ELSE [kept EXCEPT !.exposure = NoFun, !.lives = NoFun, !.restored = {},
                          !.reason = None, !.awaiting = FALSE]

Persist(s) ==
    LET t == Tick(s)
    IN  IF Stopped(t) THEN t ELSE [t EXCEPT !.disk = [m |-> t.m, a |-> Checkpoint(t.m, t.a)]]

\* submit_order.  The venue knows one order per client order ID.
Submit(s, id, qty) ==
    LET t == Tick(s)
    IN  IF Stopped(t) \/ id \in DOMAIN t.v.orders THEN t
        ELSE [t EXCEPT !.v.orders = Put(t.v.orders, id, SentOrder(qty))]

SubmitBound(s, id, qty) ==
    IF id \in s.a.submitted THEN s
    ELSE Submit(Persist([s EXCEPT !.a.bound = Put(s.a.bound, id, qty),
                                  !.a.submitted = @ \cup {id},
                                  !.a.restored = @ \ {Logical(id)}]), id, qty)

\* Market orders and structural add-on stops keep the intent's quantity.
SubmitPlain(s, o) == SubmitBound(s, o, s.m.orders[o].req)

\* Mutant: the cancel is recorded, but not sent.
CancelActualUnsent(s, id) == IF ~IsOpen(s.v, id) THEN s ELSE Persist(s)

CancelActual(s, id) ==
    LET t == Tick(Persist(s))
    IN  IF ~IsOpen(s.v, id) THEN s
        ELSE IF Stopped(t) THEN t ELSE [t EXCEPT !.v.orders[id].cancel = TRUE]

CancelActuals(s, ids) == FoldSet(LAMBDA id, t : CancelActual(t, id), s, ids)
CancelAllOpen(s) == CancelActuals(s, OpenIds(s.v))

CancelLogical(s, o) ==
    LET dropped == [s EXCEPT !.a.scheduled = @ \ {o}, !.a.restored = @ \ {o}]
    IN  CancelActuals(IF o \in s.a.scheduled THEN Persist(dropped) ELSE s,
                      {id \in DOMAIN s.a.bound : Logical(id) = o})

----------------------------------------------------------------------------
(* Coverage groups.                                                        *)

NewGroup(ref) ==
    [ref |-> ref, helpers |-> {}, sub |-> FALSE, acc |-> FALSE, term |-> FALSE, cum |-> 0]

Helpers(a, o) == {<<o, x>> : x \in a.lives[o].helpers}
Exposed(a) == {x \in DOMAIN a.exposure : a.exposure[x].left > 0}

\* The helpers the current groups still lack.
Uncovered(a) ==
    {p \in CoverageRoles \X Exposed(a) :
        /\ a.groups[p[1]] # NoOrder
        /\ p[2] \notin a.lives[a.groups[p[1]]].helpers}

InstallHelper(s, role, x) ==
    LET o == s.a.groups[role]
    IN  SubmitBound([s EXCEPT !.a.lives[o].helpers = @ \cup {x}], <<o, x>>, s.a.exposure[x].left)

EnsureCoverage(s) ==
    FoldSet(LAMBDA p, t : InstallHelper(t, p[1], p[2]), s, Uncovered(s.a))

CancelGroup(s, role) ==
    LET o == s.a.groups[role]
    IN  IF o = NoOrder THEN s
        ELSE CancelActuals([s EXCEPT !.a.groups[role] = NoOrder], Helpers(s.a, o))

SetGroup(s, o) ==
    [s EXCEPT !.a.groups[RoleOf(o)] = o,
              !.a.lives = Put(s.a.lives, o, NewGroup(s.m.orders[o].req))]

InstallGroup(s, o) ==
    EnsureCoverage(IF s.a.groups[RoleOf(o)] = o THEN s ELSE SetGroup(CancelGroup(s, RoleOf(o)), o))

CancelHelpersFor(s, x) ==
    LET groups == {o \in {s.a.groups[r] : r \in CoverageRoles} \ {NoOrder} :
                        x \in s.a.lives[o].helpers}
        without(g) == [g EXCEPT !.helpers = @ \ {x}]
        lives == [o \in groups |-> without(s.a.lives[o])] @@ s.a.lives
    IN  CancelActuals([s EXCEPT !.a.lives = lives],
                      {<<o, x>> : o \in groups})

CancelAddonStops(s) ==
    CancelActuals(s, {id \in DOMAIN s.a.bound : RoleOf(Logical(id)) = "ADDON_STOP"})

----------------------------------------------------------------------------
(* Exposure: an exit consumes add-on executions first, the preferred one   *)
(* before the rest, each kind in execution order.                          *)

Precedes(a, preferred, y, x) ==
    LET rank(z) == IF z = preferred THEN 0
                   ELSE IF a.exposure[z].role = "ADDON_ENTRY" THEN 1 ELSE 2
    IN  rank(y) < rank(x) \/ (rank(y) = rank(x) /\ y < x)

LeftOf(a, xs) == MapThenSumSet(LAMBDA x : a.exposure[x].left, xs)

\* Mutant: base executions are consumed first.
ConsumeBaseFirst(s, q, roles, preferred) ==
    LET pool == {x \in Exposed(s.a) : s.a.exposure[x].role \in roles}
        ahead(x) == LeftOf(s.a, {y \in pool : Precedes(s.a, preferred, x, y)})
        taken(x) == Min2(s.a.exposure[x].left, IF q > ahead(x) THEN q - ahead(x) ELSE 0)
        consumed(x, e) == [e EXCEPT !.left = e.left - taken(x)]
    IN  IF q > LeftOf(s.a, pool) THEN Raise(s)
        ELSE [s EXCEPT !.a.exposure =
                    [x \in pool |-> consumed(x, s.a.exposure[x])] @@ s.a.exposure]

Consume(s, q, roles, preferred) ==
    LET pool == {x \in Exposed(s.a) : s.a.exposure[x].role \in roles}
        ahead(x) == LeftOf(s.a, {y \in pool : Precedes(s.a, preferred, y, x)})
        taken(x) == Min2(s.a.exposure[x].left, IF q > ahead(x) THEN q - ahead(x) ELSE 0)
        consumed(x, e) == [e EXCEPT !.left = e.left - taken(x)]
        foreign == preferred # 0 /\ (preferred \notin DOMAIN s.a.exposure
                                     \/ s.a.exposure[preferred].role # "ADDON_ENTRY")
    IN  IF foreign \/ q > LeftOf(s.a, pool) THEN Raise(s)
        ELSE [s EXCEPT !.a.exposure =
                    [x \in pool |-> consumed(x, s.a.exposure[x])] @@ s.a.exposure]

----------------------------------------------------------------------------
(* From intents to orders.  An intent is routed once per process.          *)

\* A new setup is routed only after the previous one was let go of.
Claim(s, setup) ==
    IF setup = 0 THEN s
    ELSE IF s.a.active \notin {0, setup} THEN Raise(s) ELSE [s EXCEPT !.a.active = setup]

CloseReasonOf(o) == o[3][2]
Scheduled(o) ==
    \/ RoleOf(o) \in EntryRoles
    \/ RoleOf(o) = "CLOSE_ALL" /\ CloseReasonOf(o) \in {"TP", "MANUAL"}

Schedule(s, o) == Persist([s EXCEPT !.a.scheduled = @ \cup {o}, !.a.restored = @ \ {o}])

\* A later version of a protective order is a ReplaceOrder: the previous one
\* is canceled, then the next is submitted.
InstallVersion(s, o) ==
    InstallGroup(IF o[3] = 1 THEN s ELSE CancelLogical(s, <<o[1], o[2], o[3] - 1>>), o)

Claimed(s, intent, setup) == Claim([s EXCEPT !.a.routed = @ \cup {intent}], setup)

Send(s, o) ==
    IF Stopped(s) THEN s
    ELSE IF Scheduled(o) THEN Schedule(s, o)
    ELSE IF RoleOf(o) \in CoverageRoles THEN InstallVersion(s, o)
    ELSE SubmitPlain(s, o)

RouteSubmit(s, o) ==
    IF o \in s.a.routed THEN s ELSE Send(Claimed(s, o, SetupOf(o)), o)

Withdraw(s, o) == IF Stopped(s) THEN s ELSE CancelLogical(s, o)
RouteCancel(s, c) ==
    IF c \in s.a.routed THEN s ELSE Withdraw(Claimed(s, c, SetupOf(c[1])), c[1])

\* The handlers emit withdrawals before what replaces them.
RouteOrders(s, out) ==
    FoldSet(LAMBDA o, t : RouteSubmit(t, o),
            FoldSet(LAMBDA c, t : RouteCancel(t, c), s, out.cancels), out.subs)

----------------------------------------------------------------------------
(* _apply_domain_event up to its routing: the reducer's transition, its    *)
(* rollback and fail-safe, and the persisted pair.                         *)

Kept(s, m) ==
    IF Consistent(Store(m)) THEN [s |-> Persist([s EXCEPT !.m = Store(m)]), out |-> m.out]
    ELSE [s |-> Raise(s), out |-> NoIntents]

Reduced(s, refused, post, rescue) ==
    IF Stopped(s) THEN [s |-> s, out |-> NoIntents]
    ELSE IF ~refused /\ Consistent(Store(post)) THEN Kept(s, post)
    ELSE Kept(s, [rescue EXCEPT !.tripped = TRUE])

Fresh(s) == [s.m EXCEPT !.tripped = FALSE]

\* What the cache shows of a logical order, as a reconciliation reports it.
ShownDone(s, o) ==
    MapThenSumSet(LAMBDA id : s.v.orders[id].done, {id \in OpenIds(s.v) : Logical(id) = o})

ShownConflict(s, o) ==
    IF o \in DOMAIN s.a.lives
    THEN LET g == s.a.lives[o]
         IN  g.cum # s.m.orders[o].fill \/ g.cum > s.m.orders[o].req
    ELSE ShownDone(s, o) # s.m.orders[o].fill

ReconciliationEvent(s) ==
    LET open == {Logical(id) : id \in OpenIds(s.v)}
    IN  [actual |-> s.v.pos, open |-> open, rich |-> open # {},
         conflict |-> \E o \in open : ShownConflict(s, o),
         \* as_of_sequence: grows whenever a close it names may be registered
         seq |-> Cardinality({o \in DOMAIN s.m.orders : RoleOf(o) = "CLOSE_ALL"}),
         scope |-> s.a.active = s.m.setup.id]

\* _prepare_absent_recovery_attempts: what should be open and is not may be
\* submitted again.
PrepareAbsent(s) ==
    LET open == OpenIds(s.v)
        canceling == {c[1] : c \in s.m.outbox.cancels}
        plain == s.m.outbox.subs \ open
        gone(o) == {x \in s.a.lives[o].helpers :
                        <<o, x>> \notin open /\ x \in Exposed(s.a)}
        current == {s.a.groups[r] : r \in CoverageRoles} \ ({NoOrder} \cup canceling)
        without(g, xs) == [g EXCEPT !.helpers = g.helpers \ xs]
    IN  [s EXCEPT
            !.a.submitted = @ \ (plain \cup UNION {{<<o, x>> : x \in gone(o)} : o \in current}),
            !.a.lives = [o \in current |-> without(s.a.lives[o], gone(o))] @@ s.a.lives]

ApplyReconciliation(s, e) ==
    Apply(s, ReconciliationRefused(Fresh(s), e), OnReconciliation(Fresh(s), e),
          FailSafeReconciliation(Fresh(s), e))

\* What was submitted or withdrawn before and is not so at the venue is again.
Replayed(s, cancels) ==
    IF Stopped(s) THEN s
    ELSE FoldSet(LAMBDA o, t : CancelLogical(t, o), EnsureCoverage(s), cancels)

\* While it runs, a request for another reconciliation is deferred.
ReconcileOnce(s) ==
    LET e == ReconciliationEvent(s)
        busy == [PrepareAbsent(s) EXCEPT !.a.submitted = @ \cup OpenIds(s.v), !.a.busy = TRUE]
        replays == {c[1] : c \in s.m.outbox.cancels} \cap e.open
    IN  IF Stopped(s) THEN s
        ELSE IF ~OpenIds(s.v) \subseteq DOMAIN s.a.bound THEN Raise(s)
        ELSE [Replayed(ApplyReconciliation(busy, e), replays) EXCEPT !.a.busy = FALSE]

\* _reconcile: one follow-up for what was deferred meanwhile.
FollowUp(s) == IF s.a.deferred THEN ReconcileOnce([s EXCEPT !.a.deferred = FALSE]) ELSE s
Reconcile(s) == FollowUp(ReconcileOnce(s))

DrainDeferred(s) ==
    IF s.a.deferred THEN Reconcile([s EXCEPT !.a.deferred = FALSE]) ELSE s

\* _apply_domain_event: a request for reconciliation is emitted before the
\* withdrawals and orders that answer the same event.
Asked(s, ask) ==
    IF ~ask THEN s
    ELSE IF s.a.busy THEN [s EXCEPT !.a.deferred = TRUE] ELSE Reconcile(s)

Routed(r) == RouteOrders(Asked(r.s, r.out.ask), r.out)
Apply(s, refused, post, rescue) == Routed(Reduced(s, refused, post, rescue))

----------------------------------------------------------------------------
(* Flat finalization.                                                      *)

ResetSetup(s) ==
    Persist([s EXCEPT !.a.exposure = NoFun, !.a.groups = EmptyAdapter.groups, !.a.lives = NoFun,
                      !.a.reason = None, !.a.active = 0])

\* Mutant: lets go of the setup as soon as the position is closed.
TryFinalizeAtOnce(s) ==
    IF Stopped(s) \/ ~s.a.awaiting THEN s ELSE ResetSetup([s EXCEPT !.a.awaiting = FALSE])

\* Mutant: waits for the reducer, which waits for the reconciliation.
TryFinalizeWaiting(s) ==
    IF Stopped(s) \/ ~s.a.awaiting \/ s.v.pos # 0 \/ OpenIds(s.v) # {} THEN s
    ELSE IF s.m.owed # {} \/ HasSetup(s.m) THEN Persist(s)
    ELSE ResetSetup([s EXCEPT !.a.awaiting = FALSE])

LetGo(s) ==
    IF Stopped(s) THEN s
    ELSE IF HasSetup(s.m) THEN Persist(s) ELSE ResetSetup([s EXCEPT !.a.awaiting = FALSE])

\* _try_finalize_flat_reconciliation
TryFinalize(s) ==
    IF Stopped(s) \/ ~s.a.awaiting \/ s.v.pos # 0 \/ OpenIds(s.v) # {} THEN s
    ELSE IF s.m.owed # {} THEN Persist(s) ELSE LetGo(Reconcile(s))
============================================================================
