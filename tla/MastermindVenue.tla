------------------------- MODULE MastermindVenue -------------------------
(***************************************************************************)
(* The reducer, the adapter and a venue, composed: primary bars drive the  *)
(* strategy, the venue accepts, rejects, fills and cancels the orders it   *)
(* was sent in any order, every callback runs to its end in one step, and  *)
(* the process may die before any effect of a callback and be restarted    *)
(* from the pair on disk.                                                  *)
(***************************************************************************)
EXTENDS MastermindAdapter

CONSTANTS
    Sides,          \* directions of a base reaction
    Prompt,         \* the venue acknowledges what it was sent before it does anything else
    MaxExecs,       \* bound: executions
    MaxSetups,      \* bound: setups
    MaxAddons,      \* bound: add-on entries
    MaxVersions,    \* bound: versions of the take profit of a setup
    MaxForced,      \* bound: operator closes
    MaxRejects,     \* bound: orders the venue rejects or cancels unasked
    MaxCrashes,     \* bound: crashes
    MaxFuse         \* effects a callback may have before a crash

ASSUME BoundAssumption ==
    /\ Sides \subseteq {1, -1} /\ Prompt \in BOOLEAN
    /\ {MaxExecs, MaxSetups, MaxAddons, MaxVersions, MaxForced, MaxRejects,
        MaxCrashes, MaxFuse} \subseteq Nat

VARIABLES
    sys,        \* the system of MastermindAdapter
    up,         \* the process runs
    bars,       \* parity of the primary bars
    forced,     \* bound counter
    rejects,    \* bound counter
    crashes     \* bound counter

vars == <<sys, up, bars, forced, rejects, crashes>>

Init ==
    /\ sys = InitialSystem /\ up = TRUE /\ bars = 0
    /\ forced = 0 /\ rejects = 0 /\ crashes = 0

\* Run a callback, or as much of it as happens before the process dies.
Lasts(result(_)) ==
    \E k \in {-1} \cup (IF crashes < MaxCrashes THEN 0 .. MaxFuse ELSE {}) :
        \E r \in {result([sys EXCEPT !.fuse = k])} :
            /\ k >= 0 => r.dead
            /\ sys' = [r EXCEPT !.fuse = -1, !.dead = FALSE]
            /\ up' = ~(r.dead \/ r.raised)
            /\ crashes' = IF r.dead THEN crashes + 1 ELSE crashes

InStatus(st) == {id \in DOMAIN sys.v.orders : sys.v.orders[id].st = st}

\* A position event follows its fill at once.
Quiet == up /\ sys.v.delta = 0
Heeded == Quiet /\ (Prompt => InStatus("sent") = {})

----------------------------------------------------------------------------
(* Order callbacks.                                                        *)

AfterSubmitted(s, id) ==
    LET o == Logical(id)
        late == \/ o \in s.a.terminal
                \/ IsHelper(id) /\ (o \notin DOMAIN s.a.lives \/ s.a.lives[o].sub)
        t == IF IsHelper(id) THEN [s EXCEPT !.a.lives[o].sub = TRUE] ELSE s
    IN  IF late THEN Persist(s)
        ELSE Apply(t, FALSE, OnSubmitted(Fresh(t), o), FailSafe(Fresh(t)))

AfterAccepted(s, id) ==
    LET o == Logical(id)
        late == \/ o \in s.a.terminal
                \/ IsHelper(id) /\ (o \notin DOMAIN s.a.lives \/ s.a.lives[o].acc)
        t == IF IsHelper(id) THEN [s EXCEPT !.a.lives[o].acc = TRUE] ELSE s
    IN  IF late THEN Persist(s)
        ELSE Apply(t, FALSE, OnAccepted(Fresh(t), o), FailSafe(Fresh(t)))

Ended(s, o, kind, cum) ==
    Apply(s, cum # s.m.orders[o].fill, OnTerminal(Fresh(s), o, kind), FailSafe(Fresh(s)))

\* The reducer's answer may have let go of the group.
CancelRest(s, id) ==
    LET o == Logical(id)
    IN  CancelActuals(s, IF o \in DOMAIN s.a.lives THEN Helpers(s.a, o) \ {id} ELSE {})

\* _publish_helper_terminal: a rejection ends the group, a cancel only when no
\* helper is left open.
HelperEnded(s, id, rejected) ==
    LET o == Logical(id)
        g == s.a.lives[o]
        t == [s EXCEPT !.a.lives[o].term = TRUE, !.a.terminal = @ \cup {o}]
    IN  IF o \notin DOMAIN s.a.lives THEN Persist(s)
        ELSE IF g.term THEN Persist(s)
        ELSE IF rejected THEN CancelRest(Ended(t, o, "REJECTED", g.cum), id)
        ELSE IF Helpers(s.a, o) \cap OpenIds(s.v) # {} THEN s
        ELSE Ended(t, o, "CANCELED", g.cum)

AfterRejected(s, id) ==
    LET o == Logical(id)
        t == [s EXCEPT !.a.terminal = @ \cup {o}]
    IN  IF o \in s.a.terminal THEN Persist(s)
        ELSE IF IsHelper(id) THEN HelperEnded(t, id, TRUE)
        ELSE Ended(t, o, "REJECTED", s.v.orders[id].done)

AfterCanceled(s, id) ==
    LET o == Logical(id)
    IN  TryFinalize(IF o \in s.a.terminal THEN Persist(s)
                    ELSE IF IsHelper(id) THEN HelperEnded(s, id, FALSE)
                    ELSE Ended(s, o, "CANCELED", s.v.orders[id].done))

----------------------------------------------------------------------------
(* Fills.                                                                  *)

Expose(s, o, x, q) ==
    IF x \in DOMAIN s.a.exposure THEN s
    ELSE [s EXCEPT !.a.exposure = Put(s.a.exposure, x, [role |-> RoleOf(o), orig |-> q, left |-> q])]

\* A helper's fill counts towards its group: partial until the group has
\* filled what its helpers cover and what the reducer asked for.
GroupFill(s, id, q) ==
    LET o == Logical(id)
        g == s.a.lives[o]
        covered == MapThenSumSet(LAMBDA h : s.a.bound[h], Helpers(s.a, o))
        partial == g.cum + q < covered \/ g.cum + q < g.ref
    IN  [s |-> [s EXCEPT !.a.lives[o].cum = @ + q, !.a.lives[o].term = @ \/ ~partial],
         cum |-> g.cum + q, partial |-> partial]

PlainFill(s, id) ==
    [s |-> s, cum |-> s.v.orders[id].done, partial |-> s.v.orders[id].left > 0]

CloseReasonBy(o) ==
    CASE RoleOf(o) = "BASE_STOP" -> "BASE_SL"
      [] RoleOf(o) = "TAKE_PROFIT" -> "TP"
      [] OTHER -> CloseReasonOf(o)

\* The execution a structural add-on stop was placed for.
Protects(o) == IF RoleOf(o) = "ADDON_STOP" THEN o[3] ELSE 0

\* The exposure an exit consumes, before the reducer hears of it.
ExitConsumes(s, o, q) ==
    IF RoleOf(o) \in WholeExitRoles
    THEN [Consume(s, q, EntryRoles, 0) EXCEPT !.a.reason = CloseReasonBy(o)]
    ELSE Consume(s, q, {"ADDON_ENTRY"}, Protects(o))

\* What follows the reducer's answer to a fill.
AfterReducer(s, o, partial) ==
    IF Stopped(s) THEN s
    ELSE CASE RoleOf(o) \in EntryRoles -> EnsureCoverage(s)
           [] RoleOf(o) = "ADDON_STOP" -> IF partial THEN s ELSE CancelHelpersFor(s, o[3])
           [] RoleOf(o) = "BASE_STOP" -> CancelAddonStops(CancelGroup(s, "TAKE_PROFIT"))
           [] RoleOf(o) = "TAKE_PROFIT" -> CancelAddonStops(CancelGroup(s, "BASE_STOP"))
           [] OTHER -> s

\* q lots of id were just taken off the venue's order.
AfterFilled(s, id, q, valid, moved) ==
    LET o == Logical(id)
        x == s.m.execs + 1
        g == IF IsHelper(id) THEN GroupFill(s, id, q) ELSE PlainFill(s, id)
        t == IF RoleOf(o) \in EntryRoles THEN Expose(g.s, o, x, q) ELSE ExitConsumes(g.s, o, q)
        u == IF g.partial THEN t ELSE [t EXCEPT !.a.terminal = @ \cup {o}]
        r == Apply(u, FillRefused(Fresh(u), o, q, g.cum = u.m.orders[o].fill + q),
                   OnFill(Fresh(u), o, q, ~g.partial, valid, moved),
                   FailSafeFill(Fresh(u), o, q))
    IN  IF IsHelper(id) /\ o \notin DOMAIN s.a.lives THEN Raise(s)
        ELSE IF Stopped(t) THEN t ELSE AfterReducer(r, o, g.partial)

----------------------------------------------------------------------------
(* Position callbacks and bars.                                            *)

FlattenRest(s) ==
    IF Stopped(s) THEN s ELSE TryFinalize(CancelAllOpen([s EXCEPT !.a.awaiting = TRUE]))

AfterPositionClosed(s) ==
    LET o == Logical(s.v.closer)
        current == SetupOf(o) = s.a.active /\ s.a.active # 0
        reason == CloseReasonBy(o)
        scope == SetupOf(o) = s.m.setup.id
        told == Apply(s, PositionClosedRefused(Fresh(s), reason, 1, scope),
                      OnPositionClosed(Fresh(s), reason, 1, scope), FailSafe(Fresh(s)))
    IN  IF current THEN FlattenRest(told) ELSE told

\* A position opened by another setup is not published but reconciled.
AfterPositionChanged(s) ==
    IF SetupOf(Logical(s.v.opener)) # s.a.active THEN Reconcile(Persist(s))
    ELSE Apply(s, FALSE, OnPositionChanged(Fresh(s), s.v.pos), FailSafe(Fresh(s)))

SubmitScheduled(s) ==
    FoldSet(LAMBDA o, t : SubmitPlain(t, o), [s EXCEPT !.a.scheduled = {}], s.a.scheduled)

OperatorClose(s, close) ==
    IF ~close THEN s
    ELSE Apply(s, FALSE, OnForcedClose(Fresh(s), "MANUAL", <<"MANUAL", {}>>), FailSafe(Fresh(s)))

\* _ingest_primary_bar up to the domain bar.
MarkEquity(s) == Apply(s, FALSE, [Fresh(s) EXCEPT !.equity = TRUE], Fresh(s))
BarOpening(s, close) ==
    OperatorClose(MarkEquity(SubmitScheduled(TryFinalize(DrainDeferred(s)))), close)

DomainBar(s, react, trigger, preview, moved) ==
    Persist(Apply(s, FALSE, OnBar(Fresh(s), react, trigger, preview, moved), FailSafe(Fresh(s))))

----------------------------------------------------------------------------
(* Restart: the adapter is built from the pair on disk, then reconciles.   *)

DomainReason(m) == IF m.setup.final # None THEN m.setup.final ELSE m.setup.pend

\* The consistency checks of _merge_machine_recovery_view and
\* _bind_cached_orders_for_recovery.
RestartRefused(s) ==
    LET m == s.disk.m
        a == s.disk.a
        leftIn(role) == LeftOf(a, {x \in DOMAIN a.exposure : a.exposure[x].role = role})
    IN  \/ HasSetup(m) /\ leftIn("BASE_ENTRY") # m.base.qty
        \/ HasSetup(m) /\ leftIn("ADDON_ENTRY") # m.addon.qty
        \/ HasSetup(m) /\ a.reason \notin {None, DomainReason(m)}
        \/ ~OpenIds(s.v) \subseteq DOMAIN a.bound

\* _restore_logical_order for a base stop or take profit.
RestoredGroup(m, a, o) ==
    LET st == m.orders[o].st
        g == IF o \in DOMAIN a.lives THEN a.lives[o]
             ELSE [ref |-> m.orders[o].req, helpers |-> {}, sub |-> st # "INTENDED",
                   acc |-> st \in {"ACCEPTED", "PARTIALLY_FILLED", "FILLED"},
                   term |-> st \in TerminalStatuses, cum |-> m.orders[o].fill]
    IN  [g EXCEPT !.helpers = g.helpers \cup Exposed(a)]

\* The order the restarted adapter takes for the current one of a role: the
\* active one, else whichever group it reads last that has not ended.
CurrentChoices(m, a, role) ==
    LET active == ActiveOf(m, {role})
        open == {o \in DOMAIN a.lives : RoleOf(o) = role /\ ~a.lives[o].term}
    IN  IF active # {} THEN active ELSE IF open # {} THEN open ELSE {NoOrder}

Restored(m, a, stop, target) ==
    LET protective == {o \in DOMAIN m.orders : RoleOf(o) \in CoverageRoles}
        plain == DOMAIN m.orders \ protective
        helpers == {<<o, x>> : o \in protective, x \in Exposed(a)}
    IN  IF ~HasSetup(m) THEN a
        ELSE [a EXCEPT
            !.reason = IF DomainReason(m) # None THEN DomainReason(m) ELSE @,
            !.terminal = @ \cup {o \in DOMAIN m.orders : m.orders[o].st \in TerminalStatuses},
            !.lives = [o \in protective |-> RestoredGroup(m, a, o)] @@ a.lives,
            !.groups = [r \in CoverageRoles |-> IF r = "BASE_STOP" THEN stop ELSE target],
            !.bound = a.bound @@ [o \in plain |-> m.orders[o].req]
                        @@ [id \in helpers |-> a.exposure[id[2]].orig],
            !.submitted = @ \cup {o \in plain : m.orders[o].st # "INTENDED"}]

\* Mutant: the restarted adapter trusts what it stored.
RestartedTrusting(s, stop, target) ==
    LET a == Restored(s.disk.m, s.disk.a, stop, target)
        t == Persist([s EXCEPT !.m = s.disk.m, !.a = a, !.raised = FALSE])
    IN  IF RestartRefused(s) THEN Raise(s) ELSE t

Restarted(s, stop, target) ==
    LET a == Restored(s.disk.m, s.disk.a, stop, target)
        t == Persist([s EXCEPT !.m = s.disk.m, !.a = a, !.a.submitted = @ \cup OpenIds(s.v),
                               !.raised = FALSE])
        r == Reconcile(t)
        stale == r.m.outbox.subs \cap {Logical(id) : id \in OpenIds(s.v)}
    IN  IF RestartRefused(s) \/ stale # {} THEN Raise(s) ELSE r

----------------------------------------------------------------------------
(* Actions of the venue.                                                   *)

ReduceOnly(id) == RoleOf(Logical(id)) \notin EntryRoles
Market(id) == RoleOf(Logical(id)) \in EntryRoles \cup {"CLOSE_ALL", "REDUCE_ADDON"}
SideOf(id) == sys.m.orders[Logical(id)].side
Settled(v) == [v EXCEPT !.pos = @ + v.delta, !.delta = 0]

SetStatus(s, id, st) == [s EXCEPT !.v.orders[id].st = st]
\* A reduce-only order without a position to reduce is refused, or canceled
\* when it is open.
Hopeless(id) == ReduceOnly(id) /\ sys.v.pos = 0

Accept(id) ==
    /\ Quiet /\ ~Hopeless(id)
    /\ Lasts(LAMBDA s : AfterAccepted(SetStatus(AfterSubmitted(s, id), id, "open"), id))
    /\ UNCHANGED <<bars, forced, rejects>>

Reject(id) ==
    /\ Quiet /\ (Hopeless(id) \/ rejects < MaxRejects)
    /\ Lasts(LAMBDA s : AfterRejected(SetStatus(AfterSubmitted(s, id), id, "done"), id))
    /\ rejects' = IF Hopeless(id) THEN rejects ELSE rejects + 1
    /\ UNCHANGED <<bars, forced>>

\* A requested cancel is confirmed; unasked, an order is canceled as a fault.
Cancel(id) ==
    LET asked == sys.v.orders[id].cancel \/ Hopeless(id)
    IN  /\ Heeded /\ (asked \/ rejects < MaxRejects)
        /\ Lasts(LAMBDA s : AfterCanceled(SetStatus(s, id, "done"), id))
        /\ rejects' = IF asked THEN rejects ELSE rejects + 1
        /\ UNCHANGED <<bars, forced>>

FillSizes(id) ==
    1 .. (IF ReduceOnly(id) THEN Min2(sys.v.orders[id].left, Abs(sys.v.pos))
          ELSE sys.v.orders[id].left)

\* A reduce-only order fills against the position only.
Executed(v, id, q) ==
    [v EXCEPT !.orders[id] = [@ EXCEPT !.left = @ - q, !.done = @ + q,
                                       !.st = IF v.orders[id].left = q THEN "done" ELSE "open"],
              !.delta = q * SideOf(id),
              !.closer = id,
              !.opener = IF v.pos = 0 THEN id ELSE @]

Fill(id, q, valid, moved) ==
    /\ Heeded /\ sys.m.execs < MaxExecs
    /\ ReduceOnly(id) => sys.v.pos * SideOf(id) < 0
    /\ RoleOf(Logical(id)) # "ADDON_ENTRY" => valid
    /\ RoleOf(Logical(id)) # "BASE_ENTRY" \/ sys.m.setup.bs = 0 => ~moved
    /\ Lasts(LAMBDA s : AfterFilled([s EXCEPT !.v = Executed(s.v, id, q)], id, q, valid, moved))
    /\ UNCHANGED <<bars, forced, rejects>>

PositionEvent ==
    /\ up /\ sys.v.delta # 0
    /\ Lasts(LAMBDA s : LET t == [s EXCEPT !.v = Settled(s.v)]
                        IN  IF t.v.pos = 0 THEN AfterPositionClosed(t) ELSE AfterPositionChanged(t))
    /\ UNCHANGED <<bars, forced, rejects>>

\* Without the process the venue goes on.
FillUnheard(id, q) ==
    /\ ~up /\ ~sys.raised
    /\ sys.m.execs < MaxExecs
    /\ ReduceOnly(id) => sys.v.pos * SideOf(id) < 0
    /\ sys' = [sys EXCEPT !.v = Settled(Executed(Settled(sys.v), id, q))]
    /\ UNCHANGED <<up, bars, forced, rejects, crashes>>

AnswerUnheard(id) ==
    /\ ~up /\ ~sys.raised
    /\ sys' = SetStatus(sys, id, IF sys.v.orders[id].cancel THEN "done" ELSE "open")
    /\ sys' # sys
    /\ UNCHANGED <<up, bars, forced, rejects, crashes>>

----------------------------------------------------------------------------
(* Actions of the strategy.                                                *)

\* What the evaluator can observe once the reducer is m.
Observable(m, react, trigger, preview, moved) ==
    /\ react # 0 => FlatEligible(m) /\ m.born < MaxSetups
    /\ trigger => AddonObservable(m) /\ ~m.setup.consumed /\ m.addons < MaxAddons
    /\ preview => trigger
    /\ moved => m.setup.tp # 0 /\ m.setup.tp < MaxVersions

Bar ==
    \E react \in Sides \cup {0}, trigger, preview, moved, close \in BOOLEAN :
        /\ Heeded
        /\ close => forced < MaxForced /\ RealOpen(sys.m) > 0
        /\ forced' = IF close THEN forced + 1 ELSE forced
        /\ Observable(BarOpening(sys, close).m, react, trigger, preview, moved)
        /\ Lasts(LAMBDA s : DomainBar(BarOpening(s, close), react, trigger, preview, moved))
        /\ bars' = 1 - bars
        /\ UNCHANGED rejects

Restart ==
    /\ ~up /\ ~sys.raised
    /\ \E stop \in CurrentChoices(sys.disk.m, sys.disk.a, "BASE_STOP"),
          target \in CurrentChoices(sys.disk.m, sys.disk.a, "TAKE_PROFIT") :
          Lasts(LAMBDA s : Restarted([s EXCEPT !.v = Settled(s.v)], stop, target))
    /\ UNCHANGED <<bars, forced, rejects>>

Next ==
    \/ \E id \in InStatus("sent") : Accept(id) \/ Reject(id)
    \/ \E id \in InStatus("open") : Cancel(id)
    \/ \E id \in InStatus("open") : \E q \in FillSizes(id), valid, moved \in BOOLEAN :
            Fill(id, q, valid, moved)
    \/ PositionEvent
    \/ \E id \in InStatus("open") : \E q \in FillSizes(id) : FillUnheard(id, q)
    \/ \E id \in InStatus("sent") \cup InStatus("open") : AnswerUnheard(id)
    \/ Bar
    \/ Restart

Spec == Init /\ [][Next]_vars

\* What the venue and the engine owe: an answer to every order, the execution
\* of a market order, the confirmation of a cancel, the position event of a
\* fill, and the next bar.  Nothing obliges a stop or a target to fill.
Acknowledge == \E id \in InStatus("sent") : Accept(id) \/ Reject(id)
Execute ==
    \E id \in InStatus("open") : Market(id) /\ \E moved \in BOOLEAN, valid \in BOOLEAN :
        Fill(id, sys.v.orders[id].left, valid, moved)
Confirm == \E id \in InStatus("open") : (sys.v.orders[id].cancel \/ Hopeless(id)) /\ Cancel(id)

Acknowledgeable == Quiet /\ InStatus("sent") # {}
Executable == Heeded /\ sys.m.execs < MaxExecs /\ \E id \in InStatus("open") :
                Market(id) /\ (ReduceOnly(id) => sys.v.pos * SideOf(id) < 0)
Confirmable == Heeded /\ \E id \in InStatus("open") : sys.v.orders[id].cancel \/ Hopeless(id)

Unsettled == up /\ sys.v.delta # 0
Restartable == ~up /\ ~sys.raised

\* Weak fairness, with the enabling conditions spelled out.
FairSpec ==
    /\ Spec
    /\ []<>~Acknowledgeable \/ []<><<Acknowledge>>_vars
    /\ []<>~Executable \/ []<><<Execute>>_vars
    /\ []<>~Confirmable \/ []<><<Confirm>>_vars
    /\ []<>~Unsettled \/ []<><<PositionEvent>>_vars
    /\ []<>~Heeded \/ []<><<Bar>>_vars
    /\ []<>~Restartable \/ []<><<Restart>>_vars

----------------------------------------------------------------------------
(* Properties.                                                             *)

Working(id) ==
    id \in DOMAIN sys.v.orders /\ sys.v.orders[id].st \in {"sent", "open"} /\ ~sys.v.orders[id].cancel

\* Every lot of exposure the adapter knows of is behind a stop order of its
\* own at the venue whenever the reducer believes in its base stop.
CoveredAtVenue ==
    LET m == sys.m
        stop == sys.a.groups["BASE_STOP"]
    IN  Quiet /\ ~m.recovery /\ m.life # "EXIT_PENDING" /\ m.base.qty > 0 =>
            \A x \in Exposed(sys.a) : \E id \in DOMAIN sys.v.orders :
                /\ Working(id) /\ RoleOf(Logical(id)) = "BASE_STOP" /\ IsHelper(id) /\ id[2] = x
                /\ sys.v.orders[id].left >= sys.a.exposure[x].left

\* The adapter's executions add up to the reducer's legs.
ExposureMatchesLegs ==
    LET leftIn(role) == LeftOf(sys.a, {x \in DOMAIN sys.a.exposure : sys.a.exposure[x].role = role})
    IN  Quiet /\ ~sys.m.recovery /\ HasSetup(sys.m) =>
            leftIn("BASE_ENTRY") = sys.m.base.qty /\ leftIn("ADDON_ENTRY") = sys.m.addon.qty

\* Adapter, reducer and venue agree about exposure lot by lot, and each lot is
\* behind a stop of its own.
CoverageFits == ExposureMatchesLegs /\ CoveredAtVenue

\* The reducer's legs are the position of the venue, or the strategy is in
\* recovery and lets nothing new in.
PositionKnown ==
    Quiet => sys.m.recovery \/ sys.v.pos = ExpectedSigned(sys.m)

\* No execution is behind two working stops or two working targets, whatever
\* was replaced, restored or submitted again.
ProtectedOnce ==
    Quiet => \A id1, id2 \in DOMAIN sys.v.orders :
        /\ id1 # id2 /\ Working(id1) /\ Working(id2) /\ IsHelper(id1) /\ IsHelper(id2)
        /\ id1[2] = id2[2]
        => RoleOf(id1[1]) # RoleOf(id2[1])

\* Every order the venue has was recorded on disk before it was sent.
RecordedBeforeSent == DOMAIN sys.v.orders \subseteq DOMAIN sys.disk.a.bound

\* Wherever the process died, the restarted adapter knows every order the venue
\* may have and every lot it holds, or is in recovery.
RestartKnows == PositionKnown /\ RecordedBeforeSent

\* When the adapter lets go of a setup, the venue is flat and nothing of that
\* setup can still execute.
LetGoClean ==
    [][up /\ up' /\ sys.a.active # 0 /\ sys'.a.active = 0 =>
           sys'.v.pos = 0 /\ InStatus("open")' = {}]_vars

\* Once a position is closed, recovery ends: the orders left at the venue, the
\* reducer's own finalization and deferred reconciliations do not wait for each
\* other for ever.
LetsGo == sys.a.awaiting ~> ~sys.a.awaiting
============================================================================
