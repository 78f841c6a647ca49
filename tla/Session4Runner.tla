-------------------------- MODULE Session4Runner --------------------------
(***************************************************************************)
(* engine/mr_session4_runner.py: a parent process runs the frozen matrix   *)
(* of one experiment in one spawned worker per symbol.  An attempt is      *)
(* recorded before it starts; its artifact is staged, sealed by a          *)
(* completion marker, renamed into place and reported.  Any process may be *)
(* killed at any point, and the operator starts the suite again on the     *)
(* same directory.                                                         *)
(*                                                                         *)
(*   world     what the manifest freezes: each part is at version 0 or 1   *)
(*   marker    the core the preregistration names (None: PENDING)          *)
(*   manifest  the operator's frozen manifest                              *)
(*   disk      the suite's output directory                                *)
(*   parent    the process that runs the suite, and its progress in memory *)
(*   workers   the live workers, by launch and symbol                      *)
(*   queue     their messages to the parent                                *)
(*   ran       auxiliary: the attempts executed, by run                    *)
(* Files are written by rename, so they are whole or absent.  What an      *)
(* artifact contains, timestamps and elapsed times are left out.           *)
(***************************************************************************)
EXTENDS Naturals, Sequences, FiniteSets, FiniteSetsExt

CONSTANTS
    Runs,         \* the matrix, 1 .. n
    SymbolOf,     \* Runs -> Symbols
    Workers,      \* workers at once
    Selections,   \* the selections of runs an operator launches
    Orphans,      \* TRUE: workers survive the death of the parent
    MaxFaults,    \* bound on errors, kills, drifts and damage
    MaxLaunches   \* bound on launches

VARIABLES world, marker, manifest, disk, parent, workers, queue, ran, faults, launches

vars == <<world, marker, manifest, disk, parent, workers, queue, ran, faults, launches>>

None == <<>>
Foreign == 0
MaxAttempts == 2
Symbols == {SymbolOf[r] : r \in Runs}
Parts == {"data", "runtime", "source"}

ASSUME RunnerAssumption ==
    /\ IsFiniteSet(Runs) /\ Runs \subseteq Nat \ {Foreign}
    /\ SymbolOf \in [Runs -> Nat]
    /\ Workers \in 1 .. Cardinality(Symbols)
    /\ Selections \subseteq SUBSET Runs
    /\ Orphans \in BOOLEAN
    /\ MaxFaults \in Nat /\ MaxLaunches \in Nat

\* A staging directory is named by its run, its attempt and who made it.
Name(r, a, w) == [run |-> r, attempt |-> a, by |-> w]

\* f with v at x.
Extended(f, x, v) == [y \in DOMAIN f \cup {x} |-> IF y = x THEN v ELSE f[y]]

Row(status, attempts) == [status |-> status, attempts |-> attempts]

\* final[r]: the published artifact with the manifest it claims and the
\* inputs its worker really loaded.
Artifact(n, m, inputs) == [attempt |-> n.attempt, manifest |-> m, inputs |-> inputs, state |-> "intact"]

EmptyDisk ==
    [manifest |-> None, started |-> [r \in Runs |-> {}], failed |-> [r \in Runs |-> {}],
     staged |-> {}, sealed |-> <<>>, quarantine |-> {}, final |-> [r \in Runs |-> None],
     progress |-> None, index |-> None, complete |-> FALSE]

Idle ==
    [phase |-> "idle", sel |-> {}, todo |-> {}, valid |-> {}, progress |-> None,
     waiting |-> {}, active |-> {}]

Init ==
    /\ world = [p \in Parts |-> 0] /\ marker = None /\ manifest = None
    /\ disk = EmptyDisk /\ parent = Idle /\ workers = <<>> /\ queue = <<>>
    /\ ran = [r \in Runs |-> {}] /\ faults = 0 /\ launches = 0

----------------------------------------------------------------------------
(* What the disk shows.                                                    *)

Exists(r) == disk.final[r] # None /\ disk.final[r].state # "gone"

\* verify_completed_run: an artifact is accepted only unchanged and for the
\* manifest of the suite.
Verified(r) == Exists(r) /\ disk.final[r].state = "intact" /\ disk.final[r].manifest = manifest

Fatal(r) == \E f \in disk.failed[r] : ~f.retryable

\* _observed_attempt_count: markers, staged, quarantined and published.
Observed(r) ==
    LET seen == disk.started[r] \cup {f.attempt : f \in disk.failed[r]}
                \cup {n.attempt : n \in {m \in disk.staged \cup disk.quarantine : m.run = r}}
                \cup (IF Exists(r) THEN {disk.final[r].attempt} ELSE {})
    IN  CHOOSE a \in seen \cup {0} : \A b \in seen : b <= a

Quarantined(d, n) == [d EXCEPT !.staged = @ \ {n}, !.quarantine = @ \cup {n}]

\* A rename fails when its source is gone or its target there.
CanRename(n) == n \in disk.staged /\ ~Exists(n.run)
Renamed(d, n, m) ==
    [d EXCEPT !.staged = @ \ {n}, !.final[n.run] = Artifact(n, m, d.sealed[n])]

----------------------------------------------------------------------------
(* Freezing the experiment: lock-core prints the hash of the core, the     *)
(* preregistration names it, prepare freezes the manifest.                 *)

LockCore ==
    /\ parent.phase = "idle"
    /\ marker' = world
    /\ UNCHANGED <<world, manifest, disk, parent, workers, queue, ran, faults, launches>>

Prepare ==
    /\ parent.phase = "idle" /\ marker = world
    /\ manifest' = world
    /\ UNCHANGED <<world, marker, disk, parent, workers, queue, ran, faults, launches>>

\* verify_experiment_manifest
ManifestHolds == manifest # None /\ marker = manifest /\ \A p \in Parts : world[p] = manifest[p]

Drift(p) ==
    /\ manifest # None /\ faults < MaxFaults /\ faults' = faults + 1
    /\ world' = [world EXCEPT ![p] = 1 - @]
    /\ UNCHANGED <<marker, manifest, disk, parent, workers, queue, ran, launches>>

----------------------------------------------------------------------------
(* run_suite up to its loop.                                               *)

Stop == parent' = Idle /\ queue' = <<>>

Launch(sel) ==
    /\ parent.phase = "idle" /\ launches < MaxLaunches
    /\ ManifestHolds
    /\ disk.manifest \in {None, manifest}
    /\ parent' = [Idle EXCEPT !.phase = "sweep", !.sel = sel, !.todo = disk.staged]
    /\ disk' = [disk EXCEPT !.manifest = manifest]
    /\ launches' = launches + 1
    /\ UNCHANGED <<world, marker, manifest, workers, queue, ran, faults>>

\* _reconcile_staged_runs: unsealed staging is moved to quarantine; a name
\* that is not of the matrix stops the launch besides.
Sweep(n) ==
    /\ parent.phase = "sweep" /\ n \in parent.todo
    /\ IF n \notin disk.staged THEN Stop /\ UNCHANGED disk
       ELSE IF n.run = Foreign THEN Stop /\ disk' = Quarantined(disk, n)
       ELSE IF n \in DOMAIN disk.sealed
            THEN /\ parent' = [parent EXCEPT !.todo = @ \ {n}, !.valid = @ \cup {n}]
                 /\ UNCHANGED <<disk, queue>>
            ELSE /\ parent' = [parent EXCEPT !.todo = @ \ {n}]
                 /\ disk' = Quarantined(disk, n)
                 /\ UNCHANGED queue
    /\ UNCHANGED <<world, marker, manifest, workers, ran, faults, launches>>

\* Two sealed candidates of a run, or one beside its artifact, stop the launch.
Compare ==
    /\ parent.phase = "sweep" /\ parent.todo = {}
    /\ IF \/ \E n, m \in parent.valid : n # m /\ n.run = m.run
          \/ \E n \in parent.valid : Exists(n.run)
       THEN Stop
       ELSE parent' = [parent EXCEPT !.phase = "promote"] /\ UNCHANGED queue
    /\ UNCHANGED <<world, marker, manifest, disk, workers, ran, faults, launches>>

Promote(n) ==
    /\ parent.phase = "promote" /\ n \in parent.valid
    /\ IF CanRename(n)
       THEN /\ disk' = Renamed(disk, n, manifest)
            /\ parent' = [parent EXCEPT !.valid = @ \ {n}]
            /\ UNCHANGED queue
       ELSE Stop /\ UNCHANGED disk
    /\ UNCHANGED <<world, marker, manifest, workers, ran, faults, launches>>

\* Mutant: what was recorded is not looked at again.
CorruptIfThere == \E r \in Runs : Exists(r) /\ ~Verified(r)

\* _verify_previous_completed_progress and _verified_runs: what was recorded
\* complete must still be there, and everything that is there must verify.
Corrupt ==
    \/ disk.progress # None /\ \E r \in Runs : disk.progress[r].status = "COMPLETE" /\ ~Verified(r)
    \/ \E r \in Runs : Exists(r) /\ ~Verified(r)

Pending == {r \in parent.sel : ~Verified(r)}

\* _new_progress and _mark_verified_progress_complete.
NewProgress ==
    LET prior(r) == IF disk.progress = None THEN 0 ELSE disk.progress[r].attempts
        most(r) == IF prior(r) > Observed(r) THEN prior(r) ELSE Observed(r)
    IN  [r \in Runs |-> IF Verified(r) THEN Row("COMPLETE", Observed(r)) ELSE Row("PENDING", most(r))]

Plan ==
    /\ parent.phase = "promote" /\ parent.valid = {}
    /\ IF Corrupt \/ \E r \in Pending : Fatal(r)
       THEN Stop /\ UNCHANGED disk
       ELSE /\ disk' = [disk EXCEPT !.progress = NewProgress]
            /\ IF Pending = {} \/ \E r \in Pending : NewProgress[r].attempts >= MaxAttempts
               THEN Stop
               ELSE /\ parent' = [parent EXCEPT
                            !.phase = "loop", !.progress = NewProgress,
                            !.waiting = {SymbolOf[r] : r \in Pending}]
                    /\ UNCHANGED queue
    /\ UNCHANGED <<world, marker, manifest, workers, ran, faults, launches>>

----------------------------------------------------------------------------
(* The loop of the parent.                                                 *)

\* work: the runs that are left, in their order, with the attempt each is at.
Worker(work) == [pc |-> "boot", work |-> work, inputs |-> None, manifest |-> manifest]

Spawn ==
    /\ parent.phase = "loop" /\ parent.waiting # {}
    /\ Cardinality(parent.active) < Workers
    /\ LET s == Min(parent.waiting)
           w == <<launches, s>>
           planned == {r \in Runs : SymbolOf[r] = s /\ r \in parent.sel
                                    /\ parent.progress[r].status = "PENDING"}
       IN  /\ workers' = Extended(workers, w, Worker([r \in planned |-> parent.progress[r].attempts + 1]))
           /\ parent' = [parent EXCEPT !.waiting = @ \ {s}, !.active = @ \cup {w}]
    /\ UNCHANGED <<world, marker, manifest, disk, queue, ran, faults, launches>>

\* _apply_worker_message
StatusOf == [STARTED |-> "RUNNING", COMPLETE |-> "COMPLETE",
             FAILED_RETRYABLE |-> "RETRY_PENDING", FAILED_FATAL |-> "FAILED_FATAL"]
Applied(progress, m) ==
    IF m.kind = "WORKER_FATAL" THEN progress
    ELSE [progress EXCEPT ![m.run] = Row(StatusOf[m.kind], m.attempt)]

Ended(w) == workers[w].pc \in {"exited", "killed"}
Alive(w) == w \in DOMAIN workers /\ ~Ended(w)

\* Mutant: a worker that dies is not noticed.
RoundBlind(heard) ==
    /\ parent.phase = "loop" /\ heard /\ queue # <<>>
    /\ LET m == Head(queue)
           done == {w \in parent.active : workers[w].pc = "exited"}
       IN  /\ disk' = [disk EXCEPT !.progress = Applied(parent.progress, m)]
           /\ workers' = [w \in DOMAIN workers \ done |-> workers[w]]
           /\ parent' = [parent EXCEPT !.progress = Applied(@, m), !.active = @ \ done,
                    !.phase = IF parent.active \subseteq done /\ parent.waiting = {}
                              THEN "wrapup" ELSE "loop"]
           /\ queue' = Tail(queue)
    /\ UNCHANGED <<world, marker, manifest, ran, faults, launches>>

\* One round: at most one message, then the workers that ended are reaped;
\* a fatal message or a killed worker ends the others too.  get() may time out
\* while the sender of the next message still lives.
Round(heard) ==
    LET message == IF heard THEN Head(queue) ELSE [kind |-> ""]
        progress == IF heard THEN Applied(parent.progress, message) ELSE parent.progress
        ended == {w \in parent.active : Ended(w)}
        failed == \/ message.kind \in {"FAILED_FATAL", "WORKER_FATAL"}
                  \/ \E w \in ended : workers[w].pc = "killed"
        active == parent.active \ ended
        alive == DOMAIN workers \ (IF failed THEN parent.active ELSE ended)
    IN  /\ parent.phase = "loop" /\ parent.active # {}
        /\ parent.waiting = {} \/ Cardinality(parent.active) = Workers
        /\ IF heard THEN queue # <<>> ELSE queue # <<>> => Alive(Head(queue).by)
        /\ disk' = IF heard THEN [disk EXCEPT !.progress = progress] ELSE disk
        /\ workers' = [w \in alive |-> workers[w]]
        /\ IF failed THEN Stop
           ELSE /\ parent' = [parent EXCEPT
                        !.progress = progress, !.active = active,
                        !.phase = IF active = {} /\ parent.waiting = {} THEN "wrapup" ELSE "loop"]
                /\ queue' = IF heard THEN Tail(queue) ELSE queue
        /\ UNCHANGED <<world, marker, manifest, ran, faults, launches>>

\* The selected runs are verified once more; messages nobody read are dropped.
WrapUp ==
    /\ parent.phase = "wrapup"
    /\ disk' = IF \A r \in parent.sel : Verified(r)
               THEN [disk EXCEPT !.progress = [r \in Runs |->
                        IF r \in parent.sel THEN Row("COMPLETE", Observed(r)) ELSE parent.progress[r]]]
               ELSE disk
    /\ Stop
    /\ UNCHANGED <<world, marker, manifest, workers, ran, faults, launches>>

----------------------------------------------------------------------------
(* _symbol_worker: one step per file it leaves.                            *)

Now(w) == Min(DOMAIN workers[w].work)
Attempt(w) == workers[w].work[Now(w)]
Staging(w) == Name(Now(w), Attempt(w), w)

\* A message reaches the parent that spawned the worker, if it still runs.
Message(w, kind) == [kind |-> kind, run |-> Now(w), attempt |-> Attempt(w), by |-> w]
Sent(w, messages) == IF w \in parent.active THEN queue \o messages ELSE queue
GoTo(w, pc) == workers' = [workers EXCEPT ![w].pc = pc]

\* The worker ends by itself: its parent reaps it, an orphan just goes.
Exit(w) ==
    workers' = IF w \in parent.active THEN [workers EXCEPT ![w].pc = "exited"]
               ELSE [v \in DOMAIN workers \ {w} |-> workers[v]]

GiveUp(w, messages) ==
    /\ queue' = Sent(w, messages \o <<[kind |-> "WORKER_FATAL", by |-> w]>>)
    /\ Exit(w)

At(w, pc) == w \in DOMAIN workers /\ workers[w].pc = pc
Unmoved == UNCHANGED <<world, marker, manifest, parent, launches>>
Fault == faults < MaxFaults /\ faults' = faults + 1

\* The worker loads contracts and data; both and the runtime must be the
\* manifest's.  The sources it runs are those it imports.
Boot(w) ==
    /\ At(w, "boot")
    /\ IF \A p \in {"data", "runtime"} : world[p] = workers[w].manifest[p]
       THEN workers' = [workers EXCEPT ![w].pc = "next", ![w].inputs = world] /\ UNCHANGED queue
       ELSE GiveUp(w, <<>>)
    /\ UNCHANGED <<disk, ran, faults>> /\ Unmoved

\* _write_attempt_started refuses an attempt that is recorded already.
Start(w) ==
    /\ At(w, "next") /\ DOMAIN workers[w].work # {}
    /\ IF Attempt(w) \in disk.started[Now(w)]
       THEN GiveUp(w, <<>>) /\ UNCHANGED <<disk, ran>>
       ELSE /\ disk' = [disk EXCEPT !.started[Now(w)] = @ \cup {Attempt(w)}]
            /\ ran' = [ran EXCEPT ![Now(w)] = @ \cup {<<Attempt(w), w>>}]
            /\ queue' = Sent(w, <<Message(w, "STARTED")>>)
            /\ GoTo(w, "run")
    /\ UNCHANGED faults /\ Unmoved

Leave(w) ==
    /\ At(w, "next") /\ DOMAIN workers[w].work = {}
    /\ Exit(w)
    /\ UNCHANGED <<disk, queue, ran, faults>> /\ Unmoved

\* The run is executed and its staging directory made.
Stage(w) ==
    /\ At(w, "run")
    /\ IF Exists(Now(w))
       THEN GoTo(w, "fatal") /\ UNCHANGED disk
       ELSE disk' = [disk EXCEPT !.staged = @ \cup {Staging(w)}] /\ GoTo(w, "stage")
    /\ UNCHANGED <<queue, ran, faults>> /\ Unmoved

\* complete.json; without its directory it cannot be written.
Seal(w) ==
    /\ At(w, "stage")
    /\ IF Staging(w) \in disk.staged
       THEN /\ disk' = [disk EXCEPT !.sealed = Extended(@, Staging(w), workers[w].inputs)]
            /\ GoTo(w, "publish")
       ELSE GoTo(w, "fatal") /\ UNCHANGED disk
    /\ UNCHANGED <<queue, ran, faults>> /\ Unmoved

\* os.replace, and verify_completed_run of what it left.
Publish(w) ==
    /\ At(w, "publish")
    /\ IF CanRename(Staging(w))
       THEN disk' = Renamed(disk, Staging(w), workers[w].manifest) /\ GoTo(w, "report")
       ELSE GoTo(w, "recover") /\ UNCHANGED disk
    /\ UNCHANGED <<queue, ran, faults>> /\ Unmoved

\* OSError or TimeoutError, also in the directory sync after the rename.
Retryable(w) ==
    /\ \E pc \in {"run", "stage", "publish", "report"} : At(w, pc)
    /\ Fault /\ GoTo(w, "recover")
    /\ UNCHANGED <<disk, queue, ran>> /\ Unmoved

\* Any other exception, a failed sidecar write among them.
NotRetryable(w) ==
    /\ At(w, "run") \/ At(w, "stage")
    /\ Fault /\ GoTo(w, "fatal")
    /\ UNCHANGED <<disk, queue, ran>> /\ Unmoved

Completed(w) ==
    [workers EXCEPT ![w].pc = "next", ![w].work = [r \in DOMAIN @ \ {Now(w)} |-> @[r]]]

Report(w) ==
    /\ At(w, "report")
    /\ queue' = Sent(w, <<Message(w, "COMPLETE")>>)
    /\ workers' = Completed(w)
    /\ UNCHANGED <<disk, ran, faults>> /\ Unmoved

\* Mutant: the staged artifact is not looked for.
RecoverNothing(w) ==
    /\ At(w, "recover") /\ GoTo(w, "retry")
    /\ UNCHANGED <<disk, queue, ran, faults>> /\ Unmoved

\* _recover_staged_run: what this run staged is promoted or quarantined.
Recover(w) ==
    LET r == Now(w)
        mine == {n \in disk.staged : n.run = r}
        good == mine \cap DOMAIN disk.sealed
        swept == [disk EXCEPT !.staged = @ \ (mine \ good),
                              !.quarantine = @ \cup (mine \ good)]
        done == workers' = Completed(w) /\ queue' = Sent(w, <<Message(w, "COMPLETE")>>)
    IN  /\ At(w, "recover")
        /\ IF Exists(r) THEN done /\ UNCHANGED disk
           ELSE IF Cardinality(good) > 1 THEN GiveUp(w, <<>>) /\ disk' = swept
           ELSE IF good = {} THEN disk' = swept /\ GoTo(w, "retry") /\ UNCHANGED queue
           ELSE disk' = Renamed(swept, CHOOSE n \in good : TRUE, workers[w].manifest) /\ done
        /\ UNCHANGED <<ran, faults>> /\ Unmoved

\* The failure is recorded once, then the attempt is repeated or given up.
Failing(w, retryable) ==
    LET r == Now(w)
        again == retryable /\ Attempt(w) < MaxAttempts
        told == <<Message(w, IF retryable THEN "FAILED_RETRYABLE" ELSE "FAILED_FATAL")>>
    IN  IF \E f \in disk.failed[r] : f.attempt = Attempt(w)
        THEN GiveUp(w, <<>>) /\ UNCHANGED disk
        ELSE /\ disk' = [disk EXCEPT !.failed[r] =
                            @ \cup {[attempt |-> Attempt(w), retryable |-> retryable]}]
             /\ IF again
                THEN /\ workers' = [workers EXCEPT ![w].pc = "next", ![w].work[r] = @ + 1]
                     /\ queue' = Sent(w, told)
                ELSE IF retryable THEN GiveUp(w, told)
                ELSE Exit(w) /\ queue' = Sent(w, told)

Retry(w) ==
    /\ At(w, "retry") /\ Failing(w, TRUE)
    /\ UNCHANGED <<ran, faults>> /\ Unmoved

Abort(w) ==
    /\ At(w, "fatal") /\ Failing(w, FALSE)
    /\ UNCHANGED <<ran, faults>> /\ Unmoved

----------------------------------------------------------------------------
(* finalize: the index, then the marker of the suite.                      *)

\* verify_suite
SuiteVerified ==
    /\ manifest # None /\ marker = manifest
    /\ disk.manifest = manifest
    /\ \A r \in Runs : Verified(r)

Index == [r \in Runs |-> disk.final[r].inputs]

\* Mutant: an index that is there is trusted.
WriteIndexOnce ==
    /\ parent.phase = "idle"
    /\ disk.index # None \/ SuiteVerified
    /\ disk' = IF disk.index # None THEN disk ELSE [disk EXCEPT !.index = Index]
    /\ parent' = [Idle EXCEPT !.phase = "finalize"]
    /\ UNCHANGED <<world, marker, manifest, workers, queue, ran, faults, launches>>

WriteIndex ==
    /\ parent.phase = "idle" /\ SuiteVerified
    /\ disk.index \in {None, Index}
    /\ disk' = [disk EXCEPT !.index = Index]
    /\ parent' = [Idle EXCEPT !.phase = "finalize"]
    /\ UNCHANGED <<world, marker, manifest, workers, queue, ran, faults, launches>>

CompleteSuite ==
    /\ parent.phase = "finalize"
    /\ disk' = [disk EXCEPT !.complete = TRUE]
    /\ Stop
    /\ UNCHANGED <<world, marker, manifest, workers, ran, faults, launches>>

----------------------------------------------------------------------------
(* Kills, and damage on the disk.                                          *)

\* Without its parent a worker goes on as an orphan, or dies with it.
KillParent ==
    /\ parent.phase # "idle" /\ Fault
    /\ Stop
    /\ \/ workers' = <<>>
       \/ Orphans /\ workers' = [w \in {v \in DOMAIN workers : ~Ended(v)} |-> workers[w]]
    /\ UNCHANGED <<world, marker, manifest, disk, ran, launches>>

\* Ctrl-C in the loop: the workers are terminated, the progress is kept.
Interrupt ==
    /\ parent.phase = "loop" /\ Fault
    /\ disk' = [disk EXCEPT !.progress = parent.progress]
    /\ workers' = [w \in DOMAIN workers \ parent.active |-> workers[w]]
    /\ Stop
    /\ UNCHANGED <<world, marker, manifest, ran, launches>>

KillWorker(w) ==
    /\ w \in parent.active /\ ~Ended(w) /\ Fault
    /\ GoTo(w, "killed")
    /\ UNCHANGED <<disk, queue, ran>> /\ Unmoved

\* A published artifact is changed or, once it was recorded, removed.
Damage(r, state) ==
    /\ parent.phase = "idle" /\ Exists(r) /\ Fault
    /\ state = "gone" => disk.progress # None /\ disk.progress[r].status = "COMPLETE"
    /\ disk' = [disk EXCEPT !.final[r].state = state]
    /\ UNCHANGED <<workers, queue, ran>> /\ Unmoved

\* A directory that no run of the matrix names.
Litter ==
    /\ parent.phase = "idle" /\ Fault
    /\ disk' = [disk EXCEPT !.staged = @ \cup {Name(Foreign, 1, <<launches, 0>>)}]
    /\ UNCHANGED <<workers, queue, ran>> /\ Unmoved

WorkerStep(w) ==
    \/ Boot(w) \/ Start(w) \/ Leave(w) \/ Stage(w) \/ Seal(w) \/ Publish(w)
    \/ Report(w) \/ Recover(w) \/ Retry(w) \/ Abort(w)

ParentStep ==
    \/ \E n \in parent.todo : Sweep(n)
    \/ Compare
    \/ \E n \in parent.valid : Promote(n)
    \/ Plan
    \/ Spawn
    \/ \E heard \in BOOLEAN : Round(heard)
    \/ WrapUp
    \/ CompleteSuite

Next ==
    \/ LockCore \/ Prepare
    \/ \E p \in Parts : Drift(p)
    \/ \E sel \in Selections : Launch(sel)
    \/ ParentStep
    \/ \E w \in DOMAIN workers : WorkerStep(w)
    \/ \E w \in DOMAIN workers : Retryable(w) \/ NotRetryable(w)
    \/ WriteIndex
    \/ KillParent \/ Interrupt \/ \E w \in DOMAIN workers : KillWorker(w)
    \/ \E r \in Runs : Damage(r, "damaged") \/ Damage(r, "gone")
    \/ Litter

Spec == Init /\ [][Next]_vars

\* The scheduler runs the parent and every worker, and a parent that polls
\* reads a message that is there.
FairSpec ==
    /\ Spec
    /\ WF_vars(ParentStep)
    /\ WF_vars(Round(TRUE))
    /\ \A s \in Symbols : \A l \in 1 .. MaxLaunches : WF_vars(<<l, s>> \in DOMAIN workers /\ WorkerStep(<<l, s>>))

----------------------------------------------------------------------------
(* Properties.                                                             *)

\* However often processes were killed and started again, a run has one
\* finished artifact: staged or published, never two, never both.
OneArtifact ==
    \A r \in Runs :
        Cardinality({n \in disk.staged \cap DOMAIN disk.sealed : n.run = r})
            + (IF disk.final[r] # None THEN 1 ELSE 0) <= 1

\* A run is recorded complete only when its artifact was published.
RecordedIsPublished ==
    disk.progress # None =>
        \A r \in Runs : disk.progress[r].status = "COMPLETE" => disk.final[r] # None

\* A published artifact was computed from the data and in the runtime that the
\* manifest of its suite froze.
FrozenInputs ==
    \A r \in Runs : disk.final[r] # None =>
        /\ disk.final[r].manifest = disk.manifest
        /\ \A p \in {"data", "runtime"} : disk.final[r].inputs[p] = disk.manifest[p]

\* What the directory shows of a run is true: at most one finished artifact,
\* recorded only when it is published, and made of the frozen inputs.
ArtifactsSound == OneArtifact /\ RecordedIsPublished /\ FrozenInputs

\* The suite is marked complete only over its whole, verified matrix.
CompleteWhenWhole ==
    [][~disk.complete /\ disk'.complete =>
            \A r \in Runs : disk.final[r] # None /\ disk.final[r].state = "intact"
                            /\ disk.index[r] = disk.final[r].inputs]_vars

\* A launch ends, whoever dies.
LaunchEnds == parent.phase # "idle" ~> parent.phase = "idle"

\* The promise of the retry profile, as a ledger of attempts.
Ledger == INSTANCE RunLedger WITH
    used <- [r \in Runs |-> Cardinality(ran[r])],
    state <- [r \in Runs |-> IF disk.final[r] # None THEN "complete"
                             ELSE IF Fatal(r) THEN "forbidden" ELSE "open"]
SuiteRefinesLedger == Ledger!Spec
===========================================================================
