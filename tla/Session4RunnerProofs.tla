------------------------ MODULE Session4RunnerProofs ------------------------
(***************************************************************************)
(* The directory of a suite tells the truth, for every matrix, number of   *)
(* workers, selections, and any number of kills, faults and launches, if   *)
(* the workers of a launch die with their parent.  The invariant follows a *)
(* finished artifact through its life: who may have sealed it, why nobody  *)
(* else works on its run, and where a launch finds it again.               *)
(***************************************************************************)
EXTENDS Session4Runner, FiniteSetTheorems, WellFoundedInduction, TLAPS

\* A set of natural numbers that is not empty has a first one.
LEMMA HasFirst ==
    ASSUME NEW S \in SUBSET Nat, S # {}
    PROVE  \E s \in S : \A u \in S : s <= u
<1>1. PICK x \in S : \A y \in S : ~(<<y, x>> \in OpToRel(<, Nat))
  BY WFMin, NatLessThanWellFounded
<1>2. \A y \in S : x <= y
  <2> TAKE y \in S
  <2>1. y \in Nat /\ x \in Nat
    OBVIOUS
  <2>2. ~(<<y, x>> \in OpToRel(<, Nat))
    BY <1>1
  <2>3. ~(y < x)
    BY <2>1, <2>2 DEF OpToRel
  <2> QED
    BY <2>1, <2>3
<1>3. QED
  BY <1>2

\* One with a bound has a last one.
LEMMA HasLast ==
    ASSUME NEW n \in Nat, NEW S \in SUBSET (0 .. n), S # {}
    PROVE  \E s \in S : \A u \in S : u <= s
<1> DEFINE T == {n - s : s \in S}
<1>1. T \in SUBSET Nat /\ T # {}
  <2>1. \A s \in S : n - s \in Nat
    OBVIOUS
  <2>2. \E s \in S : TRUE
    OBVIOUS
  <2>3. QED
    BY <2>1, <2>2
<1>2. PICK t \in T : \A u \in T : t <= u
  BY <1>1, HasFirst
<1>3. PICK s \in S : t = n - s
  BY <1>2
<1>4. \A u \in S : u <= s
  <2> TAKE u \in S
  <2>1. n - s <= n - u
    BY <1>2, <1>3
  <2>2. s \in 0 .. n /\ u \in 0 .. n
    OBVIOUS
  <2> HIDE DEF T
  <2>3. QED
    BY <2>1, <2>2
<1>5. QED
  BY <1>4

Attempts == 1 .. MaxAttempts

\* The functions from a part of S to T.
Partial(S, T) == UNION {[P -> T] : P \in SUBSET S}

Versions == [Parts -> {0, 1}] \cup {None}
WorkerIds == Nat \X Nat
Names == [run : Runs \cup {Foreign}, attempt : Attempts, by : WorkerIds]
Artifacts ==
    [attempt : Attempts, manifest : Versions, inputs : Versions,
     state : {"intact", "damaged", "gone"}]
Failures == [attempt : Attempts, retryable : BOOLEAN]
ProgressStatuses == {"PENDING", "RUNNING", "COMPLETE", "RETRY_PENDING", "FAILED_FATAL"}
Progress == [Runs -> [status : ProgressStatuses, attempts : 0 .. MaxAttempts]]
Messages ==
    [kind : DOMAIN StatusOf, run : Runs, attempt : Attempts, by : WorkerIds]
    \cup [kind : {"WORKER_FATAL"}, by : WorkerIds]
Works == Partial(Runs, Attempts)
Phases == {"idle", "sweep", "promote", "loop", "wrapup", "finalize"}
Steps == {"boot", "next", "run", "stage", "publish", "report", "recover", "retry", "fatal",
          "exited", "killed"}

Disks ==
    [manifest : Versions, started : [Runs -> SUBSET Attempts], failed : [Runs -> SUBSET Failures],
     staged : SUBSET Names, sealed : Partial(Names, Versions),
     quarantine : SUBSET Names, final : [Runs -> Artifacts \cup {None}],
     progress : Progress \cup {None}, index : [Runs -> Versions] \cup {None}, complete : BOOLEAN]

\* The same set with its sets of functions named, for updates of one part.
Starts == [Runs -> SUBSET Attempts]
Fails == [Runs -> SUBSET Failures]
Finals == [Runs -> Artifacts \cup {None}]
Sealings == Partial(Names, Versions)
Progresses == Progress \cup {None}
Indexes == [Runs -> Versions] \cup {None}

PlainDisks ==
    [manifest : Versions, started : Starts, failed : Fails, staged : SUBSET Names,
     sealed : Sealings, quarantine : SUBSET Names, final : Finals,
     progress : Progresses, index : Indexes, complete : BOOLEAN]

\* The two are one set.
LEMMA DisksPlain == Disks = PlainDisks
BY DEF Disks, PlainDisks, Starts, Fails, Finals, Sealings, Progresses, Indexes

\* What a publication writes.
LEMMA DiskPublishes ==
    ASSUME NEW d \in Disks, NEW N, N \subseteq Names, NEW F \in Finals,
           NEW e, e = [d EXCEPT !.staged = N, !.final = F]
    PROVE  e \in Disks
<1>1. d \in PlainDisks
  BY DisksPlain
<1>2. e \in PlainDisks
  BY <1>1 DEF PlainDisks
<1> QED
  BY <1>2, DisksPlain

\* What the start of an attempt writes.
LEMMA DiskStarts ==
    ASSUME NEW d \in Disks, NEW S \in Starts
    PROVE  [d EXCEPT !.started = S] \in Disks
<1>1. d \in PlainDisks
  BY DisksPlain
<1>2. [d EXCEPT !.started = S] \in PlainDisks
  BY <1>1 DEF PlainDisks
<1> QED
  BY <1>2, DisksPlain

Parents ==
    [phase : Phases, sel : SUBSET Runs, todo : SUBSET Names, valid : SUBSET Names,
     progress : Progress \cup {None}, waiting : SUBSET Symbols, active : SUBSET WorkerIds]

\* Every live process is a worker of the parent, which has some in its loop only.
TypeInv ==
    /\ world \in [Parts -> {0, 1}] /\ marker \in Versions /\ manifest \in Versions
    /\ disk \in Disks
    /\ parent \in Parents
    /\ workers \in [parent.active -> [pc : Steps, work : Works, inputs : Versions, manifest : Versions]]
    /\ queue \in Seq(Messages)
    /\ launches \in Nat
    /\ parent.phase # "loop" => parent.active = {}

\* Sealed, and not yet renamed into place.
Finished == disk.staged \cap DOMAIN disk.sealed

\* A seal belongs to an attempt that was recorded; what is finished is the
\* only finished artifact of its run.
OneInv ==
    /\ \A n \in DOMAIN disk.sealed : n.run \in Runs /\ n.attempt \in disk.started[n.run]
    /\ \A n \in Finished : disk.final[n.run] = None
    /\ \A n, m \in Finished : n.run = m.run => n = m

AsFrozen(inputs) == \A p \in {"data", "runtime"} : inputs[p] = disk.manifest[p]

\* Once a directory has its manifest it keeps it, and so do its workers.
FrozenInv ==
    /\ disk.manifest = None =>
            /\ parent.phase = "idle" /\ DOMAIN disk.sealed = {}
            /\ \A r \in Runs : disk.final[r] = None
    /\ parent.phase \in {"sweep", "promote", "loop", "wrapup"} => manifest = disk.manifest
    /\ \A n \in DOMAIN disk.sealed : AsFrozen(disk.sealed[n])
    /\ \A r \in Runs : disk.final[r] # None =>
            disk.final[r].manifest = disk.manifest /\ AsFrozen(disk.final[r].inputs)
    /\ \A w \in parent.active :
            /\ workers[w].manifest = disk.manifest
            /\ workers[w].pc \notin {"boot", "exited", "killed"} => AsFrozen(workers[w].inputs)

\* Complete is said of what was published: in the progress on disk, in the
\* parent's memory and in the messages on their way; and what was removed from
\* the disk is recorded, which stops the next launch.
RecordInv ==
    /\ disk.progress # None =>
            \A r \in Runs : disk.progress[r].status = "COMPLETE" => disk.final[r] # None
    /\ parent.phase \in {"loop", "wrapup"} =>
            /\ parent.progress \in Progress
            /\ \A r \in Runs : parent.progress[r].status = "COMPLETE" => disk.final[r] # None
    /\ \A i \in 1 .. Len(queue) : queue[i].kind = "COMPLETE" => disk.final[queue[i].run] # None
    /\ \A r \in Runs : disk.final[r] # None /\ disk.final[r].state = "gone" =>
            /\ parent.phase \notin {"loop", "wrapup"}
            /\ disk.progress # None /\ disk.progress[r].status = "COMPLETE"

\* A finished artifact is in the hands of the worker of its symbol.
Held(n) ==
    LET w == <<launches, SymbolOf[n.run]>>
    IN  /\ w \in parent.active /\ workers[w].pc \in {"publish", "recover", "killed"}
        /\ workers[w].pc # "killed" => n.run = Now(w)

\* Where a launch finds what is finished, and who works on it in the loop.
StageInv ==
    /\ parent.phase = "sweep" => Finished \subseteq parent.todo \cup parent.valid
    /\ parent.phase = "promote" => Finished \subseteq parent.valid
    /\ parent.valid \subseteq DOMAIN disk.sealed
    /\ parent.phase = "loop" => \A n \in Finished : Held(n)
    /\ parent.phase = "wrapup" => Finished = {}

\* What a worker has left is unpublished, and is its own.
Working(w) ==
    /\ w = <<launches, w[2]>> /\ w[2] \notin parent.waiting
    /\ \A r \in DOMAIN workers[w].work : SymbolOf[r] = w[2]
    /\ workers[w].pc \notin {"boot", "next", "exited", "killed"} => DOMAIN workers[w].work # {}
    /\ workers[w].pc \in {"boot", "next", "run", "stage", "retry"} =>
            \A r \in DOMAIN workers[w].work : disk.final[r] = None
    /\ workers[w].pc \in {"publish", "report", "recover"} =>
            \A r \in DOMAIN workers[w].work \ {Now(w)} : disk.final[r] = None
    /\ workers[w].pc = "report" => disk.final[Now(w)] # None
    /\ workers[w].pc \in {"run", "stage"} =>
            Attempt(w) \in disk.started[Now(w)] /\ Staging(w) \notin DOMAIN disk.sealed
    /\ workers[w].pc = "publish" => Staging(w) \in DOMAIN disk.sealed

WorkInv == \A w \in parent.active : Working(w)

\* What has not been given to a worker yet.
PlanInv ==
    parent.phase = "loop" => \A r \in parent.sel : parent.progress[r].status = "PENDING" =>
        /\ parent.progress[r].attempts < MaxAttempts
        /\ SymbolOf[r] \in parent.waiting => disk.final[r] = None

\* The executed attempts are the recorded ones, one execution each.
RanInv ==
    /\ ran = [r \in Runs |-> ran[r]]
    /\ \A r \in Runs :
        /\ IsFiniteSet(ran[r]) /\ Cardinality(ran[r]) = Cardinality(disk.started[r])
        /\ \A p \in ran[r] : p[1] \in disk.started[r]

\* Nobody finishes, or will attempt, a run that failed for good; who fails for
\* good has attempted.
OpenFor(w) ==
    /\ workers[w].pc \notin {"fatal", "exited", "killed"} =>
            \A r \in DOMAIN workers[w].work : ~Fatal(r)
    /\ workers[w].pc = "fatal" => Attempt(w) \in disk.started[Now(w)]

OpenInv ==
    /\ \A n \in Finished : ~Fatal(n.run)
    /\ \A w \in parent.active : OpenFor(w)
    /\ parent.phase = "loop" => \A r \in parent.sel :
            parent.progress[r].status = "PENDING" /\ SymbolOf[r] \in parent.waiting => ~Fatal(r)

\* The index that finalize wrote still shows what is published.
FinalInv ==
    parent.phase = "finalize" => \A r \in Runs :
        disk.final[r] # None /\ disk.final[r].state = "intact" /\ disk.index[r] = disk.final[r].inputs

AttemptInv == RanInv /\ OpenInv /\ FinalInv

RunnerInv == TypeInv /\ OneInv /\ FrozenInv /\ RecordInv /\ StageInv /\ WorkInv /\ PlanInv
----------------------------------------------------------------------------
(* Sequences, orders and empty functions.                                  *)

\* The empty sequence is the empty function, and no record.
LEMMA NoneIs ==
    /\ DOMAIN None = {}
    /\ \A S : None \in [{} -> S]
<1>1. None \in Seq({}) /\ Len(None) = 0
  BY DEF None
<1>2. DOMAIN None = 1 .. 0
  BY <1>1
<1>3. DOMAIN None = {}
  BY <1>2
<1>4. ASSUME NEW S PROVE None \in [{} -> S]
  <2>1. None \in Seq(S) /\ Len(None) = 0
    BY DEF None
  <2>2. None \in [1 .. 0 -> S]
    BY <2>1
  <2> QED
    BY <2>2
<1> QED
  BY <1>3, <1>4

\* Membership, without the union.
LEMMA PartialIs ==
    ASSUME NEW S, NEW T, NEW f
    PROVE  f \in Partial(S, T) <=> DOMAIN f \subseteq S /\ f \in [DOMAIN f -> T]
<1>1. ASSUME f \in Partial(S, T) PROVE DOMAIN f \subseteq S /\ f \in [DOMAIN f -> T]
  <2>1. PICK F \in {[P -> T] : P \in SUBSET S} : f \in F
    BY <1>1, Zenon DEF Partial
  <2>2. PICK P \in SUBSET S : F = [P -> T]
    BY <2>1, Zenon
  <2> QED
    BY <2>1, <2>2
<1>2. ASSUME DOMAIN f \subseteq S, f \in [DOMAIN f -> T] PROVE f \in Partial(S, T)
  <2>1. [DOMAIN f -> T] \in {[P -> T] : P \in SUBSET S}
    BY <1>2
  <2> QED
    BY <1>2, <2>1, Zenon DEF Partial
<1> QED
  BY <1>1, <1>2

\* The least member of a set of numbers that is not empty.
LEMMA MinIn ==
    ASSUME NEW S \in SUBSET Nat, S # {}
    PROVE  Min(S) \in S
BY HasFirst DEF Min

\* The run a worker is at is one of its own.
LEMMA NowIn ==
    ASSUME RunnerAssumption, TypeInv, NEW w \in parent.active, DOMAIN workers[w].work # {}
    PROVE  /\ Now(w) \in DOMAIN workers[w].work /\ Now(w) \in Runs /\ Now(w) # Foreign
           /\ Attempt(w) \in Attempts
           /\ Staging(w) \in Names /\ Staging(w).run = Now(w) /\ Staging(w).attempt = Attempt(w)
<1> DEFINE P == DOMAIN workers[w].work
<1>1. P \in SUBSET Runs /\ workers[w].work \in [P -> Attempts]
  <2>1. workers[w].work \in Partial(Runs, Attempts)
    BY DEF TypeInv, Works
  <2> QED
    BY <2>1, PartialIs
<1>2. P # {} /\ P \in SUBSET Nat
  BY <1>1 DEF RunnerAssumption
<1>3. Now(w) \in P
  BY <1>1, <1>2, MinIn DEF Now
<1>4. Attempt(w) \in Attempts
  BY <1>1, <1>3 DEF Attempt
<1>5. w \in WorkerIds
  BY DEF TypeInv, Parents
<1> QED
  BY <1>1, <1>3, <1>4, <1>5 DEF RunnerAssumption, Staging, Name, Names, Foreign

\* An artifact is not the absence of one.
LEMMA ArtifactIs ==
    ASSUME NEW n, NEW m, NEW inputs
    PROVE  Artifact(n, m, inputs) # None
<1>1. "state" \in DOMAIN Artifact(n, m, inputs)
  BY DEF Artifact
<1> QED
  BY <1>1, NoneIs

----------------------------------------------------------------------------
(* The start.                                                              *)

\* At first there is nothing on the disk and nobody works.
LEMMA InitOK ==
    ASSUME RunnerAssumption, Init
    PROVE  RunnerInv
<1>1. TypeInv
  <2>1. None \in Partial(Names, Versions)
    BY NoneIs, PartialIs
  <2>2. workers \in [parent.active -> [pc : Steps, work : Works, inputs : Versions, manifest : Versions]]
    BY NoneIs DEF Init, Idle, None
  <2>3. disk \in Disks
    BY <2>1 DEF Init, EmptyDisk, Disks, Versions, None
  <2> QED
    BY <2>2, <2>3 DEF TypeInv, Init, Idle, Parents, Phases, Versions
<1>2. OneInv /\ FrozenInv /\ RecordInv /\ StageInv /\ WorkInv /\ PlanInv
  <2>1. DOMAIN disk.sealed = {}
    BY NoneIs DEF Init, EmptyDisk, None
  <2> QED
    BY <2>1 DEF Init, EmptyDisk, Idle, OneInv, Finished, FrozenInv, RecordInv, StageInv, WorkInv, PlanInv
<1> QED
  BY <1>1, <1>2 DEF RunnerInv
----------------------------------------------------------------------------
(* What happens outside of the suite's directory, or while nothing runs.   *)

\* Freezing the experiment and drift touch neither disk nor workers.
LEMMA OutsideOK ==
    ASSUME RunnerAssumption, RunnerInv,
           LockCore \/ Prepare \/ \E p \in Parts : Drift(p)
    PROVE  RunnerInv'
<1>1. /\ UNCHANGED <<disk, parent, workers, queue, launches>>
      /\ parent.phase \in {"sweep", "promote", "loop", "wrapup"} => manifest' = manifest
      /\ world' \in [Parts -> {0, 1}] /\ marker' \in Versions /\ manifest' \in Versions
  BY DEF LockCore, Prepare, Drift, RunnerInv, TypeInv, Versions
<1>2. TypeInv'
  BY <1>1 DEF RunnerInv, TypeInv
<1>3. OneInv' /\ FrozenInv'
  BY <1>1 DEF RunnerInv, OneInv, FrozenInv, Finished, AsFrozen
<1>4. RecordInv' /\ PlanInv'
  BY <1>1 DEF RunnerInv, RecordInv, PlanInv
<1>5. StageInv' /\ WorkInv'
  BY <1>1 DEF RunnerInv, StageInv, Finished, WorkInv, Working, Held, Now, Attempt, Staging
<1> QED
  BY <1>2, <1>3, <1>4, <1>5 DEF RunnerInv

\* A launch takes every staged name for its sweep.
LEMMA LaunchOK ==
    ASSUME RunnerAssumption, RunnerInv, NEW sel \in Selections, Launch(sel)
    PROVE  RunnerInv'
<1>1. /\ parent' \in Parents /\ parent'.phase = "sweep" /\ parent'.todo = disk.staged
      /\ parent'.valid = {} /\ parent'.active = {} /\ parent.active = {} /\ parent.phase = "idle"
  BY DEF Launch, Idle, RunnerInv, TypeInv, Parents, Phases, Disks, RunnerAssumption, Versions
<1>2. /\ disk' = [disk EXCEPT !.manifest = manifest] /\ disk' \in Disks
      /\ manifest # None /\ disk.manifest \in {None, manifest}
      /\ UNCHANGED <<world, marker, manifest, workers, queue>> /\ launches' = launches + 1
  BY DEF Launch, ManifestHolds, RunnerInv, TypeInv, Disks
<1>3. /\ disk'.staged = disk.staged /\ disk'.sealed = disk.sealed /\ disk'.final = disk.final
      /\ disk'.progress = disk.progress /\ disk'.started = disk.started /\ disk'.manifest = manifest
  BY <1>2 DEF RunnerInv, TypeInv, Disks
<1>4. TypeInv'
  BY <1>1, <1>2 DEF RunnerInv, TypeInv
<1>5. OneInv'
  BY <1>3 DEF RunnerInv, OneInv, Finished
<1>6. FrozenInv'
  BY <1>1, <1>2, <1>3 DEF RunnerInv, FrozenInv, AsFrozen
<1>7. RecordInv' /\ PlanInv'
  BY <1>1, <1>2, <1>3 DEF RunnerInv, RecordInv, PlanInv
<1>8. StageInv' /\ WorkInv'
  BY <1>1, <1>3 DEF StageInv, WorkInv, Finished
<1> QED
  BY <1>4, <1>5, <1>6, <1>7, <1>8 DEF RunnerInv

\* What the parent leaves when it stops: nothing runs, the directory stays as
\* true as it was.
LEMMA StopOK ==
    ASSUME RunnerAssumption, RunnerInv, Stop, workers' \in [{} -> {}],
           UNCHANGED <<world, marker, manifest, launches>>,
           disk' \in Disks, OneInv', disk'.manifest = disk.manifest,
           disk'.manifest = None => DOMAIN disk'.sealed = {} /\ \A r \in Runs : disk'.final[r] = None,
           \A n \in DOMAIN disk'.sealed : AsFrozen(disk'.sealed[n]),
           \A r \in Runs : disk'.final[r] # None =>
                disk'.final[r].manifest = disk'.manifest /\ AsFrozen(disk'.final[r].inputs),
           disk'.progress # None =>
                \A r \in Runs : disk'.progress[r].status = "COMPLETE" => disk'.final[r] # None,
           \A r \in Runs : disk'.final[r] # None /\ disk'.final[r].state = "gone" =>
                disk'.progress # None /\ disk'.progress[r].status = "COMPLETE"
    PROVE  RunnerInv'
<1>1. parent' \in Parents /\ parent'.phase = "idle" /\ parent'.valid = {} /\ parent'.active = {}
  BY DEF Stop, Idle, Parents, Phases
<1>2. queue' \in Seq(Messages) /\ Len(queue') = 0
  BY DEF Stop
<1>3. workers' \in [parent'.active -> [pc : Steps, work : Works, inputs : Versions, manifest : Versions]]
  BY <1>1
<1>4. TypeInv'
  BY <1>1, <1>2, <1>3 DEF RunnerInv, TypeInv
<1>5. FrozenInv'
  BY <1>1 DEF RunnerInv, FrozenInv, AsFrozen
<1>6. RecordInv'
  BY <1>1, <1>2 DEF RecordInv
<1>7. StageInv' /\ WorkInv' /\ PlanInv'
  BY <1>1 DEF StageInv, WorkInv, PlanInv
<1> QED
  BY <1>4, <1>5, <1>6, <1>7 DEF RunnerInv

\* The same when the directory is left alone.
LEMMA StopAsIs ==
    ASSUME RunnerAssumption, RunnerInv, Stop, workers' \in [{} -> {}],
           UNCHANGED <<world, marker, manifest, disk, launches>>
    PROVE  RunnerInv'
<1>1. OneInv'
  BY DEF RunnerInv, OneInv, Finished
<1>2. disk' \in Disks
  BY DEF RunnerInv, TypeInv
<1>3. RecordInv /\ FrozenInv
  BY DEF RunnerInv
<1> QED
  BY <1>1, <1>2, <1>3, StopOK DEF RecordInv, FrozenInv
----------------------------------------------------------------------------
(* A launch up to its loop.                                                *)

\* Without a loop there is no worker.
LEMMA NoWorkers ==
    ASSUME TypeInv, parent.phase # "loop"
    PROVE  parent.active = {} /\ workers \in [{} -> {}]
BY DEF TypeInv

\* Moving a staged directory that is not finished to quarantine.
LEMMA QuarantinedOK ==
    ASSUME RunnerAssumption, RunnerInv, NEW n \in disk.staged, disk' = Quarantined(disk, n)
    PROVE  /\ disk' \in Disks
           /\ disk'.staged = disk.staged \ {n} /\ Finished' = Finished \ {n}
           /\ disk'.sealed = disk.sealed /\ disk'.final = disk.final
           /\ disk'.progress = disk.progress /\ disk'.started = disk.started
           /\ disk'.manifest = disk.manifest
           /\ OneInv'
<1>1. /\ disk' \in Disks
      /\ disk'.staged = disk.staged \ {n}
      /\ disk'.sealed = disk.sealed /\ disk'.final = disk.final
      /\ disk'.progress = disk.progress /\ disk'.started = disk.started
      /\ disk'.manifest = disk.manifest
  <2>1. disk \in Disks
    BY DEF RunnerInv, TypeInv
  <2>2. disk.staged \ {n} \in SUBSET Names /\ disk.quarantine \cup {n} \in SUBSET Names
    BY <2>1 DEF Disks
  <2>3. disk' = [disk EXCEPT !.staged = disk.staged \ {n}, !.quarantine = disk.quarantine \cup {n}]
    BY DEF Quarantined
  <2> QED
    BY <2>1, <2>2, <2>3 DEF Disks
<1>2. Finished' = Finished \ {n}
  BY <1>1 DEF Finished
<1> QED
  BY <1>1, <1>2 DEF RunnerInv, OneInv

\* A name is kept if it is sealed, and put into quarantine otherwise.
LEMMA SweepOK ==
    ASSUME RunnerAssumption, RunnerInv, NEW n \in parent.todo, Sweep(n)
    PROVE  RunnerInv'
<1>1. /\ parent.phase = "sweep" /\ parent.active = {} /\ workers \in [{} -> {}]
      /\ UNCHANGED <<world, marker, manifest, workers, launches>>
  BY NoWorkers DEF Sweep, RunnerInv
<1>2. CASE n \notin disk.staged
  BY <1>1, <1>2, StopAsIs DEF Sweep
<1>3. CASE n \in disk.staged /\ n.run = Foreign
  <2>1. Stop /\ disk' = Quarantined(disk, n)
    BY <1>3 DEF Sweep
  <2>2. RecordInv /\ FrozenInv
    BY DEF RunnerInv
  <2> QED
    BY <1>1, <1>3, <2>1, <2>2, QuarantinedOK, StopOK DEF RecordInv, FrozenInv, AsFrozen
<1>4. CASE n \in disk.staged /\ n.run # Foreign /\ n \in DOMAIN disk.sealed
  <2>1. /\ parent' = [parent EXCEPT !.todo = @ \ {n}, !.valid = @ \cup {n}]
        /\ UNCHANGED <<disk, queue>>
    BY <1>4 DEF Sweep
  <2>2. /\ parent' \in Parents /\ parent'.phase = "sweep" /\ parent'.active = {}
        /\ parent'.todo = parent.todo \ {n} /\ parent'.valid = parent.valid \cup {n}
    <3>1. parent \in Parents /\ n \in Names
      BY DEF RunnerInv, TypeInv, Parents
    <3>2. parent.valid \cup {n} \in SUBSET Names
      BY <3>1 DEF Parents
    <3> QED
      BY <1>1, <2>1, <3>1, <3>2 DEF Parents
  <2>3. TypeInv'
    BY <1>1, <2>1, <2>2 DEF RunnerInv, TypeInv
  <2>4. OneInv' /\ FrozenInv'
    BY <1>1, <2>1, <2>2 DEF RunnerInv, OneInv, FrozenInv, Finished, AsFrozen
  <2>5. RecordInv' /\ PlanInv' /\ WorkInv'
    BY <1>1, <2>1, <2>2 DEF RunnerInv, RecordInv, PlanInv, WorkInv
  <2>6. StageInv'
    BY <1>1, <1>4, <2>1, <2>2 DEF RunnerInv, StageInv, Finished
  <2> QED
    BY <2>3, <2>4, <2>5, <2>6 DEF RunnerInv
<1>5. CASE n \in disk.staged /\ n.run # Foreign /\ n \notin DOMAIN disk.sealed
  <2>1. /\ parent' = [parent EXCEPT !.todo = @ \ {n}] /\ disk' = Quarantined(disk, n)
        /\ UNCHANGED queue
    BY <1>5 DEF Sweep
  <2>2. /\ parent' \in Parents /\ parent'.phase = "sweep" /\ parent'.active = {}
        /\ parent'.todo = parent.todo \ {n} /\ parent'.valid = parent.valid
    BY <1>1, <2>1 DEF RunnerInv, TypeInv, Parents
  <2>3. /\ disk' \in Disks /\ OneInv' /\ Finished' = Finished \ {n}
        /\ disk'.sealed = disk.sealed /\ disk'.final = disk.final
        /\ disk'.progress = disk.progress /\ disk'.manifest = disk.manifest
    BY <1>5, <2>1, QuarantinedOK
  <2>4. TypeInv'
    BY <1>1, <2>1, <2>2, <2>3 DEF RunnerInv, TypeInv
  <2>5. FrozenInv'
    BY <1>1, <2>1, <2>2, <2>3 DEF RunnerInv, FrozenInv, AsFrozen
  <2>6. RecordInv' /\ PlanInv' /\ WorkInv'
    BY <1>1, <2>1, <2>2, <2>3 DEF RunnerInv, RecordInv, PlanInv, WorkInv
  <2>7. StageInv'
    BY <1>1, <1>5, <2>1, <2>2, <2>3 DEF RunnerInv, StageInv, Finished
  <2> QED
    BY <2>3, <2>4, <2>5, <2>6, <2>7 DEF RunnerInv
<1> QED
  BY <1>2, <1>3, <1>4, <1>5

\* What was kept is one candidate a run, or the launch stops.
LEMMA CompareOK ==
    ASSUME RunnerAssumption, RunnerInv, Compare
    PROVE  RunnerInv'
<1>1. /\ parent.phase = "sweep" /\ parent.todo = {}
      /\ parent.active = {} /\ workers \in [{} -> {}]
      /\ UNCHANGED <<world, marker, manifest, disk, workers, launches>>
  BY NoWorkers DEF Compare, RunnerInv
<1>2. CASE Stop
  BY <1>1, <1>2, StopAsIs
<1>3. CASE parent' = [parent EXCEPT !.phase = "promote"] /\ UNCHANGED queue
  <2>1. /\ parent' \in Parents /\ parent'.phase = "promote" /\ parent'.active = {}
        /\ parent'.valid = parent.valid
    BY <1>1, <1>3 DEF RunnerInv, TypeInv, Parents, Phases
  <2>2. TypeInv'
    BY <1>1, <1>3, <2>1 DEF RunnerInv, TypeInv
  <2>3. OneInv' /\ FrozenInv'
    BY <1>1, <2>1 DEF RunnerInv, OneInv, FrozenInv, Finished, AsFrozen
  <2>4. RecordInv' /\ PlanInv' /\ WorkInv' /\ StageInv'
    BY <1>1, <1>3, <2>1 DEF RunnerInv, RecordInv, PlanInv, WorkInv, StageInv, Finished
  <2> QED
    BY <2>2, <2>3, <2>4 DEF RunnerInv
<1> QED
  BY <1>2, <1>3 DEF Compare

\* Publishing what is finished.
LEMMA RenamedOK ==
    ASSUME RunnerAssumption, RunnerInv, NEW n \in Finished, NEW d \in Disks, NEW m,
           m = disk.manifest, disk.manifest # None,
           d.manifest = disk.manifest, d.started = disk.started, d.sealed = disk.sealed,
           d.final = disk.final, d.progress = disk.progress,
           d.staged \subseteq disk.staged, n \in d.staged,
           disk' = Renamed(d, n, m)
    PROVE  /\ disk' \in Disks
           /\ disk'.staged = d.staged \ {n} /\ Finished' \subseteq Finished \ {n}
           /\ disk'.sealed = disk.sealed /\ disk'.started = disk.started
           /\ disk'.progress = disk.progress /\ disk'.manifest = disk.manifest
           /\ n.run \in Runs /\ disk'.final[n.run] # None
           /\ \A r \in Runs \ {n.run} : disk'.final[r] = disk.final[r]
           /\ \A x \in Finished' : x.run # n.run
           /\ OneInv'
           /\ \A r \in Runs : disk'.final[r] # None =>
                /\ disk'.final[r].manifest = disk'.manifest /\ AsFrozen(disk'.final[r].inputs)
                /\ disk'.final[r].state = "gone" => disk.final[r] # None /\ disk.final[r].state = "gone"
           /\ \A r \in Runs : disk.final[r] # None => disk'.final[r] # None
<1> DEFINE a == Artifact(n, m, d.sealed[n])
<1>1. n \in Names /\ n.run \in Runs /\ n.attempt \in Attempts /\ n \in DOMAIN disk.sealed
      /\ n.attempt \in disk.started[n.run] /\ disk.final[n.run] = None
  BY DEF RunnerInv, TypeInv, OneInv, Disks, Finished, Names
<1>2. d.sealed[n] \in Versions /\ disk.sealed \in Partial(Names, Versions)
  BY <1>1, PartialIs DEF RunnerInv, TypeInv, Disks
<1>3. a \in Artifacts /\ a # None /\ a.state = "intact" /\ a.manifest = disk.manifest
      /\ a.inputs = disk.sealed[n]
  BY <1>1, <1>2, ArtifactIs DEF Artifact, Artifacts, RunnerInv, TypeInv, Disks
<1>4. disk' = [d EXCEPT !.staged = @ \ {n}, !.final[n.run] = a]
  BY DEF Renamed
<1> HIDE DEF a
<1>5. /\ disk' \in Disks /\ disk'.staged = d.staged \ {n}
      /\ disk'.sealed = disk.sealed /\ disk'.started = disk.started
      /\ disk'.progress = disk.progress /\ disk'.manifest = disk.manifest
      /\ disk'.final = [disk.final EXCEPT ![n.run] = a]
  <2> DEFINE F == [d.final EXCEPT ![n.run] = a]
             N == d.staged \ {n}
  <2>1. F \in Finals /\ N \subseteq Names
    BY <1>3 DEF Disks, Finals
  <2>2. disk' = [d EXCEPT !.staged = N, !.final = F]
    BY <1>4 DEF Disks
  <2> HIDE DEF F, N
  <2>3. disk' \in Disks
    BY <2>1, <2>2, DiskPublishes
  <2>4. disk'.staged = N /\ disk'.final = F
    BY <2>2 DEF Disks
  <2>5. /\ disk'.sealed = d.sealed /\ disk'.started = d.started
        /\ disk'.progress = d.progress /\ disk'.manifest = d.manifest
    BY <2>2 DEF Disks
  <2> QED
    BY <2>3, <2>4, <2>5 DEF F, N
<1>6. disk'.final[n.run] = a /\ \A r \in Runs \ {n.run} : disk'.final[r] = disk.final[r]
  BY <1>1, <1>5 DEF RunnerInv, TypeInv, Disks
<1>7. Finished' \subseteq Finished \ {n}
  BY <1>5 DEF Finished
<1>8. \A x \in Finished' : x.run # n.run
  BY <1>7 DEF RunnerInv, OneInv
<1>9. OneInv'
  <2>1. \A x \in Finished' : x.run \in Runs
    BY <1>7 DEF RunnerInv, OneInv, Finished
  <2> QED
    BY <1>5, <1>6, <1>7, <1>8, <2>1 DEF RunnerInv, OneInv
<1>10. \A r \in Runs : disk'.final[r] # None =>
                /\ disk'.final[r].manifest = disk'.manifest /\ AsFrozen(disk'.final[r].inputs)
                /\ disk'.final[r].state = "gone" => disk.final[r] # None /\ disk.final[r].state = "gone"
  BY <1>1, <1>3, <1>5, <1>6 DEF RunnerInv, FrozenInv, AsFrozen
<1> QED
  BY <1>1, <1>3, <1>5, <1>6, <1>7, <1>8, <1>9, <1>10
\* A kept candidate is published, or the launch stops.
LEMMA PromoteOK ==
    ASSUME RunnerAssumption, RunnerInv, NEW n \in parent.valid, Promote(n)
    PROVE  RunnerInv'
<1>1. /\ parent.phase = "promote" /\ parent.active = {} /\ workers \in [{} -> {}]
      /\ UNCHANGED <<world, marker, manifest, workers, launches>>
  BY NoWorkers DEF Promote, RunnerInv
<1>2. CASE ~CanRename(n)
  BY <1>1, <1>2, StopAsIs DEF Promote
<1>3. CASE CanRename(n)
  <2>1. n \in Finished /\ n \in disk.staged
    BY <1>3 DEF CanRename, RunnerInv, StageInv, Finished
  <2>2. /\ disk' = Renamed(disk, n, manifest) /\ UNCHANGED queue
        /\ parent' = [parent EXCEPT !.valid = @ \ {n}]
    BY <1>3 DEF Promote
  <2>3. manifest = disk.manifest /\ disk.manifest # None /\ disk \in Disks
    BY <1>1 DEF RunnerInv, FrozenInv, TypeInv
  <2>4. /\ disk' \in Disks /\ Finished' \subseteq Finished \ {n}
        /\ disk'.sealed = disk.sealed /\ disk'.progress = disk.progress
        /\ disk'.manifest = disk.manifest /\ OneInv'
        /\ \A r \in Runs : disk'.final[r] # None =>
                /\ disk'.final[r].manifest = disk'.manifest /\ AsFrozen(disk'.final[r].inputs)
                /\ disk'.final[r].state = "gone" => disk.final[r] # None /\ disk.final[r].state = "gone"
        /\ \A r \in Runs : disk.final[r] # None => disk'.final[r] # None
    BY <2>1, <2>2, <2>3, RenamedOK
  <2>5. /\ parent' \in Parents /\ parent'.phase = "promote" /\ parent'.active = {}
        /\ parent'.valid = parent.valid \ {n}
    BY <1>1, <2>2 DEF RunnerInv, TypeInv, Parents
  <2>6. TypeInv'
    BY <1>1, <2>2, <2>4, <2>5 DEF RunnerInv, TypeInv
  <2>7. FrozenInv'
    BY <1>1, <2>2, <2>3, <2>4, <2>5 DEF RunnerInv, FrozenInv, AsFrozen
  <2>8. RecordInv'
    <3>1. \A i \in 1 .. Len(queue) : queue[i].kind = "COMPLETE" => queue[i].run \in Runs
      BY DEF RunnerInv, TypeInv, Messages
    <3> QED
      BY <1>1, <2>2, <2>4, <2>5, <3>1 DEF RunnerInv, RecordInv
  <2>9. StageInv'
    BY <1>1, <2>4, <2>5 DEF RunnerInv, StageInv
  <2>10. WorkInv' /\ PlanInv'
    BY <2>5 DEF WorkInv, PlanInv
  <2> QED
    BY <2>4, <2>6, <2>7, <2>8, <2>9, <2>10 DEF RunnerInv
<1> QED
  BY <1>2, <1>3

\* What has been attempted is a number of attempts.
LEMMA ObservedIs ==
    ASSUME RunnerAssumption, TypeInv, NEW r \in Runs
    PROVE  Observed(r) \in 0 .. MaxAttempts
<1> DEFINE seen == disk.started[r] \cup {f.attempt : f \in disk.failed[r]}
                \cup {n.attempt : n \in {m \in disk.staged \cup disk.quarantine : m.run = r}}
                \cup (IF Exists(r) THEN {disk.final[r].attempt} ELSE {})
           all == seen \cup {0}
<1>1. disk.started[r] \subseteq Attempts /\ disk.failed[r] \subseteq Failures
      /\ disk.staged \cup disk.quarantine \subseteq Names
      /\ (disk.final[r] # None => disk.final[r] \in Artifacts)
  BY DEF TypeInv, Disks
<1>2. all \in SUBSET (0 .. MaxAttempts) /\ all # {}
  <2>1. {f.attempt : f \in disk.failed[r]} \subseteq Attempts
    BY <1>1 DEF Failures
  <2>2. {n.attempt : n \in {m \in disk.staged \cup disk.quarantine : m.run = r}} \subseteq Attempts
    BY <1>1 DEF Names
  <2>3. (IF Exists(r) THEN {disk.final[r].attempt} ELSE {}) \subseteq Attempts
    BY <1>1 DEF Exists, Artifacts
  <2>4. Attempts \subseteq 0 .. MaxAttempts /\ 0 \in 0 .. MaxAttempts
    BY DEF Attempts, MaxAttempts
  <2> QED
    BY <1>1, <2>1, <2>2, <2>3, <2>4
<1>3. \E a \in all : \A b \in seen : b <= a
  <2>1. \E a \in all : \A b \in all : b <= a
    <3> HIDE DEF all
    <3> QED
      BY <1>2, HasLast DEF MaxAttempts
  <2>2. \A b \in seen : b \in all
    OBVIOUS
  <2> HIDE DEF all, seen
  <2> QED
    BY <2>1, <2>2
<1>4. Observed(r) = CHOOSE a \in all : \A b \in seen : b <= a
  BY DEF Observed
<1> HIDE DEF all, seen
<1> QED
  BY <1>2, <1>3, <1>4

\* A planned progress names what is published, and nothing is missing.
LEMMA NewProgressOK ==
    ASSUME RunnerAssumption, RunnerInv, ~Corrupt
    PROVE  /\ NewProgress \in Progress
           /\ \A r \in Runs : NewProgress[r].status = "COMPLETE" => disk.final[r] # None
           /\ \A r \in Runs : NewProgress[r].status = "PENDING" => disk.final[r] = None
           /\ \A r \in Runs : ~(disk.final[r] # None /\ disk.final[r].state = "gone")
<1>1. \A r \in Runs : ~(disk.final[r] # None /\ disk.final[r].state = "gone")
  BY DEF Corrupt, Verified, Exists, RunnerInv, RecordInv
<1>2. \A r \in Runs : Verified(r) <=> disk.final[r] # None
  BY <1>1 DEF Corrupt, Verified, Exists
<1>3. \A r \in Runs : Observed(r) \in 0 .. MaxAttempts
  BY ObservedIs DEF RunnerInv
<1>4. ASSUME NEW r \in Runs
      PROVE  /\ NewProgress[r] \in [status : ProgressStatuses, attempts : 0 .. MaxAttempts]
             /\ NewProgress[r].status = IF Verified(r) THEN "COMPLETE" ELSE "PENDING"
  <2> DEFINE p == IF disk.progress = None THEN 0 ELSE disk.progress[r].attempts
             k == IF p > Observed(r) THEN p ELSE Observed(r)
  <2>1. p \in 0 .. MaxAttempts
    BY DEF RunnerInv, TypeInv, Disks, Progress, MaxAttempts
  <2>2. k \in 0 .. MaxAttempts
    BY <1>3, <2>1
  <2>3. NewProgress[r] = IF Verified(r) THEN Row("COMPLETE", Observed(r)) ELSE Row("PENDING", k)
    BY DEF NewProgress
  <2> HIDE DEF k
  <2> QED
    BY <1>3, <2>2, <2>3 DEF Row, ProgressStatuses
<1>5. NewProgress \in Progress
  <2>1. DOMAIN NewProgress = Runs /\ NewProgress = [r \in Runs |-> NewProgress[r]]
    BY DEF NewProgress
  <2> QED
    BY <1>4, <2>1 DEF Progress
<1> QED
  BY <1>1, <1>2, <1>4, <1>5
LEMMA PlanOK ==
    ASSUME RunnerAssumption, RunnerInv, Plan
    PROVE  RunnerInv'
<1>1. /\ parent.phase = "promote" /\ parent.valid = {} /\ Finished = {}
      /\ parent.active = {} /\ workers \in [{} -> {}]
      /\ UNCHANGED <<world, marker, manifest, workers, launches>>
      /\ manifest = disk.manifest
  BY NoWorkers DEF Plan, RunnerInv, StageInv, FrozenInv
<1>2. CASE Corrupt \/ \E r \in Pending : Fatal(r)
  BY <1>1, <1>2, StopAsIs DEF Plan
<1>3. CASE ~(Corrupt \/ \E r \in Pending : Fatal(r))
  <2> DEFINE new == NewProgress
  <2>1. /\ new \in Progress
        /\ \A r \in Runs : new[r].status = "COMPLETE" => disk.final[r] # None
        /\ \A r \in Runs : new[r].status = "PENDING" => disk.final[r] = None
        /\ \A r \in Runs : ~(disk.final[r] # None /\ disk.final[r].state = "gone")
    BY <1>3, NewProgressOK
  <2>2. disk' = [disk EXCEPT !.progress = new]
    BY <1>3 DEF Plan
  <2>3. \A r \in parent.sel : new[r].status = "PENDING" => r \in Pending
    BY DEF NewProgress, Pending, Row, RunnerInv, TypeInv, Parents
  <2>4. \/ Stop
        \/ /\ parent' = [parent EXCEPT !.phase = "loop", !.progress = new,
                                       !.waiting = {SymbolOf[r] : r \in Pending}]
           /\ UNCHANGED queue
           /\ \A r \in Pending : ~(new[r].attempts >= MaxAttempts)
    BY <1>3 DEF Plan
  <2>5. Pending \subseteq Runs /\ {SymbolOf[r] : r \in Pending} \subseteq Symbols
    BY DEF Pending, Symbols, RunnerInv, TypeInv, Parents
  <2> HIDE DEF new
  <2>6. /\ disk' \in Disks /\ disk'.staged = disk.staged /\ disk'.sealed = disk.sealed
        /\ disk'.final = disk.final /\ disk'.started = disk.started
        /\ disk'.manifest = disk.manifest /\ disk'.progress = new
    BY <2>1, <2>2 DEF RunnerInv, TypeInv, Disks
  <2>7. OneInv' /\ Finished' = {}
    BY <1>1, <2>6 DEF RunnerInv, OneInv, Finished
  <2>8. CASE Stop
    BY <1>1, <2>1, <2>6, <2>7, <2>8, StopOK DEF RunnerInv, FrozenInv, AsFrozen
  <2>9. CASE /\ parent' = [parent EXCEPT !.phase = "loop", !.progress = new,
                                         !.waiting = {SymbolOf[r] : r \in Pending}]
             /\ UNCHANGED queue
             /\ \A r \in Pending : ~(new[r].attempts >= MaxAttempts)
    <3>1. /\ parent' \in Parents /\ parent'.phase = "loop" /\ parent'.active = {}
          /\ parent'.valid = {} /\ parent'.progress = new /\ parent'.sel = parent.sel
      BY <1>1, <2>1, <2>5, <2>9 DEF RunnerInv, TypeInv, Parents, Phases
    <3>2. TypeInv'
      BY <1>1, <2>6, <2>9, <3>1 DEF RunnerInv, TypeInv
    <3>3. FrozenInv'
      BY <1>1, <2>6, <3>1 DEF RunnerInv, FrozenInv, AsFrozen
    <3>4. RecordInv'
      BY <1>1, <2>1, <2>6, <2>9, <3>1 DEF RunnerInv, RecordInv
    <3>5. StageInv' /\ WorkInv'
      BY <2>7, <3>1 DEF StageInv, WorkInv
    <3>6. PlanInv'
      <4>1. ASSUME NEW r \in parent.sel, new[r].status = "PENDING"
            PROVE  new[r].attempts < MaxAttempts /\ disk.final[r] = None
        <5>1. r \in Runs /\ r \in Pending
          BY <2>3, <2>5, <4>1 DEF new
        <5>2. new[r].attempts \in 0 .. MaxAttempts
          BY <2>1, <5>1 DEF Progress
        <5> QED
          BY <2>1, <2>9, <4>1, <5>1, <5>2 DEF MaxAttempts
      <4> QED
        BY <2>6, <3>1, <4>1 DEF PlanInv
    <3> QED
      BY <2>7, <3>2, <3>3, <3>4, <3>5, <3>6 DEF RunnerInv
  <2> QED
    BY <2>4, <2>8, <2>9
<1> QED
  BY <1>2, <1>3

----------------------------------------------------------------------------
(* The end of a launch, the end of the suite, kills and damage.            *)

\* The selected runs are recorded complete when they verify.
LEMMA WrapUpOK ==
    ASSUME RunnerAssumption, RunnerInv, WrapUp
    PROVE  RunnerInv'
<1>1. /\ parent.phase = "wrapup" /\ workers \in [{} -> {}] /\ Stop
      /\ UNCHANGED <<world, marker, manifest, workers, launches>>
  BY NoWorkers DEF WrapUp, RunnerInv
<1>2. CASE disk' = disk
  BY <1>1, <1>2, StopAsIs
<1>3. CASE \A r \in parent.sel : Verified(r)
  <2> DEFINE new == [r \in Runs |->
                IF r \in parent.sel THEN Row("COMPLETE", Observed(r)) ELSE parent.progress[r]]
  <2>1. disk' = [disk EXCEPT !.progress = new]
    BY <1>3 DEF WrapUp
  <2>2. parent.progress \in Progress
    BY <1>1 DEF RunnerInv, RecordInv
  <2>3. new \in Progress
    <3>1. \A r \in Runs : Observed(r) \in 0 .. MaxAttempts
      BY ObservedIs DEF RunnerInv
    <3> QED
      BY <2>2, <3>1 DEF Progress, Row, ProgressStatuses
  <2>4. \A r \in Runs : new[r].status = "COMPLETE" => disk.final[r] # None
    <3>1. \A r \in parent.sel : disk.final[r] # None
      BY <1>3 DEF Verified, Exists
    <3> QED
      BY <1>1, <3>1 DEF RunnerInv, RecordInv
  <2> HIDE DEF new
  <2>5. /\ disk' \in Disks /\ disk'.staged = disk.staged /\ disk'.sealed = disk.sealed
        /\ disk'.final = disk.final /\ disk'.started = disk.started
        /\ disk'.manifest = disk.manifest /\ disk'.progress = new
    BY <2>1, <2>3 DEF RunnerInv, TypeInv, Disks
  <2>6. OneInv'
    BY <2>5 DEF RunnerInv, OneInv, Finished
  <2>7. FrozenInv /\ RecordInv
    BY DEF RunnerInv
  <2> QED
    BY <1>1, <2>4, <2>5, <2>6, <2>7, StopOK DEF FrozenInv, RecordInv, AsFrozen
<1> QED
  BY <1>2, <1>3 DEF WrapUp
\* The index and the marker of the suite.
LEMMA FinalizeOK ==
    ASSUME RunnerAssumption, RunnerInv, WriteIndex \/ CompleteSuite
    PROVE  RunnerInv'
<1>1. parent.active = {} /\ workers \in [{} -> {}]
  BY NoWorkers DEF WriteIndex, CompleteSuite, RunnerInv
<1>2. FrozenInv /\ RecordInv /\ disk \in Disks
  BY DEF RunnerInv, TypeInv
<1>3. CASE WriteIndex
  <2>1. Index \in [Runs -> Versions]
    <3>1. \A r \in Runs : disk.final[r] # None /\ disk.final[r] \in Artifacts
      BY <1>2, <1>3 DEF WriteIndex, SuiteVerified, Verified, Exists, Disks
    <3> QED
      BY <3>1 DEF Index, Artifacts
  <2>2. /\ disk' = [disk EXCEPT !.index = Index] /\ parent' = [Idle EXCEPT !.phase = "finalize"]
        /\ UNCHANGED <<world, marker, manifest, workers, queue, launches>>
        /\ manifest = disk.manifest
    BY <1>3 DEF WriteIndex, SuiteVerified
  <2>3. /\ disk' \in Disks /\ disk'.staged = disk.staged /\ disk'.sealed = disk.sealed
        /\ disk'.final = disk.final /\ disk'.started = disk.started
        /\ disk'.manifest = disk.manifest /\ disk'.progress = disk.progress
    BY <1>2, <2>1, <2>2 DEF Disks
  <2>4. parent' \in Parents /\ parent'.phase = "finalize" /\ parent'.valid = {} /\ parent'.active = {}
    BY <2>2 DEF Idle, Parents, Phases
  <2>5. OneInv' /\ TypeInv' /\ RecordInv'
    BY <1>1, <2>2, <2>3, <2>4 DEF RunnerInv, OneInv, Finished, TypeInv, RecordInv
  <2>6. disk.manifest # None
    BY <1>3 DEF WriteIndex, SuiteVerified
  <2>7. FrozenInv'
    BY <1>2, <2>2, <2>3, <2>4, <2>6 DEF FrozenInv, AsFrozen
  <2>8. StageInv' /\ WorkInv' /\ PlanInv'
    BY <2>4 DEF StageInv, WorkInv, PlanInv
  <2> QED
    BY <2>5, <2>7, <2>8 DEF RunnerInv
<1>4. CASE CompleteSuite
  <2>1. /\ disk' = [disk EXCEPT !.complete = TRUE] /\ Stop
        /\ UNCHANGED <<world, marker, manifest, workers, launches>>
    BY <1>4 DEF CompleteSuite
  <2>2. /\ disk' \in Disks /\ disk'.staged = disk.staged /\ disk'.sealed = disk.sealed
        /\ disk'.final = disk.final /\ disk'.started = disk.started
        /\ disk'.manifest = disk.manifest /\ disk'.progress = disk.progress
    BY <1>2, <2>1 DEF Disks
  <2>3. OneInv'
    BY <2>2 DEF RunnerInv, OneInv, Finished
  <2> QED
    BY <1>1, <1>2, <2>1, <2>2, <2>3, StopOK DEF FrozenInv, RecordInv, AsFrozen
<1> QED
  BY <1>3, <1>4

\* The parent is killed, and its workers with it; or it is interrupted.
LEMMA KillParentOK ==
    ASSUME RunnerAssumption, RunnerInv, ~Orphans, KillParent \/ Interrupt
    PROVE  RunnerInv'
<1>1. FrozenInv /\ RecordInv /\ disk \in Disks
  BY DEF RunnerInv, TypeInv
<1>2. CASE KillParent
  <2>1. /\ Stop /\ workers' = None
        /\ UNCHANGED <<world, marker, manifest, disk, launches>>
    BY <1>2 DEF KillParent, None
  <2> QED
    BY <2>1, NoneIs, StopAsIs
<1>3. CASE Interrupt
  <2>1. /\ disk' = [disk EXCEPT !.progress = parent.progress] /\ Stop
        /\ parent.phase = "loop"
        /\ workers' = [w \in DOMAIN workers \ parent.active |-> workers[w]]
        /\ UNCHANGED <<world, marker, manifest, launches>>
    BY <1>3 DEF Interrupt
  <2>2. workers' \in [{} -> {}]
    BY <2>1 DEF RunnerInv, TypeInv
  <2>3. parent.progress \in Progress
    BY <1>1, <2>1 DEF RecordInv
  <2>4. /\ disk' \in Disks /\ disk'.staged = disk.staged /\ disk'.sealed = disk.sealed
        /\ disk'.final = disk.final /\ disk'.started = disk.started
        /\ disk'.manifest = disk.manifest /\ disk'.progress = parent.progress
    BY <1>1, <2>1, <2>3 DEF Disks
  <2>5. OneInv'
    BY <2>4 DEF RunnerInv, OneInv, Finished
  <2> QED
    BY <1>1, <2>1, <2>2, <2>4, <2>5, StopOK DEF FrozenInv, RecordInv, AsFrozen
<1> QED
  BY <1>2, <1>3

\* A published artifact is changed or removed.
LEMMA DamageOK ==
    ASSUME RunnerAssumption, RunnerInv, NEW r \in Runs, NEW state \in {"damaged", "gone"},
           Damage(r, state)
    PROVE  RunnerInv'
<1>1. /\ parent.phase = "idle" /\ disk.final[r] # None
      /\ state = "gone" => disk.progress # None /\ disk.progress[r].status = "COMPLETE"
      /\ disk' = [disk EXCEPT !.final[r].state = state]
      /\ UNCHANGED <<world, marker, manifest, parent, workers, queue, launches>>
  BY DEF Damage, Exists, Unmoved
<1> DEFINE a == [disk.final[r] EXCEPT !.state = state]
<1>2. disk \in Disks /\ disk.final \in [Runs -> Artifacts \cup {None}] /\ disk.final[r] \in Artifacts
  BY <1>1 DEF RunnerInv, TypeInv, Disks
<1>3. /\ a \in Artifacts /\ a.state = state /\ a.manifest = disk.final[r].manifest
      /\ a.inputs = disk.final[r].inputs
  BY <1>2 DEF Artifacts
<1>4. a # None
  <2>1. "state" \in DOMAIN a
    BY <1>3 DEF Artifacts
  <2> QED
    BY <2>1, NoneIs
<1>5. disk' = [disk EXCEPT !.final = [disk.final EXCEPT ![r] = a]]
  BY <1>1, <1>2 DEF Disks
<1> DEFINE F == [disk.final EXCEPT ![r] = a]
<1> HIDE DEF a
<1>6. F \in [Runs -> Artifacts \cup {None}] /\ F[r] = a /\ \A x \in Runs \ {r} : F[x] = disk.final[x]
  BY <1>2, <1>3
<1> HIDE DEF F
<1>7. disk' = [disk EXCEPT !.final = F]
  BY <1>5 DEF F
<1>8. disk' \in Disks
  BY <1>2, <1>6, <1>7 DEF Disks
<1>9. /\ disk'.staged = disk.staged /\ disk'.sealed = disk.sealed /\ disk'.started = disk.started
      /\ disk'.manifest = disk.manifest /\ disk'.progress = disk.progress /\ disk'.final = F
  BY <1>2, <1>7 DEF Disks
<1>10. \A x \in Runs : F[x] = None <=> disk.final[x] = None
  BY <1>1, <1>4, <1>6
<1>11. TypeInv'
  BY <1>1, <1>8 DEF RunnerInv, TypeInv
<1>12. OneInv'
  BY <1>9, <1>10 DEF RunnerInv, OneInv, Finished
<1>13. FrozenInv'
  BY <1>1, <1>3, <1>6, <1>9, <1>10 DEF RunnerInv, FrozenInv, AsFrozen
<1>14. RecordInv'
  <2>1. \A i \in 1 .. Len(queue) : queue[i].kind = "COMPLETE" => queue[i].run \in Runs
    BY DEF RunnerInv, TypeInv, Messages
  <2> QED
    BY <1>1, <1>3, <1>6, <1>9, <1>10, <2>1 DEF RunnerInv, RecordInv
<1>15. StageInv' /\ PlanInv' /\ WorkInv'
  <2>1. parent.active = {}
    BY <1>1, NoWorkers DEF RunnerInv
  <2> QED
    BY <1>1, <1>9, <2>1 DEF RunnerInv, StageInv, PlanInv, WorkInv, Finished
<1> QED
  BY <1>11, <1>12, <1>13, <1>14, <1>15 DEF RunnerInv

\* A directory no run names, which nobody sealed.
LEMMA LitterOK ==
    ASSUME RunnerAssumption, RunnerInv, Litter
    PROVE  RunnerInv'
<1> DEFINE n == Name(Foreign, 1, <<launches, 0>>)
<1>1. /\ parent.phase = "idle" /\ disk' = [disk EXCEPT !.staged = @ \cup {n}]
      /\ UNCHANGED <<world, marker, manifest, parent, workers, queue, launches>>
  BY DEF Litter, Unmoved
<1>2. n \in Names /\ n.run = Foreign /\ Foreign \notin Runs
  <2>1. <<launches, 0>> \in WorkerIds
    BY DEF RunnerInv, TypeInv, WorkerIds
  <2>2. 1 \in Attempts
    BY DEF Attempts, MaxAttempts
  <2>3. n \in Names /\ n.run = Foreign
    BY <2>1, <2>2 DEF Name, Names
  <2>4. Foreign \notin Runs
    BY DEF RunnerAssumption
  <2> QED
    BY <2>3, <2>4
<1> HIDE DEF n
<1>3. /\ disk' \in Disks /\ disk'.staged = disk.staged \cup {n} /\ disk'.sealed = disk.sealed
      /\ disk'.final = disk.final /\ disk'.started = disk.started
      /\ disk'.manifest = disk.manifest /\ disk'.progress = disk.progress
  <2>1. disk \in Disks /\ disk.staged \cup {n} \in SUBSET Names
    BY <1>2 DEF RunnerInv, TypeInv, Disks
  <2> QED
    BY <1>1, <2>1 DEF Disks
<1>4. Finished' = Finished
  BY <1>2, <1>3 DEF RunnerInv, OneInv, Finished
<1>5. TypeInv' /\ OneInv' /\ FrozenInv'
  BY <1>1, <1>3, <1>4 DEF RunnerInv, TypeInv, OneInv, FrozenInv, AsFrozen
<1>6. RecordInv' /\ StageInv' /\ PlanInv'
  BY <1>1, <1>3, <1>4 DEF RunnerInv, RecordInv, StageInv, PlanInv
<1>7. WorkInv'
  <2>1. parent.active = {}
    BY <1>1, NoWorkers DEF RunnerInv
  <2> QED
    BY <1>1, <2>1 DEF WorkInv
<1> QED
  BY <1>5, <1>6, <1>7 DEF RunnerInv
----------------------------------------------------------------------------
(* The steps of a worker.                                                  *)

\* Messages are only added, and what they report complete is published.
LEMMA SentOK ==
    ASSUME queue \in Seq(Messages), NEW w \in parent.active, NEW s \in Seq(Messages), NEW D,
           \A i \in 1 .. Len(queue) : queue[i].kind = "COMPLETE" => queue[i].run \in D,
           \A i \in 1 .. Len(s) : s[i].kind = "COMPLETE" => s[i].run \in D
    PROVE  /\ Sent(w, s) \in Seq(Messages)
           /\ \A i \in 1 .. Len(Sent(w, s)) : Sent(w, s)[i].kind = "COMPLETE" => Sent(w, s)[i].run \in D
<1>1. Sent(w, s) = queue \o s
  BY DEF Sent
<1>2. queue \o s \in Seq(Messages) /\ Len(queue \o s) = Len(queue) + Len(s)
  OBVIOUS
<1>3. ASSUME NEW i \in 1 .. Len(queue \o s), (queue \o s)[i].kind = "COMPLETE"
      PROVE  (queue \o s)[i].run \in D
  <2>1. CASE i <= Len(queue)
    <3>1. (queue \o s)[i] = queue[i] /\ i \in 1 .. Len(queue)
      BY <2>1
    <3> QED
      BY <1>3, <3>1
  <2>2. CASE ~(i <= Len(queue))
    <3>1. (queue \o s)[i] = s[i - Len(queue)] /\ i - Len(queue) \in 1 .. Len(s)
      BY <1>2, <2>2
    <3> QED
      BY <1>3, <3>1
  <2> QED
    BY <2>1, <2>2
<1> QED
  BY <1>1, <1>2, <1>3

\* Two workers have two symbols, and a worker is the one of its runs.
LEMMA Apart ==
    ASSUME WorkInv, NEW v \in parent.active, NEW w \in parent.active, v # w
    PROVE  v[2] # w[2]
BY DEF WorkInv, Working

\* What a worker does to its own runs and its own state leaves the rest as it was.
LEMMA WorkerOK ==
    ASSUME RunnerAssumption, RunnerInv, NEW w \in parent.active,
           UNCHANGED <<world, marker, manifest, parent, launches>>,
           workers' \in [parent.active -> [pc : Steps, work : Works, inputs : Versions, manifest : Versions]],
           \A v \in parent.active \ {w} : workers'[v] = workers[v],
           workers'[w].manifest = disk.manifest,
           workers'[w].pc \notin {"boot", "exited", "killed"} => AsFrozen(workers'[w].inputs),
           disk' \in Disks, OneInv', disk'.manifest = disk.manifest, disk'.progress = disk.progress,
           DOMAIN disk.sealed \subseteq DOMAIN disk'.sealed,
           \A n \in DOMAIN disk'.sealed : AsFrozen(disk'.sealed[n]),
           \A n \in DOMAIN disk'.sealed \ DOMAIN disk.sealed : SymbolOf[n.run] = w[2],
           \A r \in Runs : disk.started[r] \subseteq disk'.started[r],
           \A r \in Runs : SymbolOf[r] # w[2] => disk'.final[r] = disk.final[r],
           \A r \in Runs : disk.final[r] # None => disk'.final[r] # None,
           \A r \in Runs : disk'.final[r] # None =>
                /\ disk'.final[r].manifest = disk'.manifest /\ AsFrozen(disk'.final[r].inputs)
                /\ disk'.final[r].state = "gone" => disk.final[r] # None /\ disk.final[r].state = "gone",
           \A n \in Finished' \ Finished : SymbolOf[n.run] = w[2],
           queue' \in Seq(Messages),
           \A i \in 1 .. Len(queue') : queue'[i].kind = "COMPLETE" =>
                queue'[i].run \in {r \in Runs : disk'.final[r] # None},
           Working(w)',
           \A n \in Finished' : SymbolOf[n.run] = w[2] => Held(n)'
    PROVE  RunnerInv'
<1>1. parent.phase = "loop" /\ w = <<launches, w[2]>> /\ WorkInv /\ disk.manifest # None
  BY DEF RunnerInv, TypeInv, WorkInv, Working, FrozenInv
<1>2. TypeInv'
  BY <1>1 DEF RunnerInv, TypeInv
<1>3. FrozenInv'
  BY <1>1 DEF RunnerInv, FrozenInv, AsFrozen
<1>4. RecordInv'
  BY <1>1 DEF RunnerInv, RecordInv
<1>5. StageInv'
  <2>1. ASSUME NEW n \in Finished', SymbolOf[n.run] # w[2] PROVE Held(n)'
    <3> DEFINE v == <<launches, SymbolOf[n.run]>>
    <3>1. n \in Finished /\ Held(n) /\ v # w
      BY <1>1, <2>1 DEF RunnerInv, StageInv
    <3>2. v \in parent.active /\ workers'[v] = workers[v]
      BY <3>1 DEF Held
    <3> QED
      BY <3>1, <3>2 DEF Held, Now
  <2>2. parent.valid \subseteq DOMAIN disk'.sealed
    BY DEF RunnerInv, StageInv
  <2> QED
    BY <1>1, <2>1, <2>2 DEF StageInv
<1>6. ASSUME NEW v \in parent.active, v # w PROVE Working(v)'
  <2>1. workers'[v] = workers[v] /\ v[2] # w[2] /\ Working(v)
    BY <1>1, <1>6, Apart DEF WorkInv
  <2>2. \A r \in DOMAIN workers[v].work :
            r \in Runs /\ disk'.final[r] = disk.final[r] /\ disk.started[r] \subseteq disk'.started[r]
    <3>1. workers[v].work \in Partial(Runs, Attempts)
      BY DEF RunnerInv, TypeInv, Works
    <3>2. DOMAIN workers[v].work \subseteq Runs
      BY <3>1, PartialIs
    <3>3. \A r \in DOMAIN workers[v].work : SymbolOf[r] # w[2]
      BY <2>1 DEF Working
    <3> QED
      BY <3>2, <3>3
  <2>3. Now(v)' = Now(v) /\ Attempt(v)' = Attempt(v) /\ Staging(v)' = Staging(v)
    BY <2>1 DEF Now, Attempt, Staging
  <2>4. DOMAIN workers[v].work # {} =>
            Now(v) \in DOMAIN workers[v].work /\ Staging(v).run = Now(v)
    BY NowIn DEF RunnerInv
  <2>5. workers[v].pc \in {"run", "stage"} => Staging(v) \notin DOMAIN disk'.sealed
    <3> SUFFICES ASSUME workers[v].pc \in {"run", "stage"} PROVE Staging(v) \notin DOMAIN disk'.sealed
      OBVIOUS
    <3>1. Staging(v) \notin DOMAIN disk.sealed /\ DOMAIN workers[v].work # {}
      BY <2>1 DEF Working
    <3>2. SymbolOf[Staging(v).run] # w[2]
      BY <2>1, <2>4, <3>1 DEF Working
    <3> QED
      BY <3>1, <3>2
  <2> QED
    BY <2>1, <2>2, <2>3, <2>4, <2>5 DEF Working
<1>7. WorkInv'
  BY <1>6 DEF WorkInv
<1>8. PlanInv'
  <2>1. ASSUME NEW r \in parent.sel, SymbolOf[r] \in parent.waiting
        PROVE  disk'.final[r] = disk.final[r]
    BY <1>1, <2>1 DEF WorkInv, Working, RunnerInv, TypeInv, Parents
  <2> QED
    BY <2>1 DEF RunnerInv, PlanInv
<1> QED
  BY <1>2, <1>3, <1>4, <1>5, <1>7, <1>8 DEF RunnerInv
\* What every step of a worker starts from.
LEMMA WorkerIs ==
    ASSUME RunnerAssumption, RunnerInv, NEW w \in parent.active
    PROVE  /\ parent.phase = "loop" /\ disk.manifest # None /\ disk \in Disks
           /\ w = <<launches, w[2]>> /\ w \in WorkerIds /\ DOMAIN workers = parent.active
           /\ Working(w)
           /\ workers[w] \in [pc : Steps, work : Works, inputs : Versions, manifest : Versions]
           /\ workers[w].manifest = disk.manifest
           /\ workers[w].pc \notin {"boot", "exited", "killed"} => AsFrozen(workers[w].inputs)
           /\ DOMAIN workers[w].work \subseteq Runs
           /\ \A r \in Runs : ~(disk.final[r] # None /\ disk.final[r].state = "gone")
           /\ \A n \in Finished : SymbolOf[n.run] = w[2] =>
                /\ workers[w].pc \in {"publish", "recover", "killed"}
                /\ workers[w].pc # "killed" => n.run = Now(w)
<1>1. /\ parent.phase = "loop" /\ disk.manifest # None /\ disk \in Disks
      /\ w \in WorkerIds /\ DOMAIN workers = parent.active
      /\ workers[w] \in [pc : Steps, work : Works, inputs : Versions, manifest : Versions]
      /\ workers[w].manifest = disk.manifest
      /\ workers[w].pc \notin {"boot", "exited", "killed"} => AsFrozen(workers[w].inputs)
  BY DEF RunnerInv, TypeInv, FrozenInv, Parents
<1>2. Working(w) /\ w = <<launches, w[2]>>
  BY DEF RunnerInv, WorkInv, Working
<1>3. DOMAIN workers[w].work \subseteq Runs
  BY <1>1, PartialIs DEF Works
<1>4. \A r \in Runs : ~(disk.final[r] # None /\ disk.final[r].state = "gone")
  BY <1>1 DEF RunnerInv, RecordInv
<1>5. \A n \in Finished : SymbolOf[n.run] = w[2] =>
                /\ workers[w].pc \in {"publish", "recover", "killed"}
                /\ workers[w].pc # "killed" => n.run = Now(w)
  BY <1>1, <1>2 DEF RunnerInv, StageInv, Held
<1> QED
  BY <1>1, <1>2, <1>3, <1>4, <1>5

\* The messages of a step, when what they report complete is published.
LEMMA ToldOK ==
    ASSUME RunnerInv, NEW w \in parent.active, NEW s \in Seq(Messages), queue' = Sent(w, s),
           \A i \in 1 .. Len(s) : s[i].kind = "COMPLETE" =>
                s[i].run \in {r \in Runs : disk'.final[r] # None},
           \A r \in Runs : disk.final[r] # None => disk'.final[r] # None
    PROVE  /\ queue' \in Seq(Messages)
           /\ \A i \in 1 .. Len(queue') : queue'[i].kind = "COMPLETE" =>
                queue'[i].run \in {r \in Runs : disk'.final[r] # None}
<1>1. queue \in Seq(Messages)
  BY DEF RunnerInv, TypeInv
<1>2. \A i \in 1 .. Len(queue) : queue[i].kind = "COMPLETE" =>
            queue[i].run \in {r \in Runs : disk'.final[r] # None}
  <2>1. \A i \in 1 .. Len(queue) : queue[i].kind = "COMPLETE" => queue[i].run \in Runs
    BY <1>1 DEF Messages
  <2> QED
    BY <2>1 DEF RunnerInv, RecordInv
<1> QED
  BY <1>1, <1>2, SentOK

\* The same when none reports a completed run.
LEMMA QuietOK ==
    ASSUME RunnerInv, NEW w \in parent.active, NEW s \in Seq(Messages), queue' = Sent(w, s),
           \A i \in 1 .. Len(s) : s[i].kind # "COMPLETE",
           \A r \in Runs : disk.final[r] # None => disk'.final[r] # None
    PROVE  /\ queue' \in Seq(Messages)
           /\ \A i \in 1 .. Len(queue') : queue'[i].kind = "COMPLETE" =>
                queue'[i].run \in {r \in Runs : disk'.final[r] # None}
BY ToldOK

\* Steps that move a worker and nothing else.
LEMMA MoveOK ==
    ASSUME RunnerAssumption, RunnerInv, NEW w \in parent.active, NEW p \in Steps,
           UNCHANGED <<world, marker, manifest, disk, parent, launches>>,
           workers' = [workers EXCEPT ![w].pc = p],
           queue' \in Seq(Messages),
           \A i \in 1 .. Len(queue') : queue'[i].kind = "COMPLETE" =>
                queue'[i].run \in {r \in Runs : disk'.final[r] # None},
           \/ p = "exited" /\ workers[w].pc \notin {"publish", "recover", "killed"}
           \/ p = "killed"
           \/ p = "recover" /\ workers[w].pc \in {"run", "stage", "publish", "report"}
           \/ p = "fatal" /\ workers[w].pc \in {"run", "stage"}
    PROVE  RunnerInv'
<1>1. /\ parent.phase = "loop" /\ disk.manifest # None /\ disk \in Disks
      /\ w = <<launches, w[2]>> /\ DOMAIN workers = parent.active /\ Working(w)
      /\ workers[w] \in [pc : Steps, work : Works, inputs : Versions, manifest : Versions]
      /\ workers[w].manifest = disk.manifest
      /\ workers[w].pc \notin {"boot", "exited", "killed"} => AsFrozen(workers[w].inputs)
      /\ \A n \in Finished : SymbolOf[n.run] = w[2] =>
                /\ workers[w].pc \in {"publish", "recover", "killed"}
                /\ workers[w].pc # "killed" => n.run = Now(w)
  BY WorkerIs
<1>2. /\ workers' \in [parent.active -> [pc : Steps, work : Works, inputs : Versions, manifest : Versions]]
      /\ \A v \in parent.active \ {w} : workers'[v] = workers[v]
      /\ workers'[w].pc = p /\ workers'[w].work = workers[w].work
      /\ workers'[w].inputs = workers[w].inputs /\ workers'[w].manifest = disk.manifest
  BY <1>1 DEF RunnerInv, TypeInv
<1>3. Now(w)' = Now(w)
  BY <1>2 DEF Now
<1>4. Working(w)'
  BY <1>1, <1>2, <1>3 DEF Working
<1>5. \A n \in Finished' : SymbolOf[n.run] = w[2] => Held(n)'
  <2> SUFFICES ASSUME NEW n \in Finished', SymbolOf[n.run] = w[2] PROVE Held(n)'
    OBVIOUS
  <2>1. n \in Finished /\ <<launches', SymbolOf[n.run]>> = w
    BY <1>1 DEF Finished
  <2>2. /\ workers[w].pc \in {"publish", "recover", "killed"}
        /\ workers[w].pc # "killed" => n.run = Now(w)
    BY <1>1, <2>1
  <2>3. p \in {"recover", "killed"} /\ (p # "killed" => n.run = Now(w)')
    BY <1>3, <2>2
  <2> QED
    BY <1>2, <2>1, <2>3 DEF Held, Now
<1>6. workers'[w].pc \notin {"boot", "exited", "killed"} => AsFrozen(workers'[w].inputs)
  BY <1>1, <1>2
<1>7. OneInv' /\ Finished' = Finished
  BY DEF RunnerInv, OneInv, Finished
<1>8. /\ \A n \in DOMAIN disk.sealed : AsFrozen(disk.sealed[n])
      /\ \A r \in Runs : disk.final[r] # None =>
            disk.final[r].manifest = disk.manifest /\ AsFrozen(disk.final[r].inputs)
  BY DEF RunnerInv, FrozenInv
<1> QED
  BY <1>1, <1>2, <1>4, <1>5, <1>6, <1>7, <1>8, WorkerOK

\* A message of a worker about its run.
LEMMA MessageIs ==
    ASSUME RunnerAssumption, RunnerInv, NEW w \in parent.active, DOMAIN workers[w].work # {},
           NEW kind \in DOMAIN StatusOf
    PROVE  /\ Message(w, kind) \in Messages /\ Message(w, kind).kind = kind
           /\ Message(w, kind).run = Now(w)
<1>1. Now(w) \in Runs /\ Attempt(w) \in Attempts
  BY NowIn DEF RunnerInv
<1>2. w \in WorkerIds
  BY WorkerIs
<1> QED
  BY <1>1, <1>2 DEF Message, Messages

\* Giving up: what is told before, and that the worker ends.
LEMMA GiveUpIs ==
    ASSUME RunnerAssumption, RunnerInv, NEW w \in parent.active, NEW s \in Seq(Messages), GiveUp(w, s),
           \A i \in 1 .. Len(s) : s[i].kind # "COMPLETE",
           \A r \in Runs : disk.final[r] # None => disk'.final[r] # None
    PROVE  /\ workers' = [workers EXCEPT ![w].pc = "exited"]
           /\ queue' \in Seq(Messages)
           /\ \A i \in 1 .. Len(queue') : queue'[i].kind = "COMPLETE" =>
                queue'[i].run \in {r \in Runs : disk'.final[r] # None}
<1> DEFINE e == [kind |-> "WORKER_FATAL", by |-> w]
<1>1. e \in Messages /\ e.kind # "COMPLETE"
  BY WorkerIs DEF Messages
<1> HIDE DEF e
<1>2. s \o <<e>> \in Seq(Messages) /\ \A i \in 1 .. Len(s \o <<e>>) : (s \o <<e>>)[i].kind # "COMPLETE"
  <2>1. s \o <<e>> \in Seq(Messages) /\ Len(s \o <<e>>) = Len(s) + 1
    BY <1>1
  <2>2. ASSUME NEW i \in 1 .. Len(s \o <<e>>) PROVE (s \o <<e>>)[i].kind # "COMPLETE"
    <3>1. (s \o <<e>>)[i] = IF i <= Len(s) THEN s[i] ELSE e
      BY <1>1, <2>1
    <3> QED
      BY <1>1, <2>1, <3>1
  <2> QED
    BY <2>1, <2>2
<1>3. queue' = Sent(w, s \o <<e>>) /\ workers' = [workers EXCEPT ![w].pc = "exited"]
  BY DEF GiveUp, Exit, e
<1> QED
  BY <1>2, <1>3, QuietOK
\* Where a worker stands, as its program counter says.
LEMMA AtIs ==
    ASSUME RunnerInv, NEW w \in DOMAIN workers
    PROVE  w \in parent.active /\ \A pc : At(w, pc) <=> workers[w].pc = pc
BY DEF RunnerInv, TypeInv, At

\* Messages that are not touched stay sound.
LEMMA SilentOK ==
    ASSUME RunnerInv, UNCHANGED queue,
           \A r \in Runs : disk.final[r] # None => disk'.final[r] # None
    PROVE  /\ queue' \in Seq(Messages)
           /\ \A i \in 1 .. Len(queue') : queue'[i].kind = "COMPLETE" =>
                queue'[i].run \in {r \in Runs : disk'.final[r] # None}
<1>1. queue \in Seq(Messages)
  BY DEF RunnerInv, TypeInv
<1>2. \A i \in 1 .. Len(queue) : queue[i].kind = "COMPLETE" => queue[i].run \in Runs
  BY <1>1 DEF Messages
<1> QED
  BY <1>1, <1>2 DEF RunnerInv, RecordInv

\* Errors and kills, and the end of the work.
LEMMA FaultOK ==
    ASSUME RunnerAssumption, RunnerInv, NEW w \in DOMAIN workers,
           Retryable(w) \/ NotRetryable(w) \/ KillWorker(w) \/ Leave(w)
    PROVE  RunnerInv'
<1>1. w \in parent.active /\ \A pc : At(w, pc) <=> workers[w].pc = pc
  BY AtIs
<1>2. UNCHANGED <<world, marker, manifest, disk, parent, queue, launches>>
  BY DEF Retryable, NotRetryable, KillWorker, Leave, Unmoved
<1>3. /\ queue' \in Seq(Messages)
      /\ \A i \in 1 .. Len(queue') : queue'[i].kind = "COMPLETE" =>
                queue'[i].run \in {r \in Runs : disk'.final[r] # None}
  BY <1>2, SilentOK
<1>4. CASE Retryable(w)
  <2>1. /\ workers' = [workers EXCEPT ![w].pc = "recover"]
        /\ workers[w].pc \in {"run", "stage", "publish", "report"}
    BY <1>1, <1>4 DEF Retryable, GoTo
  <2> QED
    BY <1>1, <1>2, <1>3, <2>1, MoveOK DEF Steps
<1>5. CASE NotRetryable(w)
  <2>1. workers' = [workers EXCEPT ![w].pc = "fatal"] /\ workers[w].pc \in {"run", "stage"}
    BY <1>1, <1>5 DEF NotRetryable, GoTo
  <2> QED
    BY <1>1, <1>2, <1>3, <2>1, MoveOK DEF Steps
<1>6. CASE KillWorker(w)
  <2>1. workers' = [workers EXCEPT ![w].pc = "killed"]
    BY <1>6 DEF KillWorker, GoTo
  <2> QED
    BY <1>1, <1>2, <1>3, <2>1, MoveOK DEF Steps
<1>7. CASE Leave(w)
  <2>1. workers' = [workers EXCEPT ![w].pc = "exited"] /\ workers[w].pc = "next"
    BY <1>1, <1>7 DEF Leave, Exit
  <2> QED
    BY <1>1, <1>2, <1>3, <2>1, MoveOK DEF Steps
<1> QED
  BY <1>4, <1>5, <1>6, <1>7

\* A worker that gives up before it has staged anything.
LEMMA GiveUpOK ==
    ASSUME RunnerAssumption, RunnerInv, NEW w \in parent.active, GiveUp(w, <<>>),
           workers[w].pc \notin {"publish", "recover", "killed"},
           UNCHANGED <<world, marker, manifest, disk, parent, launches>>
    PROVE  RunnerInv'
<1>1. <<>> \in Seq(Messages) /\ \A i \in 1 .. Len(<<>>) : <<>>[i].kind # "COMPLETE"
  OBVIOUS
<1>2. /\ workers' = [workers EXCEPT ![w].pc = "exited"]
      /\ queue' \in Seq(Messages)
      /\ \A i \in 1 .. Len(queue') : queue'[i].kind = "COMPLETE" =>
                queue'[i].run \in {r \in Runs : disk'.final[r] # None}
  BY <1>1, GiveUpIs
<1> QED
  BY <1>2, MoveOK DEF Steps

\* Inputs are loaded and compared with the manifest.
LEMMA BootOK ==
    ASSUME RunnerAssumption, RunnerInv, NEW w \in DOMAIN workers, Boot(w)
    PROVE  RunnerInv'
<1>1. /\ w \in parent.active /\ workers[w].pc = "boot"
      /\ UNCHANGED <<world, marker, manifest, disk, parent, launches>>
  BY AtIs DEF Boot, Unmoved
<1>2. CASE GiveUp(w, <<>>)
  BY <1>1, <1>2, GiveUpOK
<1>3. CASE /\ \A p \in {"data", "runtime"} : world[p] = workers[w].manifest[p]
           /\ workers' = [workers EXCEPT ![w].pc = "next", ![w].inputs = world]
           /\ UNCHANGED queue
  <2>1. /\ parent.phase = "loop" /\ disk \in Disks /\ w = <<launches, w[2]>>
        /\ DOMAIN workers = parent.active /\ Working(w)
        /\ workers[w] \in [pc : Steps, work : Works, inputs : Versions, manifest : Versions]
        /\ workers[w].manifest = disk.manifest
        /\ \A n \in Finished : SymbolOf[n.run] # w[2]
        /\ world \in Versions
    BY <1>1, WorkerIs DEF RunnerInv, TypeInv, Versions
  <2>2. /\ workers' \in [parent.active -> [pc : Steps, work : Works, inputs : Versions, manifest : Versions]]
        /\ \A v \in parent.active \ {w} : workers'[v] = workers[v]
        /\ workers'[w].pc = "next" /\ workers'[w].work = workers[w].work
        /\ workers'[w].inputs = world /\ workers'[w].manifest = disk.manifest
    BY <1>3, <2>1 DEF RunnerInv, TypeInv, Steps
  <2>3. AsFrozen(workers'[w].inputs)
    BY <1>3, <2>1, <2>2 DEF AsFrozen
  <2>4. Working(w)'
    BY <1>1, <2>1, <2>2 DEF Working
  <2>5. OneInv' /\ Finished' = Finished
    BY <1>1 DEF RunnerInv, OneInv, Finished
  <2>6. /\ \A n \in DOMAIN disk.sealed : AsFrozen(disk.sealed[n])
        /\ \A r \in Runs : disk.final[r] # None =>
            disk.final[r].manifest = disk.manifest /\ AsFrozen(disk.final[r].inputs)
    BY DEF RunnerInv, FrozenInv
  <2>7. /\ queue' \in Seq(Messages)
        /\ \A i \in 1 .. Len(queue') : queue'[i].kind = "COMPLETE" =>
                queue'[i].run \in {r \in Runs : disk'.final[r] # None}
    BY <1>1, <1>3, SilentOK
  <2> QED
    BY <1>1, <2>1, <2>2, <2>3, <2>4, <2>5, <2>6, <2>7, WorkerOK
<1> QED
  BY <1>2, <1>3 DEF Boot

\* A step that records an attempt, a failure or a staged directory, and moves
\* the worker on the same run: what it needs of the disk.
LEMMA FrozenSame ==
    ASSUME RunnerInv, disk'.manifest = disk.manifest, disk'.sealed = disk.sealed,
           disk'.final = disk.final
    PROVE  /\ \A n \in DOMAIN disk'.sealed : AsFrozen(disk'.sealed[n])
           /\ \A r \in Runs : disk'.final[r] # None =>
                /\ disk'.final[r].manifest = disk'.manifest /\ AsFrozen(disk'.final[r].inputs)
                /\ disk'.final[r].state = "gone" => disk.final[r] # None /\ disk.final[r].state = "gone"
           /\ \A r \in Runs : disk.final[r] # None => disk'.final[r] # None
BY DEF RunnerInv, FrozenInv

\* An attempt is recorded, and run.
LEMMA StartOK ==
    ASSUME RunnerAssumption, RunnerInv, NEW w \in DOMAIN workers, Start(w)
    PROVE  RunnerInv'
<1>1. /\ w \in parent.active /\ workers[w].pc = "next" /\ DOMAIN workers[w].work # {}
      /\ UNCHANGED <<world, marker, manifest, parent, launches>>
  BY AtIs DEF Start, Unmoved
<1>2. CASE GiveUp(w, <<>>) /\ UNCHANGED <<disk, ran>>
  BY <1>1, <1>2, GiveUpOK
<1>3. CASE /\ Attempt(w) \notin disk.started[Now(w)]
           /\ disk' = [disk EXCEPT !.started[Now(w)] = @ \cup {Attempt(w)}]
           /\ queue' = Sent(w, <<Message(w, "STARTED")>>)
           /\ workers' = [workers EXCEPT ![w].pc = "run"]
  <2>1. /\ parent.phase = "loop" /\ disk \in Disks /\ w = <<launches, w[2]>>
        /\ DOMAIN workers = parent.active /\ Working(w)
        /\ workers[w] \in [pc : Steps, work : Works, inputs : Versions, manifest : Versions]
        /\ workers[w].manifest = disk.manifest /\ AsFrozen(workers[w].inputs)
        /\ \A n \in Finished : SymbolOf[n.run] # w[2]
    BY <1>1, WorkerIs
  <2>2. Now(w) \in DOMAIN workers[w].work /\ Now(w) \in Runs /\ Attempt(w) \in Attempts
        /\ Staging(w).run = Now(w) /\ Staging(w).attempt = Attempt(w)
    BY <1>1, NowIn DEF RunnerInv
  <2> DEFINE S == [disk.started EXCEPT ![Now(w)] = @ \cup {Attempt(w)}]
  <2>3. /\ S \in [Runs -> SUBSET Attempts] /\ S[Now(w)] = disk.started[Now(w)] \cup {Attempt(w)}
        /\ \A r \in Runs : disk.started[r] \subseteq S[r]
    <3>1. disk.started \in [Runs -> SUBSET Attempts]
      BY <2>1 DEF Disks
    <3>2. Now(w) \in Runs /\ Attempt(w) \in Attempts
      BY <2>2
    <3> QED
      BY <3>1, <3>2
  <2>4. disk' = [disk EXCEPT !.started = S]
    BY <1>3
  <2> HIDE DEF S
  <2>5. disk' \in Disks
    <3>1. S \in Starts
      BY <2>3 DEF Starts
    <3> QED
      BY <2>1, <2>4, <3>1, DiskStarts
  <2>6. /\ disk'.started = S /\ disk'.staged = disk.staged /\ disk'.sealed = disk.sealed
        /\ disk'.final = disk.final /\ disk'.progress = disk.progress /\ disk'.manifest = disk.manifest
    BY <2>1, <2>4 DEF Disks
  <2>7. OneInv' /\ Finished' = Finished
    BY <2>3, <2>6 DEF RunnerInv, OneInv, Finished
  <2>8. /\ workers' \in [parent.active -> [pc : Steps, work : Works, inputs : Versions, manifest : Versions]]
        /\ \A v \in parent.active \ {w} : workers'[v] = workers[v]
        /\ workers'[w].pc = "run" /\ workers'[w].work = workers[w].work
        /\ workers'[w].inputs = workers[w].inputs /\ workers'[w].manifest = disk.manifest
    BY <1>3, <2>1 DEF RunnerInv, TypeInv, Steps
  <2>9. Now(w)' = Now(w) /\ Attempt(w)' = Attempt(w) /\ Staging(w)' = Staging(w)
    BY <2>8 DEF Now, Attempt, Staging
  <2>10. Staging(w) \notin DOMAIN disk.sealed
    BY <1>3, <2>2 DEF RunnerInv, OneInv
  <2>11. Working(w)'
    BY <1>1, <2>1, <2>2, <2>3, <2>6, <2>8, <2>9, <2>10 DEF Working
  <2>12. /\ queue' \in Seq(Messages)
         /\ \A i \in 1 .. Len(queue') : queue'[i].kind = "COMPLETE" =>
                queue'[i].run \in {r \in Runs : disk'.final[r] # None}
    <3> DEFINE m == Message(w, "STARTED")
    <3>1. m \in Messages /\ m.kind = "STARTED"
      BY <1>1, MessageIs DEF StatusOf
    <3> HIDE DEF m
    <3>2. <<m>> \in Seq(Messages) /\ \A i \in 1 .. Len(<<m>>) : <<m>>[i].kind # "COMPLETE"
      BY <3>1
    <3>3. queue' = Sent(w, <<m>>)
      BY <1>3 DEF m
    <3> QED
      BY <1>1, <2>6, <3>2, <3>3, QuietOK
  <2>13. /\ \A n \in DOMAIN disk'.sealed : AsFrozen(disk'.sealed[n])
         /\ \A r \in Runs : disk'.final[r] # None =>
                /\ disk'.final[r].manifest = disk'.manifest /\ AsFrozen(disk'.final[r].inputs)
                /\ disk'.final[r].state = "gone" => disk.final[r] # None /\ disk.final[r].state = "gone"
         /\ \A r \in Runs : disk.final[r] # None => disk'.final[r] # None
    BY <2>6, FrozenSame
  <2>14. \A n \in Finished' : SymbolOf[n.run] = w[2] => Held(n)'
    BY <2>1, <2>7
  <2> QED
    BY <1>1, <2>1, <2>3, <2>5, <2>6, <2>7, <2>8, <2>11, <2>12, <2>13, <2>14, WorkerOK
<1> QED
  BY <1>2, <1>3 DEF Start, GoTo
\* The run is executed, and its directory staged.
LEMMA StageOK ==
    ASSUME RunnerAssumption, RunnerInv, NEW w \in DOMAIN workers, Stage(w)
    PROVE  RunnerInv'
<1>1. /\ w \in parent.active /\ workers[w].pc = "run"
      /\ UNCHANGED <<world, marker, manifest, parent, queue, launches>>
  BY AtIs DEF Stage, Unmoved
<1>2. CASE workers' = [workers EXCEPT ![w].pc = "fatal"] /\ UNCHANGED disk
  <2>1. /\ queue' \in Seq(Messages)
        /\ \A i \in 1 .. Len(queue') : queue'[i].kind = "COMPLETE" =>
                queue'[i].run \in {r \in Runs : disk'.final[r] # None}
    BY <1>1, <1>2, SilentOK
  <2> QED
    BY <1>1, <1>2, <2>1, MoveOK DEF Steps
<1>3. CASE /\ disk' = [disk EXCEPT !.staged = @ \cup {Staging(w)}]
           /\ workers' = [workers EXCEPT ![w].pc = "stage"]
  <2>1. /\ parent.phase = "loop" /\ disk \in Disks /\ w = <<launches, w[2]>>
        /\ DOMAIN workers = parent.active /\ Working(w)
        /\ workers[w] \in [pc : Steps, work : Works, inputs : Versions, manifest : Versions]
        /\ workers[w].manifest = disk.manifest /\ AsFrozen(workers[w].inputs)
        /\ \A n \in Finished : SymbolOf[n.run] # w[2]
    BY <1>1, WorkerIs
  <2>2. DOMAIN workers[w].work # {} /\ Staging(w) \notin DOMAIN disk.sealed
    BY <1>1, <2>1 DEF Working
  <2>3. Now(w) \in DOMAIN workers[w].work /\ Staging(w) \in Names
    BY <1>1, <2>2, NowIn DEF RunnerInv
  <2>4. disk' \in Disks
    <3>1. disk.staged \cup {Staging(w)} \in SUBSET Names
      BY <2>1, <2>3 DEF Disks
    <3> QED
      BY <1>3, <2>1, <3>1 DEF Disks
  <2>5. /\ disk'.staged = disk.staged \cup {Staging(w)} /\ disk'.sealed = disk.sealed
        /\ disk'.final = disk.final /\ disk'.started = disk.started
        /\ disk'.progress = disk.progress /\ disk'.manifest = disk.manifest
    BY <1>3, <2>1 DEF Disks
  <2>6. Finished' = Finished
    BY <2>2, <2>5 DEF Finished
  <2>7. OneInv'
    BY <2>5, <2>6 DEF RunnerInv, OneInv
  <2>8. /\ workers' \in [parent.active -> [pc : Steps, work : Works, inputs : Versions, manifest : Versions]]
        /\ \A v \in parent.active \ {w} : workers'[v] = workers[v]
        /\ workers'[w].pc = "stage" /\ workers'[w].work = workers[w].work
        /\ workers'[w].inputs = workers[w].inputs /\ workers'[w].manifest = disk.manifest
    BY <1>3, <2>1 DEF RunnerInv, TypeInv, Steps
  <2>9. Now(w)' = Now(w) /\ Attempt(w)' = Attempt(w) /\ Staging(w)' = Staging(w)
    BY <2>8 DEF Now, Attempt, Staging
  <2>10. Working(w)'
    BY <1>1, <2>1, <2>2, <2>3, <2>5, <2>8, <2>9 DEF Working
  <2>11. /\ \A n \in DOMAIN disk'.sealed : AsFrozen(disk'.sealed[n])
         /\ \A r \in Runs : disk'.final[r] # None =>
                /\ disk'.final[r].manifest = disk'.manifest /\ AsFrozen(disk'.final[r].inputs)
                /\ disk'.final[r].state = "gone" => disk.final[r] # None /\ disk.final[r].state = "gone"
         /\ \A r \in Runs : disk.final[r] # None => disk'.final[r] # None
    BY <2>5, FrozenSame
  <2>12. /\ queue' \in Seq(Messages)
         /\ \A i \in 1 .. Len(queue') : queue'[i].kind = "COMPLETE" =>
                queue'[i].run \in {r \in Runs : disk'.final[r] # None}
    BY <1>1, <2>11, SilentOK
  <2>13. \A n \in Finished' : SymbolOf[n.run] = w[2] => Held(n)'
    BY <2>1, <2>6
  <2> QED
    BY <1>1, <2>1, <2>4, <2>5, <2>6, <2>7, <2>8, <2>10, <2>11, <2>12, <2>13, WorkerOK
<1> QED
  BY <1>2, <1>3 DEF Stage, GoTo

\* A new seal among the others.
LEMMA SealedIs ==
    ASSUME NEW f \in Partial(Names, Versions), NEW n \in Names, NEW v \in Versions
    PROVE  /\ Extended(f, n, v) \in Partial(Names, Versions)
           /\ DOMAIN Extended(f, n, v) = DOMAIN f \cup {n}
           /\ Extended(f, n, v)[n] = v
           /\ \A m \in DOMAIN f \ {n} : Extended(f, n, v)[m] = f[m]
<1>1. DOMAIN f \subseteq Names /\ f \in [DOMAIN f -> Versions]
  BY PartialIs
<1> DEFINE g == Extended(f, n, v)
<1>2. g = [m \in DOMAIN f \cup {n} |-> IF m = n THEN v ELSE f[m]]
  BY DEF Extended
<1>3. DOMAIN g = DOMAIN f \cup {n} /\ g \in [DOMAIN g -> Versions]
  BY <1>1, <1>2
<1>4. g \in Partial(Names, Versions)
  <2> HIDE DEF g
  <2> QED
    BY <1>1, <1>3, PartialIs
<1> QED
  BY <1>2, <1>3, <1>4

\* The staged artifact is sealed: it is the only finished one of its run.
LEMMA SealOK ==
    ASSUME RunnerAssumption, RunnerInv, NEW w \in DOMAIN workers, Seal(w)
    PROVE  RunnerInv'
<1>1. /\ w \in parent.active /\ workers[w].pc = "stage"
      /\ UNCHANGED <<world, marker, manifest, parent, queue, launches>>
  BY AtIs DEF Seal, Unmoved
<1>2. CASE workers' = [workers EXCEPT ![w].pc = "fatal"] /\ UNCHANGED disk
  <2>1. /\ queue' \in Seq(Messages)
        /\ \A i \in 1 .. Len(queue') : queue'[i].kind = "COMPLETE" =>
                queue'[i].run \in {r \in Runs : disk'.final[r] # None}
    BY <1>1, <1>2, SilentOK
  <2> QED
    BY <1>1, <1>2, <2>1, MoveOK DEF Steps
<1>3. CASE /\ disk' = [disk EXCEPT !.sealed = Extended(@, Staging(w), workers[w].inputs)]
           /\ workers' = [workers EXCEPT ![w].pc = "publish"]
  <2>1. /\ parent.phase = "loop" /\ disk \in Disks /\ w = <<launches, w[2]>>
        /\ DOMAIN workers = parent.active /\ Working(w)
        /\ workers[w] \in [pc : Steps, work : Works, inputs : Versions, manifest : Versions]
        /\ workers[w].manifest = disk.manifest /\ AsFrozen(workers[w].inputs)
        /\ \A n \in Finished : SymbolOf[n.run] # w[2]
    BY <1>1, WorkerIs
  <2>2. /\ DOMAIN workers[w].work # {} /\ Staging(w) \notin DOMAIN disk.sealed
        /\ Attempt(w) \in disk.started[Now(w)]
        /\ \A r \in DOMAIN workers[w].work : disk.final[r] = None /\ SymbolOf[r] = w[2]
    BY <1>1, <2>1 DEF Working
  <2>3. Now(w) \in DOMAIN workers[w].work /\ Now(w) \in Runs /\ Staging(w) \in Names
        /\ Staging(w).run = Now(w) /\ Staging(w).attempt = Attempt(w)
    BY <1>1, <2>2, NowIn DEF RunnerInv
  <2> DEFINE S == Extended(disk.sealed, Staging(w), workers[w].inputs)
  <2>4. disk.sealed \in Partial(Names, Versions) /\ workers[w].inputs \in Versions
    BY <2>1 DEF Disks
  <2>5. /\ S \in Partial(Names, Versions) /\ DOMAIN S = DOMAIN disk.sealed \cup {Staging(w)}
        /\ S[Staging(w)] = workers[w].inputs
        /\ \A n \in DOMAIN disk.sealed \ {Staging(w)} : S[n] = disk.sealed[n]
    <3>1. PICK f \in Partial(Names, Versions) : f = disk.sealed
      BY <2>4, Zenon
    <3>2. PICK n \in Names : n = Staging(w)
      BY <2>3, Zenon
    <3>3. PICK v \in Versions : v = workers[w].inputs
      BY <2>4, Zenon
    <3>4. S = Extended(f, n, v)
      BY <3>1, <3>2, <3>3, Zenon
    <3> HIDE DEF S
    <3> QED
      BY <3>1, <3>2, <3>3, <3>4, SealedIs
  <2>6. disk' = [disk EXCEPT !.sealed = S]
    BY <1>3
  <2> HIDE DEF S
  <2>7. disk' \in Disks
    BY <2>1, <2>5, <2>6 DEF Disks
  <2>8. /\ disk'.staged = disk.staged /\ disk'.sealed = S
        /\ disk'.final = disk.final /\ disk'.started = disk.started
        /\ disk'.progress = disk.progress /\ disk'.manifest = disk.manifest
    BY <2>1, <2>6 DEF Disks
  <2>9. Finished \subseteq Finished' /\ Finished' \subseteq Finished \cup {Staging(w)}
    BY <2>5, <2>8 DEF Finished
  <2>10. SymbolOf[Staging(w).run] = w[2] /\ disk.final[Staging(w).run] = None
    BY <2>2, <2>3
  <2>11. OneInv'
    <3>1. \A n \in DOMAIN S : n.run \in Runs /\ n.attempt \in disk.started[n.run]
      BY <2>2, <2>3, <2>5 DEF RunnerInv, OneInv
    <3>2. \A n \in Finished' : disk.final[n.run] = None
      BY <2>9, <2>10 DEF RunnerInv, OneInv
    <3>3. \A n \in Finished : n.run # Staging(w).run
      BY <2>1, <2>10
    <3>4. \A n, m \in Finished' : n.run = m.run => n = m
      BY <2>9, <3>3 DEF RunnerInv, OneInv
    <3> QED
      BY <2>8, <3>1, <3>2, <3>4 DEF OneInv
  <2>12. /\ workers' \in [parent.active -> [pc : Steps, work : Works, inputs : Versions, manifest : Versions]]
         /\ \A v \in parent.active \ {w} : workers'[v] = workers[v]
         /\ workers'[w].pc = "publish" /\ workers'[w].work = workers[w].work
         /\ workers'[w].inputs = workers[w].inputs /\ workers'[w].manifest = disk.manifest
    BY <1>3, <2>1 DEF RunnerInv, TypeInv, Steps
  <2>13. Now(w)' = Now(w) /\ Staging(w)' = Staging(w)
    BY <2>12 DEF Now, Attempt, Staging
  <2>14. Working(w)'
    BY <1>1, <2>1, <2>2, <2>3, <2>5, <2>8, <2>12, <2>13 DEF Working
  <2>15. /\ \A n \in DOMAIN disk'.sealed : AsFrozen(disk'.sealed[n])
         /\ \A r \in Runs : disk'.final[r] # None =>
                /\ disk'.final[r].manifest = disk'.manifest /\ AsFrozen(disk'.final[r].inputs)
                /\ disk'.final[r].state = "gone" => disk.final[r] # None /\ disk.final[r].state = "gone"
         /\ \A r \in Runs : disk.final[r] # None => disk'.final[r] # None
    BY <2>1, <2>2, <2>5, <2>8 DEF RunnerInv, FrozenInv
  <2>16. /\ queue' \in Seq(Messages)
         /\ \A i \in 1 .. Len(queue') : queue'[i].kind = "COMPLETE" =>
                queue'[i].run \in {r \in Runs : disk'.final[r] # None}
    BY <1>1, <2>15, SilentOK
  <2>17. \A n \in Finished' : SymbolOf[n.run] = w[2] => Held(n)'
    <3>1. ASSUME NEW n \in Finished', SymbolOf[n.run] = w[2] PROVE Held(n)'
      <4>1. n = Staging(w) /\ n.run = Now(w) /\ <<launches', SymbolOf[n.run]>> = w
        BY <1>1, <2>1, <2>3, <2>9, <3>1
      <4> QED
        BY <1>1, <2>12, <2>13, <4>1 DEF Held
    <3> QED
      BY <3>1
  <2>18. /\ DOMAIN disk.sealed \subseteq DOMAIN disk'.sealed
         /\ \A n \in DOMAIN disk'.sealed \ DOMAIN disk.sealed : SymbolOf[n.run] = w[2]
         /\ \A n \in Finished' \ Finished : SymbolOf[n.run] = w[2]
    BY <2>5, <2>8, <2>9, <2>10
  <2> QED
    BY <1>1, <2>1, <2>7, <2>8, <2>11, <2>12, <2>14, <2>15, <2>16, <2>17, <2>18, WorkerOK
<1> QED
  BY <1>2, <1>3 DEF Seal, GoTo
\* A published run leaves the worker's list, and its completion is told.
LEMMA CompletedOK ==
    ASSUME RunnerAssumption, RunnerInv, NEW w \in parent.active,
           workers[w].pc \in {"report", "recover"},
           UNCHANGED <<world, marker, manifest, parent, launches>>,
           workers' = Completed(w), queue' = Sent(w, <<Message(w, "COMPLETE")>>),
           disk' \in Disks, OneInv', disk'.manifest = disk.manifest, disk'.progress = disk.progress,
           disk'.sealed = disk.sealed, disk'.started = disk.started,
           disk'.final[Now(w)] # None,
           \A r \in Runs \ {Now(w)} : disk'.final[r] = disk.final[r],
           \A r \in Runs : disk.final[r] # None => disk'.final[r] # None,
           \A r \in Runs : disk'.final[r] # None =>
                /\ disk'.final[r].manifest = disk'.manifest /\ AsFrozen(disk'.final[r].inputs)
                /\ disk'.final[r].state = "gone" => disk.final[r] # None /\ disk.final[r].state = "gone",
           Finished' \subseteq Finished, \A n \in Finished' : n.run # Now(w)
    PROVE  RunnerInv'
<1>1. /\ parent.phase = "loop" /\ w = <<launches, w[2]>>
      /\ DOMAIN workers = parent.active /\ Working(w)
      /\ workers[w] \in [pc : Steps, work : Works, inputs : Versions, manifest : Versions]
      /\ workers[w].manifest = disk.manifest /\ AsFrozen(workers[w].inputs)
      /\ \A n \in Finished : SymbolOf[n.run] = w[2] => n.run = Now(w)
      /\ DOMAIN workers[w].work \subseteq Runs
  BY WorkerIs
<1>2. /\ DOMAIN workers[w].work # {}
      /\ \A r \in DOMAIN workers[w].work : SymbolOf[r] = w[2]
      /\ \A r \in DOMAIN workers[w].work \ {Now(w)} : disk.final[r] = None
  BY <1>1 DEF Working
<1>3. Now(w) \in DOMAIN workers[w].work /\ Now(w) \in Runs
  BY <1>2, NowIn DEF RunnerInv
<1> DEFINE W == [r \in DOMAIN workers[w].work \ {Now(w)} |-> workers[w].work[r]]
<1>4. DOMAIN W = DOMAIN workers[w].work \ {Now(w)} /\ W \in Works
  <2>1. workers[w].work \in Partial(Runs, Attempts)
    BY <1>1 DEF Works
  <2>2. workers[w].work \in [DOMAIN workers[w].work -> Attempts]
    BY <2>1, PartialIs
  <2>3. DOMAIN W = DOMAIN workers[w].work \ {Now(w)} /\ W \in [DOMAIN W -> Attempts]
    BY <2>2
  <2> HIDE DEF W
  <2> QED
    BY <1>1, <2>3, PartialIs DEF Works
<1>5. workers' = [workers EXCEPT ![w] = [workers[w] EXCEPT !.pc = "next", !.work = W]]
  <2>1. w \in DOMAIN workers
    BY <1>1
  <2> QED
    BY <1>1, <2>1 DEF Completed
<1> HIDE DEF W
<1>6. /\ workers' \in [parent.active -> [pc : Steps, work : Works, inputs : Versions, manifest : Versions]]
      /\ \A v \in parent.active \ {w} : workers'[v] = workers[v]
      /\ workers'[w].pc = "next" /\ workers'[w].work = W
      /\ workers'[w].inputs = workers[w].inputs /\ workers'[w].manifest = disk.manifest
  <2> DEFINE R == [workers[w] EXCEPT !.pc = "next", !.work = W]
  <2>1. /\ R \in [pc : Steps, work : Works, inputs : Versions, manifest : Versions]
        /\ R.pc = "next" /\ R.work = W
        /\ R.inputs = workers[w].inputs /\ R.manifest = disk.manifest
    BY <1>1, <1>4 DEF Steps
  <2>2. workers' = [workers EXCEPT ![w] = R]
    BY <1>5
  <2> HIDE DEF R
  <2> QED
    BY <1>1, <2>1, <2>2 DEF RunnerInv, TypeInv
<1>7. Working(w)'
  <2>1. \A r \in DOMAIN W : SymbolOf[r] = w[2] /\ disk'.final[r] = None
    BY <1>1, <1>2, <1>4
  <2>2. w[2] \notin parent.waiting
    BY <1>1 DEF Working
  <2> QED
    BY <1>1, <1>6, <2>1, <2>2 DEF Working
<1>8. /\ queue' \in Seq(Messages)
      /\ \A i \in 1 .. Len(queue') : queue'[i].kind = "COMPLETE" =>
                queue'[i].run \in {r \in Runs : disk'.final[r] # None}
  <2> DEFINE m == Message(w, "COMPLETE")
  <2>1. m \in Messages /\ m.run = Now(w)
    BY <1>2, MessageIs DEF StatusOf
  <2>2. queue' = Sent(w, <<m>>)
    OBVIOUS
  <2> HIDE DEF m
  <2>3. /\ <<m>> \in Seq(Messages)
        /\ \A i \in 1 .. Len(<<m>>) : <<m>>[i].kind = "COMPLETE" =>
                <<m>>[i].run \in {r \in Runs : disk'.final[r] # None}
    BY <1>3, <2>1
  <2> QED
    BY <2>2, <2>3, ToldOK
<1>9. \A n \in Finished' : SymbolOf[n.run] = w[2] => Held(n)'
  BY <1>1
<1>10. /\ \A n \in DOMAIN disk'.sealed : AsFrozen(disk'.sealed[n])
       /\ \A r \in Runs : SymbolOf[r] # w[2] => disk'.final[r] = disk.final[r]
  BY <1>2, <1>3 DEF RunnerInv, FrozenInv
<1> QED
  BY <1>1, <1>6, <1>7, <1>8, <1>9, <1>10, WorkerOK

\* The same when the artifact was published before.
LEMMA CompletedAsIs ==
    ASSUME RunnerAssumption, RunnerInv, NEW w \in parent.active,
           workers[w].pc \in {"report", "recover"},
           UNCHANGED <<world, marker, manifest, parent, launches, disk>>,
           workers' = Completed(w), queue' = Sent(w, <<Message(w, "COMPLETE")>>),
           disk.final[Now(w)] # None
    PROVE  RunnerInv'
<1>1. disk \in Disks /\ OneInv' /\ Finished' = Finished
  BY DEF RunnerInv, TypeInv, OneInv, Finished
<1>2. \A n \in Finished' : n.run # Now(w)
  BY <1>1 DEF RunnerInv, OneInv
<1>3. /\ \A r \in Runs : disk'.final[r] # None =>
                /\ disk'.final[r].manifest = disk'.manifest /\ AsFrozen(disk'.final[r].inputs)
                /\ disk'.final[r].state = "gone" => disk.final[r] # None /\ disk.final[r].state = "gone"
      /\ \A r \in Runs : disk.final[r] # None => disk'.final[r] # None
  BY FrozenSame
<1> QED
  BY <1>1, <1>2, <1>3, CompletedOK

\* Complete is reported of what was published.
LEMMA ReportOK ==
    ASSUME RunnerAssumption, RunnerInv, NEW w \in DOMAIN workers, Report(w)
    PROVE  RunnerInv'
<1>1. /\ w \in parent.active /\ workers[w].pc = "report"
      /\ UNCHANGED <<world, marker, manifest, parent, launches, disk>>
      /\ workers' = Completed(w) /\ queue' = Sent(w, <<Message(w, "COMPLETE")>>)
  BY AtIs DEF Report, Unmoved
<1>2. disk.final[Now(w)] # None
  BY <1>1 DEF RunnerInv, WorkInv, Working
<1> QED
  BY <1>1, <1>2, CompletedAsIs

\* The sealed artifact is renamed into place.
LEMMA PublishOK ==
    ASSUME RunnerAssumption, RunnerInv, NEW w \in DOMAIN workers, Publish(w)
    PROVE  RunnerInv'
<1>1. /\ w \in parent.active /\ workers[w].pc = "publish"
      /\ UNCHANGED <<world, marker, manifest, parent, queue, launches>>
  BY AtIs DEF Publish, Unmoved
<1>2. CASE workers' = [workers EXCEPT ![w].pc = "recover"] /\ UNCHANGED disk
  <2>1. /\ queue' \in Seq(Messages)
        /\ \A i \in 1 .. Len(queue') : queue'[i].kind = "COMPLETE" =>
                queue'[i].run \in {r \in Runs : disk'.final[r] # None}
    BY <1>1, <1>2, SilentOK
  <2> QED
    BY <1>1, <1>2, <2>1, MoveOK DEF Steps
<1>3. CASE /\ CanRename(Staging(w))
           /\ disk' = Renamed(disk, Staging(w), workers[w].manifest)
           /\ workers' = [workers EXCEPT ![w].pc = "report"]
  <2>1. /\ parent.phase = "loop" /\ disk \in Disks /\ w = <<launches, w[2]>>
        /\ DOMAIN workers = parent.active /\ Working(w) /\ disk.manifest # None
        /\ workers[w] \in [pc : Steps, work : Works, inputs : Versions, manifest : Versions]
        /\ workers[w].manifest = disk.manifest /\ AsFrozen(workers[w].inputs)
        /\ \A n \in Finished : SymbolOf[n.run] = w[2] => n.run = Now(w)
        /\ DOMAIN workers[w].work \subseteq Runs
    BY <1>1, WorkerIs
  <2>2. /\ DOMAIN workers[w].work # {} /\ Staging(w) \in DOMAIN disk.sealed
        /\ \A r \in DOMAIN workers[w].work : SymbolOf[r] = w[2]
        /\ \A r \in DOMAIN workers[w].work \ {Now(w)} : disk.final[r] = None
    BY <1>1, <2>1 DEF Working
  <2>3. Now(w) \in DOMAIN workers[w].work /\ Now(w) \in Runs /\ Staging(w).run = Now(w)
    BY <1>1, <2>2, NowIn DEF RunnerInv
  <2>4. Staging(w) \in Finished
    BY <1>3, <2>2 DEF CanRename, Finished
  <2>5. PICK n \in Finished : n = Staging(w)
    BY <2>4, Zenon
  <2>6. disk' = Renamed(disk, n, disk.manifest) /\ n \in disk.staged
    BY <1>3, <2>1, <2>5 DEF Finished
  <2>7. /\ disk' \in Disks /\ Finished' \subseteq Finished \ {n}
        /\ disk'.sealed = disk.sealed /\ disk'.started = disk.started
        /\ disk'.progress = disk.progress /\ disk'.manifest = disk.manifest
        /\ disk'.final[n.run] # None
        /\ \A r \in Runs \ {n.run} : disk'.final[r] = disk.final[r]
        /\ \A x \in Finished' : x.run # n.run
        /\ OneInv'
        /\ \A r \in Runs : disk'.final[r] # None =>
                /\ disk'.final[r].manifest = disk'.manifest /\ AsFrozen(disk'.final[r].inputs)
                /\ disk'.final[r].state = "gone" => disk.final[r] # None /\ disk.final[r].state = "gone"
        /\ \A r \in Runs : disk.final[r] # None => disk'.final[r] # None
    BY <2>1, <2>6, RenamedOK
  <2>8. n.run = Now(w)
    BY <2>3, <2>5
  <2>9. /\ workers' \in [parent.active -> [pc : Steps, work : Works, inputs : Versions, manifest : Versions]]
        /\ \A v \in parent.active \ {w} : workers'[v] = workers[v]
        /\ workers'[w].pc = "report" /\ workers'[w].work = workers[w].work
        /\ workers'[w].inputs = workers[w].inputs /\ workers'[w].manifest = disk.manifest
    BY <1>3, <2>1 DEF RunnerInv, TypeInv, Steps
  <2>10. Now(w)' = Now(w)
    BY <2>9 DEF Now
  <2>11. Working(w)'
    <3>1. \A r \in DOMAIN workers[w].work \ {Now(w)} : disk'.final[r] = None
      BY <2>1, <2>2, <2>7, <2>8
    <3> QED
      BY <1>1, <2>1, <2>2, <2>7, <2>8, <2>9, <2>10, <3>1 DEF Working
  <2>12. /\ queue' \in Seq(Messages)
         /\ \A i \in 1 .. Len(queue') : queue'[i].kind = "COMPLETE" =>
                queue'[i].run \in {r \in Runs : disk'.final[r] # None}
    BY <1>1, <2>7, SilentOK
  <2>13. \A x \in Finished' : SymbolOf[x.run] = w[2] => Held(x)'
    BY <2>1, <2>7, <2>8
  <2>14. /\ \A x \in DOMAIN disk'.sealed : AsFrozen(disk'.sealed[x])
         /\ \A r \in Runs : SymbolOf[r] # w[2] => disk'.final[r] = disk.final[r]
    BY <2>2, <2>3, <2>7, <2>8 DEF RunnerInv, FrozenInv
  <2> QED
    BY <1>1, <2>1, <2>7, <2>9, <2>11, <2>12, <2>13, <2>14, WorkerOK
<1> QED
  BY <1>2, <1>3 DEF Publish, GoTo
\* A second attempt finds what the first one staged, and publishes it.
LEMMA RecoverOK ==
    ASSUME RunnerAssumption, RunnerInv, NEW w \in DOMAIN workers, Recover(w)
    PROVE  RunnerInv'
<1> DEFINE mine == {n \in disk.staged : n.run = Now(w)}
           good == mine \cap DOMAIN disk.sealed
           swept == [disk EXCEPT !.staged = @ \ (mine \ good), !.quarantine = @ \cup (mine \ good)]
<1>1. /\ w \in parent.active /\ workers[w].pc = "recover"
      /\ UNCHANGED <<world, marker, manifest, parent, launches>>
  BY AtIs DEF Recover, Unmoved
<1>2. /\ parent.phase = "loop" /\ disk \in Disks /\ w = <<launches, w[2]>>
      /\ DOMAIN workers = parent.active /\ Working(w) /\ disk.manifest # None
      /\ workers[w] \in [pc : Steps, work : Works, inputs : Versions, manifest : Versions]
      /\ workers[w].manifest = disk.manifest /\ AsFrozen(workers[w].inputs)
      /\ \A r \in Runs : ~(disk.final[r] # None /\ disk.final[r].state = "gone")
      /\ \A n \in Finished : SymbolOf[n.run] = w[2] => n.run = Now(w)
  BY <1>1, WorkerIs
<1>3. /\ DOMAIN workers[w].work # {} /\ w[2] \notin parent.waiting
      /\ \A r \in DOMAIN workers[w].work : SymbolOf[r] = w[2]
      /\ \A r \in DOMAIN workers[w].work \ {Now(w)} : disk.final[r] = None
  BY <1>1, <1>2 DEF Working
<1>4. Now(w) \in DOMAIN workers[w].work /\ Now(w) \in Runs
  BY <1>1, <1>3, NowIn DEF RunnerInv
<1>5. good = {n \in Finished : n.run = Now(w)}
  BY DEF Finished
<1>6. /\ swept \in Disks /\ swept.staged = disk.staged \ (mine \ good) /\ swept.sealed = disk.sealed
      /\ swept.final = disk.final /\ swept.started = disk.started
      /\ swept.progress = disk.progress /\ swept.manifest = disk.manifest
  <2> DEFINE S == disk.staged \ (mine \ good)
             Q == disk.quarantine \cup (mine \ good)
  <2>1. S \in SUBSET Names /\ Q \in SUBSET Names
    BY <1>2 DEF Disks
  <2>2. swept = [disk EXCEPT !.staged = S, !.quarantine = Q]
    BY <1>2 DEF Disks
  <2> HIDE DEF S, Q, swept
  <2>3. /\ swept \in Disks /\ swept.staged = S /\ swept.sealed = disk.sealed
        /\ swept.final = disk.final /\ swept.started = disk.started
        /\ swept.progress = disk.progress /\ swept.manifest = disk.manifest
    BY <1>2, <2>1, <2>2 DEF Disks
  <2> QED
    BY <2>3 DEF S
<1>7. \/ /\ Exists(Now(w)) /\ UNCHANGED disk
         /\ workers' = Completed(w) /\ queue' = Sent(w, <<Message(w, "COMPLETE")>>)
      \/ ~Exists(Now(w)) /\ Cardinality(good) > 1
      \/ /\ ~Exists(Now(w)) /\ good = {} /\ disk' = swept /\ UNCHANGED queue
         /\ workers' = [workers EXCEPT ![w].pc = "retry"]
      \/ /\ good # {}
         /\ disk' = Renamed(swept, CHOOSE n \in good : TRUE, workers[w].manifest)
         /\ workers' = Completed(w) /\ queue' = Sent(w, <<Message(w, "COMPLETE")>>)
  BY DEF Recover, GoTo
<1> HIDE DEF swept
<1>8. CASE /\ Exists(Now(w)) /\ UNCHANGED disk
           /\ workers' = Completed(w) /\ queue' = Sent(w, <<Message(w, "COMPLETE")>>)
  BY <1>1, <1>8, CompletedAsIs DEF Exists
<1>9. CASE ~Exists(Now(w)) /\ Cardinality(good) > 1
  <2>1. \A n, m \in good : n = m
    BY <1>5 DEF RunnerInv, OneInv
  <2>2. good = {} \/ \E n \in good : good = {n}
    BY <2>1
  <2> HIDE DEF good
  <2>3. Cardinality(good) = 0 \/ Cardinality(good) = 1
    BY <2>2, FS_EmptySet, FS_Singleton
  <2> QED
    BY <1>9, <2>3
<1>10. CASE /\ ~Exists(Now(w)) /\ good = {} /\ disk' = swept /\ UNCHANGED queue
            /\ workers' = [workers EXCEPT ![w].pc = "retry"]
  <2>1. Finished' = Finished
    BY <1>6, <1>10 DEF Finished
  <2>2. \A n \in Finished : SymbolOf[n.run] # w[2]
    BY <1>2, <1>5, <1>10
  <2>3. OneInv'
    BY <1>6, <1>10, <2>1 DEF RunnerInv, OneInv
  <2>4. disk.final[Now(w)] = None
    BY <1>2, <1>4, <1>10 DEF Exists
  <2>5. /\ workers' \in [parent.active -> [pc : Steps, work : Works, inputs : Versions, manifest : Versions]]
        /\ \A v \in parent.active \ {w} : workers'[v] = workers[v]
        /\ workers'[w].pc = "retry" /\ workers'[w].work = workers[w].work
        /\ workers'[w].inputs = workers[w].inputs /\ workers'[w].manifest = disk.manifest
    BY <1>2, <1>10 DEF RunnerInv, TypeInv, Steps
  <2>6. Working(w)'
    BY <1>1, <1>2, <1>3, <1>6, <1>10, <2>4, <2>5 DEF Working
  <2>7. /\ \A n \in DOMAIN disk'.sealed : AsFrozen(disk'.sealed[n])
        /\ \A r \in Runs : disk'.final[r] # None =>
                /\ disk'.final[r].manifest = disk'.manifest /\ AsFrozen(disk'.final[r].inputs)
                /\ disk'.final[r].state = "gone" => disk.final[r] # None /\ disk.final[r].state = "gone"
        /\ \A r \in Runs : disk.final[r] # None => disk'.final[r] # None
    BY <1>6, <1>10, FrozenSame
  <2>8. /\ queue' \in Seq(Messages)
        /\ \A i \in 1 .. Len(queue') : queue'[i].kind = "COMPLETE" =>
                queue'[i].run \in {r \in Runs : disk'.final[r] # None}
    BY <1>10, <2>7, SilentOK
  <2>9. \A n \in Finished' : SymbolOf[n.run] = w[2] => Held(n)'
    BY <2>1, <2>2
  <2>10. /\ disk' \in Disks /\ disk'.manifest = disk.manifest /\ disk'.progress = disk.progress
         /\ disk'.sealed = disk.sealed /\ disk'.started = disk.started /\ disk'.final = disk.final
    BY <1>6, <1>10
  <2> QED
    BY <1>1, <1>2, <2>1, <2>3, <2>5, <2>6, <2>7, <2>8, <2>9, <2>10, WorkerOK
<1>11. CASE /\ good # {}
            /\ disk' = Renamed(swept, CHOOSE n \in good : TRUE, workers[w].manifest)
            /\ workers' = Completed(w) /\ queue' = Sent(w, <<Message(w, "COMPLETE")>>)
  <2>1. PICK n \in good : n = CHOOSE m \in good : TRUE
    BY <1>11
  <2>2. n \in Finished /\ n.run = Now(w)
    BY <1>5
  <2>3. n \in swept.staged /\ swept.staged \subseteq disk.staged
    BY <1>6
  <2>4. PICK d \in Disks :
            /\ d.manifest = disk.manifest /\ d.started = disk.started /\ d.sealed = disk.sealed
            /\ d.final = disk.final /\ d.progress = disk.progress
            /\ d.staged \subseteq disk.staged /\ n \in d.staged
            /\ disk' = Renamed(d, n, disk.manifest)
    <3>1. disk' = Renamed(swept, n, disk.manifest)
      BY <1>2, <1>11, <2>1
    <3> QED
      BY <1>6, <2>3, <3>1
  <2>5. /\ disk' \in Disks /\ Finished' \subseteq Finished \ {n}
        /\ disk'.sealed = disk.sealed /\ disk'.started = disk.started
        /\ disk'.progress = disk.progress /\ disk'.manifest = disk.manifest
        /\ disk'.final[n.run] # None
        /\ \A r \in Runs \ {n.run} : disk'.final[r] = disk.final[r]
        /\ \A x \in Finished' : x.run # n.run
        /\ OneInv'
        /\ \A r \in Runs : disk'.final[r] # None =>
                /\ disk'.final[r].manifest = disk'.manifest /\ AsFrozen(disk'.final[r].inputs)
                /\ disk'.final[r].state = "gone" => disk.final[r] # None /\ disk.final[r].state = "gone"
        /\ \A r \in Runs : disk.final[r] # None => disk'.final[r] # None
    BY <1>2, <2>2, <2>4, RenamedOK
  <2>6. /\ disk'.final[Now(w)] # None /\ \A r \in Runs \ {Now(w)} : disk'.final[r] = disk.final[r]
        /\ Finished' \subseteq Finished /\ \A x \in Finished' : x.run # Now(w)
    BY <2>2, <2>5
  <2> QED
    BY <1>1, <1>11, <2>5, <2>6, CompletedOK
<1> QED
  BY <1>7, <1>8, <1>9, <1>10, <1>11

\* A failure is recorded, and the run is attempted again or given up.
LEMMA FailingOK ==
    ASSUME RunnerAssumption, RunnerInv, NEW w \in DOMAIN workers, Retry(w) \/ Abort(w)
    PROVE  RunnerInv'
<1>1. /\ w \in parent.active /\ workers[w].pc \in {"retry", "fatal"}
      /\ UNCHANGED <<world, marker, manifest, parent, launches>>
  BY AtIs DEF Retry, Abort, Unmoved
<1>2. PICK retryable \in BOOLEAN : Failing(w, retryable) /\ (retryable => workers[w].pc = "retry")
  BY AtIs DEF Retry, Abort
<1>3. /\ parent.phase = "loop" /\ disk \in Disks /\ w = <<launches, w[2]>>
      /\ DOMAIN workers = parent.active /\ Working(w)
      /\ workers[w] \in [pc : Steps, work : Works, inputs : Versions, manifest : Versions]
      /\ workers[w].manifest = disk.manifest /\ AsFrozen(workers[w].inputs)
      /\ \A n \in Finished : SymbolOf[n.run] # w[2]
      /\ DOMAIN workers[w].work \subseteq Runs
  BY <1>1, WorkerIs
<1>4. /\ DOMAIN workers[w].work # {} /\ w[2] \notin parent.waiting
      /\ \A r \in DOMAIN workers[w].work : SymbolOf[r] = w[2]
      /\ retryable => \A r \in DOMAIN workers[w].work : disk.final[r] = None
  BY <1>1, <1>2, <1>3 DEF Working
<1>5. Now(w) \in DOMAIN workers[w].work /\ Now(w) \in Runs /\ Attempt(w) \in Attempts
  BY <1>1, <1>4, NowIn DEF RunnerInv
<1> DEFINE m == Message(w, IF retryable THEN "FAILED_RETRYABLE" ELSE "FAILED_FATAL")
           again == retryable /\ Attempt(w) < MaxAttempts
           F == [disk.failed EXCEPT ![Now(w)] = @ \cup {[attempt |-> Attempt(w), retryable |-> retryable]}]
<1>6. CASE \E f \in disk.failed[Now(w)] : f.attempt = Attempt(w)
  <2>1. GiveUp(w, <<>>) /\ UNCHANGED disk
    BY <1>2, <1>6 DEF Failing
  <2> QED
    BY <1>1, <2>1, GiveUpOK
<1>7. CASE ~\E f \in disk.failed[Now(w)] : f.attempt = Attempt(w)
  <2>1. /\ disk' = [disk EXCEPT !.failed = F]
        /\ \/ /\ again /\ queue' = Sent(w, <<m>>)
              /\ workers' = [workers EXCEPT ![w].pc = "next", ![w].work[Now(w)] = @ + 1]
           \/ GiveUp(w, <<m>>)
           \/ Exit(w) /\ queue' = Sent(w, <<m>>)
    BY <1>2, <1>7 DEF Failing
  <2>2. F \in [Runs -> SUBSET Failures]
    <3> DEFINE f == [attempt |-> Attempt(w), retryable |-> retryable]
    <3>1. f \in Failures
      BY <1>5 DEF Failures
    <3>2. F = [disk.failed EXCEPT ![Now(w)] = @ \cup {f}]
      OBVIOUS
    <3> HIDE DEF f, F
    <3> QED
      BY <1>3, <1>5, <3>1, <3>2 DEF Disks
  <2>3. /\ m \in Messages /\ m.kind # "COMPLETE"
    <3>1. CASE retryable
      BY <1>1, <1>4, <3>1, MessageIs DEF StatusOf
    <3>2. CASE ~retryable
      BY <1>1, <1>4, <3>2, MessageIs DEF StatusOf
    <3> QED
      BY <3>1, <3>2
  <2> HIDE DEF m, F
  <2>4. /\ disk' \in Disks /\ disk'.staged = disk.staged /\ disk'.sealed = disk.sealed
        /\ disk'.final = disk.final /\ disk'.started = disk.started
        /\ disk'.manifest = disk.manifest /\ disk'.progress = disk.progress
    BY <1>3, <2>1, <2>2 DEF Disks
  <2>5. OneInv' /\ Finished' = Finished
    BY <2>4 DEF RunnerInv, OneInv, Finished
  <2>6. /\ \A n \in DOMAIN disk'.sealed : AsFrozen(disk'.sealed[n])
        /\ \A r \in Runs : disk'.final[r] # None =>
                /\ disk'.final[r].manifest = disk'.manifest /\ AsFrozen(disk'.final[r].inputs)
                /\ disk'.final[r].state = "gone" => disk.final[r] # None /\ disk.final[r].state = "gone"
        /\ \A r \in Runs : disk.final[r] # None => disk'.final[r] # None
    BY <2>4, FrozenSame
  <2>7. \A n \in Finished' : SymbolOf[n.run] = w[2] => Held(n)'
    BY <1>3, <2>5
  <2>8. <<m>> \in Seq(Messages) /\ \A i \in 1 .. Len(<<m>>) : <<m>>[i].kind # "COMPLETE"
    BY <2>3
  <2>9. /\ queue' \in Seq(Messages)
        /\ \A i \in 1 .. Len(queue') : queue'[i].kind = "COMPLETE" =>
                queue'[i].run \in {r \in Runs : disk'.final[r] # None}
    <3>1. CASE queue' = Sent(w, <<m>>)
      BY <1>1, <2>6, <2>8, <3>1, QuietOK
    <3>2. CASE GiveUp(w, <<m>>)
      BY <1>1, <2>6, <2>8, <3>2, GiveUpIs
    <3> QED
      BY <2>1, <3>1, <3>2
  <2>10. CASE workers' = [workers EXCEPT ![w].pc = "exited"]
    <3>1. /\ workers' \in [parent.active -> [pc : Steps, work : Works, inputs : Versions, manifest : Versions]]
          /\ \A v \in parent.active \ {w} : workers'[v] = workers[v]
          /\ workers'[w].pc = "exited" /\ workers'[w].work = workers[w].work
          /\ workers'[w].manifest = disk.manifest
      BY <1>3, <2>10 DEF RunnerInv, TypeInv, Steps
    <3>2. Working(w)'
      BY <1>1, <1>3, <1>4, <3>1 DEF Working
    <3> QED
      BY <1>1, <1>3, <2>4, <2>5, <2>6, <2>7, <2>9, <3>1, <3>2, WorkerOK
  <2>11. CASE again /\ workers' = [workers EXCEPT ![w].pc = "next", ![w].work[Now(w)] = @ + 1]
    <3> DEFINE W == [workers[w].work EXCEPT ![Now(w)] = @ + 1]
               R == [workers[w] EXCEPT !.pc = "next", !.work = W]
    <3>1. DOMAIN W = DOMAIN workers[w].work /\ W \in Works
      <4>1. workers[w].work \in Partial(Runs, Attempts)
        BY <1>3 DEF Works
      <4>2. workers[w].work \in [DOMAIN workers[w].work -> Attempts]
        BY <4>1, PartialIs
      <4>3. workers[w].work[Now(w)] + 1 \in Attempts
        BY <1>5, <2>11 DEF Attempt, Attempts, MaxAttempts
      <4>4. DOMAIN W = DOMAIN workers[w].work /\ W \in [DOMAIN W -> Attempts]
        BY <1>5, <4>2, <4>3
      <4> HIDE DEF W
      <4> QED
        BY <1>3, <4>4, PartialIs DEF Works
    <3>2. workers' = [workers EXCEPT ![w] = R]
      BY <1>1, <1>3, <2>11
    <3> HIDE DEF W
    <3>3. /\ R \in [pc : Steps, work : Works, inputs : Versions, manifest : Versions]
          /\ R.pc = "next" /\ R.work = W
          /\ R.inputs = workers[w].inputs /\ R.manifest = disk.manifest
      BY <1>3, <3>1 DEF Steps
    <3> HIDE DEF R
    <3>4. /\ workers' \in [parent.active -> [pc : Steps, work : Works, inputs : Versions, manifest : Versions]]
          /\ \A v \in parent.active \ {w} : workers'[v] = workers[v]
          /\ workers'[w] = R
      BY <1>1, <1>3, <3>2, <3>3 DEF RunnerInv, TypeInv
    <3>5. Working(w)'
      BY <1>1, <1>3, <1>4, <2>4, <2>11, <3>1, <3>3, <3>4 DEF Working
    <3> QED
      BY <1>1, <1>3, <2>4, <2>5, <2>6, <2>7, <2>9, <3>3, <3>4, <3>5, WorkerOK
  <2>12. Exit(w) \/ GiveUp(w, <<m>>) => workers' = [workers EXCEPT ![w].pc = "exited"]
    BY <1>1 DEF Exit, GiveUp
  <2> QED
    BY <2>1, <2>10, <2>11, <2>12
<1> QED
  BY <1>6, <1>7
----------------------------------------------------------------------------
(* The loop of the parent.                                                 *)

\* A worker gets the runs of its symbol that nobody has attempted.
LEMMA SpawnOK ==
    ASSUME RunnerAssumption, RunnerInv, Spawn
    PROVE  RunnerInv'
<1>1. /\ parent.phase = "loop" /\ parent.waiting # {} /\ disk.manifest # None
      /\ UNCHANGED <<world, marker, manifest, disk, queue, launches>>
      /\ manifest = disk.manifest /\ manifest \in Versions
  BY DEF Spawn, RunnerInv, FrozenInv, TypeInv
<1>2. /\ parent \in Parents /\ parent.waiting \in SUBSET Symbols /\ parent.active \in SUBSET WorkerIds
      /\ parent.sel \in SUBSET Runs /\ launches \in Nat
  BY DEF RunnerInv, TypeInv, Parents
<1>3. parent.progress \in Progress
  BY <1>1 DEF RunnerInv, RecordInv
<1>4. PICK s \in parent.waiting : s = Min(parent.waiting)
  <2>1. parent.waiting \in SUBSET Nat
    BY <1>2 DEF Symbols, RunnerAssumption
  <2> QED
    BY <1>1, <2>1, MinIn
<1>0. PICK w : w = <<launches, s>>
  OBVIOUS
<1> DEFINE planned == {r \in Runs : SymbolOf[r] = s /\ r \in parent.sel
                                    /\ parent.progress[r].status = "PENDING"}
           W == [r \in planned |-> parent.progress[r].attempts + 1]
           R == Worker(W)
<1>5. /\ workers' = Extended(workers, w, R)
      /\ parent' = [parent EXCEPT !.waiting = @ \ {s}, !.active = @ \cup {w}]
  BY <1>0, <1>4 DEF Spawn
<1>6. w \in WorkerIds /\ w[2] = s /\ w = <<launches, w[2]>>
  BY <1>0, <1>2, <1>4 DEF WorkerIds, Symbols, RunnerAssumption
<1>7. w \notin parent.active
  BY <1>4, <1>6 DEF RunnerInv, WorkInv, Working
<1>8. ASSUME NEW r \in planned
      PROVE  SymbolOf[r] = s /\ disk.final[r] = None /\ W[r] \in Attempts
  <2>1. r \in Runs /\ r \in parent.sel /\ parent.progress[r].status = "PENDING" /\ SymbolOf[r] = s
    OBVIOUS
  <2>2. parent.progress[r].attempts < MaxAttempts /\ disk.final[r] = None
    BY <1>1, <1>4, <2>1 DEF RunnerInv, PlanInv
  <2>3. parent.progress[r].attempts \in 0 .. MaxAttempts
    BY <1>3, <2>1 DEF Progress
  <2>4. parent.progress[r].attempts + 1 \in Attempts
    BY <2>2, <2>3 DEF Attempts, MaxAttempts
  <2> QED
    BY <2>1, <2>2, <2>4
<1>9. DOMAIN W = planned /\ W \in Works
  <2>1. DOMAIN W = planned /\ W \in [DOMAIN W -> Attempts] /\ planned \subseteq Runs
    BY <1>8
  <2> HIDE DEF W
  <2> QED
    BY <2>1, PartialIs DEF Works
<1> HIDE DEF W
<1>10. /\ R \in [pc : Steps, work : Works, inputs : Versions, manifest : Versions]
       /\ R.pc = "boot" /\ R.work = W /\ R.manifest = disk.manifest
  BY <1>1, <1>9 DEF Worker, Steps, Versions
<1> HIDE DEF R
<1>11. /\ parent' \in Parents /\ parent'.phase = "loop" /\ parent'.waiting = parent.waiting \ {s}
       /\ parent'.active = parent.active \cup {w} /\ parent'.sel = parent.sel
       /\ parent'.progress = parent.progress /\ parent'.valid = parent.valid
  <2> DEFINE A == parent.active \cup {w}
             S == parent.waiting \ {s}
  <2>1. A \in SUBSET WorkerIds /\ S \in SUBSET Symbols
    BY <1>2, <1>6
  <2>2. parent' = [parent EXCEPT !.waiting = S, !.active = A]
    BY <1>5
  <2> HIDE DEF A, S
  <2>3. /\ parent' \in Parents /\ parent'.phase = "loop" /\ parent'.waiting = S
        /\ parent'.active = A /\ parent'.sel = parent.sel
        /\ parent'.progress = parent.progress /\ parent'.valid = parent.valid
    BY <1>1, <1>2, <2>1, <2>2 DEF Parents
  <2> QED
    BY <2>3 DEF A, S
<1>12. /\ workers' \in [parent'.active -> [pc : Steps, work : Works, inputs : Versions, manifest : Versions]]
       /\ workers'[w] = R /\ \A v \in parent.active : workers'[v] = workers[v]
  <2>1. workers \in [parent.active -> [pc : Steps, work : Works, inputs : Versions, manifest : Versions]]
    BY DEF RunnerInv, TypeInv
  <2>2. workers' = [v \in parent.active \cup {w} |-> IF v = w THEN R ELSE workers[v]]
    BY <1>5, <2>1 DEF Extended
  <2> QED
    BY <1>7, <1>10, <1>11, <2>1, <2>2
<1>13. TypeInv'
  BY <1>1, <1>11, <1>12 DEF RunnerInv, TypeInv
<1>14. OneInv' /\ RecordInv'
  BY <1>1, <1>11 DEF RunnerInv, OneInv, RecordInv, Finished
<1>15. FrozenInv'
  BY <1>1, <1>10, <1>11, <1>12 DEF RunnerInv, FrozenInv, AsFrozen
<1>16. StageInv'
  <2>1. Finished' = Finished
    BY <1>1 DEF Finished
  <2>2. ASSUME NEW n \in Finished PROVE Held(n)'
    <3> DEFINE v == <<launches, SymbolOf[n.run]>>
    <3>1. Held(n)
      BY <1>1 DEF RunnerInv, StageInv
    <3>2. v \in parent.active /\ workers'[v] = workers[v]
      BY <1>12, <3>1 DEF Held
    <3> QED
      BY <1>1, <1>11, <3>1, <3>2 DEF Held, Now
  <2> QED
    BY <1>1, <1>11, <2>1, <2>2 DEF RunnerInv, StageInv
<1>17. WorkInv'
  <2>1. Working(w)'
    <3>1. \A r \in DOMAIN R.work : SymbolOf[r] = w[2] /\ disk.final[r] = None
      BY <1>6, <1>8, <1>9, <1>10
    <3> QED
      BY <1>1, <1>6, <1>10, <1>11, <1>12, <3>1 DEF Working
  <2>2. ASSUME NEW v \in parent.active PROVE Working(v)'
    <3>1. Working(v) /\ workers'[v] = workers[v]
      BY <1>12 DEF RunnerInv, WorkInv
    <3>2. Now(v)' = Now(v) /\ Attempt(v)' = Attempt(v) /\ Staging(v)' = Staging(v)
      BY <3>1 DEF Now, Attempt, Staging
    <3> QED
      BY <1>1, <1>11, <3>1, <3>2 DEF Working
  <2> QED
    BY <1>11, <2>1, <2>2 DEF WorkInv
<1>18. PlanInv'
  BY <1>1, <1>11 DEF RunnerInv, PlanInv
<1> QED
  BY <1>13, <1>14, <1>15, <1>16, <1>17, <1>18 DEF RunnerInv

\* A message is entered in the progress.
LEMMA AppliedOK ==
    ASSUME RunnerInv, parent.phase = "loop", queue # <<>>
    PROVE  /\ Applied(parent.progress, Head(queue)) \in Progress
           /\ \A r \in Runs : Applied(parent.progress, Head(queue))[r].status = "COMPLETE" =>
                disk.final[r] # None
           /\ \A r \in Runs : Applied(parent.progress, Head(queue))[r].status = "PENDING" =>
                Applied(parent.progress, Head(queue))[r] = parent.progress[r]
<1> DEFINE m == Head(queue)
<1>1. m \in Messages /\ 1 \in 1 .. Len(queue) /\ m = queue[1]
  BY DEF RunnerInv, TypeInv
<1>2. /\ parent.progress \in Progress
      /\ \A r \in Runs : parent.progress[r].status = "COMPLETE" => disk.final[r] # None
  BY DEF RunnerInv, RecordInv
<1>3. m.kind = "COMPLETE" => disk.final[m.run] # None
  BY <1>1 DEF RunnerInv, RecordInv
<1> HIDE DEF m
<1>4. CASE m.kind = "WORKER_FATAL"
  BY <1>2, <1>4 DEF Applied, m
<1>5. CASE m.kind # "WORKER_FATAL"
  <2>1. m \in [kind : DOMAIN StatusOf, run : Runs, attempt : Attempts, by : WorkerIds]
    BY <1>1, <1>5 DEF Messages
  <2>2. /\ StatusOf[m.kind] \in {"RUNNING", "COMPLETE", "RETRY_PENDING", "FAILED_FATAL"}
        /\ StatusOf[m.kind] = "COMPLETE" => m.kind = "COMPLETE"
    BY <2>1 DEF StatusOf
  <2> DEFINE row == Row(StatusOf[m.kind], m.attempt)
  <2>3. /\ row \in [status : ProgressStatuses, attempts : 0 .. MaxAttempts]
        /\ row.status = StatusOf[m.kind]
    <3>1. m.attempt \in 0 .. MaxAttempts
      BY <2>1 DEF Attempts, MaxAttempts
    <3> QED
      BY <2>2, <3>1 DEF Row, ProgressStatuses
  <2>4. Applied(parent.progress, Head(queue)) = [parent.progress EXCEPT ![m.run] = row]
    BY <1>5 DEF Applied, m
  <2> HIDE DEF row
  <2> QED
    BY <1>2, <1>3, <2>1, <2>2, <2>3, <2>4 DEF Progress
<1> QED
  BY <1>4, <1>5
\* A round of the loop: what ends the launch leaves nothing running, and what
\* goes on keeps every worker that holds something.
LEMMA RoundOK ==
    ASSUME RunnerAssumption, RunnerInv, NEW heard \in BOOLEAN, Round(heard)
    PROVE  RunnerInv'
<1> DEFINE progress == IF heard THEN Applied(parent.progress, Head(queue)) ELSE parent.progress
           ended == {w \in parent.active : Ended(w)}
<1>1. PICK failed \in BOOLEAN :
        /\ parent.phase = "loop"
        /\ heard => queue # <<>>
        /\ ~failed => \A w \in ended : workers[w].pc # "killed"
        /\ disk' = IF heard THEN [disk EXCEPT !.progress = progress] ELSE disk
        /\ workers' = [w \in DOMAIN workers \ (IF failed THEN parent.active ELSE ended) |-> workers[w]]
        /\ IF failed THEN Stop
           ELSE /\ parent' = [parent EXCEPT
                        !.progress = progress, !.active = parent.active \ ended,
                        !.phase = IF parent.active \ ended = {} /\ parent.waiting = {}
                                  THEN "wrapup" ELSE "loop"]
                /\ queue' = IF heard THEN Tail(queue) ELSE queue
        /\ UNCHANGED <<world, marker, manifest, launches>>
  <2> DEFINE message == IF heard THEN Head(queue) ELSE [kind |-> ""]
             f == \/ message.kind \in {"FAILED_FATAL", "WORKER_FATAL"}
                  \/ \E w \in ended : workers[w].pc = "killed"
  <2>1. CASE f
    BY <2>1 DEF Round
  <2>2. CASE ~f
    BY <2>2 DEF Round
  <2> QED
    BY <2>1, <2>2
<1>2. /\ disk \in Disks /\ parent \in Parents /\ disk.manifest # None /\ manifest = disk.manifest
      /\ workers \in [parent.active -> [pc : Steps, work : Works, inputs : Versions, manifest : Versions]]
      /\ queue \in Seq(Messages)
      /\ \A r \in Runs : ~(disk.final[r] # None /\ disk.final[r].state = "gone")
  BY <1>1 DEF RunnerInv, TypeInv, FrozenInv, RecordInv
<1>3. /\ progress \in Progress
      /\ \A r \in Runs : progress[r].status = "COMPLETE" => disk.final[r] # None
      /\ \A r \in Runs : progress[r].status = "PENDING" => progress[r] = parent.progress[r]
  <2>1. CASE heard
    BY <1>1, <2>1, AppliedOK
  <2>2. CASE ~heard
    BY <1>1, <2>2 DEF RunnerInv, RecordInv
  <2> QED
    BY <2>1, <2>2
<1> HIDE DEF progress
<1>4. /\ disk' \in Disks /\ disk'.staged = disk.staged /\ disk'.sealed = disk.sealed
      /\ disk'.final = disk.final /\ disk'.started = disk.started /\ disk'.manifest = disk.manifest
      /\ disk'.progress = disk.progress \/ disk'.progress = progress
  <2>1. CASE heard
    BY <1>1, <1>2, <1>3, <2>1 DEF Disks
  <2>2. CASE ~heard
    BY <1>1, <1>2, <2>2
  <2> QED
    BY <2>1, <2>2
<1>5. /\ disk'.progress # None =>
            \A r \in Runs : disk'.progress[r].status = "COMPLETE" => disk.final[r] # None
      /\ OneInv' /\ Finished' = Finished
  BY <1>3, <1>4 DEF RunnerInv, RecordInv, OneInv, Finished
<1>6. CASE failed
  <2>1. workers' \in [{} -> {}]
    BY <1>1, <1>2, <1>6
  <2>2. Stop /\ UNCHANGED <<world, marker, manifest, launches>>
    BY <1>1, <1>6
  <2>3. FrozenInv
    BY DEF RunnerInv
  <2> QED
    BY <1>2, <1>4, <1>5, <2>1, <2>2, <2>3, StopOK DEF FrozenInv, AsFrozen
<1>7. CASE ~failed
  <2> DEFINE A == parent.active \ ended
             P == IF A = {} /\ parent.waiting = {} THEN "wrapup" ELSE "loop"
  <2>1. /\ parent' = [parent EXCEPT !.progress = progress, !.active = A, !.phase = P]
        /\ queue' = IF heard THEN Tail(queue) ELSE queue
        /\ workers' = [w \in DOMAIN workers \ ended |-> workers[w]]
        /\ UNCHANGED <<world, marker, manifest, launches>>
    BY <1>1, <1>7
  <2>2. A \in SUBSET WorkerIds /\ A \subseteq parent.active
    BY <1>2 DEF Parents
  <2>3. /\ P \in Phases /\ P \in {"loop", "wrapup"}
        /\ P = "wrapup" => A = {}
    BY DEF Phases
  <2>4. \A w \in parent.active \ A : workers[w].pc = "exited"
    BY <1>1, <1>7 DEF Ended
  <2>5. workers' \in [A -> [pc : Steps, work : Works, inputs : Versions, manifest : Versions]]
        /\ \A w \in A : workers'[w] = workers[w]
    BY <1>2, <2>1
  <2> HIDE DEF A, P
  <2>6. /\ parent' \in Parents /\ parent'.phase = P /\ parent'.active = A
        /\ parent'.progress = progress /\ parent'.waiting = parent.waiting
        /\ parent'.sel = parent.sel /\ parent'.valid = parent.valid
    BY <1>2, <1>3, <2>1, <2>2, <2>3 DEF Parents
  <2>7. /\ queue' \in Seq(Messages)
        /\ \A i \in 1 .. Len(queue') : queue'[i].kind = "COMPLETE" => disk.final[queue'[i].run] # None
    <3>1. \A i \in 1 .. Len(queue) : queue[i].kind = "COMPLETE" => disk.final[queue[i].run] # None
      BY DEF RunnerInv, RecordInv
    <3>2. CASE heard
      <4>1. queue # <<>> /\ queue' = Tail(queue)
        BY <1>1, <2>1, <3>2
      <4>2. /\ Tail(queue) \in Seq(Messages) /\ Len(Tail(queue)) = Len(queue) - 1
            /\ \A i \in 1 .. Len(queue) - 1 : Tail(queue)[i] = queue[i + 1]
        BY <1>2, <4>1
      <4>3. Len(queue) \in Nat
        BY <1>2
      <4>4. ASSUME NEW i \in 1 .. Len(queue) - 1 PROVE queue'[i] = queue[i + 1] /\ i + 1 \in 1 .. Len(queue)
        BY <4>1, <4>2, <4>3
      <4> QED
        BY <3>1, <4>1, <4>2, <4>4
    <3>3. CASE ~heard
      BY <1>2, <2>1, <3>1, <3>3
    <3> QED
      BY <3>2, <3>3
  <2>8. TypeInv'
    BY <1>4, <2>1, <2>3, <2>5, <2>6, <2>7 DEF RunnerInv, TypeInv
  <2>9. FrozenInv'
    BY <1>1, <1>2, <1>4, <2>1, <2>2, <2>5, <2>6 DEF RunnerInv, FrozenInv, AsFrozen
  <2>10. RecordInv'
    BY <1>2, <1>3, <1>4, <1>5, <2>6, <2>7 DEF RecordInv
  <2>11. StageInv'
    <3>1. ASSUME NEW n \in Finished PROVE Held(n)' /\ A # {}
      <4>1. PICK v : v = <<launches, SymbolOf[n.run]>>
        OBVIOUS
      <4>2. Held(n)
        BY <1>1 DEF RunnerInv, StageInv
      <4>3. /\ v \in parent.active /\ workers[v].pc \in {"publish", "recover", "killed"}
            /\ workers[v].pc # "killed" => n.run = Now(v)
        BY <4>1, <4>2 DEF Held
      <4>4. v \in A
        BY <2>4, <4>3
      <4>5. workers'[v] = workers[v] /\ Now(v)' = Now(v)
        BY <2>5, <4>4 DEF Now
      <4> QED
        BY <2>1, <2>6, <4>1, <4>3, <4>4, <4>5 DEF Held
    <3> QED
      BY <1>4, <1>5, <2>3, <2>6, <3>1 DEF RunnerInv, StageInv
  <2>12. WorkInv'
    <3>1. ASSUME NEW v \in A PROVE Working(v)'
      <4>1. Working(v) /\ workers'[v] = workers[v]
        BY <2>2, <2>5 DEF RunnerInv, WorkInv
      <4>2. Now(v)' = Now(v) /\ Attempt(v)' = Attempt(v) /\ Staging(v)' = Staging(v)
        BY <4>1 DEF Now, Attempt, Staging
      <4> QED
        BY <1>4, <2>1, <2>6, <4>1, <4>2 DEF Working
    <3> QED
      BY <2>6, <3>1 DEF WorkInv
  <2>13. PlanInv'
    <3>1. parent.sel \subseteq Runs
      BY <1>2 DEF Parents
    <3> QED
      BY <1>1, <1>3, <1>4, <2>6, <3>1 DEF RunnerInv, PlanInv
  <2> QED
    BY <1>5, <2>8, <2>9, <2>10, <2>11, <2>12, <2>13 DEF RunnerInv
<1> QED
  BY <1>6, <1>7

----------------------------------------------------------------------------
(* The specification.                                                      *)

\* Every step keeps the invariant.
LEMMA StepOK ==
    ASSUME RunnerAssumption, ~Orphans, RunnerInv, [Next]_vars
    PROVE  RunnerInv'
<1>1. CASE UNCHANGED vars
  <2>1. /\ UNCHANGED <<world, marker, manifest, disk, parent, workers, queue, launches>>
    BY <1>1 DEF vars
  <2>2. TypeInv' /\ OneInv' /\ FrozenInv' /\ RecordInv'
    BY <2>1 DEF RunnerInv, TypeInv, OneInv, FrozenInv, RecordInv, Finished, AsFrozen
  <2>3. StageInv' /\ WorkInv' /\ PlanInv'
    BY <2>1 DEF RunnerInv, StageInv, WorkInv, Working, PlanInv, Finished, Held, Now, Attempt, Staging
  <2> QED
    BY <2>2, <2>3 DEF RunnerInv
<1>2. CASE LockCore \/ Prepare \/ \E p \in Parts : Drift(p)
  BY <1>2, OutsideOK
<1>3. ASSUME NEW sel \in Selections, Launch(sel) PROVE RunnerInv'
  BY <1>3, LaunchOK
<1>4. CASE ParentStep
  <2>1. ASSUME NEW n \in parent.todo, Sweep(n) PROVE RunnerInv'
    BY <2>1, SweepOK
  <2>2. CASE Compare
    BY <2>2, CompareOK
  <2>3. ASSUME NEW n \in parent.valid, Promote(n) PROVE RunnerInv'
    BY <2>3, PromoteOK
  <2>4. CASE Plan
    BY <2>4, PlanOK
  <2>5. CASE Spawn
    BY <2>5, SpawnOK
  <2>6. ASSUME NEW heard \in BOOLEAN, Round(heard) PROVE RunnerInv'
    BY <2>6, RoundOK
  <2>7. CASE WrapUp
    BY <2>7, WrapUpOK
  <2>8. CASE CompleteSuite
    BY <2>8, FinalizeOK
  <2> QED
    BY <1>4, <2>1, <2>2, <2>3, <2>4, <2>5, <2>6, <2>7, <2>8 DEF ParentStep
<1>5. ASSUME NEW w \in DOMAIN workers, WorkerStep(w) PROVE RunnerInv'
  <2>1. CASE Boot(w)
    BY <2>1, BootOK
  <2>2. CASE Start(w)
    BY <2>2, StartOK
  <2>3. CASE Leave(w)
    BY <2>3, FaultOK
  <2>4. CASE Stage(w)
    BY <2>4, StageOK
  <2>5. CASE Seal(w)
    BY <2>5, SealOK
  <2>6. CASE Publish(w)
    BY <2>6, PublishOK
  <2>7. CASE Report(w)
    BY <2>7, ReportOK
  <2>8. CASE Recover(w)
    BY <2>8, RecoverOK
  <2>9. CASE Retry(w) \/ Abort(w)
    BY <2>9, FailingOK
  <2> QED
    BY <1>5, <2>1, <2>2, <2>3, <2>4, <2>5, <2>6, <2>7, <2>8, <2>9 DEF WorkerStep
<1>6. ASSUME NEW w \in DOMAIN workers, Retryable(w) \/ NotRetryable(w) \/ KillWorker(w)
      PROVE  RunnerInv'
  BY <1>6, FaultOK
<1>7. CASE WriteIndex
  BY <1>7, FinalizeOK
<1>8. CASE KillParent \/ Interrupt
  BY <1>8, KillParentOK
<1>9. ASSUME NEW r \in Runs, Damage(r, "damaged") \/ Damage(r, "gone") PROVE RunnerInv'
  BY <1>9, DamageOK
<1>10. CASE Litter
  BY <1>10, LitterOK
<1> QED
  BY <1>1, <1>2, <1>3, <1>4, <1>5, <1>6, <1>7, <1>8, <1>9, <1>10 DEF Next

\* A suite's directory stays in order.
THEOREM SuiteInvariant ==
    ASSUME ~Orphans
    PROVE  Spec => []RunnerInv
<1>1. Init => RunnerInv
  BY RunnerAssumption, InitOK
<1>2. RunnerInv /\ [Next]_vars => RunnerInv'
  BY RunnerAssumption, StepOK
<1> QED
  BY <1>1, <1>2, PTL DEF Spec

\* What the directory of a suite shows of its runs is true: one finished
\* artifact, recorded when it is published, computed from the frozen inputs.
THEOREM ArtifactsAreSound ==
    ASSUME ~Orphans
    PROVE  Spec => []ArtifactsSound
<1>1. RunnerInv => ArtifactsSound
  <2> SUFFICES ASSUME RunnerInv PROVE ArtifactsSound
    OBVIOUS
  <2>1. OneArtifact
    <3> SUFFICES ASSUME NEW r \in Runs
                 PROVE  Cardinality({n \in disk.staged \cap DOMAIN disk.sealed : n.run = r})
                            + (IF disk.final[r] # None THEN 1 ELSE 0) <= 1
      BY DEF OneArtifact
    <3> DEFINE S == {n \in disk.staged \cap DOMAIN disk.sealed : n.run = r}
    <3>1. \A n, m \in S : n = m
      BY DEF RunnerInv, OneInv, Finished
    <3>2. disk.final[r] # None => S = {}
      BY DEF RunnerInv, OneInv, Finished
    <3>3. S = {} \/ \E n \in S : S = {n}
      BY <3>1
    <3> HIDE DEF S
    <3>4. Cardinality({}) = 0 /\ \A n : Cardinality({n}) = 1
      BY FS_EmptySet, FS_Singleton
    <3>5. Cardinality(S) + (IF disk.final[r] # None THEN 1 ELSE 0) <= 1
      <4>1. CASE S = {}
        <5>1. Cardinality(S) = 0
          BY <3>4, <4>1, Zenon
        <5> QED
          BY <5>1
      <4>2. CASE \E n \in S : S = {n}
        <5>1. Cardinality(S) = 1
          BY <3>4, <4>2, Zenon
        <5>2. disk.final[r] = None
          BY <3>2, <4>2
        <5> QED
          BY <5>1, <5>2
      <4> QED
        BY <3>3, <4>1, <4>2
    <3> QED
      BY <3>5 DEF S
  <2>2. RecordedIsPublished
    BY DEF RunnerInv, RecordInv, RecordedIsPublished
  <2>3. FrozenInputs
    BY DEF RunnerInv, FrozenInv, AsFrozen, FrozenInputs
  <2> QED
    BY <2>1, <2>2, <2>3 DEF ArtifactsSound
<1>2. Spec => []RunnerInv
  BY SuiteInvariant
<1> QED
  BY <1>1, <1>2, PTL
----------------------------------------------------------------------------
(* The attempts and the outcomes of the runs, as a ledger.                 *)

Used == [r \in Runs |-> Cardinality(ran[r])]
State == [r \in Runs |-> IF disk.final[r] # None THEN "complete"
                         ELSE IF Fatal(r) THEN "forbidden" ELSE "open"]

\* What leaves the ledger as it is.
LEMMA LedgerSame ==
    ASSUME UNCHANGED ran,
           \A r \in Runs : disk'.final[r] = None <=> disk.final[r] = None,
           \A r \in Runs : Fatal(r)' <=> Fatal(r)
    PROVE  UNCHANGED <<Used, State>>
BY DEF Used, State

\* A run with a recorded attempt has used one.
LEMMA UsedIs ==
    ASSUME RanInv, NEW r \in Runs, disk.started[r] # {}, disk.started[r] \subseteq Attempts
    PROVE  Used[r] > 0
<1>1. IsFiniteSet(Attempts)
  <2>1. 1 \in Int /\ 2 \in Int
    OBVIOUS
  <2>2. IsFiniteSet(1 .. 2)
    BY <2>1, FS_Interval, Zenon
  <2> QED
    BY <2>2 DEF Attempts, MaxAttempts
<1>2. IsFiniteSet(disk.started[r])
  BY <1>1, FS_Subset
<1>3. Cardinality(disk.started[r]) \in Nat /\ Cardinality(disk.started[r]) # 0
  BY <1>2, FS_CardinalityType, FS_EmptySet
<1> QED
  BY <1>3 DEF Used, RanInv

\* A finished artifact is published: its run is settled.
LEMMA LedgerComplete ==
    ASSUME RunnerInv, AttemptInv, UNCHANGED ran, disk'.failed = disk.failed,
           NEW n \in Finished, disk'.final[n.run] # None,
           \A r \in Runs \ {n.run} : disk'.final[r] = disk.final[r]
    PROVE  Ledger!Next
<1>1. n.run \in Runs /\ disk.started[n.run] # {} /\ disk.final[n.run] = None /\ ~Fatal(n.run)
  BY DEF RunnerInv, OneInv, Finished, AttemptInv, OpenInv
<1>2. disk.started[n.run] \subseteq Attempts
  BY <1>1 DEF RunnerInv, TypeInv, Disks
<1>3. Used[n.run] > 0
  BY <1>1, <1>2, UsedIs DEF AttemptInv
<1>4. UNCHANGED Used
  BY DEF Used
<1>5. \A r \in Runs : Fatal(r)' <=> Fatal(r)
  BY DEF Fatal
<1>6. State[n.run] = "open" /\ State' = [State EXCEPT ![n.run] = "complete"]
  BY <1>1, <1>5 DEF State
<1>7. Ledger!Settle(n.run, "complete")
  BY <1>3, <1>4, <1>6 DEF Ledger!Settle, Used, State
<1> QED
  BY <1>1, <1>7 DEF Ledger!Next

\* What the steps of the parent, and the world's, leave of the attempts.
LEMMA QuietDisk ==
    ASSUME RunnerAssumption, RunnerInv,
           \/ LockCore \/ Prepare \/ (\E p \in Parts : Drift(p))
           \/ (\E sel \in Selections : Launch(sel))
           \/ ParentStep \/ WriteIndex \/ KillParent \/ Interrupt
           \/ (\E r \in Runs : Damage(r, "damaged") \/ Damage(r, "gone"))
           \/ Litter
    PROVE  /\ UNCHANGED ran /\ disk'.started = disk.started /\ disk'.failed = disk.failed
           /\ Finished' \subseteq Finished
<1>1. disk \in Disks
  BY DEF RunnerInv, TypeInv
<1>2. CASE LockCore \/ Prepare \/ \E p \in Parts : Drift(p)
  BY <1>2 DEF LockCore, Prepare, Drift, Finished
<1>3. ASSUME NEW sel \in Selections, Launch(sel)
      PROVE  /\ UNCHANGED ran /\ disk'.started = disk.started /\ disk'.failed = disk.failed
             /\ Finished' \subseteq Finished
  BY <1>1, <1>3 DEF Launch, Finished, Disks
<1>4. CASE ParentStep
  <2>1. ASSUME NEW n \in parent.todo, Sweep(n)
        PROVE  /\ UNCHANGED ran /\ disk'.started = disk.started /\ disk'.failed = disk.failed
               /\ disk'.staged \subseteq disk.staged /\ disk'.sealed = disk.sealed
    <3>1. CASE UNCHANGED disk
      BY <2>1, <3>1 DEF Sweep
    <3>2. CASE disk' = Quarantined(disk, n)
      <4> DEFINE S == disk.staged \ {n}
                 Q == disk.quarantine \cup {n}
      <4>1. disk' = [disk EXCEPT !.staged = S, !.quarantine = Q] /\ UNCHANGED ran
        BY <2>1, <3>2 DEF Sweep, Quarantined
      <4>2. S \subseteq disk.staged
        OBVIOUS
      <4> HIDE DEF S, Q
      <4> QED
        BY <1>1, <4>1, <4>2 DEF Disks
    <3> QED
      BY <2>1, <3>1, <3>2 DEF Sweep
  <2>2. CASE Compare
    BY <2>2 DEF Compare, Finished
  <2>3. ASSUME NEW n \in parent.valid, Promote(n)
        PROVE  /\ UNCHANGED ran /\ disk'.started = disk.started /\ disk'.failed = disk.failed
               /\ disk'.staged \subseteq disk.staged /\ disk'.sealed = disk.sealed
    <3>1. CASE UNCHANGED disk
      BY <2>3, <3>1 DEF Promote
    <3>2. CASE disk' = Renamed(disk, n, manifest)
      <4> DEFINE S == disk.staged \ {n}
                 F == [disk.final EXCEPT ![n.run] = Artifact(n, manifest, disk.sealed[n])]
      <4>1. disk' = [disk EXCEPT !.staged = S, !.final = F] /\ UNCHANGED ran
        BY <1>1, <2>3, <3>2 DEF Promote, Renamed, Disks
      <4>2. S \subseteq disk.staged
        OBVIOUS
      <4> HIDE DEF S, F
      <4> QED
        BY <1>1, <4>1, <4>2 DEF Disks
    <3> QED
      BY <2>3, <3>1, <3>2 DEF Promote
  <2>4. CASE Plan \/ WrapUp \/ CompleteSuite
    BY <1>1, <2>4 DEF Plan, WrapUp, CompleteSuite, Finished, Disks
  <2>5. CASE Spawn
    BY <2>5 DEF Spawn, Finished
  <2>6. ASSUME NEW heard \in BOOLEAN, Round(heard)
        PROVE  /\ UNCHANGED ran /\ disk'.started = disk.started /\ disk'.failed = disk.failed
               /\ disk'.staged \subseteq disk.staged /\ disk'.sealed = disk.sealed
    BY <1>1, <2>6 DEF Round, Disks
  <2> QED
    BY <1>4, <2>1, <2>2, <2>3, <2>4, <2>5, <2>6 DEF ParentStep, Finished
<1>5. CASE WriteIndex \/ KillParent \/ Interrupt
  BY <1>1, <1>5 DEF WriteIndex, KillParent, Interrupt, Finished, Disks
<1>6. ASSUME NEW r \in Runs, Damage(r, "damaged") \/ Damage(r, "gone")
      PROVE  /\ UNCHANGED ran /\ disk'.started = disk.started /\ disk'.failed = disk.failed
             /\ Finished' \subseteq Finished
  BY <1>1, <1>6 DEF Damage, Finished, Disks
<1>7. CASE Litter
  <2> DEFINE n == Name(Foreign, 1, <<launches, 0>>)
  <2>1. n.run = Foreign
    BY DEF Name
  <2>2. n \notin DOMAIN disk.sealed
    BY <2>1 DEF RunnerInv, OneInv, RunnerAssumption
  <2>3. UNCHANGED ran /\ disk' = [disk EXCEPT !.staged = @ \cup {n}]
    BY <1>7 DEF Litter
  <2> HIDE DEF n
  <2> QED
    BY <1>1, <2>2, <2>3 DEF Finished, Disks
<1> QED
  BY <1>2, <1>3, <1>4, <1>5, <1>6, <1>7
\* What the parent plans has not failed for good.
LEMMA PlanOpen ==
    ASSUME RunnerInv, Plan, Finished' \subseteq Finished, disk'.failed = disk.failed, AttemptInv
    PROVE  OpenInv'
<1>1. \A r : Fatal(r)' <=> Fatal(r)
  BY DEF Fatal
<1>2. parent.active = {} /\ parent \in Parents
  BY NoWorkers DEF Plan, RunnerInv, TypeInv
<1>3. \/ Stop
      \/ /\ parent' = [parent EXCEPT !.phase = "loop", !.progress = NewProgress,
                                     !.waiting = {SymbolOf[r] : r \in Pending}]
         /\ \A r \in Pending : ~Fatal(r)
  BY DEF Plan
<1>4. parent'.active = {} /\ (parent'.phase = "loop" =>
            /\ parent'.sel = parent.sel /\ parent'.progress = NewProgress
            /\ \A r \in Pending : ~Fatal(r))
  <2>1. CASE Stop
    BY <2>1 DEF Stop, Idle
  <2>2. CASE ~Stop
    BY <1>2, <1>3, <2>2 DEF Parents
  <2> QED
    BY <2>1, <2>2
<1>5. \A r \in parent.sel : NewProgress[r].status = "PENDING" => r \in Pending
  BY <1>2 DEF NewProgress, Pending, Row, Parents
<1> QED
  BY <1>1, <1>4, <1>5 DEF AttemptInv, OpenInv

\* A new worker is given runs that have not.
LEMMA SpawnOpen ==
    ASSUME RunnerAssumption, RunnerInv, AttemptInv, Spawn
    PROVE  OpenInv'
<1>1. /\ parent \in Parents /\ parent.phase = "loop" /\ UNCHANGED <<disk, launches>>
      /\ workers \in [parent.active -> [pc : Steps, work : Works, inputs : Versions, manifest : Versions]]
  BY DEF RunnerInv, TypeInv, Spawn
<1>2. PICK s \in parent.waiting : s = Min(parent.waiting)
  <2>1. parent.waiting \in SUBSET Nat /\ parent.waiting # {}
    BY <1>1 DEF Spawn, Parents, Symbols, RunnerAssumption
  <2> QED
    BY <2>1, MinIn
<1>3. PICK w : w = <<launches, s>>
  OBVIOUS
<1> DEFINE planned == {r \in Runs : SymbolOf[r] = s /\ r \in parent.sel
                                    /\ parent.progress[r].status = "PENDING"}
           W == [r \in planned |-> parent.progress[r].attempts + 1]
           R == Worker(W)
<1>4. /\ workers' = Extended(workers, w, R)
      /\ parent' = [parent EXCEPT !.waiting = @ \ {s}, !.active = @ \cup {w}]
  BY <1>2, <1>3 DEF Spawn
<1>5. R.pc = "boot" /\ R.work = W /\ DOMAIN W = planned
  BY DEF Worker
<1>6. \A r \in planned : ~Fatal(r)
  BY <1>1, <1>2 DEF AttemptInv, OpenInv
<1>7. w \notin parent.active
  BY <1>2, <1>3 DEF RunnerInv, WorkInv, Working
<1> HIDE DEF R, W
<1>8. /\ workers'[w] = R /\ \A v \in parent.active : workers'[v] = workers[v]
  BY <1>1, <1>4, <1>7 DEF Extended
<1>9. /\ parent'.waiting \subseteq parent.waiting /\ parent'.active = parent.active \cup {w}
      /\ parent'.sel = parent.sel /\ parent'.progress = parent.progress /\ parent'.phase = "loop"
  BY <1>1, <1>4 DEF Parents
<1>10. (\A r : Fatal(r)' <=> Fatal(r)) /\ Finished' = Finished /\ disk' = disk
  BY <1>1 DEF Fatal, Finished
<1>11. OpenFor(w)'
  BY <1>5, <1>6, <1>8, <1>10 DEF OpenFor
<1>12. ASSUME NEW v \in parent.active PROVE OpenFor(v)'
  <2>1. OpenFor(v) /\ workers'[v] = workers[v]
    BY <1>8 DEF AttemptInv, OpenInv
  <2>2. Now(v)' = Now(v) /\ Attempt(v)' = Attempt(v)
    BY <2>1 DEF Now, Attempt
  <2> QED
    BY <1>10, <2>1, <2>2 DEF OpenFor
<1>13. \A n \in Finished' : ~Fatal(n.run)'
  BY <1>10 DEF AttemptInv, OpenInv
<1>14. \A r \in parent.sel : parent.progress[r].status = "PENDING" /\ SymbolOf[r] \in parent.waiting
            => ~Fatal(r)
  BY <1>1 DEF AttemptInv, OpenInv
<1> QED
  BY <1>9, <1>10, <1>11, <1>12, <1>13, <1>14 DEF OpenInv

\* A round leaves the workers that go on as they were.
LEMMA RoundOpen ==
    ASSUME RunnerInv, RunnerInv', AttemptInv, NEW heard \in BOOLEAN, Round(heard),
           Finished' \subseteq Finished, disk'.failed = disk.failed, disk'.started = disk.started
    PROVE  OpenInv'
<1> DEFINE progress == IF heard THEN Applied(parent.progress, Head(queue)) ELSE parent.progress
           A == parent.active \ {w \in parent.active : Ended(w)}
           P == IF A = {} /\ parent.waiting = {} THEN "wrapup" ELSE "loop"
<1>1. \A r : Fatal(r)' <=> Fatal(r)
  BY DEF Fatal
<1>2. /\ parent.phase = "loop" /\ parent \in Parents
      /\ workers \in [parent.active -> [pc : Steps, work : Works, inputs : Versions, manifest : Versions]]
  BY DEF Round, RunnerInv, TypeInv
<1>3. \/ Stop
      \/ /\ parent' = [parent EXCEPT !.progress = progress, !.active = A, !.phase = P]
         /\ workers' = [w \in DOMAIN workers \ {w \in parent.active : Ended(w)} |-> workers[w]]
         /\ heard => queue # <<>>
  BY DEF Round
<1>4. CASE Stop
  <2>1. parent'.active = {} /\ parent'.phase = "idle"
    BY <1>4 DEF Stop, Idle
  <2> QED
    BY <1>1, <2>1 DEF AttemptInv, OpenInv
<1>5. CASE ~Stop
  <2>1. \A w \in A : workers'[w] = workers[w] /\ w \in parent.active
    BY <1>2, <1>3, <1>5
  <2>2. \A r \in Runs : progress[r].status = "PENDING" => progress[r] = parent.progress[r]
    BY <1>2, <1>3, <1>5, AppliedOK
  <2> HIDE DEF A, P, progress
  <2>3. /\ parent'.active = A /\ parent'.progress = progress /\ parent'.waiting = parent.waiting
        /\ parent'.sel = parent.sel /\ parent.sel \subseteq Runs
    BY <1>2, <1>3, <1>5 DEF Parents
  <2>4. ASSUME NEW v \in A PROVE OpenFor(v)'
    <3>1. OpenFor(v) /\ workers'[v] = workers[v]
      BY <2>1 DEF AttemptInv, OpenInv
    <3>2. Now(v)' = Now(v) /\ Attempt(v)' = Attempt(v)
      BY <3>1 DEF Now, Attempt
    <3> QED
      BY <1>1, <3>1, <3>2 DEF OpenFor
  <2>5. \A r \in parent.sel : parent.progress[r].status = "PENDING" /\ SymbolOf[r] \in parent.waiting
            => ~Fatal(r)
    BY <1>2 DEF AttemptInv, OpenInv
  <2>6. \A n \in Finished' : ~Fatal(n.run)'
    BY <1>1 DEF AttemptInv, OpenInv
  <2> QED
    BY <1>1, <2>2, <2>3, <2>4, <2>5, <2>6 DEF OpenInv
<1> QED
  BY <1>4, <1>5

\* The steps of the parent and of the world, for the attempts.
LEMMA ParentAttempt ==
    ASSUME RunnerAssumption, ~Orphans, RunnerInv, RunnerInv', AttemptInv,
           \/ LockCore \/ Prepare \/ (\E p \in Parts : Drift(p))
           \/ (\E sel \in Selections : Launch(sel))
           \/ ParentStep \/ WriteIndex \/ KillParent \/ Interrupt
           \/ (\E r \in Runs : Damage(r, "damaged") \/ Damage(r, "gone"))
           \/ Litter
    PROVE  AttemptInv'
<1>1. /\ UNCHANGED ran /\ disk'.started = disk.started /\ disk'.failed = disk.failed
      /\ Finished' \subseteq Finished
  BY QuietDisk
<1>2. RanInv'
  BY <1>1 DEF AttemptInv, RanInv
<1>3. \A r : Fatal(r)' <=> Fatal(r)
  BY <1>1 DEF Fatal
<1>4. parent \in Parents /\ disk \in Disks
  BY DEF RunnerInv, TypeInv
<1>5. CASE LockCore \/ Prepare \/ \E p \in Parts : Drift(p)
  <2>1. UNCHANGED <<disk, parent, workers>>
    BY <1>5 DEF LockCore, Prepare, Drift
  <2>2. OpenInv' /\ FinalInv'
    BY <2>1 DEF AttemptInv, OpenInv, OpenFor, FinalInv, Fatal, Finished, Now, Attempt
  <2> QED
    BY <1>2, <2>2 DEF AttemptInv
<1>6. ASSUME parent'.phase # "loop" PROVE OpenInv'
  <2>1. parent'.active = {}
    BY <1>6 DEF RunnerInv, TypeInv
  <2> QED
    BY <1>1, <1>3, <1>6, <2>1 DEF AttemptInv, OpenInv
<1>7. ASSUME parent'.phase # "finalize" PROVE FinalInv'
  BY <1>7 DEF FinalInv
<1>8. CASE Plan
  <2>1. OpenInv'
    BY <1>1, <1>8, PlanOpen
  <2>2. parent'.phase # "finalize"
    <3>1. \/ Stop
          \/ parent' = [parent EXCEPT !.phase = "loop", !.progress = NewProgress,
                                      !.waiting = {SymbolOf[r] : r \in Pending}]
      BY <1>8 DEF Plan
    <3>2. Stop => parent'.phase = "idle"
      BY DEF Stop, Idle
    <3> QED
      BY <1>4, <3>1, <3>2 DEF Parents
  <2> QED
    BY <1>2, <1>7, <2>1, <2>2 DEF AttemptInv
<1>9. CASE Spawn
  <2>1. OpenInv'
    BY <1>9, SpawnOpen
  <2>2. parent'.phase # "finalize"
    BY <1>4, <1>9 DEF Spawn, Parents
  <2> QED
    BY <1>2, <1>7, <2>1, <2>2 DEF AttemptInv
<1>10. ASSUME NEW heard \in BOOLEAN, Round(heard) PROVE AttemptInv'
  <2>1. OpenInv'
    BY <1>1, <1>10, RoundOpen
  <2>2. parent'.phase # "finalize"
    <3> DEFINE progress == IF heard THEN Applied(parent.progress, Head(queue)) ELSE parent.progress
               A == parent.active \ {w \in parent.active : Ended(w)}
               P == IF A = {} /\ parent.waiting = {} THEN "wrapup" ELSE "loop"
    <3>1. Stop \/ parent' = [parent EXCEPT !.progress = progress, !.active = A, !.phase = P]
      BY <1>10 DEF Round
    <3>2. Stop => parent'.phase = "idle"
      BY DEF Stop, Idle
    <3>3. P # "finalize"
      OBVIOUS
    <3> HIDE DEF progress, A, P
    <3> QED
      BY <1>4, <3>1, <3>2, <3>3 DEF Parents
  <2> QED
    BY <1>2, <1>7, <2>1, <2>2 DEF AttemptInv
<1>11. CASE WriteIndex
  <2>1. parent'.phase = "finalize"
    BY <1>11 DEF WriteIndex, Idle
  <2>2. disk' = [disk EXCEPT !.index = Index] /\ \A r \in Runs : Verified(r)
    BY <1>11 DEF WriteIndex, SuiteVerified
  <2>3. disk'.final = disk.final /\ disk'.index = Index
    BY <1>4, <2>2 DEF Disks
  <2>4. FinalInv'
    BY <2>2, <2>3 DEF FinalInv, Verified, Exists, Index
  <2> QED
    BY <1>2, <1>6, <2>1, <2>4 DEF AttemptInv
<1>12. ASSUME NEW sel \in Selections, Launch(sel) PROVE parent'.phase = "sweep"
  BY <1>12 DEF Launch, Idle
<1>13. ASSUME NEW n \in parent.todo, Sweep(n) PROVE parent'.phase \in {"idle", "sweep"}
  <2>1. /\ parent.phase = "sweep"
        /\ \/ Stop
           \/ parent' = [parent EXCEPT !.todo = @ \ {n}, !.valid = @ \cup {n}]
           \/ parent' = [parent EXCEPT !.todo = @ \ {n}]
    BY <1>13 DEF Sweep
  <2>2. Stop => parent'.phase = "idle"
    BY DEF Stop, Idle
  <2> QED
    BY <1>4, <2>1, <2>2 DEF Parents
<1>14. ASSUME NEW n \in parent.valid, Promote(n) PROVE parent'.phase \in {"idle", "promote"}
  BY <1>4, <1>14 DEF Promote, Stop, Idle, Parents
<1>15. CASE Compare \/ WrapUp \/ CompleteSuite \/ KillParent \/ Interrupt
  <2>1. parent'.phase \in {"idle", "promote"}
    BY <1>4, <1>15 DEF Compare, WrapUp, CompleteSuite, KillParent, Interrupt, Stop, Idle, Parents
  <2> QED
    BY <1>2, <1>6, <1>7, <2>1 DEF AttemptInv
<1>16. CASE (\E r \in Runs : Damage(r, "damaged") \/ Damage(r, "gone")) \/ Litter
  <2>1. parent'.phase = "idle"
    BY <1>16 DEF Damage, Litter, Unmoved
  <2> QED
    BY <1>2, <1>6, <1>7, <2>1 DEF AttemptInv
<1>17. parent'.phase \in {"idle", "sweep", "promote"} => AttemptInv'
  BY <1>2, <1>6, <1>7 DEF AttemptInv
<1> QED
  BY <1>5, <1>8, <1>9, <1>10, <1>11, <1>12, <1>13, <1>14, <1>15, <1>16, <1>17 DEF ParentStep
\* The steps of the parent and of the world, for the ledger.
LEMMA ParentLedger ==
    ASSUME RunnerAssumption, RunnerInv, AttemptInv,
           \/ LockCore \/ Prepare \/ (\E p \in Parts : Drift(p))
           \/ (\E sel \in Selections : Launch(sel))
           \/ ParentStep \/ WriteIndex \/ KillParent \/ Interrupt
           \/ (\E r \in Runs : Damage(r, "damaged") \/ Damage(r, "gone"))
           \/ Litter
    PROVE  [Ledger!Next]_<<Used, State>>
<1>1. UNCHANGED ran /\ disk'.failed = disk.failed
  BY QuietDisk
<1>2. \A r \in Runs : Fatal(r)' <=> Fatal(r)
  BY <1>1 DEF Fatal
<1>3. disk \in Disks
  BY DEF RunnerInv, TypeInv
<1>4. ASSUME \A r \in Runs : disk'.final[r] = None <=> disk.final[r] = None
      PROVE  [Ledger!Next]_<<Used, State>>
  BY <1>1, <1>2, <1>4, LedgerSame
<1>5. CASE LockCore \/ Prepare \/ (\E p \in Parts : Drift(p)) \/ Compare \/ Spawn
  BY <1>4, <1>5 DEF LockCore, Prepare, Drift, Compare, Spawn
<1>6. ASSUME NEW sel \in Selections, Launch(sel) PROVE disk'.final = disk.final
  BY <1>3, <1>6 DEF Launch, Disks
<1>7. ASSUME NEW n \in parent.todo, Sweep(n) PROVE disk'.final = disk.final
  <2>1. UNCHANGED disk \/ disk' = Quarantined(disk, n)
    BY <1>7 DEF Sweep
  <2>2. CASE disk' = Quarantined(disk, n)
    <3> DEFINE S == disk.staged \ {n}
               Q == disk.quarantine \cup {n}
    <3>1. disk' = [disk EXCEPT !.staged = S, !.quarantine = Q]
      BY <2>2 DEF Quarantined
    <3> HIDE DEF S, Q
    <3> QED
      BY <1>3, <3>1 DEF Disks
  <2> QED
    BY <2>1, <2>2
<1>8. ASSUME NEW n \in parent.valid, Promote(n) PROVE [Ledger!Next]_<<Used, State>>
  <2>1. CASE UNCHANGED disk
    BY <1>4, <2>1
  <2>2. CASE CanRename(n) /\ disk' = Renamed(disk, n, manifest)
    <3>1. n \in Finished
      BY <2>2 DEF CanRename, Finished, RunnerInv, StageInv
    <3> DEFINE S == disk.staged \ {n}
               a == Artifact(n, manifest, disk.sealed[n])
               F == [disk.final EXCEPT ![n.run] = a]
    <3>2. disk' = [disk EXCEPT !.staged = S, !.final = F]
      BY <1>3, <2>2 DEF Renamed, Disks
    <3>3. a # None /\ n.run \in Runs
      BY <3>1, ArtifactIs DEF RunnerInv, OneInv, Finished
    <3> HIDE DEF a
    <3>4. F[n.run] # None /\ \A r \in Runs \ {n.run} : F[r] = disk.final[r]
      BY <1>3, <3>3 DEF Disks
    <3> HIDE DEF S, F
    <3>5. disk'.final = F
      BY <1>3, <3>2 DEF Disks
    <3>6. disk'.final[n.run] # None /\ \A r \in Runs \ {n.run} : disk'.final[r] = disk.final[r]
      BY <3>4, <3>5
    <3> QED
      BY <1>1, <3>1, <3>6, LedgerComplete
  <2> QED
    BY <1>8, <2>1, <2>2 DEF Promote
<1>9. CASE Plan \/ WrapUp \/ CompleteSuite \/ WriteIndex \/ KillParent \/ Interrupt
  <2>1. disk'.final = disk.final
    BY <1>3, <1>9 DEF Plan, WrapUp, CompleteSuite, WriteIndex, KillParent, Interrupt, Disks
  <2> QED
    BY <1>4, <2>1
<1>10. ASSUME NEW heard \in BOOLEAN, Round(heard) PROVE disk'.final = disk.final
  BY <1>3, <1>10 DEF Round, Disks
<1>11. ASSUME NEW r \in Runs, NEW state \in {"damaged", "gone"}, Damage(r, state)
       PROVE  [Ledger!Next]_<<Used, State>>
  <2> DEFINE a == [disk.final[r] EXCEPT !.state = state]
             F == [disk.final EXCEPT ![r] = a]
  <2>1. disk.final[r] # None /\ disk' = [disk EXCEPT !.final = F]
    BY <1>3, <1>11 DEF Damage, Exists, Disks
  <2>2. disk.final[r] \in Artifacts
    BY <1>3, <2>1 DEF Disks
  <2>3. a # None
    <3>1. "state" \in DOMAIN a
      BY <2>2 DEF Artifacts
    <3> QED
      BY <3>1, NoneIs
  <2> HIDE DEF a
  <2>4. \A x \in Runs : F[x] = None <=> disk.final[x] = None
    BY <1>3, <2>1, <2>3 DEF Disks
  <2> HIDE DEF F
  <2>5. disk'.final = F
    BY <1>3, <2>1 DEF Disks
  <2> QED
    BY <1>4, <2>4, <2>5
<1>12. CASE Litter
  <2>1. disk'.final = disk.final
    BY <1>3, <1>12 DEF Litter, Disks
  <2> QED
    BY <1>4, <2>1
<1>13. disk'.final = disk.final => [Ledger!Next]_<<Used, State>>
  BY <1>4
<1>14. CASE ParentStep
  BY <1>5, <1>7, <1>8, <1>9, <1>10, <1>13, <1>14 DEF ParentStep
<1> QED
  BY <1>5, <1>6, <1>9, <1>11, <1>12, <1>13, <1>14

\* What a worker does to its own runs leaves the others' attempts as they were.
LEMMA WorkerAttempt ==
    ASSUME RunnerAssumption, RunnerInv, RunnerInv', AttemptInv, NEW w \in parent.active,
           UNCHANGED <<parent, launches>>, RanInv',
           \A v \in parent.active \ {w} : workers'[v] = workers[v],
           \A r \in Runs : disk.started[r] \subseteq disk'.started[r],
           \A r \in Runs : SymbolOf[r] # w[2] => (Fatal(r)' <=> Fatal(r)),
           \A n \in Finished' : SymbolOf[n.run] # w[2] => n \in Finished,
           \A n \in Finished' : SymbolOf[n.run] = w[2] => ~Fatal(n.run)',
           OpenFor(w)'
    PROVE  AttemptInv'
<1>1. /\ parent.phase = "loop" /\ w[2] \notin parent.waiting /\ parent.sel \subseteq Runs
      /\ WorkInv /\ TypeInv
  BY WorkerIs DEF Working, RunnerInv, TypeInv, Parents
<1>2. ASSUME NEW v \in parent.active, v # w PROVE OpenFor(v)'
  <2>1. OpenFor(v) /\ workers'[v] = workers[v] /\ Working(v) /\ v[2] # w[2]
    BY <1>1, <1>2, Apart DEF AttemptInv, OpenInv, WorkInv
  <2>2. Now(v)' = Now(v) /\ Attempt(v)' = Attempt(v)
    BY <2>1 DEF Now, Attempt
  <2>3. \A r \in DOMAIN workers[v].work : r \in Runs /\ SymbolOf[r] # w[2]
    BY <2>1, WorkerIs DEF Working
  <2>4. workers[v].pc = "fatal" => Now(v) \in Runs
    BY <1>1, <2>1, NowIn DEF Working
  <2> QED
    BY <2>1, <2>2, <2>3, <2>4 DEF OpenFor
<1>3. \A n \in Finished' : ~Fatal(n.run)'
  <2>1. \A n \in Finished' : n.run \in Runs
    BY DEF RunnerInv, OneInv, Finished
  <2> QED
    BY <2>1 DEF AttemptInv, OpenInv
<1>4. \A r \in parent.sel : parent.progress[r].status = "PENDING" /\ SymbolOf[r] \in parent.waiting
            => ~Fatal(r)'
  BY <1>1 DEF AttemptInv, OpenInv
<1>5. OpenInv'
  BY <1>2, <1>3, <1>4 DEF OpenInv
<1>6. FinalInv'
  BY <1>1 DEF FinalInv
<1> QED
  BY <1>5, <1>6 DEF AttemptInv
\* A worker that records neither an attempt nor a failure.
LEMMA KeepOK ==
    ASSUME RunnerAssumption, RunnerInv, RunnerInv', AttemptInv, NEW w \in parent.active,
           UNCHANGED <<parent, launches, ran>>,
           disk'.started = disk.started, disk'.failed = disk.failed,
           \A v \in parent.active \ {w} : workers'[v] = workers[v],
           DOMAIN workers'[w].work \subseteq DOMAIN workers[w].work,
           workers'[w].pc \notin {"fatal", "exited", "killed"} =>
                workers[w].pc \notin {"fatal", "exited", "killed"},
           workers'[w].pc = "fatal" =>
                workers[w].pc \in {"run", "stage"} /\ workers'[w].work = workers[w].work,
           \A n \in Finished' : n \in Finished \/
                (n.run \in DOMAIN workers[w].work /\ workers[w].pc = "stage")
    PROVE  AttemptInv'
<1>1. \A r : Fatal(r)' <=> Fatal(r)
  BY DEF Fatal
<1>2. RanInv'
  BY DEF AttemptInv, RanInv
<1>3. Working(w) /\ OpenFor(w) /\ \A r \in DOMAIN workers[w].work : SymbolOf[r] = w[2]
  BY DEF RunnerInv, WorkInv, Working, AttemptInv, OpenInv
<1>4. OpenFor(w)'
  <2>1. workers'[w].pc = "fatal" => Attempt(w)' = Attempt(w) /\ Now(w)' = Now(w)
    BY DEF Attempt, Now
  <2> QED
    BY <1>1, <1>3, <2>1 DEF OpenFor, Working
<1>5. \A n \in Finished' : ~Fatal(n.run)'
  BY <1>1, <1>3 DEF AttemptInv, OpenInv, OpenFor
<1>6. \A n \in Finished' : SymbolOf[n.run] # w[2] => n \in Finished
  BY <1>3
<1> QED
  BY <1>1, <1>2, <1>4, <1>5, <1>6, WorkerAttempt

\* A worker that moves.
LEMMA MovedIs ==
    ASSUME RunnerInv, NEW w \in parent.active, NEW p, workers' = [workers EXCEPT ![w].pc = p]
    PROVE  /\ \A v \in parent.active \ {w} : workers'[v] = workers[v]
           /\ workers'[w].work = workers[w].work /\ workers'[w].pc = p
<1>1. workers \in [parent.active -> [pc : Steps, work : Works, inputs : Versions, manifest : Versions]]
  BY DEF RunnerInv, TypeInv
<1> QED
  BY <1>1

\* A worker that is done with a run.
LEMMA DoneIs ==
    ASSUME RunnerInv, NEW w \in parent.active, workers' = Completed(w)
    PROVE  /\ \A v \in parent.active \ {w} : workers'[v] = workers[v]
           /\ DOMAIN workers'[w].work \subseteq DOMAIN workers[w].work /\ workers'[w].pc = "next"
<1>1. workers \in [parent.active -> [pc : Steps, work : Works, inputs : Versions, manifest : Versions]]
  BY DEF RunnerInv, TypeInv
<1> DEFINE W == [r \in DOMAIN workers[w].work \ {Now(w)} |-> workers[w].work[r]]
<1>2. workers' = [workers EXCEPT ![w] = [workers[w] EXCEPT !.pc = "next", !.work = W]]
  BY <1>1 DEF Completed
<1>3. DOMAIN W \subseteq DOMAIN workers[w].work
  OBVIOUS
<1> HIDE DEF W
<1> QED
  BY <1>1, <1>2, <1>3

\* A rename, field by field.
LEMMA RenameIs ==
    ASSUME NEW d \in Disks, NEW n, n.run \in Runs, NEW m, disk' = Renamed(d, n, m)
    PROVE  /\ disk'.started = d.started /\ disk'.failed = d.failed /\ disk'.sealed = d.sealed
           /\ disk'.staged = d.staged \ {n} /\ disk'.final[n.run] # None
           /\ \A r \in Runs \ {n.run} : disk'.final[r] = d.final[r]
<1> DEFINE a == Artifact(n, m, d.sealed[n])
           S == d.staged \ {n}
           F == [d.final EXCEPT ![n.run] = a]
<1>1. disk' = [d EXCEPT !.staged = S, !.final = F]
  BY DEF Renamed, Disks
<1>2. a # None
  BY ArtifactIs
<1> HIDE DEF a
<1>3. F[n.run] # None /\ \A r \in Runs \ {n.run} : F[r] = d.final[r]
  BY <1>2 DEF Disks
<1> HIDE DEF S, F
<1>4. /\ disk'.started = d.started /\ disk'.failed = d.failed /\ disk'.sealed = d.sealed
      /\ disk'.staged = S /\ disk'.final = F
  BY <1>1 DEF Disks
<1> QED
  BY <1>3, <1>4 DEF S

\* Steps that leave the ledger alone: errors, kills, and what a worker does
\* besides attempts, failures and renames.
LEMMA MoveAttempt ==
    ASSUME RunnerAssumption, RunnerInv, RunnerInv', AttemptInv, NEW w \in DOMAIN workers,
           \/ Boot(w) \/ Leave(w) \/ Report(w) \/ Stage(w) \/ Seal(w)
           \/ Retryable(w) \/ NotRetryable(w) \/ KillWorker(w)
    PROVE  AttemptInv' /\ UNCHANGED <<Used, State>>
<1>1. w \in parent.active /\ \A pc : At(w, pc) <=> workers[w].pc = pc
  BY AtIs
<1>0. w \in parent.active
  BY <1>1
<1>2. UNCHANGED <<parent, launches, ran>> /\ disk \in Disks
  BY DEF Boot, Leave, Report, Stage, Seal, Retryable, NotRetryable, KillWorker, Unmoved, RunnerInv, TypeInv
<1>3. CASE UNCHANGED disk
  <2>1. \A n \in Finished' : n \in Finished
    BY <1>3 DEF Finished
  <2>2. UNCHANGED <<Used, State>>
    <3>1. \A r : Fatal(r)' <=> Fatal(r)
      BY <1>3 DEF Fatal
    <3> QED
      BY <1>2, <1>3, <3>1, LedgerSame
  <2>3. /\ \A v \in parent.active \ {w} : workers'[v] = workers[v]
        /\ DOMAIN workers'[w].work \subseteq DOMAIN workers[w].work
        /\ workers'[w].pc \notin {"fatal", "exited", "killed"} =>
                workers[w].pc \notin {"fatal", "exited", "killed"}
        /\ workers'[w].pc = "fatal" =>
                workers[w].pc \in {"run", "stage"} /\ workers'[w].work = workers[w].work
    <3>1. CASE Boot(w)
      <4>1. CASE workers' = [workers EXCEPT ![w].pc = "exited"]
        <5>1. /\ \A v \in parent.active \ {w} : workers'[v] = workers[v]
              /\ workers'[w].work = workers[w].work /\ workers'[w].pc = "exited"
          BY <1>0, <4>1, MovedIs
        <5> QED
          BY <5>1
      <4>2. CASE workers' = [workers EXCEPT ![w].pc = "next", ![w].inputs = world]
        <5>1. workers \in [parent.active -> [pc : Steps, work : Works, inputs : Versions, manifest : Versions]]
          BY DEF RunnerInv, TypeInv
        <5>2. workers[w].pc = "boot"
          BY <1>1, <3>1 DEF Boot
        <5> QED
          BY <1>1, <4>2, <5>1, <5>2
      <4> QED
        BY <1>1, <3>1, <4>1, <4>2 DEF Boot, GiveUp, Exit
    <3>2. CASE Leave(w)
      <4>1. workers' = [workers EXCEPT ![w].pc = "exited"]
        BY <1>1, <3>2 DEF Leave, Exit
      <4>2. /\ \A v \in parent.active \ {w} : workers'[v] = workers[v]
            /\ workers'[w].work = workers[w].work /\ workers'[w].pc = "exited"
        BY <1>0, <4>1, MovedIs
      <4> QED
        BY <4>1, <4>2
    <3>3. CASE Report(w)
      <4>1. workers' = Completed(w) /\ workers[w].pc = "report"
        BY <1>1, <3>3 DEF Report
      <4> QED
        BY <1>0, <4>1, DoneIs
    <3>4. CASE Stage(w) \/ Seal(w) \/ NotRetryable(w)
      <4>1. /\ workers[w].pc \in {"run", "stage"}
            /\ \E p \in {"fatal", "stage", "publish"} : workers' = [workers EXCEPT ![w].pc = p]
        BY <1>1, <3>4 DEF Stage, Seal, NotRetryable, GoTo
      <4>2. PICK p \in {"fatal", "stage", "publish"} : workers' = [workers EXCEPT ![w].pc = p]
        BY <4>1
      <4> QED
        <5>1. /\ \A v \in parent.active \ {w} : workers'[v] = workers[v]
              /\ workers'[w].work = workers[w].work /\ workers'[w].pc = p
          BY <1>0, <4>2, MovedIs
        <5> QED
          BY <4>1, <5>1
    <3>5. CASE Retryable(w)
      <4>1. workers[w].pc \in {"run", "stage", "publish", "report"}
            /\ workers' = [workers EXCEPT ![w].pc = "recover"]
        BY <1>1, <3>5 DEF Retryable, GoTo
      <4>2. /\ \A v \in parent.active \ {w} : workers'[v] = workers[v]
            /\ workers'[w].work = workers[w].work /\ workers'[w].pc = "recover"
        BY <1>0, <4>1, MovedIs
      <4> QED
        BY <4>1, <4>2
    <3>6. CASE KillWorker(w)
      <4>1. workers' = [workers EXCEPT ![w].pc = "killed"]
        BY <3>6 DEF KillWorker, GoTo
      <4>2. /\ \A v \in parent.active \ {w} : workers'[v] = workers[v]
            /\ workers'[w].work = workers[w].work /\ workers'[w].pc = "killed"
        BY <1>0, <4>1, MovedIs
      <4> QED
        BY <4>1, <4>2
    <3> QED
      BY <3>1, <3>2, <3>3, <3>4, <3>5, <3>6
  <2>4. /\ disk'.started = disk.started /\ disk'.failed = disk.failed
        /\ \A n \in Finished' : n \in Finished \/
                (n.run \in DOMAIN workers[w].work /\ workers[w].pc = "stage")
    BY <1>3, <2>1
  <2>5. UNCHANGED <<parent, launches, ran>>
    BY <1>2
  <2>6. AttemptInv'
    BY <1>0, <2>3, <2>4, <2>5, KeepOK
  <2> QED
    BY <2>2, <2>6
<1>4. CASE Stage(w) /\ disk' = [disk EXCEPT !.staged = @ \cup {Staging(w)}]
           /\ workers' = [workers EXCEPT ![w].pc = "stage"]
  <2>1. workers[w].pc = "run" /\ Staging(w) \notin DOMAIN disk.sealed
    BY <1>1, <1>4 DEF Stage, RunnerInv, WorkInv, Working
  <2>2. /\ disk'.started = disk.started /\ disk'.failed = disk.failed /\ disk'.final = disk.final
        /\ disk'.sealed = disk.sealed /\ disk'.staged = disk.staged \cup {Staging(w)}
    BY <1>2, <1>4 DEF Disks
  <2>3. \A n \in Finished' : n \in Finished
    BY <2>1, <2>2 DEF Finished
  <2>4. UNCHANGED <<Used, State>>
    <3>1. \A r : Fatal(r)' <=> Fatal(r)
      BY <2>2 DEF Fatal
    <3> QED
      BY <1>2, <2>2, <3>1, LedgerSame
  <2>5. /\ \A v \in parent.active \ {w} : workers'[v] = workers[v]
        /\ workers'[w].work = workers[w].work /\ workers'[w].pc = "stage"
    BY <1>1, <1>4, MovedIs
  <2>6. workers'[w].pc = "stage" /\ workers[w].pc \notin {"fatal", "exited", "killed"}
        /\ DOMAIN workers'[w].work \subseteq DOMAIN workers[w].work
    BY <2>1, <2>5
  <2>7. /\ UNCHANGED <<parent, launches, ran>>
        /\ \A n \in Finished' : n \in Finished \/
                (n.run \in DOMAIN workers[w].work /\ workers[w].pc = "stage")
    BY <1>2, <2>3
  <2>8. AttemptInv'
    BY <1>0, <2>2, <2>5, <2>6, <2>7, KeepOK
  <2> QED
    BY <2>4, <2>8
<1>5. CASE Seal(w) /\ disk' = [disk EXCEPT !.sealed = Extended(@, Staging(w), workers[w].inputs)]
           /\ workers' = [workers EXCEPT ![w].pc = "publish"]
  <2>1. workers[w].pc = "stage" /\ DOMAIN workers[w].work # {}
    BY <1>1, <1>5 DEF Seal, RunnerInv, WorkInv, Working
  <2>2. Staging(w).run \in DOMAIN workers[w].work
    BY <1>1, <2>1, NowIn DEF RunnerInv
  <2> DEFINE S == Extended(disk.sealed, Staging(w), workers[w].inputs)
  <2>3. DOMAIN S = DOMAIN disk.sealed \cup {Staging(w)}
    BY DEF Extended
  <2>4. disk' = [disk EXCEPT !.sealed = S]
    BY <1>5
  <2> HIDE DEF S
  <2>5. /\ disk'.started = disk.started /\ disk'.failed = disk.failed /\ disk'.final = disk.final
        /\ disk'.sealed = S /\ disk'.staged = disk.staged
    BY <1>2, <2>4 DEF Disks
  <2>6. \A n \in Finished' : n \in Finished \/ n.run \in DOMAIN workers[w].work
    BY <2>2, <2>3, <2>5 DEF Finished
  <2>7. \A r : Fatal(r)' <=> Fatal(r)
    BY <2>5 DEF Fatal
  <2>8. UNCHANGED <<Used, State>>
    BY <1>2, <2>5, <2>7, LedgerSame
  <2>9. /\ \A v \in parent.active \ {w} : workers'[v] = workers[v]
        /\ workers'[w].work = workers[w].work /\ workers'[w].pc = "publish"
    BY <1>1, <1>5, MovedIs
  <2> QED
    BY <1>1, <1>2, <2>1, <2>5, <2>6, <2>8, <2>9, KeepOK
<1>6. UNCHANGED disk \/ Stage(w) \/ Seal(w)
  BY DEF Boot, Leave, Report, Retryable, NotRetryable, KillWorker
<1> QED
  BY <1>3, <1>4, <1>5, <1>6 DEF Stage, Seal, GoTo
\* An attempt that was not recorded is one more.
LEMMA StartAttempt ==
    ASSUME RunnerAssumption, RunnerInv, RunnerInv', AttemptInv, NEW w \in DOMAIN workers, Start(w)
    PROVE  AttemptInv' /\ [Ledger!Next]_<<Used, State>>
<1>1. w \in parent.active /\ workers[w].pc = "next" /\ DOMAIN workers[w].work # {}
  BY AtIs DEF Start
<1>2. UNCHANGED <<parent, launches>> /\ disk \in Disks
  BY DEF Start, Unmoved, RunnerInv, TypeInv
<1> DEFINE r == Now(w)
           a == Attempt(w)
           p == <<a, w>>
<1>3. /\ Working(w) /\ OpenFor(w)
      /\ r \in DOMAIN workers[w].work /\ r \in Runs /\ a \in Attempts
  BY <1>1, NowIn DEF RunnerInv, WorkInv, AttemptInv, OpenInv
<1>4. CASE workers' = [workers EXCEPT ![w].pc = "exited"] /\ UNCHANGED <<disk, ran>>
  <2>1. /\ \A v \in parent.active \ {w} : workers'[v] = workers[v]
        /\ workers'[w].work = workers[w].work /\ workers'[w].pc = "exited"
    BY <1>1, <1>4, MovedIs
  <2>2. \A n \in Finished' : n \in Finished
    BY <1>4 DEF Finished
  <2>3. AttemptInv'
    BY <1>1, <1>2, <1>4, <2>1, <2>2, KeepOK
  <2>4. \A x : Fatal(x)' <=> Fatal(x)
    BY <1>4 DEF Fatal
  <2> QED
    BY <1>4, <2>3, <2>4, LedgerSame
<1>5. CASE /\ a \notin disk.started[r]
           /\ disk' = [disk EXCEPT !.started[r] = @ \cup {a}]
           /\ ran' = [ran EXCEPT ![r] = @ \cup {p}]
           /\ workers' = [workers EXCEPT ![w].pc = "run"]
  <2> DEFINE S == [disk.started EXCEPT ![r] = @ \cup {a}]
  <2>1. /\ S[r] = disk.started[r] \cup {a} /\ \A x \in Runs \ {r} : S[x] = disk.started[x]
        /\ disk' = [disk EXCEPT !.started = S]
    BY <1>2, <1>3, <1>5 DEF Disks
  <2> HIDE DEF S
  <2>2. /\ disk'.started = S /\ disk'.failed = disk.failed /\ disk'.final = disk.final
        /\ disk'.sealed = disk.sealed /\ disk'.staged = disk.staged
    BY <1>2, <2>1 DEF Disks
  <2>3. \A x : Fatal(x)' <=> Fatal(x)
    BY <2>2 DEF Fatal
  <2>4. ran' = [x \in Runs |-> IF x = r THEN ran[r] \cup {p} ELSE ran[x]]
    BY <1>3, <1>5 DEF AttemptInv, RanInv
  <2>5. p \notin ran[r] /\ p[1] = a /\ IsFiniteSet(ran[r]) /\ IsFiniteSet(disk.started[r])
    <3>1. IsFiniteSet(Attempts)
      <4>1. 1 \in Int /\ 2 \in Int
        OBVIOUS
      <4>2. IsFiniteSet(1 .. 2)
        BY <4>1, FS_Interval, Zenon
      <4> QED
        BY <4>2 DEF Attempts, MaxAttempts
    <3>2. disk.started[r] \subseteq Attempts
      BY <1>2, <1>3 DEF Disks
    <3>3. IsFiniteSet(disk.started[r])
      BY <3>1, <3>2, FS_Subset
    <3> QED
      BY <1>3, <1>5, <3>3 DEF AttemptInv, RanInv
  <2>6. /\ IsFiniteSet(ran[r] \cup {p}) /\ Cardinality(ran[r] \cup {p}) = Cardinality(ran[r]) + 1
        /\ Cardinality(disk.started[r] \cup {a}) = Cardinality(disk.started[r]) + 1
    <3>1. \A T, x : IsFiniteSet(T) /\ x \notin T =>
                IsFiniteSet(T \cup {x}) /\ Cardinality(T \cup {x}) = Cardinality(T) + 1
      BY FS_AddElement
    <3> QED
      BY <1>5, <2>5, <3>1
  <2>7. Cardinality(ran[r]) \in Nat /\ Cardinality(ran[r]) < MaxAttempts
    <3>1. Cardinality(disk.started[r]) = Cardinality(ran[r])
      BY <1>3 DEF AttemptInv, RanInv
    <3>2. disk.started[r] \cup {a} \subseteq Attempts /\ IsFiniteSet(Attempts) /\ Cardinality(Attempts) = 2
      <4>1. 1 \in Int /\ 2 \in Int
        OBVIOUS
      <4>2. IsFiniteSet(1 .. 2) /\ Cardinality(1 .. 2) = IF 1 > 2 THEN 0 ELSE 2 - 1 + 1
        BY <4>1, FS_Interval, Zenon
      <4>3. IsFiniteSet(1 .. 2) /\ Cardinality(1 .. 2) = 2
        BY <4>2
      <4> QED
        BY <1>2, <1>3, <4>3 DEF Attempts, MaxAttempts, Disks
    <3>3. Cardinality(disk.started[r] \cup {a}) <= Cardinality(Attempts)
      BY <3>2, FS_Subset
    <3>4. Cardinality(ran[r]) \in Nat
      BY <2>5, FS_CardinalityType
    <3> QED
      BY <2>6, <3>1, <3>2, <3>3, <3>4 DEF MaxAttempts
  <2>8. RanInv'
    <3>1. ASSUME NEW x \in Runs
          PROVE  /\ IsFiniteSet(ran'[x]) /\ Cardinality(ran'[x]) = Cardinality(S[x])
                 /\ \A q \in ran'[x] : q[1] \in S[x]
      <4>1. CASE x = r
        <5>1. Cardinality(ran[r]) = Cardinality(disk.started[r]) /\ \A q \in ran[r] : q[1] \in disk.started[r]
          BY <1>3 DEF AttemptInv, RanInv
        <5>2. ran'[x] = ran[r] \cup {p} /\ S[x] = disk.started[r] \cup {a}
          BY <1>3, <2>1, <2>4, <4>1
        <5> QED
          BY <2>5, <2>6, <5>1, <5>2
      <4>2. CASE x # r
        BY <2>1, <2>4, <4>2 DEF AttemptInv, RanInv
      <4> QED
        BY <4>1, <4>2
    <3>2. ran' = [x \in Runs |-> ran'[x]]
      BY <2>4
    <3> QED
      BY <2>2, <3>1, <3>2 DEF RanInv
  <2>9. /\ \A v \in parent.active \ {w} : workers'[v] = workers[v]
        /\ workers'[w].work = workers[w].work /\ workers'[w].pc = "run"
    BY <1>1, <1>5, MovedIs
  <2>10. AttemptInv'
    <3>1. \A n \in Finished' : n \in Finished
      BY <2>2 DEF Finished
    <3>2. \A n \in Finished' : ~Fatal(n.run)'
      BY <2>3, <3>1 DEF AttemptInv, OpenInv
    <3>3. OpenFor(w)'
      BY <1>1, <1>3, <2>3, <2>9 DEF OpenFor
    <3>4. \A x \in Runs : disk.started[x] \subseteq disk'.started[x]
      BY <2>1, <2>2
    <3> QED
      BY <1>1, <1>2, <2>3, <2>8, <2>9, <3>1, <3>2, <3>3, <3>4, WorkerAttempt
  <2>11. State[r] = "open" /\ UNCHANGED State
    <3>1. ~Fatal(r) /\ disk.final[r] = None
      BY <1>1, <1>3 DEF OpenFor, Working
    <3> QED
      BY <1>3, <2>2, <2>3, <3>1 DEF State
  <2>12. Used' = [Used EXCEPT ![r] = @ + 1] /\ Used[r] < MaxAttempts
    <3>1. \A x \in Runs : ran'[x] = IF x = r THEN ran[r] \cup {p} ELSE ran[x]
      BY <2>4
    <3>2. \A x \in Runs : Cardinality(ran'[x]) = IF x = r THEN Cardinality(ran[r]) + 1 ELSE Cardinality(ran[x])
      BY <2>6, <3>1
    <3> QED
      BY <1>3, <2>7, <3>2 DEF Used
  <2>13. Ledger!Attempt(r)
    BY <2>11, <2>12 DEF Ledger!Attempt, Used, State
  <2> QED
    BY <1>3, <2>10, <2>13 DEF Ledger!Next
<1> QED
  BY <1>1, <1>4, <1>5 DEF Start, GiveUp, Exit, GoTo
\* A published run is settled.
LEMMA RenameAttempt ==
    ASSUME RunnerAssumption, RunnerInv, RunnerInv', AttemptInv, NEW w \in parent.active,
           UNCHANGED <<parent, launches, ran>>,
           NEW d \in Disks, d.started = disk.started, d.failed = disk.failed, d.sealed = disk.sealed,
           d.final = disk.final, d.staged \subseteq disk.staged,
           NEW n \in Finished, NEW m, disk' = Renamed(d, n, m),
           \A v \in parent.active \ {w} : workers'[v] = workers[v],
           DOMAIN workers'[w].work \subseteq DOMAIN workers[w].work,
           workers'[w].pc \in {"next", "report"}, workers[w].pc \in {"publish", "recover"}
    PROVE  AttemptInv' /\ [Ledger!Next]_<<Used, State>>
<1>1. n.run \in Runs
  BY DEF RunnerInv, OneInv, Finished
<1>2. /\ disk'.started = d.started /\ disk'.failed = d.failed /\ disk'.sealed = d.sealed
      /\ disk'.staged = d.staged \ {n} /\ disk'.final[n.run] # None
      /\ \A r \in Runs \ {n.run} : disk'.final[r] = d.final[r]
  BY <1>1, RenameIs
<1>3. /\ disk'.started = disk.started /\ disk'.failed = disk.failed
      /\ disk'.final[n.run] # None /\ \A r \in Runs \ {n.run} : disk'.final[r] = disk.final[r]
      /\ \A x \in Finished' : x \in Finished
  BY <1>2 DEF Finished
<1>4. AttemptInv'
  BY <1>3, KeepOK
<1>5. Ledger!Next
  BY <1>3, LedgerComplete
<1> QED
  BY <1>4, <1>5

\* A worker that publishes settles its run.
LEMMA PublishAttempt ==
    ASSUME RunnerAssumption, RunnerInv, RunnerInv', AttemptInv, NEW w \in DOMAIN workers, Publish(w)
    PROVE  AttemptInv' /\ [Ledger!Next]_<<Used, State>>
<1>1. w \in parent.active /\ workers[w].pc = "publish"
  BY AtIs DEF Publish
<1>2. UNCHANGED <<parent, launches, ran>> /\ disk \in Disks
  BY DEF Publish, Unmoved, RunnerInv, TypeInv
<1>3. CASE workers' = [workers EXCEPT ![w].pc = "recover"] /\ UNCHANGED disk
  <2>1. /\ \A v \in parent.active \ {w} : workers'[v] = workers[v]
        /\ workers'[w].work = workers[w].work /\ workers'[w].pc = "recover"
    BY <1>1, <1>3, MovedIs
  <2>2. \A n \in Finished' : n \in Finished
    BY <1>3 DEF Finished
  <2>3. AttemptInv'
    BY <1>1, <1>2, <1>3, <2>1, <2>2, KeepOK
  <2>4. \A x : Fatal(x)' <=> Fatal(x)
    BY <1>3 DEF Fatal
  <2> QED
    BY <1>2, <1>3, <2>3, <2>4, LedgerSame
<1>4. CASE /\ CanRename(Staging(w))
           /\ disk' = Renamed(disk, Staging(w), workers[w].manifest)
           /\ workers' = [workers EXCEPT ![w].pc = "report"]
  <2>1. PICK n \in Finished : n = Staging(w)
    <3>1. Staging(w) \in DOMAIN disk.sealed
      BY <1>1 DEF RunnerInv, WorkInv, Working
    <3> QED
      BY <1>4, <3>1 DEF CanRename, Finished
  <2>2. PICK m : m = workers[w].manifest
    OBVIOUS
  <2>3. disk' = Renamed(disk, n, m)
    BY <1>4, <2>1, <2>2
  <2>4. /\ \A v \in parent.active \ {w} : workers'[v] = workers[v]
        /\ workers'[w].work = workers[w].work /\ workers'[w].pc = "report"
    BY <1>1, <1>4, MovedIs
  <2> QED
    BY <1>1, <1>2, <2>3, <2>4, RenameAttempt
<1> QED
  BY <1>3, <1>4 DEF Publish, GoTo

\* A worker that finds its artifact again settles its run too.
LEMMA RecoverAttempt ==
    ASSUME RunnerAssumption, RunnerInv, RunnerInv', AttemptInv, NEW w \in DOMAIN workers, Recover(w)
    PROVE  AttemptInv' /\ [Ledger!Next]_<<Used, State>>
<1> DEFINE mine == {n \in disk.staged : n.run = Now(w)}
           good == mine \cap DOMAIN disk.sealed
           S == disk.staged \ (mine \ good)
           Q == disk.quarantine \cup (mine \ good)
<1>1. w \in parent.active /\ workers[w].pc = "recover"
  BY AtIs DEF Recover
<1>2. UNCHANGED <<parent, launches, ran>> /\ disk \in Disks
  BY DEF Recover, Unmoved, RunnerInv, TypeInv
<1>3. PICK d \in Disks :
        /\ d = [disk EXCEPT !.staged = @ \ (mine \ good), !.quarantine = @ \cup (mine \ good)]
        /\ d.started = disk.started /\ d.failed = disk.failed /\ d.sealed = disk.sealed
        /\ d.final = disk.final /\ d.staged \subseteq disk.staged
  <2>1. S \in SUBSET Names /\ Q \in SUBSET Names /\ S \subseteq disk.staged
    BY <1>2 DEF Disks
  <2>2. PICK d : d = [disk EXCEPT !.staged = S, !.quarantine = Q]
    OBVIOUS
  <2>3. d = [disk EXCEPT !.staged = @ \ (mine \ good), !.quarantine = @ \cup (mine \ good)]
    BY <1>2, <2>2 DEF Disks
  <2> HIDE DEF S, Q
  <2>4. /\ d \in Disks /\ d.started = disk.started /\ d.failed = disk.failed
        /\ d.sealed = disk.sealed /\ d.final = disk.final /\ d.staged = S
    BY <1>2, <2>1, <2>2 DEF Disks
  <2> QED
    BY <2>1, <2>3, <2>4
<1>4. \/ UNCHANGED disk /\ workers' = Completed(w)
      \/ disk' = d /\ workers' = [workers EXCEPT ![w].pc = "exited"]
      \/ disk' = d /\ workers' = [workers EXCEPT ![w].pc = "retry"]
      \/ /\ good # {} /\ workers' = Completed(w)
         /\ disk' = Renamed(d, CHOOSE n \in good : TRUE, workers[w].manifest)
  BY <1>1, <1>3 DEF Recover, GoTo, GiveUp, Exit
<1>5. good \subseteq Finished
  BY DEF Finished
<1> HIDE DEF good, mine
<1>6. ASSUME disk'.started = disk.started, disk'.failed = disk.failed, disk'.final = disk.final,
             \A n \in Finished' : n \in Finished,
             \A v \in parent.active \ {w} : workers'[v] = workers[v],
             DOMAIN workers'[w].work \subseteq DOMAIN workers[w].work,
             workers'[w].pc # "fatal"
      PROVE  AttemptInv' /\ [Ledger!Next]_<<Used, State>>
  <2>1. AttemptInv'
    BY <1>1, <1>2, <1>6, KeepOK
  <2>2. \A x : Fatal(x)' <=> Fatal(x)
    BY <1>6 DEF Fatal
  <2> QED
    BY <1>2, <1>6, <2>1, <2>2, LedgerSame
<1>7. CASE UNCHANGED disk /\ workers' = Completed(w)
  <2>1. \A n \in Finished' : n \in Finished
    BY <1>7 DEF Finished
  <2>2. /\ \A v \in parent.active \ {w} : workers'[v] = workers[v]
        /\ DOMAIN workers'[w].work \subseteq DOMAIN workers[w].work /\ workers'[w].pc = "next"
    BY <1>1, <1>7, DoneIs
  <2> QED
    BY <1>6, <1>7, <2>1, <2>2
<1>8. ASSUME NEW p \in {"exited", "retry"}, disk' = d, workers' = [workers EXCEPT ![w].pc = p]
      PROVE  AttemptInv' /\ [Ledger!Next]_<<Used, State>>
  <2>1. /\ disk'.started = disk.started /\ disk'.failed = disk.failed /\ disk'.final = disk.final
        /\ disk'.sealed = disk.sealed /\ disk'.staged \subseteq disk.staged
    BY <1>3, <1>8
  <2>2. \A n \in Finished' : n \in Finished
    BY <2>1 DEF Finished
  <2>3. /\ \A v \in parent.active \ {w} : workers'[v] = workers[v]
        /\ workers'[w].work = workers[w].work /\ workers'[w].pc = p
    BY <1>1, <1>8, MovedIs
  <2> QED
    BY <1>6, <1>8, <2>1, <2>2, <2>3
<1>9. CASE /\ good # {} /\ workers' = Completed(w)
           /\ disk' = Renamed(d, CHOOSE n \in good : TRUE, workers[w].manifest)
  <2>1. PICK n \in good : n = CHOOSE x \in good : TRUE
    BY <1>9
  <2>2. PICK m : m = workers[w].manifest
    OBVIOUS
  <2>3. disk' = Renamed(d, n, m) /\ n \in Finished
    BY <1>5, <1>9, <2>1, <2>2
  <2>4. /\ \A v \in parent.active \ {w} : workers'[v] = workers[v]
        /\ DOMAIN workers'[w].work \subseteq DOMAIN workers[w].work /\ workers'[w].pc = "next"
    BY <1>1, <1>9, DoneIs
  <2>5. n \in Finished /\ workers'[w].pc \in {"next", "report"} /\ workers[w].pc \in {"publish", "recover"}
    BY <1>1, <2>3, <2>4
  <2>6. /\ d.started = disk.started /\ d.failed = disk.failed /\ d.sealed = disk.sealed
        /\ d.final = disk.final /\ d.staged \subseteq disk.staged
    BY <1>3
  <2>7. /\ \A v \in parent.active \ {w} : workers'[v] = workers[v]
        /\ DOMAIN workers'[w].work \subseteq DOMAIN workers[w].work
    BY <2>4
  <2>8. disk' = Renamed(d, n, m)
    BY <2>3
  <2> QED
    BY <1>1, <1>2, <2>5, <2>6, <2>7, <2>8, RenameAttempt
<1> QED
  BY <1>4, <1>7, <1>8, <1>9

\* A failure for good is recorded once, after an attempt.
LEMMA FailingAttempt ==
    ASSUME RunnerAssumption, RunnerInv, RunnerInv', AttemptInv, NEW w \in DOMAIN workers,
           Retry(w) \/ Abort(w)
    PROVE  AttemptInv' /\ [Ledger!Next]_<<Used, State>>
<1>1. w \in parent.active /\ UNCHANGED <<parent, launches, ran>> /\ disk \in Disks
  BY AtIs DEF Retry, Abort, Unmoved, RunnerInv, TypeInv
<1>2. PICK retryable \in BOOLEAN :
        /\ Failing(w, retryable)
        /\ workers[w].pc = IF retryable THEN "retry" ELSE "fatal"
  BY AtIs DEF Retry, Abort
<1>3. /\ Working(w) /\ OpenFor(w) /\ DOMAIN workers[w].work # {} /\ DOMAIN workers[w].work \subseteq Runs
      /\ \A n \in Finished : SymbolOf[n.run] # w[2]
  BY <1>1, <1>2, WorkerIs DEF Working, AttemptInv, OpenInv
<1>4. Now(w) \in DOMAIN workers[w].work /\ Now(w) \in Runs
  BY <1>1, <1>3, NowIn DEF RunnerInv
<1>8. PICK r \in Runs : r = Now(w)
  BY <1>4
<1> DEFINE f == [attempt |-> Attempt(w), retryable |-> retryable]
           F == [disk.failed EXCEPT ![Now(w)] = @ \cup {f}]
<1>5. CASE UNCHANGED disk /\ workers' = [workers EXCEPT ![w].pc = "exited"]
  <2>1. /\ \A v \in parent.active \ {w} : workers'[v] = workers[v]
        /\ workers'[w].work = workers[w].work /\ workers'[w].pc = "exited"
    BY <1>1, <1>5, MovedIs
  <2>2. \A n \in Finished' : n \in Finished
    BY <1>5 DEF Finished
  <2>3. AttemptInv'
    BY <1>1, <1>5, <2>1, <2>2, KeepOK
  <2>4. \A x : Fatal(x)' <=> Fatal(x)
    BY <1>5 DEF Fatal
  <2> QED
    BY <1>1, <1>5, <2>3, <2>4, LedgerSame
<1>6. CASE /\ disk' = [disk EXCEPT !.failed = F]
           /\ \/ /\ retryable
                 /\ workers' = [workers EXCEPT ![w].pc = "next", ![w].work[Now(w)] = @ + 1]
              \/ workers' = [workers EXCEPT ![w].pc = "exited"]
  <2>1. F[Now(w)] = disk.failed[Now(w)] \cup {f} /\ \A x \in Runs \ {Now(w)} : F[x] = disk.failed[x]
    BY <1>1, <1>4 DEF Disks
  <2>2. f.retryable = retryable
    OBVIOUS
  <2> HIDE DEF F, f
  <2>3. /\ disk'.failed = F /\ disk'.started = disk.started /\ disk'.final = disk.final
        /\ disk'.sealed = disk.sealed /\ disk'.staged = disk.staged
    BY <1>1, <1>6 DEF Disks
  <2>4. \A x \in Runs \ {r} : Fatal(x)' <=> Fatal(x)
    BY <1>8, <2>1, <2>3 DEF Fatal
  <2>5. Fatal(r)' <=> (Fatal(r) \/ ~retryable)
    <3>1. disk'.failed[r] = disk.failed[r] \cup {f}
      BY <1>8, <2>1, <2>3
    <3>2. (\E x \in disk'.failed[r] : ~x.retryable)
          <=> ((\E x \in disk.failed[r] : ~x.retryable) \/ ~f.retryable)
      BY <3>1
    <3> QED
      BY <2>2, <3>2 DEF Fatal
  <2>6. RanInv'
    BY <1>1, <2>3 DEF AttemptInv, RanInv
  <2>7. /\ \A n \in Finished' : n \in Finished /\ SymbolOf[n.run] # w[2]
        /\ SymbolOf[Now(w)] = w[2]
    BY <1>3, <1>4, <2>3 DEF Finished, Working
  <2>8. \A x \in Runs : disk.started[x] \subseteq disk'.started[x]
    BY <2>3
  <2>9. ASSUME \A x \in Runs : SymbolOf[x] # w[2] => (Fatal(x)' <=> Fatal(x)),
               \A v \in parent.active \ {w} : workers'[v] = workers[v], OpenFor(w)'
        PROVE  AttemptInv'
    BY <1>1, <2>6, <2>7, <2>8, <2>9, WorkerAttempt
  <2>10. CASE retryable
    <3>1. \A x \in Runs : Fatal(x)' <=> Fatal(x)
      BY <2>4, <2>5, <2>10
    <3>2. workers[w].pc = "retry" /\ \A x \in DOMAIN workers[w].work : x \in Runs /\ ~Fatal(x)
      BY <1>2, <1>3, <2>10 DEF OpenFor
    <3>3. /\ \A v \in parent.active \ {w} : workers'[v] = workers[v]
          /\ \/ workers'[w].pc = "next" /\ DOMAIN workers'[w].work = DOMAIN workers[w].work
             \/ workers'[w].pc = "exited"
      <4>1. workers \in [parent.active -> [pc : Steps, work : Works, inputs : Versions, manifest : Versions]]
        BY DEF RunnerInv, TypeInv
      <4>2. CASE workers' = [workers EXCEPT ![w].pc = "next", ![w].work[Now(w)] = @ + 1]
        <5> DEFINE W == [workers[w].work EXCEPT ![Now(w)] = @ + 1]
        <5>1. workers' = [workers EXCEPT ![w] = [workers[w] EXCEPT !.pc = "next", !.work = W]]
          <6>1. DOMAIN workers = parent.active
            BY <4>1
          <6>2. workers[w] \in [pc : Steps, work : Works, inputs : Versions, manifest : Versions]
            BY <1>1, <4>1
          <6> QED
            BY <1>1, <4>2, <6>1, <6>2
        <5>2. DOMAIN W = DOMAIN workers[w].work
          OBVIOUS
        <5> HIDE DEF W
        <5> DEFINE R == [workers[w] EXCEPT !.pc = "next", !.work = W]
        <5>3. workers[w] \in [pc : Steps, work : Works, inputs : Versions, manifest : Versions]
          BY <1>1, <4>1
        <5>4. R.pc = "next" /\ R.work = W
          BY <5>3
        <5>5. workers' = [workers EXCEPT ![w] = R]
          BY <5>1
        <5> HIDE DEF R
        <5>6. workers'[w] = R /\ \A v \in parent.active \ {w} : workers'[v] = workers[v]
          BY <1>1, <4>1, <5>5
        <5> QED
          BY <5>2, <5>4, <5>6
      <4>3. CASE workers' = [workers EXCEPT ![w].pc = "exited"]
        BY <1>1, <4>3, MovedIs
      <4> QED
        BY <1>6, <4>2, <4>3
    <3>4. OpenFor(w)'
      BY <3>1, <3>2, <3>3 DEF OpenFor
    <3>5. AttemptInv'
      BY <2>9, <3>1, <3>3, <3>4
    <3> QED
      BY <1>1, <2>3, <3>1, <3>5, LedgerSame
  <2>11. CASE ~retryable
    <3>1. workers' = [workers EXCEPT ![w].pc = "exited"]
      BY <1>6, <2>11
    <3>2. /\ \A v \in parent.active \ {w} : workers'[v] = workers[v]
          /\ workers'[w].work = workers[w].work /\ workers'[w].pc = "exited"
      BY <1>1, <3>1, MovedIs
    <3>3. OpenFor(w)'
      BY <3>2 DEF OpenFor
    <3>4. \A x \in Runs : SymbolOf[x] # w[2] => (Fatal(x)' <=> Fatal(x))
      BY <1>8, <2>4, <2>7
    <3>5. AttemptInv'
      BY <2>9, <3>2, <3>3, <3>4
    <3>6. CASE disk.final[r] # None \/ Fatal(r)
      <4>1. \A x \in Runs : disk.final[x] = None => (Fatal(x)' <=> Fatal(x))
        BY <2>4, <2>5, <3>6
      <4>2. UNCHANGED <<Used, State>>
        BY <1>1, <2>3, <4>1 DEF Used, State
      <4> QED
        BY <3>5, <4>2
    <3>7. CASE disk.final[r] = None /\ ~Fatal(r)
      <4>2. disk.started[r] # {} /\ disk.started[r] \subseteq Attempts
        BY <1>1, <1>2, <1>3, <1>8, <2>11 DEF OpenFor, Disks
      <4>3. Used[r] > 0
        BY <4>2, UsedIs DEF AttemptInv
      <4>4. UNCHANGED Used
        BY <1>1 DEF Used
      <4>5. /\ Fatal(r)' /\ disk'.final = disk.final
            /\ \A x \in Runs \ {r} : Fatal(x)' <=> Fatal(x)
        BY <2>3, <2>4, <2>5, <2>11
      <4>6. State[r] = "open" /\ State' = [State EXCEPT ![r] = "forbidden"]
        <5>1. State[r] = "open" /\ State'[r] = "forbidden"
          BY <3>7, <4>5 DEF State
        <5>2. \A x \in Runs \ {r} : State'[x] = State[x]
          BY <4>5 DEF State
        <5>3. State = [x \in Runs |-> State[x]] /\ State' = [x \in Runs |-> State'[x]]
          BY DEF State
        <5> HIDE DEF State
        <5> QED
          BY <5>1, <5>2, <5>3
      <4>7. Ledger!Settle(r, "forbidden")
        BY <4>3, <4>4, <4>6 DEF Ledger!Settle, Used, State
      <4> QED
        BY <3>5, <4>7 DEF Ledger!Next
    <3> QED
      BY <3>6, <3>7
  <2> QED
    BY <2>10, <2>11
<1>7. \/ UNCHANGED disk /\ workers' = [workers EXCEPT ![w].pc = "exited"]
      \/ /\ disk' = [disk EXCEPT !.failed = F]
         /\ \/ /\ retryable
               /\ workers' = [workers EXCEPT ![w].pc = "next", ![w].work[Now(w)] = @ + 1]
            \/ workers' = [workers EXCEPT ![w].pc = "exited"]
  BY <1>1, <1>2 DEF Failing, GiveUp, Exit
<1> QED
  BY <1>5, <1>6, <1>7

\* Every step is a step of the ledger, or leaves it as it is.
LEMMA LedgerStep ==
    ASSUME RunnerAssumption, ~Orphans, RunnerInv, RunnerInv', AttemptInv, [Next]_vars
    PROVE  AttemptInv' /\ [Ledger!Next]_<<Used, State>>
<1>1. CASE UNCHANGED vars
  <2>1. UNCHANGED <<disk, parent, workers, launches, ran>>
    BY <1>1 DEF vars
  <2>2. RanInv' /\ FinalInv'
    BY <2>1 DEF AttemptInv, RanInv, FinalInv
  <2>3. OpenInv'
    BY <2>1 DEF AttemptInv, OpenInv, OpenFor, Finished, Fatal, Now, Attempt
  <2>4. UNCHANGED <<Used, State>>
    BY <2>1 DEF Used, State, Fatal
  <2> QED
    BY <2>2, <2>3, <2>4 DEF AttemptInv
<1> DEFINE Outside ==
              \/ LockCore \/ Prepare \/ (\E p \in Parts : Drift(p))
              \/ (\E sel \in Selections : Launch(sel))
              \/ ParentStep \/ WriteIndex \/ KillParent \/ Interrupt
              \/ (\E r \in Runs : Damage(r, "damaged") \/ Damage(r, "gone"))
              \/ Litter
<1>2. CASE Outside
  <2>1. AttemptInv'
    BY <1>2, ParentAttempt
  <2>2. [Ledger!Next]_<<Used, State>>
    BY <1>2, ParentLedger
  <2> QED
    BY <2>1, <2>2
<1>3. ASSUME NEW w \in DOMAIN workers, WorkerStep(w)
      PROVE  AttemptInv' /\ [Ledger!Next]_<<Used, State>>
  <2>1. CASE Boot(w) \/ Leave(w) \/ Report(w) \/ Stage(w) \/ Seal(w)
    <3>1. AttemptInv' /\ UNCHANGED <<Used, State>>
      BY <2>1, MoveAttempt
    <3> QED
      BY <3>1
  <2>2. CASE Start(w)
    BY <2>2, StartAttempt
  <2>3. CASE Publish(w)
    BY <2>3, PublishAttempt
  <2>4. CASE Recover(w)
    BY <2>4, RecoverAttempt
  <2>5. CASE Retry(w) \/ Abort(w)
    BY <2>5, FailingAttempt
  <2> QED
    BY <1>3, <2>1, <2>2, <2>3, <2>4, <2>5 DEF WorkerStep
<1>4. ASSUME NEW w \in DOMAIN workers, Retryable(w) \/ NotRetryable(w) \/ KillWorker(w)
      PROVE  AttemptInv' /\ [Ledger!Next]_<<Used, State>>
  <2>1. AttemptInv' /\ UNCHANGED <<Used, State>>
    BY <1>4, MoveAttempt
  <2> QED
    BY <2>1
<1>5. \/ UNCHANGED vars \/ Outside
      \/ \E w \in DOMAIN workers : WorkerStep(w)
      \/ \E w \in DOMAIN workers : Retryable(w) \/ NotRetryable(w) \/ KillWorker(w)
  BY DEF Next
<1> QED
  BY <1>1, <1>2, <1>3, <1>4, <1>5

\* At first nothing is attempted and every run is open.
LEMMA LedgerInit ==
    ASSUME Init
    PROVE  AttemptInv /\ Ledger!Init
<1>1. \A r \in Runs : ran[r] = {} /\ disk.started[r] = {} /\ disk.failed[r] = {} /\ disk.final[r] = None
  BY DEF Init, EmptyDisk
<1>2. \A r \in Runs : ~Fatal(r)
  BY <1>1 DEF Fatal
<1>3. IsFiniteSet({}) /\ Cardinality({}) = 0
  BY FS_EmptySet
<1>4. \A r \in Runs : IsFiniteSet(ran[r]) /\ Cardinality(ran[r]) = 0 /\ Cardinality(disk.started[r]) = 0
  BY <1>1, <1>3, Zenon
<1>5. RanInv
  <2>1. ran = [r \in Runs |-> ran[r]]
    BY DEF Init
  <2> QED
    BY <1>1, <1>4, <2>1 DEF RanInv
<1>6. OpenInv /\ FinalInv
  BY DEF OpenInv, FinalInv, Init, EmptyDisk, Idle, Finished
<1>7. Ledger!Init
  BY <1>1, <1>2, <1>4 DEF Ledger!Init
<1> QED
  BY <1>5, <1>6, <1>7 DEF AttemptInv

\* The attempts of a suite stay in order.
THEOREM AttemptInvariant ==
    ASSUME ~Orphans
    PROVE  Spec => [](RunnerInv /\ AttemptInv)
<1>1. Init => AttemptInv
  BY LedgerInit
<1>2. RunnerInv /\ RunnerInv' /\ AttemptInv /\ [Next]_vars => AttemptInv'
  BY RunnerAssumption, LedgerStep
<1>3. Spec => []RunnerInv
  BY SuiteInvariant
<1> QED
  BY <1>1, <1>2, <1>3, PTL DEF Spec

\* The retry profile is kept: a run is attempted at most twice, completes once
\* and for all, and is not attempted again after an error that may not be
\* retried, however often processes die and the suite is launched again.
THEOREM SuiteKeepsLedger ==
    ASSUME ~Orphans
    PROVE  Spec => SuiteRefinesLedger
<1>1. Init => Ledger!Init
  BY LedgerInit
<1>2. (RunnerInv /\ AttemptInv) /\ (RunnerInv /\ AttemptInv)' /\ [Next]_vars
        => [Ledger!Next]_<<Used, State>>
  BY RunnerAssumption, LedgerStep
<1>3. Spec => [](RunnerInv /\ AttemptInv)
  BY AttemptInvariant
<1>4. [Ledger!Next]_<<Used, State>> =>
        [Ledger!Next]_<<[r \in Runs |-> Cardinality(ran[r])],
                        [r \in Runs |-> IF disk.final[r] # None THEN "complete"
                                        ELSE IF Fatal(r) THEN "forbidden" ELSE "open"]>>
  BY DEF Used, State
<1> QED
  BY <1>1, <1>2, <1>3, <1>4, PTL DEF Spec, SuiteRefinesLedger, Ledger!Spec

\* Nothing else marks the suite complete.
LEMMA OnlyCompleteSuite ==
    ASSUME RunnerInv, [Next]_vars, disk'.complete # disk.complete
    PROVE  CompleteSuite
<1>1. disk \in Disks
  BY DEF RunnerInv, TypeInv
<1>2. ~(UNCHANGED disk)
  OBVIOUS
<1>3. ~(UNCHANGED vars \/ LockCore \/ Prepare \/ Compare \/ Spawn \/ KillParent
        \/ \E p \in Parts : Drift(p))
  BY <1>2 DEF vars, LockCore, Prepare, Compare, Spawn, KillParent, Drift
<1>4. ASSUME NEW n, Sweep(n) \/ Promote(n) PROVE FALSE
  <2>1. disk' = Quarantined(disk, n) \/ disk' = Renamed(disk, n, manifest)
    BY <1>2, <1>4 DEF Sweep, Promote
  <2> DEFINE S == disk.staged \ {n}
             Q == disk.quarantine \cup {n}
             F == [disk.final EXCEPT ![n.run] = Artifact(n, manifest, disk.sealed[n])]
  <2>2. \/ disk' = [disk EXCEPT !.staged = S, !.quarantine = Q]
        \/ disk' = [disk EXCEPT !.staged = S, !.final = F]
    BY <1>1, <2>1 DEF Quarantined, Renamed, Disks
  <2> HIDE DEF S, Q, F
  <2> QED
    BY <1>1, <2>2 DEF Disks
<1>5. ASSUME Plan \/ WrapUp \/ WriteIndex \/ Interrupt \/ Litter \/ \E sel \in Selections : Launch(sel)
      PROVE  FALSE
  <2>1. \E f \in {"progress", "index", "staged", "manifest"} : \E x : disk' = [disk EXCEPT ![f] = x]
    BY <1>1, <1>2, <1>5 DEF Plan, WrapUp, WriteIndex, Interrupt, Litter, Launch, Disks
  <2> QED
    BY <1>1, <2>1 DEF Disks
<1>6. ASSUME NEW heard \in BOOLEAN, Round(heard) PROVE FALSE
  BY <1>1, <1>6 DEF Round, Disks
<1>7. ASSUME NEW r \in Runs, Damage(r, "damaged") \/ Damage(r, "gone") PROVE FALSE
  BY <1>1, <1>7 DEF Damage, Disks
<1>8. ASSUME NEW w \in DOMAIN workers, WorkerStep(w) PROVE FALSE
  <2>1. ~(Boot(w) \/ Leave(w) \/ Report(w))
    BY <1>2 DEF Boot, Leave, Report
  <2>2. ASSUME NEW d \in Disks, d.complete = disk.complete, NEW n, NEW m, disk' = Renamed(d, n, m)
        PROVE  FALSE
    <3> DEFINE S == d.staged \ {n}
               F == [d.final EXCEPT ![n.run] = Artifact(n, m, d.sealed[n])]
    <3>1. disk' = [d EXCEPT !.staged = S, !.final = F]
      BY <2>2 DEF Renamed, Disks
    <3> HIDE DEF S, F
    <3> QED
      BY <2>2, <3>1 DEF Disks
  <2>3. ~Start(w)
    <3> SUFFICES ASSUME Start(w) PROVE FALSE
      OBVIOUS
    <3> DEFINE S == [disk.started EXCEPT ![Now(w)] = @ \cup {Attempt(w)}]
    <3>1. disk' = [disk EXCEPT !.started = S]
      BY <1>1, <1>2 DEF Start, Disks
    <3> HIDE DEF S
    <3> QED
      BY <1>1, <3>1 DEF Disks
  <2>4. ~Stage(w)
    <3> SUFFICES ASSUME Stage(w) PROVE FALSE
      OBVIOUS
    <3> DEFINE S == disk.staged \cup {Staging(w)}
    <3>1. disk' = [disk EXCEPT !.staged = S]
      BY <1>2 DEF Stage
    <3> HIDE DEF S
    <3> QED
      BY <1>1, <3>1 DEF Disks
  <2>5. ~Seal(w)
    <3> SUFFICES ASSUME Seal(w) PROVE FALSE
      OBVIOUS
    <3> DEFINE S == Extended(disk.sealed, Staging(w), workers[w].inputs)
    <3>1. disk' = [disk EXCEPT !.sealed = S]
      BY <1>1, <1>2 DEF Seal, Disks
    <3> HIDE DEF S
    <3> QED
      BY <1>1, <3>1 DEF Disks
  <2>6. ~Publish(w)
    BY <1>1, <1>2, <2>2 DEF Publish
  <2>7. ~Recover(w)
    <3> SUFFICES ASSUME Recover(w) PROVE FALSE
      OBVIOUS
    <3> DEFINE mine == {n \in disk.staged : n.run = Now(w)}
               good == mine \cap DOMAIN disk.sealed
               S == disk.staged \ (mine \ good)
               Q == disk.quarantine \cup (mine \ good)
    <3>1. PICK d : d = [disk EXCEPT !.staged = @ \ (mine \ good), !.quarantine = @ \cup (mine \ good)]
      OBVIOUS
    <3>2. /\ S \in SUBSET Names /\ Q \in SUBSET Names
          /\ d = [disk EXCEPT !.staged = S, !.quarantine = Q]
      BY <1>1, <3>1 DEF Disks
    <3>3. \/ disk' = d
          \/ \E n, m : disk' = Renamed(d, n, m)
      BY <1>2, <3>1 DEF Recover
    <3> HIDE DEF S, Q, good, mine
    <3>4. d \in Disks /\ d.complete = disk.complete
      BY <1>1, <3>2 DEF Disks
    <3> QED
      BY <2>2, <3>3, <3>4
  <2>8. ~(Retry(w) \/ Abort(w))
    <3> SUFFICES ASSUME NEW retryable \in BOOLEAN, Failing(w, retryable) PROVE FALSE
      BY DEF Retry, Abort
    <3> DEFINE F == [disk.failed EXCEPT ![Now(w)] =
                        @ \cup {[attempt |-> Attempt(w), retryable |-> retryable]}]
    <3>1. disk' = [disk EXCEPT !.failed = F]
      BY <1>1, <1>2 DEF Failing, Disks
    <3> HIDE DEF F
    <3> QED
      BY <1>1, <3>1 DEF Disks
  <2> QED
    BY <1>8, <2>1, <2>3, <2>4, <2>5, <2>6, <2>7, <2>8 DEF WorkerStep
<1>9. ~\E w \in DOMAIN workers : Retryable(w) \/ NotRetryable(w) \/ KillWorker(w)
  BY <1>2 DEF Retryable, NotRetryable, KillWorker
<1> QED
  BY <1>3, <1>4, <1>5, <1>6, <1>7, <1>8, <1>9 DEF Next, ParentStep

\* The suite is marked complete only while the index shows what every run of
\* the matrix published, undamaged.
THEOREM CompleteIsWhole ==
    ASSUME ~Orphans
    PROVE  Spec => CompleteWhenWhole
<1> DEFINE Whole == ~disk.complete /\ disk'.complete =>
                        \A r \in Runs : disk.final[r] # None /\ disk.final[r].state = "intact"
                                        /\ disk.index[r] = disk.final[r].inputs
<1>1. RunnerInv /\ AttemptInv /\ [Next]_vars => Whole
  <2> SUFFICES ASSUME RunnerInv, AttemptInv, [Next]_vars, ~disk.complete, disk'.complete
               PROVE  parent.phase = "finalize"
    BY DEF AttemptInv, FinalInv
  <2>1. CompleteSuite
    BY OnlyCompleteSuite
  <2> QED
    BY <2>1 DEF CompleteSuite
<1>2. Spec => [](RunnerInv /\ AttemptInv)
  BY AttemptInvariant
<1> QED
  BY <1>1, <1>2, PTL DEF Spec, CompleteWhenWhole
=============================================================================
