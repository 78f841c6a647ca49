---------------------------- MODULE EventIngest ----------------------------
(***************************************************************************)
(* How a callback of the trading engine reaches the reducer and the disk   *)
(* (engine/nautilus_mastermind.py and the head of _apply in                *)
(* strategies/mastermind/state_machine.py): the adapter drops callbacks it *)
(* has seen, numbers the rest with one counter shared by every source, the *)
(* reducer drops replays by recent event ID, by source high-water mark and *)
(* by execution or settlement ID, both are persisted as one pair, and only *)
(* then are the resulting intents routed.  A crash restores the last pair. *)
(***************************************************************************)
EXTENDS Integers, Sequences

CONSTANTS
    Callbacks,      \* native events, named by their native event ID
    Sources,        \* envelope sources
    Keys,           \* economic identities: executions, settlements, fingerprints
    None,           \* no key, no event
    Kind,           \* Callbacks -> {"order", "fill", "funding", "position"}
    SourceOf,       \* Callbacks -> Sources
    KeyOf,          \* Callbacks -> Keys \cup {None}
    Checkpointed,   \* persist_recovery_transition is given, not only persist_transition
    RecentLimit,    \* RECENT_EVENT_ID_LIMIT
    MaxSequence,    \* bound: envelope numbers an internal event may take
    MaxCrashes      \* bound: crashes

Kinds == {"order", "fill", "funding", "position"}

ASSUME CallbackAssumption ==
    /\ Kind \in [Callbacks -> Kinds]
    /\ SourceOf \in [Callbacks -> Sources]
    /\ KeyOf \in [Callbacks -> Keys \cup {None}]
    /\ None \notin Keys
    /\ \A c \in Callbacks : Kind[c] = "order" <=> KeyOf[c] = None
    \* an ID of one kind is never read as an ID of another
    /\ \A c, d \in Callbacks : KeyOf[c] = KeyOf[d] => Kind[c] = Kind[d]
    \* events the adapter raises itself are named by source and number
    /\ Callbacks \cap (Sources \X Nat) = {}

ASSUME BoundAssumption ==
    /\ RecentLimit \in Nat \ {0} /\ MaxSequence \in Nat /\ MaxCrashes \in Nat
    /\ Checkpointed \in BOOLEAN

VARIABLES
    live,       \* adapter and reducer in memory
    durable,    \* the pair (reducer snapshot, adapter checkpoint) on disk
    phase,      \* "idle", "unsaved" or "unrouted": where the callback stands
    current,    \* the event whose intents await routing, or None
    routed,     \* the events whose intents left the process
    crashes     \* bound counter

vars == <<live, durable, phase, current, routed, crashes>>

\* seen, known, native and sequence belong to the adapter; recent, high and
\* booked to the reducer.  applied, books and handled record what it did: how
\* often a callback and a key took effect, and every event <<id, source, n>>.
Empty ==
    [seen |-> {}, known |-> {}, native |-> [k \in Keys |-> 0], sequence |-> 0,
     recent |-> <<>>, high |-> [s \in Sources |-> -1], booked |-> {},
     applied |-> [c \in Callbacks |-> 0], books |-> [k \in Keys |-> 0], handled |-> {}]

Init ==
    /\ live = Empty /\ durable = Empty
    /\ phase = "idle" /\ current = None /\ routed = {} /\ crashes = 0

----------------------------------------------------------------------------
(* The reducer.                                                            *)

Elements(s) == {s[i] : i \in DOMAIN s}

Youngest(s) ==
    IF Len(s) > RecentLimit THEN SubSeq(s, Len(s) - RecentLimit + 1, Len(s)) ELSE s

Raise(high, source, n) == [high EXCEPT ![source] = IF n > @ THEN n ELSE @]
Tick(count, x) == [count EXCEPT ![x] = @ + 1]

\* _remember_event
Remember(r, id, source, n) ==
    [r EXCEPT !.recent = Youngest(Append(@, id)),
              !.high = Raise(@, source, n)]

\* Fills carry an execution ID and funding a settlement ID; a position
\* fingerprint is the adapter's own.
Economic(id) == id \in Callbacks /\ Kind[id] \in {"fill", "funding"}

Replayed(r, id, source, n) ==
    \/ id \in Elements(r.recent)
    \/ n <= r.high[source]
    \/ Economic(id) /\ KeyOf[id] \in r.booked

\* Mutant: the ledger changes, the key is not kept.
BookingForgotten(r, id) ==
    IF Economic(id) THEN [r EXCEPT !.books = Tick(@, KeyOf[id])] ELSE r

Booking(r, id) ==
    IF Economic(id)
    THEN [r EXCEPT !.booked = @ \cup {KeyOf[id]}, !.books = Tick(@, KeyOf[id])]
    ELSE r

\* handle: the transition and the fail-safe that may replace it both remember
\* the event and book its key.
Handle(r, id, source, n) ==
    IF Replayed(r, id, source, n) THEN r
    ELSE [Booking(Remember(r, id, source, n), id) EXCEPT
            !.handled = @ \cup {<<id, source, n>>},
            !.applied = IF id \in Callbacks THEN Tick(@, id) ELSE @]

----------------------------------------------------------------------------
(* The adapter.                                                            *)

\* Mutant: the callback's ID is not kept.
SeeNothing(r, c) == r

See(r, c) == [r EXCEPT !.seen = @ \cup {c}]

\* Settlements and position fingerprints published before are not published
\* again; a fill is recognised by its event ID alone.
Guarded(c) == Kind[c] \in {"funding", "position"}

Repeated(r, c) == Guarded(c) /\ KeyOf[c] \in r.known
Known(r, c) == IF Guarded(c) THEN [r EXCEPT !.known = @ \cup {KeyOf[c]}] ELSE r

\* The adapter's own commission and funding totals.
Native(r, c) ==
    IF Economic(c) THEN [r EXCEPT !.native = Tick(@, KeyOf[c])] ELSE r

\* _envelope numbers the event before the reducer sees it.
Numbered(r) == [r EXCEPT !.sequence = @ + 1]

\* Mutant: the intents are routed before the pair is persisted.
ProcessRoutedFirst(r, event) ==
    /\ live' = r
    /\ current' = IF event \in r.handled \ live.handled THEN event ELSE None
    /\ phase' = "unrouted"
    /\ UNCHANGED <<durable, routed, crashes>>

\* One callback: the work up to persisting, in memory.
Process(r, event) ==
    /\ live' = r
    /\ current' = IF event \in r.handled \ live.handled THEN event ELSE None
    /\ phase' = "unsaved"
    /\ UNCHANGED <<durable, routed, crashes>>

Deliver(c) ==
    LET n == live.sequence + 1
        r == Numbered(Native(Known(See(live, c), c), c))
    IN  /\ phase = "idle" /\ c \notin live.seen /\ ~Repeated(live, c)
        /\ Process(Handle(r, c, SourceOf[c], n), <<c, SourceOf[c], n>>)

\* Seen, but not published: a repeated key, an order already terminal, a
\* position of another setup.
Ignore(c) ==
    /\ phase = "idle" /\ c \notin live.seen
    /\ Repeated(live, c) \/ ~Economic(c)
    /\ Process(See(live, c), None)

\* Bars, equity updates and reconciliations the adapter raises itself.
Internal(s) ==
    LET n == live.sequence + 1
    IN  /\ phase = "idle" /\ n <= MaxSequence
        /\ Process(Handle(Numbered(live), <<s, n>>, s, n), <<<<s, n>>, s, n>>)

\* A transport hands the reducer an event it handled before, unchanged.
Replay(e) ==
    /\ phase = "idle"
    /\ Process(Handle(live, e[1], e[2], e[3]), e)

\* persist_recovery_transition writes snapshot and checkpoint as one pair.
Persist ==
    /\ phase = "unsaved"
    /\ durable' = live
    /\ phase' = "unrouted"
    /\ UNCHANGED <<live, current, routed, crashes>>

Route ==
    /\ phase = "unrouted"
    /\ routed' = IF current = None THEN routed ELSE routed \cup {current}
    /\ phase' = "idle" /\ current' = None
    /\ UNCHANGED <<live, durable, crashes>>

\* Without a checkpoint only the reducer's half survives.
Surviving(r) ==
    IF Checkpointed THEN r
    ELSE [r EXCEPT !.seen = {}, !.known = {}, !.native = [k \in Keys |-> 0], !.sequence = 0]

\* Mutant: the restarted adapter counts from zero.
ResumedFromZero(r) == 0

\* The restarted adapter counts on from the larger of the reducer's marks
\* and its own checkpoint.
ResumedSequence(r) ==
    LET marks == {r.sequence} \cup {r.high[s] : s \in Sources}
    IN  CHOOSE n \in marks : \A m \in marks : m <= n

Resumed(r) == [r EXCEPT !.sequence = ResumedSequence(r)]

Crash ==
    /\ crashes < MaxCrashes
    /\ live' = Resumed(Surviving(durable))
    /\ phase' = "idle" /\ current' = None /\ crashes' = crashes + 1
    /\ UNCHANGED <<durable, routed>>

Next ==
    \/ \E c \in Callbacks : Deliver(c)
    \/ \E c \in Callbacks : Ignore(c)
    \/ \E s \in Sources : Internal(s)
    \/ \E e \in live.handled : Replay(e)
    \/ Persist
    \/ Route
    \/ Crash

Spec == Init /\ [][Next]_vars

----------------------------------------------------------------------------
(* Properties.                                                             *)

Images == {live, durable}

\* Names of events: callbacks by their native ID, the rest by their number.
Ids == Callbacks \cup (Sources \X Nat)

Image ==
    [seen : SUBSET Callbacks, known : SUBSET Keys, native : [Keys -> Nat], sequence : Nat,
     recent : Seq(Ids), high : [Sources -> Int], booked : SUBSET Keys,
     applied : [Callbacks -> Nat], books : [Keys -> Nat],
     handled : SUBSET (Ids \X Sources \X Nat)]

\* Every image of the adapter and the reducer, in memory or on disk, is well
\* typed, and the window of recent IDs never exceeds its limit.
TypeOK ==
    /\ \A r \in Images : r \in Image /\ Len(r.recent) <= RecentLimit
    /\ phase \in {"idle", "unsaved", "unrouted"}
    /\ crashes \in 0 .. MaxCrashes

\* docs/ARCHITECTURE.md, invariant 5: no execution and no settlement changes
\* the reducer's ledgers twice, in memory or on disk, however often it is
\* redelivered under old or new event IDs, replayed, or lost in a crash.
BookedOnce == \A r \in Images : \A k \in Keys : r.books[k] <= 1

\* With a checkpoint no native callback takes effect twice in one surviving
\* history, though its event ID has left the bounded window and a restarted
\* adapter numbers a redelivery anew.
AppliedOnce == Checkpointed => \A r \in Images : \A c \in Callbacks : r.applied[c] <= 1

\* A callback the adapter will not deliver again has reached the ledgers: no
\* fill or settlement is dropped as the replay of something it is not, in
\* particular not after a restart, when the counter starts again.
NothingLost ==
    \A r \in Images : \A c \in r.seen : Economic(c) => r.books[KeyOf[c]] = 1

\* An intent leaves the process only when the transition that produced it can
\* no longer be forgotten by a crash.
EffectsDurable == routed \subseteq durable.handled

\* The adapter's own funding total counts a settlement as often as the
\* reducer's ledger does, however often it is redelivered or re-minted.
NativeSettlementsMatch ==
    Checkpointed =>
        \A r \in Images : \A c \in Callbacks :
            Kind[c] = "funding" => r.native[KeyOf[c]] = r.books[KeyOf[c]]

\* Nothing counts twice: not in the reducer's ledgers, not as an effect, and no
\* settlement in the adapter's own total.
OnceOnly == BookedOnce /\ AppliedOnce /\ NativeSettlementsMatch

\* The books on disk only ever gain one key at a time, once.
Ledger == INSTANCE EventLedger WITH books <- durable.books
BooksRefineLedger == Ledger!LedgerSpec
============================================================================
