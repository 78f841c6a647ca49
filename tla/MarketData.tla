----------------------------- MODULE MarketData -----------------------------
(***************************************************************************)
(* Candles on their way from an exchange to a backtest (fetch_data.py,     *)
(* process_data.py, data_integrity.py): algo-fetch appends pages to the    *)
(* raw file and resumes from its last row, algo-process turns raw into     *)
(* processed, --resample-to turns processed into coarser bars.  They are   *)
(* commands of their own, run in any order and again; fetching stops       *)
(* between two requests or while it writes.                                *)
(*                                                                         *)
(* Time counts candles.  A candle is what its columns say: the finished    *)
(* candle of a time, the unfinished one, or a fill, flat at the close of   *)
(* an earlier candle with no volume.  A file is a function of time; an     *)
(* absent one is <<>>.                                                     *)
(***************************************************************************)
EXTENDS Integers, Sequences, FiniteSets

CONSTANTS
    PageLimit,      \* --limit, candles in one answer
    FlushEvery,     \* buffered pages before the raw file is written: 12
    MissingShare,   \* one missing candle in so many is still filled: 200
    Ratio,          \* candles in a bar of the coarser time frame
    Starts, Ends,   \* bounds: the operator's --start and --end
    MaxTime         \* bound: the exchange's clock

ASSUME MarketDataAssumption ==
    /\ {PageLimit, FlushEvery, MissingShare, Ratio} \subseteq Nat \ {0}
    /\ MaxTime \in Nat /\ Starts \subseteq 0 .. MaxTime /\ Ends \subseteq 0 .. MaxTime

VARIABLES
    feed,           \* the exchange: price source, times it lists, its clock
    job,            \* the fetch that runs
    files           \* raw, processed, coarse; times a later --start passed over

dataVars == <<feed, job, files>>

NoEnd == MaxTime + 1                       \* no --end: until_ms is None

First(file) == CHOOSE t \in DOMAIN file : \A u \in DOMAIN file : t <= u
Last4(file) == CHOOSE t \in DOMAIN file : \A u \in DOMAIN file : u <= t
Keep(file, times) == [t \in DOMAIN file \cap times |-> file[t]]

----------------------------------------------------------------------------
(* algo-fetch.                                                             *)

\* The exchange's answer: the first candles it lists from the cursor on.
Answer4(cursor) ==
    LET listed == {t \in feed.listed : cursor <= t /\ t <= feed.now}
    IN  {t \in listed : Cardinality({u \in listed : u <= t}) <= PageLimit}

Bounded(page) == {t \in page : t <= job.until}

Batch(page) == [t \in page |-> [kind |-> IF t < feed.now THEN "final" ELSE "open", at |-> t]]

\* The times of what is buffered, and the first batch that has one.
Buffered(buffers) == UNION {DOMAIN buffers[i] : i \in DOMAIN buffers}
FirstBatch(buffers, t) ==
    CHOOSE i \in DOMAIN buffers :
        /\ t \in DOMAIN buffers[i]
        /\ \A k \in DOMAIN buffers : t \in DOMAIN buffers[k] => i <= k

\* _save_append: old rows first, the first row of a time is kept.
Saved(raw, buffers) ==
    [t \in DOMAIN raw \cup Buffered(buffers) |->
        IF t \in DOMAIN raw THEN raw[t] ELSE buffers[FirstBatch(buffers, t)][t]]

SinceLate(start) ==                        \* mutant: one candle too far
    IF files.raw # <<>> /\ Last4(files.raw) >= start THEN Last4(files.raw) + 2 ELSE start

\* Resume after the last row of the file, or start where the operator says.
Since(start) ==
    IF files.raw # <<>> /\ Last4(files.raw) >= start THEN Last4(files.raw) + 1 ELSE start

Idle4 == [phase |-> "idle", cursor |-> 0, until |-> NoEnd, buffers |-> <<>>]

FetchBegin(start, until) ==
    /\ job.phase = "idle" /\ start <= until /\ start <= feed.now
    /\ job' = [phase |-> "run", cursor |-> Since(start), until |-> until, buffers |-> <<>>]
    /\ files' = [files EXCEPT
           !.skipped = IF files.raw = <<>> THEN {} ELSE @ \cup (Last4(files.raw) + 1 .. start - 1),
           !.toPresent = @ \/ until >= feed.now]
    /\ UNCHANGED feed

\* A request answered with candles: buffered, and written with the others now and then.
FetchPage ==
    LET page == Answer4(job.cursor)
        got == IF Bounded(page) = {} THEN job.buffers ELSE Append(job.buffers, Batch(Bounded(page)))
        full == Len(got) >= FlushEvery
    IN  /\ job.phase = "run" /\ job.cursor <= job.until /\ page # {}
        /\ job' = [job EXCEPT !.cursor = (CHOOSE t \in page : \A u \in page : u <= t) + 1,
                              !.buffers = IF full THEN <<>> ELSE got]
        /\ files' = IF full THEN [files EXCEPT !.raw = Saved(@, got)] ELSE files
        /\ UNCHANGED feed

\* No more to ask for: what is still buffered is written.
FetchEnd ==
    /\ job.phase = "run" /\ (job.cursor > job.until \/ Answer4(job.cursor) = {})
    /\ job' = Idle4
    /\ files' = [files EXCEPT !.raw = Saved(@, job.buffers)]
    /\ UNCHANGED feed

\* Six retries fail, or the process is killed: buffered pages are gone.
FetchFails ==
    /\ job.phase = "run" /\ job' = Idle4
    /\ UNCHANGED <<feed, files>>

\* Killed while to_csv rewrites the whole file: it ends after some row.
TornWrite ==
    /\ job.phase = "run" /\ job.buffers # <<>>
    /\ LET rows == Saved(files.raw, job.buffers)
       IN  \E t \in DOMAIN rows : files' = [files EXCEPT !.raw = Keep(rows, 0 .. t)]
    /\ job' = Idle4
    /\ UNCHANGED feed

----------------------------------------------------------------------------
(* algo-process and --resample-to.                                         *)

Grid(file) == First(file) .. Last4(file)
Missing(file) == Grid(file) \ DOMAIN file

\* validate_and_fill: a missing candle is flat at the close before it.
ValidateAndFill(file) ==
    [t \in Grid(file) |->
        IF t \in DOMAIN file THEN file[t]
        ELSE [kind |-> "fill", at |-> CHOOSE u \in DOMAIN file :
                                         u < t /\ \A v \in DOMAIN file : v < t => v <= u]]

TooManyMissing(file) == Cardinality(Missing(file)) * MissingShare > Cardinality(Grid(file))

\* check_mark_price_integrity: one missing candle fails it.
DetectGaps(file, mult) ==
    {t \in DOMAIN file : \E u \in DOMAIN file :
        u - t > mult /\ \A v \in DOMAIN file : v <= t \/ v >= u}

MarkLoose(file) == DetectGaps(file, 3) = {}    \* mutant: the threshold of trade candles

MarkOk(file) == DetectGaps(file, 1) = {}

\* process_file; a refusal leaves the processed file as it was.
ProcessFile ==
    /\ files.raw # <<>>
    /\ files' = [files EXCEPT !.processed =
           IF feed.source = "mark"
           THEN IF MarkOk(files.raw) THEN files.raw ELSE @
           ELSE IF TooManyMissing(files.raw) THEN @ ELSE ValidateAndFill(files.raw)]
    /\ UNCHANGED <<feed, job>>

Bucket(t) == t \div Ratio
Members(b) == b * Ratio .. (b + 1) * Ratio - 1

\* aggregate_processed: a bar is made of the candles the file has in its bucket.
Aggregate ==
    /\ feed.source = "trade" /\ files.processed # <<>>
    /\ files' = [files EXCEPT !.coarse =
           [b \in {Bucket(t) : t \in DOMAIN files.processed} |-> Keep(files.processed, Members(b))]]
    /\ UNCHANGED <<feed, job>>

----------------------------------------------------------------------------
\* The exchange finishes a candle and opens the next.
Tick ==
    /\ feed.now < MaxTime
    /\ feed' = [feed EXCEPT !.now = @ + 1]
    /\ UNCHANGED <<job, files>>

DataInit ==
    /\ \E source \in {"trade", "mark"}, listed \in SUBSET (0 .. MaxTime) :
           feed = [source |-> source, listed |-> listed, now |-> 0]
    /\ job = Idle4
    /\ files = [raw |-> <<>>, processed |-> <<>>, coarse |-> <<>>, skipped |-> {}, toPresent |-> FALSE]

DataNext ==
    \/ \E start \in Starts, until \in Ends \cup {NoEnd} : FetchBegin(start, until)
    \/ FetchPage \/ FetchEnd \/ FetchFails \/ TornWrite
    \/ ProcessFile \/ Aggregate \/ Tick

DataSpec == DataInit /\ [][DataNext]_dataVars

----------------------------------------------------------------------------
(* Between its first and its last row the raw file has every candle the    *)
(* exchange lists, through failed and killed fetches and resumes; only an  *)
(* operator's later --start leaves a hole.                                 *)
ResumeLeavesNoHole ==
    files.raw # <<>> =>
        feed.listed \cap Grid(files.raw) \subseteq DOMAIN files.raw \cup files.skipped

(* A candle the pipeline made up stands only where the exchange lists none *)
(* or where an operator's later --start passed over it, and mark prices,   *)
(* whose gap may hide a liquidation, have none and no gap either.          *)
FillsOnlyGaps ==
    \A t \in DOMAIN files.processed :
        files.processed[t].kind = "fill" =>
            feed.source = "trade" /\ (t \notin feed.listed \/ t \in files.skipped)
MarkPricesWhole ==
    feed.source = "mark" /\ files.processed # <<>> =>
        DOMAIN files.processed = Grid(files.processed)

(* Only the first and the last coarse bar may lack some of their candles.  *)
CoarseBarsWhole ==
    \A b \in DOMAIN files.coarse :
        b \in {First(files.coarse), Last4(files.coarse)} \/ DOMAIN files.coarse[b] = Members(b)

(* While every fetch is bounded to the past, no candle that was still open *)
(* gets into the data; once there it stays, a resume starts after it.      *)
PastIsFinal ==
    ~files.toPresent =>
        /\ \A t \in DOMAIN files.raw : files.raw[t].kind = "final"
        /\ \A t \in DOMAIN files.processed : files.processed[t].kind # "open"

(* The raw file is the exchange's history, as far as it goes.              *)
RawIsHistory == ResumeLeavesNoHole /\ PastIsFinal

(* No candle or coarse bar pretends to more than the exchange listed.      *)
PipelineHonest == FillsOnlyGaps /\ MarkPricesWhole /\ CoarseBarsWhole

=============================================================================
