----------------------------- MODULE DataProofs -----------------------------
(***************************************************************************)
(* What a backtest is fed with, for every bound: candles on their way from *)
(* the exchange into files (MarketData), and a perpetual's settlements     *)
(* (FundingHistory).  Both invariants say what has been swept while a      *)
(* fetch runs: everything listed before the cursor is in the file or       *)
(* buffered, and what is buffered lies behind what is written; Bybit's     *)
(* funding loop sweeps the other way, from the end.                        *)
(* Then what a walk-forward makes of an index of bars (WalkForward): its   *)
(* folds lie on a grid of steps, the times of the bars never fall.         *)
(***************************************************************************)
EXTENDS MarketData, FundingHistory, WalkForward, FiniteSetTheorems, WellFoundedInduction, TLAPS

\* A set of natural numbers that is not empty has a first one.
LEMMA HasFirst ==
    ASSUME NEW S \in SUBSET Nat, S # {}
    PROVE  \E s \in S : \A u \in S : s <= u
<1>1. PICK x \in S : \A y \in S : ~(<<y, x>> \in OpToRel(<, Nat))
  BY WFMin, NatLessThanWellFounded
<1>2. \A y \in S : x <= y
  <2> TAKE y \in S
  <2>1. y \in Nat /\ x \in Nat
    OBVIOUS
  <2>2. ~(<<y, x>> \in OpToRel(<, Nat))
    BY <1>1
  <2>3. ~(y < x)
    BY <2>1, <2>2 DEF OpToRel
  <2> QED
    BY <2>1, <2>3
<1>3. QED
  BY <1>2

\* One with a bound has a last one.
LEMMA HasLast ==
    ASSUME NEW n \in Nat, NEW S \in SUBSET (0 .. n), S # {}
    PROVE  \E s \in S : \A u \in S : u <= s
<1> DEFINE T == {n - s : s \in S}
<1>1. T \in SUBSET Nat /\ T # {}
  <2>1. \A s \in S : n - s \in Nat
    OBVIOUS
  <2>2. \E s \in S : TRUE
    OBVIOUS
  <2>3. QED
    BY <2>1, <2>2
<1>2. PICK t \in T : \A u \in T : t <= u
  BY <1>1, HasFirst
<1>3. PICK s \in S : t = n - s
  BY <1>2
<1>4. \A u \in S : u <= s
  <2> TAKE u \in S
  <2>1. n - s <= n - u
    BY <1>2, <1>3
  <2>2. s \in 0 .. n /\ u \in 0 .. n
    OBVIOUS
  <2> HIDE DEF T
  <2>3. QED
    BY <2>1, <2>2
<1>5. QED
  BY <1>4

----------------------------------------------------------------------------
(* Candles.                                                                *)

\* A file is a function of time.
IsFile(f) == DOMAIN f \subseteq 0 .. MaxTime /\ f = [t \in DOMAIN f |-> f[t]]

\* Candles that came from the exchange, and such that were all finished.
Fetched(f) ==
    IsFile(f) /\ \A t \in DOMAIN f : t \in feed.listed /\ t <= feed.now /\ f[t].kind \in {"final", "open"}
Finished(f) == \A t \in DOMAIN f : f[t].kind = "final"

Batches == UNION {[S -> [kind : {"final", "open"}, at : 0 .. MaxTime]] : S \in SUBSET (0 .. MaxTime)}

FeedOK ==
    feed \in [source : {"trade", "mark"}, listed : SUBSET (0 .. MaxTime), now : 0 .. MaxTime]
JobOK ==
    /\ job = [phase |-> job.phase, cursor |-> job.cursor, until |-> job.until, buffers |-> job.buffers]
    /\ job.phase \in {"idle", "run"} /\ job.cursor \in Int /\ job.until \in Int
    /\ job.buffers \in Seq(Batches) /\ \A i \in DOMAIN job.buffers : Fetched(job.buffers[i])
FilesOK ==
    /\ {"raw", "processed", "coarse", "skipped", "toPresent"} \subseteq DOMAIN files
    /\ Fetched(files.raw) /\ IsFile(files.processed) /\ files.toPresent \in BOOLEAN
    /\ files.raw = <<>> => files.processed = <<>>

\* Between the first and the last of some times nothing listed is missing.
Whole(R) ==
    \A t \in feed.listed : (\E u \in R : u <= t) /\ (\E u \in R : t <= u) => t \in R \cup files.skipped

\* R is in the file and B waits to be written; before the cursor nothing is missing.
Sweeps(R, B, cursor, until) ==
    /\ \A u \in R, v \in B : u < v
    /\ \A u \in R \cup B : u < cursor
    /\ \A v \in B : v <= until
    /\ \A t \in feed.listed :
        t < cursor /\ t <= until /\ (\E u \in R \cup B : u <= t) => t \in R \cup B \cup files.skipped

SweepInv ==
    job.phase = "run" => Sweeps(DOMAIN files.raw, Buffered(job.buffers), job.cursor, job.until)

\* No fetch asked for the present.
FinalInv ==
    ~files.toPresent =>
        /\ job.phase = "run" => job.until < feed.now
        /\ Finished(files.raw) /\ \A i \in DOMAIN job.buffers : Finished(job.buffers[i])
        /\ \A t \in DOMAIN files.processed : files.processed[t].kind # "open"

\* Trade candles that were processed have no gap.
TradeSpan ==
    feed.source = "trade" =>
        \A t, v \in DOMAIN files.processed : t .. v \subseteq DOMAIN files.processed

DataInv ==
    /\ FeedOK /\ JobOK /\ FilesOK
    /\ Whole(DOMAIN files.raw) /\ SweepInv /\ FinalInv
    /\ TradeSpan /\ PipelineHonest

\* A file without rows is absent.
LEMMA EmptyFile ==
    ASSUME NEW f, IsFile(f), DOMAIN f = {}
    PROVE  f = <<>>
BY DEF IsFile

\* A file that is there begins and ends somewhere.
LEMMA EndsAre ==
    ASSUME MarketDataAssumption, NEW f, IsFile(f), f # <<>>
    PROVE  /\ First(f) \in DOMAIN f /\ \A t \in DOMAIN f : First(f) <= t
           /\ Last4(f) \in DOMAIN f /\ \A t \in DOMAIN f : t <= Last4(f)
           /\ First(f) \in 0 .. MaxTime /\ Last4(f) \in 0 .. MaxTime
<1>1. DOMAIN f # {} /\ DOMAIN f \in SUBSET (0 .. MaxTime) /\ DOMAIN f \in SUBSET Nat /\ MaxTime \in Nat
  <2>1. DOMAIN f # {}
    BY EmptyFile
  <2>2. DOMAIN f \subseteq 0 .. MaxTime /\ MaxTime \in Nat
    BY DEF IsFile, MarketDataAssumption
  <2> QED
    BY <2>1, <2>2
<1>2. \E s \in DOMAIN f : \A u \in DOMAIN f : s <= u
  BY <1>1, HasFirst
<1>3. \E s \in DOMAIN f : \A u \in DOMAIN f : u <= s
  BY <1>1, HasLast
<1>4. First(f) \in DOMAIN f /\ \A t \in DOMAIN f : First(f) <= t
  BY <1>2 DEF First
<1>5. Last4(f) \in DOMAIN f /\ \A t \in DOMAIN f : t <= Last4(f)
  BY <1>3 DEF Last4
<1> QED
  BY <1>1, <1>4, <1>5

\* One more batch is one more batch.
LEMMA BufferedIs ==
    /\ Buffered(<<>>) = {}
    /\ \A b \in Seq(Batches), x \in Batches :
        /\ Append(b, x) \in Seq(Batches) /\ DOMAIN Append(b, x) = DOMAIN b \cup {Len(b) + 1}
        /\ \A i \in DOMAIN b : Append(b, x)[i] = b[i]
        /\ Append(b, x)[Len(b) + 1] = x
        /\ Buffered(Append(b, x)) = Buffered(b) \cup DOMAIN x
<1>1. Buffered(<<>>) = {}
  BY DEF Buffered
<1>2. ASSUME NEW b \in Seq(Batches), NEW x \in Batches
      PROVE  /\ Append(b, x) \in Seq(Batches) /\ DOMAIN Append(b, x) = DOMAIN b \cup {Len(b) + 1}
             /\ \A i \in DOMAIN b : Append(b, x)[i] = b[i]
             /\ Append(b, x)[Len(b) + 1] = x
             /\ Buffered(Append(b, x)) = Buffered(b) \cup DOMAIN x
  <2> DEFINE z == Append(b, x)
  <2>1. /\ z \in Seq(Batches) /\ DOMAIN z = DOMAIN b \cup {Len(b) + 1}
        /\ \A i \in DOMAIN b : z[i] = b[i]
        /\ z[Len(b) + 1] = x
    OBVIOUS
  <2> HIDE DEF z
  <2>2. Buffered(z) = Buffered(b) \cup DOMAIN x
    BY <2>1 DEF Buffered
  <2> QED
    BY <2>1, <2>2 DEF z
<1> QED
  BY <1>1, <1>2

\* What is written keeps the rows that were there and adds the others.
LEMMA SavedIs ==
    ASSUME NEW raw, Fetched(raw), NEW b \in Seq(Batches), \A i \in DOMAIN b : Fetched(b[i])
    PROVE  LET z == Saved(raw, b)
           IN  /\ Fetched(z) /\ DOMAIN z = DOMAIN raw \cup Buffered(b)
               /\ Finished(raw) /\ (\A i \in DOMAIN b : Finished(b[i])) => Finished(z)
<1> DEFINE z == Saved(raw, b)
<1>1. /\ DOMAIN z = DOMAIN raw \cup Buffered(b)
      /\ \A t \in DOMAIN z : z[t] = IF t \in DOMAIN raw THEN raw[t] ELSE b[FirstBatch(b, t)][t]
      /\ z = [t \in DOMAIN z |-> z[t]]
  BY DEF Saved
<1>2. ASSUME NEW t \in Buffered(b)
      PROVE  FirstBatch(b, t) \in DOMAIN b /\ t \in DOMAIN b[FirstBatch(b, t)]
  <2> DEFINE S == {i \in DOMAIN b : t \in DOMAIN b[i]}
  <2>1. S \in SUBSET Nat /\ S # {}
    BY <1>2 DEF Buffered
  <2>2. \E i \in S : \A k \in S : i <= k
    BY <2>1, HasFirst
  <2> QED
    BY <2>2 DEF FirstBatch
<1> HIDE DEF z
<1>3. ASSUME NEW t \in DOMAIN z
      PROVE  \/ t \in DOMAIN raw /\ z[t] = raw[t]
             \/ \E i \in DOMAIN b : t \in DOMAIN b[i] /\ z[t] = b[i][t]
  BY <1>1, <1>2
<1>4. Fetched(z)
  <2>1. \A t \in DOMAIN z : t \in feed.listed /\ t <= feed.now /\ z[t].kind \in {"final", "open"} /\ t \in 0 .. MaxTime
    BY <1>3 DEF Fetched, IsFile
  <2> QED
    BY <1>1, <2>1 DEF Fetched, IsFile
<1>5. Finished(raw) /\ (\A i \in DOMAIN b : Finished(b[i])) => Finished(z)
  BY <1>3 DEF Finished
<1> QED
  BY <1>1, <1>4, <1>5 DEF z

\* An answer leaves out nothing up to its last candle.
LEMMA PageIs ==
    ASSUME MarketDataAssumption, FeedOK, NEW cursor \in Int
    PROVE  LET page == Answer4(cursor)
           IN  /\ page \subseteq feed.listed /\ \A t \in page : cursor <= t /\ t <= feed.now
               /\ \A t \in feed.listed, u \in page : cursor <= t /\ t <= u => t \in page
               /\ page # {} => LET last == CHOOSE t \in page : \A u \in page : u <= t
                               IN  last \in page /\ \A u \in page : u <= last
<1> DEFINE listed == {t \in feed.listed : cursor <= t /\ t <= feed.now}
           upTo(t) == {u \in listed : u <= t}
           page == Answer4(cursor)
<1>1. page = {t \in listed : Cardinality(upTo(t)) <= PageLimit}
  BY DEF Answer4
<1>2. MaxTime \in Nat /\ PageLimit \in Int /\ feed.listed \subseteq 0 .. MaxTime /\ feed.now \in Int
  BY DEF MarketDataAssumption, FeedOK
<1>3. \A t : IsFiniteSet(upTo(t)) /\ Cardinality(upTo(t)) \in Nat
  <2>1. IsFiniteSet(0 .. MaxTime)
    BY <1>2, FS_Interval
  <2>2. \A t : upTo(t) \in SUBSET (0 .. MaxTime)
    BY <1>2
  <2> QED
    BY <2>1, <2>2, FS_Subset, FS_CardinalityType
<1>4. ASSUME NEW t \in feed.listed, NEW u \in page, cursor <= t, t <= u
      PROVE  t \in page
  <2>1. t \in Int /\ u \in Int /\ u \in listed /\ feed.now \in Int
    BY <1>1, <1>2
  <2>2. t \in listed
    BY <1>4, <2>1
  <2>3. upTo(t) \in SUBSET upTo(u)
    BY <1>2, <1>4, <2>1
  <2>4. Cardinality(upTo(t)) <= Cardinality(upTo(u))
    BY <1>3, <2>3, FS_Subset
  <2>5. Cardinality(upTo(u)) <= PageLimit
    BY <1>1
  <2>6. Cardinality(upTo(t)) <= PageLimit
    <3> HIDE DEF upTo
    <3> QED
      BY <1>2, <1>3, <2>4, <2>5
  <2> QED
    BY <1>1, <2>2, <2>6
<1>5. page \subseteq feed.listed /\ \A t \in page : cursor <= t /\ t <= feed.now
  BY <1>1
<1>6. page # {} => \E s \in page : \A u \in page : u <= s
  BY <1>2, <1>5, HasLast
<1> HIDE DEF page
<1> QED
  BY <1>4, <1>5, <1>6 DEF page

\* A batch is what came.
LEMMA BatchIs ==
    ASSUME MarketDataAssumption, FeedOK, NEW page \in SUBSET feed.listed, \A t \in page : t <= feed.now
    PROVE  /\ Batch(page) \in Batches /\ Fetched(Batch(page)) /\ DOMAIN Batch(page) = page
           /\ (\A t \in page : t < feed.now) => Finished(Batch(page))
<1>1. page \subseteq 0 .. MaxTime
  BY DEF FeedOK
<1>2. Batch(page) \in [page -> [kind : {"final", "open"}, at : 0 .. MaxTime]]
  BY <1>1 DEF Batch
<1> QED
  BY <1>1, <1>2 DEF Batch, Batches, Fetched, Finished, IsFile

----------------------------------------------------------------------------
(* Fetching.                                                               *)

\* The next page sweeps on.
LEMMA PageSweeps ==
    ASSUME NEW R \in SUBSET Int, NEW B \in SUBSET Int, NEW cursor \in Int, NEW until \in Int,
           Sweeps(R, B, cursor, until),
           NEW page \in SUBSET feed.listed, feed.listed \subseteq Int, NEW last \in page,
           \A t \in page : cursor <= t /\ t <= last,
           \A t \in feed.listed, u \in page : cursor <= t /\ t <= u => t \in page
    PROVE  Sweeps(R, B \cup {t \in page : t <= until}, last + 1, until)
<1> DEFINE C == B \cup {t \in page : t <= until}
<1>1. last \in Int /\ last >= cursor /\ \A t \in page : t \in Int
  OBVIOUS
<1>2. ASSUME NEW u \in R, NEW v \in C PROVE u < v
  BY <1>1 DEF Sweeps
<1>3. ASSUME NEW u \in R \cup C PROVE u < last + 1
  BY <1>1 DEF Sweeps
<1>4. ASSUME NEW v \in C PROVE v <= until
  BY DEF Sweeps
<1>5. ASSUME NEW t \in feed.listed, t < last + 1, t <= until, NEW u \in R \cup C, u <= t
      PROVE  t \in R \cup C \cup files.skipped
  <2>1. t \in Int
    OBVIOUS
  <2>2. CASE t < cursor
    <3>1. u \in R \cup B
      BY <1>1, <1>5, <2>1, <2>2
    <3> QED
      BY <1>5, <2>2, <3>1 DEF Sweeps
  <2>3. CASE cursor <= t
    BY <1>1, <1>5, <2>1, <2>3
  <2> QED
    BY <2>1, <2>2, <2>3
<1> QED
  BY <1>2, <1>3, <1>4, <1>5 DEF Sweeps

\* What is written leaves out nothing either.
LEMMA WriteSweeps ==
    ASSUME NEW R \in SUBSET Int, NEW B \in SUBSET Int, NEW cursor \in Int, NEW until \in Int, feed.listed \subseteq Int,
           Sweeps(R, B, cursor, until), Whole(R)
    PROVE  Whole(R \cup B) /\ Sweeps(R \cup B, {}, cursor, until)
<1>1. ASSUME NEW t \in feed.listed, NEW u \in R \cup B, u <= t, NEW v \in R \cup B, t <= v
      PROVE  t \in R \cup B \cup files.skipped
  <2>1. t \in Int /\ v < cursor /\ t < cursor
    BY <1>1 DEF Sweeps
  <2>2. CASE t <= until
    BY <1>1, <2>1, <2>2 DEF Sweeps
  <2>3. CASE ~(t <= until)
    <3>1. v \in R
      BY <1>1, <2>1, <2>3 DEF Sweeps
    <3>2. u \in R
      <4>1. u \in B => v < u
        BY <3>1 DEF Sweeps
      <4> QED
        BY <1>1, <2>1, <4>1
    <3> QED
      BY <1>1, <3>1, <3>2 DEF Whole
  <2> QED
    BY <2>2, <2>3
<1>2. Whole(R \cup B)
  BY <1>1 DEF Whole
<1>3. Sweeps(R \cup B, {}, cursor, until)
  BY DEF Sweeps
<1> QED
  BY <1>2, <1>3

\* A prefix of a whole file is whole.
LEMMA PrefixWhole ==
    ASSUME NEW R \in SUBSET Int, feed.listed \subseteq Int, Whole(R), NEW last \in R
    PROVE  Whole({t \in R : t <= last})
<1>1. ASSUME NEW t \in feed.listed, NEW u \in R, u <= last, u <= t, NEW v \in R, v <= last, t <= v
      PROVE  t \in {x \in R : x <= last} \cup files.skipped
  <2>1. t \in R \cup files.skipped
    BY <1>1 DEF Whole
  <2>2. t <= last
    <3>1. t \in Int /\ v \in Int /\ last \in Int
      OBVIOUS
    <3> QED
      BY <1>1, <3>1
  <2> QED
    BY <2>1, <2>2
<1> QED
  BY <1>1 DEF Whole

\* What a fetch does not touch.
Untouched ==
    /\ feed'.source = feed.source /\ feed'.listed = feed.listed
    /\ files'.processed = files.processed /\ files'.coarse = files.coarse
    /\ files.processed # <<>> => files.skipped \subseteq files'.skipped
LEMMA UntouchedIs ==
    ASSUME DataInv, Untouched
    PROVE  TradeSpan' /\ PipelineHonest'
<1>1. TradeSpan'
  BY DEF DataInv, TradeSpan, Untouched
<1>2. FillsOnlyGaps'
  <2>1. files.processed = <<>> => DOMAIN files.processed = {}
    OBVIOUS
  <2> QED
    BY <2>1 DEF DataInv, PipelineHonest, FillsOnlyGaps, Untouched
<1>3. MarkPricesWhole' /\ CoarseBarsWhole'
  BY DEF DataInv, PipelineHonest, MarkPricesWhole, CoarseBarsWhole, Untouched, Grid, First, Last4
<1> QED
  BY <1>1, <1>2, <1>3 DEF PipelineHonest

\* The parts of the invariant, spelled out.
LEMMA Parts ==
    ASSUME MarketDataAssumption, DataInv
    PROVE  /\ MaxTime \in Nat /\ feed.listed \subseteq 0 .. MaxTime /\ feed.listed \subseteq Int /\ feed.now \in Int
           /\ Fetched(files.raw) /\ DOMAIN files.raw \subseteq Int /\ Buffered(job.buffers) \subseteq Int
           /\ job.buffers \in Seq(Batches) /\ (\A i \in DOMAIN job.buffers : Fetched(job.buffers[i]))
           /\ job.cursor \in Int /\ job.until \in Int
<1>1. MaxTime \in Nat /\ feed.listed \subseteq 0 .. MaxTime /\ feed.now \in 0 .. MaxTime
  BY DEF DataInv, FeedOK, MarketDataAssumption
<1>2. Fetched(files.raw) /\ (\A i \in DOMAIN job.buffers : Fetched(job.buffers[i]))
  BY DEF DataInv, FilesOK, JobOK
<1>3. DOMAIN files.raw \subseteq Int /\ Buffered(job.buffers) \subseteq Int
  <2>1. /\ DOMAIN files.raw \subseteq 0 .. MaxTime
        /\ \A i \in DOMAIN job.buffers : DOMAIN job.buffers[i] \subseteq 0 .. MaxTime
    BY <1>2 DEF Fetched, IsFile
  <2>2. Buffered(job.buffers) \subseteq 0 .. MaxTime
    BY <2>1 DEF Buffered
  <2> QED
    BY <1>1, <2>1, <2>2
<1> QED
  BY <1>1, <1>2, <1>3 DEF DataInv, JobOK

\* A fetch begins behind the last row, or says what it passes over.
LEMMA BeginStep ==
    ASSUME MarketDataAssumption, DataInv, NEW start \in Starts, NEW until \in Ends \cup {NoEnd},
           FetchBegin(start, until)
    PROVE  DataInv'
<1>1. start \in Int /\ until \in Int
  BY DEF MarketDataAssumption, NoEnd
<1> DEFINE skipped == IF files.raw = <<>> THEN {} ELSE files.skipped \cup (Last4(files.raw) + 1 .. start - 1)
           present == files.toPresent \/ until >= feed.now
<1>2. /\ job' = [phase |-> "run", cursor |-> Since(start), until |-> until, buffers |-> <<>>]
      /\ files' = [files EXCEPT !.skipped = skipped, !.toPresent = present] /\ feed' = feed
      /\ job.phase = "idle"
  BY DEF FetchBegin, DataInv, FilesOK
<1> HIDE DEF skipped, present
<1>3. /\ files'.raw = files.raw /\ files'.processed = files.processed /\ files'.coarse = files.coarse
      /\ files'.skipped = skipped /\ files'.toPresent = present /\ DOMAIN files' = DOMAIN files
  BY <1>2 DEF DataInv, FilesOK
<1>4. present \in BOOLEAN /\ (~present => ~files.toPresent /\ until < feed.now)
  BY <1>1, Parts DEF present, DataInv, FilesOK
<1>5. IsFile(files.raw)
  BY Parts DEF Fetched
<1>6. Since(start) \in Int /\ \A u \in DOMAIN files.raw : u < Since(start)
  <2>1. CASE files.raw = <<>>
    BY <1>1, <2>1 DEF Since
  <2>2. CASE files.raw # <<>>
    <3>1. Last4(files.raw) \in Int /\ \A t \in DOMAIN files.raw : t <= Last4(files.raw) /\ t \in Int
      BY <1>5, <2>2, EndsAre, Parts
    <3> QED
      BY <1>1, <2>2, <3>1 DEF Since
  <2> QED
    BY <2>1, <2>2
<1>7. \A t \in feed.listed : t < Since(start) /\ (\E u \in DOMAIN files.raw : u <= t)
            => t \in DOMAIN files.raw \cup skipped
  <2> SUFFICES ASSUME NEW t \in feed.listed, t < Since(start), NEW u \in DOMAIN files.raw, u <= t
               PROVE  t \in DOMAIN files.raw \cup skipped
    OBVIOUS
  <2>1. files.raw # <<>>
    OBVIOUS
  <2>2. Last4(files.raw) \in DOMAIN files.raw /\ Last4(files.raw) \in Int /\ t \in Int
    BY <1>5, <2>1, EndsAre, Parts
  <2>3. CASE t <= Last4(files.raw)
    <3>1. t \in DOMAIN files.raw \cup files.skipped
      BY <2>2, <2>3 DEF DataInv, Whole
    <3> QED
      BY <2>1, <3>1 DEF skipped
  <2>4. CASE t > Last4(files.raw)
    BY <1>1, <2>1, <2>2, <2>4 DEF Since, skipped
  <2> QED
    BY <2>2, <2>3, <2>4
<1>8. JobOK'
  BY <1>1, <1>2, <1>6 DEF JobOK
<1>9. FilesOK'
  BY <1>2, <1>3, <1>4 DEF DataInv, FilesOK, Fetched
<1>10. SweepInv'
  <2> DEFINE R == DOMAIN files.raw
             c == Since(start)
  <2>1. job'.phase = "run" /\ job'.cursor = c /\ job'.until = until /\ Buffered(job'.buffers) = {}
    BY <1>2, BufferedIs
  <2>2. DOMAIN files'.raw = R /\ feed'.listed = feed.listed /\ files'.skipped = skipped
    BY <1>2, <1>3
  <2>3. /\ \A u \in R : u < c
        /\ \A t \in feed.listed : t < c /\ (\E u \in R : u <= t) => t \in R \cup skipped
    BY <1>6, <1>7
  <2> HIDE DEF R, c
  <2> QED
    BY <2>1, <2>2, <2>3 DEF SweepInv, Sweeps
<1>11. Whole(DOMAIN files.raw)'
  <2>1. files.raw # <<>> => files.skipped \subseteq skipped
    BY DEF skipped
  <2>2. files.raw = <<>> => DOMAIN files.raw = {}
    OBVIOUS
  <2> QED
    BY <1>2, <1>3, <2>1, <2>2 DEF DataInv, Whole
<1>12. FinalInv'
  BY <1>2, <1>3, <1>4 DEF DataInv, FinalInv, Finished
<1>13. Untouched
  BY <1>2, <1>3 DEF Untouched, DataInv, FilesOK, skipped
<1> QED
  BY <1>2, <1>8, <1>9, <1>10, <1>11, <1>12, <1>13, UntouchedIs DEF DataInv, FeedOK

\* What is buffered with one more page.
Got ==
    IF Bounded(Answer4(job.cursor)) = {} THEN job.buffers
    ELSE Append(job.buffers, Batch(Bounded(Answer4(job.cursor))))
LastOf(page) == CHOOSE t \in page : \A u \in page : u <= t

LEMMA GotIs ==
    ASSUME MarketDataAssumption, DataInv, job.phase = "run", Answer4(job.cursor) # {}
    PROVE  /\ Got \in Seq(Batches) /\ \A i \in DOMAIN Got : Fetched(Got[i])
           /\ ~files.toPresent => \A i \in DOMAIN Got : Finished(Got[i])
           /\ LastOf(Answer4(job.cursor)) \in Int
           /\ Buffered(Got) \subseteq Int
           /\ Sweeps(DOMAIN files.raw, Buffered(Got), LastOf(Answer4(job.cursor)) + 1, job.until)
<1> DEFINE page == Answer4(job.cursor)
           some == Bounded(page)
           last == LastOf(page)
           x == Batch(some)
<1>1. /\ page \subseteq feed.listed /\ \A t \in page : job.cursor <= t /\ t <= feed.now
      /\ \A t \in feed.listed, u \in page : job.cursor <= t /\ t <= u => t \in page
      /\ last \in page /\ \A u \in page : u <= last
  BY Parts, PageIs DEF DataInv, LastOf
<1>2. some = {t \in page : t <= job.until} /\ some \in SUBSET feed.listed /\ \A t \in some : t <= feed.now
  BY <1>1 DEF Bounded
<1>3. x \in Batches /\ Fetched(x) /\ DOMAIN x = some /\ ((\A t \in some : t < feed.now) => Finished(x))
  BY <1>2, BatchIs DEF DataInv
<1>4. ~files.toPresent => Finished(x) /\ \A i \in DOMAIN job.buffers : Finished(job.buffers[i])
  <2>1. ASSUME ~files.toPresent PROVE \A t \in some : t < feed.now
    <3>1. job.until < feed.now /\ job.until \in Int /\ feed.now \in Int
      BY <2>1, Parts DEF DataInv, FinalInv
    <3>2. \A t \in some : t \in Int /\ t <= job.until
      BY <1>2, Parts
    <3> QED
      BY <3>1, <3>2
  <2> QED
    BY <1>3, <2>1 DEF DataInv, FinalInv
<1>5. /\ Got \in Seq(Batches) /\ \A i \in DOMAIN Got : Fetched(Got[i])
      /\ ~files.toPresent => \A i \in DOMAIN Got : Finished(Got[i])
      /\ Buffered(Got) = Buffered(job.buffers) \cup some
  <2>1. CASE some = {}
    <3>1. Got = job.buffers
      BY <2>1 DEF Got
    <3> HIDE DEF some
    <3> QED
      BY <1>4, <2>1, <3>1, Parts
  <2>2. CASE some # {}
    <3>1. Got = Append(job.buffers, x)
      BY <2>2 DEF Got
    <3>2. job.buffers \in Seq(Batches) /\ \A i \in DOMAIN job.buffers : Fetched(job.buffers[i])
      BY Parts
    <3> HIDE DEF x, some
    <3> DEFINE z == Append(job.buffers, x)
    <3>3. /\ z \in Seq(Batches) /\ DOMAIN z = DOMAIN job.buffers \cup {Len(job.buffers) + 1}
          /\ \A i \in DOMAIN job.buffers : z[i] = job.buffers[i]
          /\ z[Len(job.buffers) + 1] = x
          /\ Buffered(z) = Buffered(job.buffers) \cup DOMAIN x
      BY <1>3, <3>2, BufferedIs
    <3> HIDE DEF z
    <3>4. \A i \in DOMAIN z : z[i] = x \/ (i \in DOMAIN job.buffers /\ z[i] = job.buffers[i])
      BY <3>3
    <3>5. (\A i \in DOMAIN z : Fetched(z[i])) /\ Got = z
      BY <1>3, <3>1, <3>2, <3>4 DEF z
    <3>6. ~files.toPresent => \A i \in DOMAIN z : Finished(z[i])
      BY <1>4, <3>4
    <3> QED
      BY <1>3, <3>3, <3>5, <3>6
  <2> QED
    BY <2>1, <2>2
<1>6. feed.listed \subseteq Int /\ DOMAIN files.raw \in SUBSET Int /\ Buffered(job.buffers) \in SUBSET Int
      /\ job.cursor \in Int /\ job.until \in Int
  BY Parts
<1>7. Sweeps(DOMAIN files.raw, Buffered(job.buffers), job.cursor, job.until)
  BY DEF DataInv, SweepInv
<1> HIDE DEF page, some, last
<1>8. Sweeps(DOMAIN files.raw, Buffered(job.buffers) \cup {t \in page : t <= job.until}, last + 1, job.until)
  <2>1. page \in SUBSET feed.listed /\ \A t \in page : job.cursor <= t /\ t <= last
    BY <1>1
  <2> QED
    BY <1>1, <1>6, <1>7, <2>1, PageSweeps
<1>9. last \in Int /\ Buffered(Got) \subseteq Int
  BY <1>1, <1>2, <1>5, <1>6
<1> QED
  BY <1>2, <1>5, <1>8, <1>9 DEF page, last, some

\* A step that writes the raw file, or leaves it, and nothing else of the files.
LEMMA RawStep ==
    ASSUME MarketDataAssumption, DataInv, feed' = feed, NEW z, Fetched(z),
           files' = [files EXCEPT !.raw = z],
           Whole(DOMAIN z), ~files.toPresent => Finished(z), DOMAIN files.raw # {} => DOMAIN z # {}
    PROVE  /\ files'.raw = z /\ files'.toPresent = files.toPresent /\ files'.skipped = files.skipped
           /\ files'.processed = files.processed
           /\ FeedOK' /\ FilesOK' /\ Whole(DOMAIN files.raw)' /\ TradeSpan' /\ PipelineHonest'
<1>1. /\ files'.raw = z /\ files'.toPresent = files.toPresent /\ files'.skipped = files.skipped
      /\ files'.processed = files.processed /\ files'.coarse = files.coarse /\ DOMAIN files' = DOMAIN files
  BY DEF DataInv, FilesOK
<1>2. z = <<>> => files.processed = <<>>
  <2>1. z = <<>> => DOMAIN z = {}
    OBVIOUS
  <2>2. DOMAIN files.raw = {} => files.raw = <<>>
    BY Parts, EmptyFile DEF Fetched
  <2> QED
    BY <2>1, <2>2 DEF DataInv, FilesOK
<1>3. FilesOK'
  BY <1>1, <1>2 DEF DataInv, FilesOK, Fetched
<1>4. Whole(DOMAIN files.raw)'
  BY <1>1 DEF Whole
<1>5. Untouched
  BY <1>1 DEF Untouched
<1> QED
  BY <1>1, <1>3, <1>4, <1>5, UntouchedIs DEF DataInv, FeedOK

\* What a fetch writes is whole and finished when it should be.
LEMMA WriteIs ==
    ASSUME MarketDataAssumption, DataInv, NEW b \in Seq(Batches), \A i \in DOMAIN b : Fetched(b[i]),
           ~files.toPresent => \A i \in DOMAIN b : Finished(b[i]), NEW cursor \in Int,
           Buffered(b) \subseteq Int, Sweeps(DOMAIN files.raw, Buffered(b), cursor, job.until)
    PROVE  LET z == Saved(files.raw, b)
           IN  /\ Fetched(z) /\ DOMAIN z = DOMAIN files.raw \cup Buffered(b)
               /\ Whole(DOMAIN z) /\ Sweeps(DOMAIN z, {}, cursor, job.until)
               /\ ~files.toPresent => Finished(z)
<1> DEFINE z == Saved(files.raw, b)
<1>1. /\ Fetched(z) /\ DOMAIN z = DOMAIN files.raw \cup Buffered(b)
      /\ Finished(files.raw) /\ (\A i \in DOMAIN b : Finished(b[i])) => Finished(z)
  BY Parts, SavedIs
<1>2. Whole(DOMAIN files.raw \cup Buffered(b)) /\ Sweeps(DOMAIN files.raw \cup Buffered(b), {}, cursor, job.until)
  <2>1. /\ DOMAIN files.raw \in SUBSET Int /\ Buffered(b) \in SUBSET Int
        /\ feed.listed \subseteq Int /\ job.until \in Int /\ Whole(DOMAIN files.raw)
    BY Parts DEF DataInv
  <2> QED
    BY <2>1, WriteSweeps
<1>3. ~files.toPresent => Finished(z)
  BY <1>1 DEF DataInv, FinalInv
<1> HIDE DEF z
<1> QED
  BY <1>1, <1>2, <1>3 DEF z

\* A page is buffered, and written with the others now and then.
LEMMA PageStep ==
    ASSUME MarketDataAssumption, DataInv, FetchPage
    PROVE  DataInv'
<1> DEFINE page == Answer4(job.cursor)
           c == LastOf(page) + 1
           full == Len(Got) >= FlushEvery
           kept == IF full THEN <<>> ELSE Got
<1>1. /\ job.phase = "run" /\ page # {} /\ feed' = feed
      /\ job' = [job EXCEPT !.cursor = c, !.buffers = kept]
      /\ files' = IF full THEN [files EXCEPT !.raw = Saved(files.raw, Got)] ELSE files
  BY DEF FetchPage, Got, LastOf
<1>2. /\ Got \in Seq(Batches) /\ \A i \in DOMAIN Got : Fetched(Got[i])
      /\ ~files.toPresent => \A i \in DOMAIN Got : Finished(Got[i])
      /\ LastOf(page) \in Int /\ Buffered(Got) \subseteq Int
      /\ Sweeps(DOMAIN files.raw, Buffered(Got), c, job.until)
  BY <1>1, GotIs
<1>3. c \in Int
  BY <1>2
<1> HIDE DEF c, page, full
<1>4. kept \in Seq(Batches) /\ (\A i \in DOMAIN kept : Fetched(kept[i]))
      /\ (~files.toPresent => \A i \in DOMAIN kept : Finished(kept[i]))
  BY <1>2
<1> HIDE DEF kept
<1>5. /\ job'.phase = "run" /\ job'.cursor = c /\ job'.until = job.until /\ job'.buffers = kept
      /\ job' = [phase |-> "run", cursor |-> c, until |-> job.until, buffers |-> kept]
  BY <1>1 DEF DataInv, JobOK
<1>6. JobOK'
  <2>2. \A i \in DOMAIN kept :
            IsFile(kept[i]) /\ \A t \in DOMAIN kept[i] :
                t \in feed'.listed /\ t <= feed'.now /\ kept[i][t].kind \in {"final", "open"}
    BY <1>1, <1>4 DEF Fetched
  <2>3. job.until \in Int
    BY Parts
  <2>4. /\ job' = [phase |-> job'.phase, cursor |-> job'.cursor, until |-> job'.until, buffers |-> job'.buffers]
        /\ job'.phase \in {"idle", "run"} /\ job'.cursor \in Int /\ job'.until \in Int
        /\ job'.buffers \in Seq(Batches)
    BY <1>3, <1>4, <1>5, <2>3
  <2> QED
    BY <1>5, <2>2, <2>4 DEF JobOK, Fetched
<1>7. CASE full
  <2> DEFINE z == Saved(files.raw, Got)
  <2>1. /\ Fetched(z) /\ DOMAIN z = DOMAIN files.raw \cup Buffered(Got)
        /\ Whole(DOMAIN z) /\ Sweeps(DOMAIN z, {}, c, job.until)
        /\ ~files.toPresent => Finished(z)
    BY <1>2, <1>3, WriteIs
  <2> HIDE DEF z
  <2>2. files' = [files EXCEPT !.raw = z]
    BY <1>1, <1>7 DEF z
  <2>3. /\ files'.raw = z /\ files'.toPresent = files.toPresent /\ files'.skipped = files.skipped
        /\ files'.processed = files.processed
        /\ FeedOK' /\ FilesOK' /\ Whole(DOMAIN files.raw)' /\ TradeSpan' /\ PipelineHonest'
    BY <1>1, <2>1, <2>2, RawStep
  <2>4. kept = <<>> /\ Buffered(kept) = {}
    BY <1>7, BufferedIs DEF kept
  <2>6. SweepInv'
    BY <1>5, <2>3, <2>4, <2>1, <1>1 DEF SweepInv, Sweeps
  <2>7. FinalInv'
    BY <1>1, <1>4, <1>5, <2>1, <2>3 DEF DataInv, FinalInv, Finished
  <2> QED
    BY <1>6, <2>3, <2>6, <2>7 DEF DataInv
<1>8. CASE ~full
  <2>1. files' = files /\ kept = Got
    BY <1>1, <1>8 DEF kept
  <2>2. Untouched /\ FeedOK' /\ FilesOK' /\ Whole(DOMAIN files.raw)'
    BY <1>1, <2>1 DEF DataInv, FeedOK, FilesOK, Fetched, Whole, Untouched
  <2>3. SweepInv'
    BY <1>1, <1>2, <1>5, <2>1 DEF SweepInv, Sweeps
  <2>4. FinalInv'
    <3>1. ~files.toPresent =>
              /\ job.until < feed.now /\ Finished(files.raw) /\ \A i \in DOMAIN kept : Finished(kept[i])
              /\ \A t \in DOMAIN files.processed : files.processed[t].kind # "open"
      BY <1>1, <1>4 DEF DataInv, FinalInv
    <3>2. feed' = feed /\ files' = files /\ job'.until = job.until /\ job'.buffers = kept
      BY <1>1, <1>5, <2>1
    <3> QED
      BY <3>1, <3>2 DEF FinalInv, Finished
  <2> QED
    BY <1>6, <2>2, <2>3, <2>4, UntouchedIs DEF DataInv
<1> QED
  BY <1>7, <1>8

\* No fetch runs, none is half done.
LEMMA IdleIs ==
    ASSUME MarketDataAssumption, job' = Idle4,
           (~files.toPresent)' =>
               Finished(files.raw)' /\ (\A t \in DOMAIN files.processed : files.processed[t].kind # "open")'
    PROVE  JobOK' /\ SweepInv' /\ FinalInv'
<1>1. /\ job'.phase = "idle" /\ job'.cursor = 0 /\ job'.until = NoEnd /\ job'.buffers = <<>>
      /\ job' = [phase |-> "idle", cursor |-> 0, until |-> NoEnd, buffers |-> <<>>]
  BY DEF Idle4
<1>2. NoEnd \in Int
  BY DEF NoEnd, MarketDataAssumption
<1> QED
  BY <1>1, <1>2 DEF JobOK, SweepInv, FinalInv

\* The end of a fetch writes what is left.
LEMMA EndStep ==
    ASSUME MarketDataAssumption, DataInv, FetchEnd
    PROVE  DataInv'
<1> DEFINE z == Saved(files.raw, job.buffers)
<1>1. job.phase = "run" /\ job' = Idle4 /\ files' = [files EXCEPT !.raw = z] /\ feed' = feed
  BY DEF FetchEnd
<1>2. /\ Fetched(z) /\ DOMAIN z = DOMAIN files.raw \cup Buffered(job.buffers)
      /\ Whole(DOMAIN z)
      /\ ~files.toPresent => Finished(z)
  <2>1. ~files.toPresent => \A i \in DOMAIN job.buffers : Finished(job.buffers[i])
    BY DEF DataInv, FinalInv
  <2>2. Sweeps(DOMAIN files.raw, Buffered(job.buffers), job.cursor, job.until)
    BY <1>1 DEF DataInv, SweepInv
  <2> QED
    BY <2>1, <2>2, Parts, WriteIs
<1> HIDE DEF z
<1>3. /\ files'.raw = z /\ files'.toPresent = files.toPresent /\ files'.processed = files.processed
      /\ FeedOK' /\ FilesOK' /\ Whole(DOMAIN files.raw)' /\ TradeSpan' /\ PipelineHonest'
  BY <1>1, <1>2, RawStep
<1>4. JobOK' /\ SweepInv' /\ FinalInv'
  BY <1>1, <1>2, <1>3, IdleIs DEF DataInv, FinalInv, Finished
<1> QED
  BY <1>3, <1>4 DEF DataInv

\* A file torn while it is written is whole up to where it ends.
LEMMA TornStep ==
    ASSUME MarketDataAssumption, DataInv, TornWrite
    PROVE  DataInv'
<1> DEFINE rows == Saved(files.raw, job.buffers)
<1>1. /\ job.phase = "run" /\ job' = Idle4 /\ feed' = feed
      /\ \E t \in DOMAIN rows : files' = [files EXCEPT !.raw = Keep(rows, 0 .. t)]
  BY DEF TornWrite
<1>2. /\ Fetched(rows) /\ Whole(DOMAIN rows)
      /\ ~files.toPresent => Finished(rows)
  <2>1. ~files.toPresent => \A i \in DOMAIN job.buffers : Finished(job.buffers[i])
    BY DEF DataInv, FinalInv
  <2>2. Sweeps(DOMAIN files.raw, Buffered(job.buffers), job.cursor, job.until)
    BY <1>1 DEF DataInv, SweepInv
  <2> QED
    BY <2>1, <2>2, Parts, WriteIs
<1> HIDE DEF rows
<1>3. PICK last \in DOMAIN rows : files' = [files EXCEPT !.raw = Keep(rows, 0 .. last)]
  BY <1>1
<1> DEFINE z == Keep(rows, 0 .. last)
<1>4. DOMAIN rows \subseteq 0 .. MaxTime /\ MaxTime \in Nat /\ DOMAIN rows \in SUBSET Int /\ last \in Int
  BY <1>2, Parts DEF Fetched, IsFile
<1>5. /\ DOMAIN z = DOMAIN rows \cap (0 .. last) /\ \A t \in DOMAIN z : z[t] = rows[t]
      /\ z = [t \in DOMAIN z |-> z[t]]
  BY DEF Keep
<1> HIDE DEF z
<1>6. DOMAIN z = {t \in DOMAIN rows : t <= last} /\ last \in DOMAIN z
  BY <1>4, <1>5
<1>7. Whole(DOMAIN z)
  BY <1>2, <1>4, <1>6, PrefixWhole, Parts
<1>8. Fetched(z)
  <2>1. \A t \in DOMAIN z : t \in DOMAIN rows /\ z[t] = rows[t] /\ t \in 0 .. MaxTime
    BY <1>4, <1>5
  <2> QED
    BY <1>2, <1>5, <2>1 DEF Fetched, IsFile
<1>9. ~files.toPresent => Finished(z)
  BY <1>2, <1>5 DEF Finished
<1>10. files' = [files EXCEPT !.raw = z]
  BY <1>3 DEF z
<1>11. /\ files'.raw = z /\ files'.toPresent = files.toPresent /\ files'.processed = files.processed
       /\ FeedOK' /\ FilesOK' /\ Whole(DOMAIN files.raw)' /\ TradeSpan' /\ PipelineHonest'
  BY <1>1, <1>6, <1>7, <1>8, <1>9, <1>10, RawStep
<1>12. JobOK' /\ SweepInv' /\ FinalInv'
  BY <1>1, <1>9, <1>11, IdleIs DEF DataInv, FinalInv, Finished
<1> QED
  BY <1>11, <1>12 DEF DataInv

\* A fetch that fails loses what it buffered.
LEMMA FailStep ==
    ASSUME MarketDataAssumption, DataInv, FetchFails
    PROVE  DataInv'
<1>1. job' = Idle4 /\ feed' = feed /\ files' = files
  BY DEF FetchFails
<1>2. Untouched /\ FeedOK' /\ FilesOK' /\ Whole(DOMAIN files.raw)'
  BY <1>1 DEF DataInv, FeedOK, FilesOK, Fetched, Whole, Untouched
<1>3. JobOK' /\ SweepInv' /\ FinalInv'
  BY <1>1, IdleIs DEF DataInv, FinalInv, Finished
<1> QED
  BY <1>2, <1>3, UntouchedIs DEF DataInv

----------------------------------------------------------------------------
(* Processing.                                                             *)

\* The exchange goes on.
LEMMA TickStep ==
    ASSUME MarketDataAssumption, DataInv, Tick
    PROVE  DataInv'
<1>1. /\ feed' = [feed EXCEPT !.now = feed.now + 1] /\ job' = job /\ files' = files /\ feed.now < MaxTime
  BY DEF Tick
<1>2. /\ feed'.source = feed.source /\ feed'.listed = feed.listed /\ feed'.now = feed.now + 1
      /\ feed.now \in Int /\ feed'.now \in 0 .. MaxTime
  BY <1>1 DEF DataInv, FeedOK, MarketDataAssumption
<1>3. FeedOK'
  BY <1>1, <1>2 DEF DataInv, FeedOK
<1>4. \A f : Fetched(f) => Fetched(f)'
  <2> SUFFICES ASSUME NEW f, Fetched(f) PROVE Fetched(f)'
    OBVIOUS
  <2>1. \A t \in DOMAIN f : t \in Int
    BY Parts DEF Fetched, IsFile
  <2> QED
    BY <1>2, <2>1 DEF Fetched
<1>5. JobOK'
  BY <1>1, <1>4 DEF DataInv, JobOK
<1>6. FilesOK'
  BY <1>1, <1>4 DEF DataInv, FilesOK
<1>7. Whole(DOMAIN files.raw)' /\ SweepInv'
  BY <1>1, <1>2 DEF DataInv, Whole, SweepInv, Sweeps
<1>8. FinalInv'
  BY <1>1, <1>2, Parts DEF DataInv, FinalInv, Finished
<1>9. Untouched
  BY <1>1, <1>2 DEF Untouched
<1> QED
  BY <1>3, <1>5, <1>6, <1>7, <1>8, <1>9, UntouchedIs DEF DataInv

\* A file without a gap has every candle from its first to its last.
LEMMA NoGap ==
    ASSUME MarketDataAssumption, NEW f, IsFile(f), f # <<>>, MarkOk(f)
    PROVE  DOMAIN f = Grid(f)
<1>1. /\ First(f) \in DOMAIN f /\ \A t \in DOMAIN f : First(f) <= t
      /\ Last4(f) \in DOMAIN f /\ \A t \in DOMAIN f : t <= Last4(f)
  BY EndsAre
<1>2. DOMAIN f \subseteq 0 .. MaxTime /\ MaxTime \in Nat
  BY DEF IsFile, MarketDataAssumption
<1>3. DOMAIN f \subseteq Grid(f)
  BY <1>1, <1>2 DEF Grid
<1>4. ASSUME NEW t \in Grid(f), t \notin DOMAIN f PROVE FALSE
  <2> DEFINE below == {u \in DOMAIN f : u <= t}
             above == {u \in DOMAIN f : t <= u}
  <2>1. t \in Int /\ First(f) <= t /\ t <= Last4(f)
    BY <1>1, <1>2, <1>4 DEF Grid
  <2>2. below \in SUBSET (0 .. MaxTime) /\ below # {} /\ above \in SUBSET Nat /\ above # {}
    BY <1>1, <1>2, <2>1
  <2>3. PICK u \in below : \A w \in below : w <= u
    BY <1>2, <2>2, HasLast
  <2>4. PICK v \in above : \A w \in above : v <= w
    BY <2>2, HasFirst
  <2>5. u \in Int /\ v \in Int /\ u # t /\ v # t /\ u <= t /\ t <= v
    BY <1>2, <1>4
  <2>6. v - u > 1
    <3> HIDE DEF below, above
    <3> QED
      BY <2>1, <2>5
  <2>7. \A w \in DOMAIN f : w <= u \/ w >= v
    <3> TAKE w \in DOMAIN f
    <3>1. w \in Int
      BY <1>2
    <3>2. w \in below \/ w \in above
      BY <2>1, <3>1
    <3> HIDE DEF below, above
    <3> QED
      BY <2>3, <2>4, <2>5, <3>1, <3>2
  <2>8. u \in DOMAIN f /\ v \in DOMAIN f
    OBVIOUS
  <2> HIDE DEF below, above
  <2>9. u \in DetectGaps(f, 1)
    BY <2>6, <2>7, <2>8 DEF DetectGaps
  <2> QED
    BY <2>9 DEF MarkOk
<1> QED
  BY <1>3, <1>4

\* Processing fills what the exchange does not list, or refuses.
LEMMA ProcessStep ==
    ASSUME MarketDataAssumption, DataInv, ProcessFile
    PROVE  DataInv'
<1> DEFINE raw == files.raw
           z == IF feed.source = "mark" THEN IF MarkOk(raw) THEN raw ELSE files.processed
                ELSE IF TooManyMissing(raw) THEN files.processed ELSE ValidateAndFill(raw)
<1>1. raw # <<>> /\ files' = [files EXCEPT !.processed = z] /\ feed' = feed /\ job' = job
  BY DEF ProcessFile
<1>2. /\ Fetched(raw) /\ IsFile(raw) /\ \A t \in DOMAIN raw : raw[t].kind \in {"final", "open"}
      /\ IsFile(files.processed) /\ FilesOK
  BY Parts DEF DataInv, FilesOK, Fetched
<1>3. \/ z = files.processed
      \/ feed.source = "mark" /\ MarkOk(raw) /\ z = raw
      \/ feed.source # "mark" /\ z = ValidateAndFill(raw)
  OBVIOUS
<1> HIDE DEF z
<1>4. /\ files'.raw = raw /\ files'.toPresent = files.toPresent /\ files'.skipped = files.skipped
      /\ files'.coarse = files.coarse /\ files'.processed = z /\ DOMAIN files' = DOMAIN files
  BY <1>1, <1>2 DEF FilesOK
<1>5. /\ First(raw) \in 0 .. MaxTime /\ Last4(raw) \in 0 .. MaxTime /\ Grid(raw) = First(raw) .. Last4(raw)
      /\ MaxTime \in Nat
      /\ First(raw) \in DOMAIN raw /\ \A t \in DOMAIN raw : First(raw) <= t
      /\ Last4(raw) \in DOMAIN raw /\ \A t \in DOMAIN raw : t <= Last4(raw)
  BY <1>1, <1>2, EndsAre DEF Grid, MarketDataAssumption
<1> HIDE DEF raw
<1> DEFINE filled == ValidateAndFill(raw)
<1>6. /\ DOMAIN filled = Grid(raw) /\ filled = [t \in DOMAIN filled |-> filled[t]]
      /\ \A t \in DOMAIN filled :
            (t \in DOMAIN raw /\ filled[t] = raw[t]) \/ (t \notin DOMAIN raw /\ filled[t].kind = "fill")
  BY DEF ValidateAndFill
<1> HIDE DEF filled
<1>7. IsFile(z)
  <2>1. IsFile(filled)
    BY <1>5, <1>6 DEF IsFile
  <2> QED
    BY <1>2, <1>3, <2>1 DEF filled
<1>8. FeedOK' /\ JobOK' /\ Whole(DOMAIN files.raw)' /\ SweepInv'
  BY <1>1, <1>4 DEF DataInv, FeedOK, JobOK, Fetched, Whole, SweepInv, Sweeps, raw
<1>9. FilesOK'
  BY <1>1, <1>2, <1>4, <1>7 DEF FilesOK, Fetched
<1>10. FinalInv'
  <2>1. ~files.toPresent => \A t \in DOMAIN z : z[t].kind # "open"
    <3>1. ~files.toPresent => Finished(raw) /\ \A t \in DOMAIN files.processed : files.processed[t].kind # "open"
      BY DEF DataInv, FinalInv, raw
    <3>2. ~files.toPresent => \A t \in DOMAIN filled : filled[t].kind # "open"
      BY <1>6, <3>1 DEF Finished
    <3>3. ~files.toPresent => \A t \in DOMAIN raw : raw[t].kind # "open"
      BY <3>1 DEF Finished
    <3> QED
      BY <1>3, <3>1, <3>2, <3>3 DEF filled
  <2> QED
    BY <1>1, <1>4, <2>1 DEF DataInv, FinalInv, raw, Finished
<1>11. feed.source # "mark" => feed.source = "trade"
  BY DEF DataInv, FeedOK
<1>12. TradeSpan'
  <2>1. \A t, v \in DOMAIN filled : t .. v \subseteq DOMAIN filled
    BY <1>5, <1>6
  <2>2. feed.source = "trade" => \A t, v \in DOMAIN z : t .. v \subseteq DOMAIN z
    BY <1>3, <2>1 DEF DataInv, TradeSpan, filled
  <2> QED
    BY <1>1, <1>4, <2>2 DEF TradeSpan
<1>13. FillsOnlyGaps'
  <2>1. ASSUME NEW t \in DOMAIN filled, filled[t].kind = "fill", t \in feed.listed
        PROVE  t \in files.skipped
    <3>1. t \notin DOMAIN raw
      BY <1>2, <1>6, <2>1 DEF raw
    <3>2. First(raw) <= t /\ t <= Last4(raw)
      BY <1>5, <1>6
    <3> QED
      BY <1>5, <2>1, <3>1, <3>2 DEF DataInv, Whole, raw
  <2>2. \A t \in DOMAIN z : z[t].kind = "fill" => feed.source = "trade" /\ (t \notin feed.listed \/ t \in files.skipped)
    BY <1>2, <1>3, <1>11, <2>1 DEF DataInv, PipelineHonest, FillsOnlyGaps, filled, raw
  <2> QED
    BY <1>1, <1>4, <2>2 DEF FillsOnlyGaps
<1>14. MarkPricesWhole'
  <2>1. MarkOk(raw) => DOMAIN raw = Grid(raw)
    BY <1>1, <1>2, NoGap DEF raw
  <2>2. feed.source = "mark" /\ z # <<>> => DOMAIN z = Grid(z)
    BY <1>3, <2>1 DEF DataInv, PipelineHonest, MarkPricesWhole
  <2> QED
    BY <1>1, <1>4, <2>2 DEF MarkPricesWhole, Grid, First, Last4
<1>15. CoarseBarsWhole'
  BY <1>4 DEF DataInv, PipelineHonest, CoarseBarsWhole, First, Last4
<1> QED
  BY <1>8, <1>9, <1>10, <1>12, <1>13, <1>14, <1>15 DEF DataInv, PipelineHonest

\* The bucket of a time, and its neighbours.
LEMMA Bucketing ==
    ASSUME NEW R \in Nat \ {0}
    PROVE  /\ \A a \in Nat : a \div R \in Nat /\ a \div R <= a
           /\ \A a \in Nat : (a \div R) * R <= a /\ a <= (a \div R) * R + R - 1
           /\ \A p, q \in Nat : p < q => p * R + R <= q * R
<1>1. \A a \in Nat : a \div R \in Nat /\ a \div R <= a
  OBVIOUS
<1>2. \A a \in Nat : (a \div R) * R <= a /\ a <= (a \div R) * R + R - 1
  OBVIOUS
<1>3. \A p, q \in Nat : p < q => p * R + R <= q * R
  OBVIOUS
<1> QED
  BY <1>1, <1>2, <1>3

\* Bars of a span of candles are whole but for the first and the last.
LEMMA AggregateStep ==
    ASSUME MarketDataAssumption, DataInv, Aggregate
    PROVE  DataInv'
<1> DEFINE p == files.processed
           D == {Bucket(t) : t \in DOMAIN p}
           z == [b \in D |-> Keep(p, Members(b))]
<1>1. /\ feed.source = "trade" /\ p # <<>> /\ files' = [files EXCEPT !.coarse = z] /\ feed' = feed /\ job' = job
  BY DEF Aggregate
<1>2. IsFile(p) /\ \A t, v \in DOMAIN p : t .. v \subseteq DOMAIN p
  BY <1>1 DEF DataInv, FilesOK, TradeSpan
<1>3. DOMAIN z = D /\ \A b \in D : DOMAIN z[b] = DOMAIN p \cap Members(b)
  BY DEF Keep
<1>4. Ratio \in Nat \ {0} /\ MaxTime \in Nat /\ DOMAIN p \subseteq 0 .. MaxTime
  BY <1>2 DEF MarketDataAssumption, IsFile
<1> HIDE DEF z, p
<1>5. /\ files'.raw = files.raw /\ files'.toPresent = files.toPresent /\ files'.skipped = files.skipped
      /\ files'.processed = files.processed /\ files'.coarse = z /\ DOMAIN files' = DOMAIN files
  BY <1>1 DEF DataInv, FilesOK
<1>6. \A b \in D :
          /\ b \in 0 .. MaxTime
          /\ \E t \in DOMAIN p : b = Bucket(t) /\ b * Ratio <= t /\ t <= b * Ratio + Ratio - 1
  <2> TAKE b \in D
  <2>1. PICK t \in DOMAIN p : b = t \div Ratio
    BY DEF Bucket
  <2>2. t \in Nat /\ t <= MaxTime
    BY <1>4
  <2>3. b \in Nat /\ b <= t /\ b * Ratio <= t /\ t <= b * Ratio + Ratio - 1
    BY <1>4, <2>1, <2>2, Bucketing
  <2>4. b \in 0 .. MaxTime
    BY <1>4, <2>2, <2>3
  <2> QED
    BY <2>1, <2>3, <2>4 DEF Bucket
<1> HIDE DEF D
<1>7. ASSUME NEW b \in D, b # First(z), b # Last4(z)
      PROVE  DOMAIN z[b] = Members(b)
  <2>1. D \in SUBSET Nat /\ D \in SUBSET (0 .. MaxTime) /\ D # {}
    BY <1>4, <1>6, <1>7
  <2>2. (\E s \in D : \A u \in D : s <= u) /\ (\E s \in D : \A u \in D : u <= s)
    BY <1>4, <2>1, HasFirst, HasLast
  <2>3. First(z) \in D /\ First(z) <= b
    BY <1>3, <2>2 DEF First
  <2>4. Last4(z) \in D /\ b <= Last4(z)
    BY <1>3, <2>2 DEF Last4
  <2> DEFINE lo == First(z)
             hi == Last4(z)
  <2> HIDE DEF lo, hi
  <2>5. lo \in Nat /\ hi \in Nat /\ b \in Nat /\ lo < b /\ b < hi /\ lo \in D /\ hi \in D
    BY <1>7, <2>1, <2>3, <2>4 DEF lo, hi
  <2>6. PICK t \in DOMAIN p : t <= lo * Ratio + Ratio - 1
    BY <1>6, <2>5
  <2>7. PICK v \in DOMAIN p : hi * Ratio <= v
    BY <1>6, <2>5
  <2>8. lo * Ratio + Ratio <= b * Ratio /\ b * Ratio + Ratio <= hi * Ratio
    BY <1>4, <2>5, Bucketing
  <2>9. t \in Int /\ v \in Int
    BY <1>4
  <2>10. lo * Ratio \in Int /\ b * Ratio \in Int /\ hi * Ratio \in Int /\ Ratio \in Int
         /\ (b + 1) * Ratio = b * Ratio + Ratio
    BY <1>4, <2>5
  <2>11. Members(b) \subseteq t .. v
    <3> SUFFICES ASSUME NEW x \in b * Ratio .. b * Ratio + Ratio - 1 PROVE t <= x /\ x <= v
      BY <2>9, <2>10 DEF Members
    <3> DEFINE lr == lo * Ratio
               br == b * Ratio
               hr == hi * Ratio
    <3> HIDE DEF lr, br, hr
    <3>1. lr \in Int /\ br \in Int /\ hr \in Int /\ Ratio \in Int /\ t <= lr + Ratio - 1 /\ hr <= v
          /\ lr + Ratio <= br /\ br + Ratio <= hr /\ x \in br .. br + Ratio - 1
      BY <2>6, <2>7, <2>8, <2>10 DEF lr, br, hr
    <3> QED
      BY <2>9, <3>1
  <2>12. Members(b) \subseteq DOMAIN p
    BY <1>2, <2>11
  <2> QED
    BY <1>3, <2>12
<1>8. CoarseBarsWhole'
  <2>1. \A b \in DOMAIN z : b \in {First(z), Last4(z)} \/ DOMAIN z[b] = Members(b)
    BY <1>3, <1>7
  <2> QED
    BY <1>5, <2>1 DEF CoarseBarsWhole, First, Last4
<1>9. FeedOK' /\ JobOK' /\ Whole(DOMAIN files.raw)' /\ SweepInv'
  BY <1>1, <1>5 DEF DataInv, FeedOK, JobOK, Fetched, Whole, SweepInv, Sweeps
<1>10. FilesOK' /\ FinalInv' /\ TradeSpan'
  BY <1>1, <1>5 DEF DataInv, FilesOK, Fetched, FinalInv, Finished, TradeSpan
<1>11. FillsOnlyGaps' /\ MarkPricesWhole'
  BY <1>1, <1>5 DEF DataInv, PipelineHonest, FillsOnlyGaps, MarkPricesWhole, Grid, First, Last4
<1> QED
  BY <1>8, <1>9, <1>10, <1>11 DEF DataInv, PipelineHonest

----------------------------------------------------------------------------
(* Everything together.                                                    *)

LEMMA DataInitial ==
    ASSUME MarketDataAssumption, DataInit
    PROVE  DataInv
<1>1. PICK source \in {"trade", "mark"}, listed \in SUBSET (0 .. MaxTime) :
          feed = [source |-> source, listed |-> listed, now |-> 0]
  BY DEF DataInit
<1>2. FeedOK
  BY <1>1 DEF FeedOK, MarketDataAssumption
<1>3. /\ job = [phase |-> "idle", cursor |-> 0, until |-> NoEnd, buffers |-> <<>>]
      /\ files = [raw |-> <<>>, processed |-> <<>>, coarse |-> <<>>, skipped |-> {}, toPresent |-> FALSE]
  BY DEF DataInit, Idle4
<1>4. /\ job.phase = "idle" /\ job.buffers = <<>> /\ files.raw = <<>> /\ files.processed = <<>> /\ files.coarse = <<>>
      /\ files.toPresent = FALSE /\ DOMAIN <<>> = {} /\ <<>> = [t \in DOMAIN <<>> |-> <<>>[t]]
  BY <1>3
<1>5. JobOK
  <2>1. NoEnd \in Int
    BY DEF NoEnd, MarketDataAssumption
  <2> QED
    BY <1>3, <2>1 DEF JobOK
<1>6. FilesOK
  BY <1>3, <1>4 DEF FilesOK, Fetched, IsFile
<1>7. Whole(DOMAIN files.raw) /\ SweepInv /\ FinalInv /\ TradeSpan
  BY <1>4 DEF Whole, SweepInv, FinalInv, Finished, TradeSpan
<1>8. PipelineHonest
  BY <1>4 DEF PipelineHonest, FillsOnlyGaps, MarkPricesWhole, CoarseBarsWhole
<1> QED
  BY <1>2, <1>5, <1>6, <1>7, <1>8 DEF DataInv

LEMMA DataStep ==
    ASSUME MarketDataAssumption, DataInv, [DataNext]_dataVars
    PROVE  DataInv'
<1>1. CASE DataNext
  BY <1>1, BeginStep, PageStep, EndStep, FailStep, TornStep, ProcessStep, AggregateStep, TickStep DEF DataNext
<1>2. CASE UNCHANGED dataVars
  <2>1. feed' = feed /\ job' = job /\ files' = files
    BY <1>2 DEF dataVars
  <2>2. Untouched /\ FeedOK' /\ JobOK' /\ FilesOK'
    BY <2>1 DEF DataInv, FeedOK, JobOK, FilesOK, Fetched, Untouched
  <2>3. Whole(DOMAIN files.raw)' /\ SweepInv' /\ FinalInv'
    BY <2>1 DEF DataInv, Whole, SweepInv, Sweeps, FinalInv, Finished
  <2> QED
    BY <2>2, <2>3, UntouchedIs DEF DataInv
<1> QED
  BY <1>1, <1>2

LEMMA DataInvariant == ASSUME MarketDataAssumption PROVE DataSpec => []DataInv
<1>1. DataInit => DataInv
  BY DataInitial
<1>2. DataInv /\ [DataNext]_dataVars => DataInv'
  BY DataStep
<1> QED
  BY <1>1, <1>2, PTL DEF DataSpec

(* Between its first and its last row the raw file has every candle the    *)
(* exchange lists but those an operator's later --start passed over, and   *)
(* while every fetch is bounded to the past only finished ones, whatever   *)
(* the exchange lists, however fetches fail and whatever the page, flush   *)
(* and clock bounds are (fetch_data.py).                                   *)
THEOREM RawFileIsHistory == DataSpec => []RawIsHistory
<1>1. DataInv => RawIsHistory
  <2> SUFFICES ASSUME DataInv PROVE RawIsHistory
    OBVIOUS
  <2> USE MarketDataAssumption
  <2>1. ResumeLeavesNoHole
    <3> SUFFICES ASSUME files.raw # <<>>, NEW t \in feed.listed, t \in Grid(files.raw)
                 PROVE  t \in DOMAIN files.raw \cup files.skipped
      BY DEF ResumeLeavesNoHole
    <3>1. IsFile(files.raw)
      BY Parts DEF Fetched
    <3>2. /\ First(files.raw) \in DOMAIN files.raw /\ Last4(files.raw) \in DOMAIN files.raw
          /\ First(files.raw) \in Int /\ Last4(files.raw) \in Int /\ MaxTime \in Nat
      BY <3>1, EndsAre, Parts
    <3>3. First(files.raw) <= t /\ t <= Last4(files.raw)
      BY <3>2 DEF Grid
    <3> QED
      BY <3>2, <3>3 DEF DataInv, Whole
  <2>2. PastIsFinal
    BY DEF DataInv, FinalInv, Finished, PastIsFinal
  <2> QED
    BY <2>1, <2>2 DEF RawIsHistory
<1>2. DataSpec => []DataInv
  BY DataInvariant, MarketDataAssumption
<1> QED
  BY <1>1, <1>2, PTL

(* No candle stands where the exchange listed another, mark prices have no *)
(* gap, and only the first and the last coarse bar may lack candles,       *)
(* whatever share of missing candles is tolerated and whatever the ratio   *)
(* of the time frames is (process_data.py, data_integrity.py).             *)
THEOREM PipelineIsHonest == DataSpec => []PipelineHonest
<1>1. DataInv => PipelineHonest
  BY DEF DataInv
<1>2. DataSpec => []DataInv
  BY DataInvariant, MarketDataAssumption
<1> QED
  BY <1>1, <1>2, PTL

----------------------------------------------------------------------------
(* Settlements.                                                            *)

VenueOK ==
    /\ venue \in [name : {"binance", "bybit"}, settles : SUBSET (1 .. MaxInstant), now : 0 .. MaxInstant]
    /\ \A s \in venue.settles : s + 1 \notin venue.settles

Fetches ==
    [phase : {"run", "saved", "empty", "refused"}, since : Int, end : Int, open : BOOLEAN, asked : Int,
     cursor : Int, rows : SUBSET Int]

\* Rows are settlements of the range that have happened.
RowsOK(rows) == \A s \in rows : s \in venue.settles /\ history.since <= s /\ s <= venue.now

HistoryOK ==
    \/ history = [phase |-> "idle"]
    \/ history \in Fetches /\ history.asked <= venue.now /\ RowsOK(history.rows)

\* What a history must have: the settlements of the range asked for.
Asked(s) ==
    s \in venue.settles /\ history.since <= s /\ s <= history.end /\ s <= history.asked

SweptUp ==
    history.phase = "run" /\ venue.name = "binance" =>
        /\ history.since <= history.cursor
        /\ history.rows # {} => history.cursor - 1 \in venue.settles
        /\ \A s \in venue.settles : Asked(s) /\ s < history.cursor => s \in history.rows

SweptDown ==
    history.phase = "run" /\ venue.name = "bybit" =>
        /\ history.cursor <= history.end
        /\ \A s \in history.rows : s > history.cursor /\ s <= history.end
        /\ \A s \in venue.settles : Asked(s) /\ s > history.cursor => s \in history.rows

FundingInv ==
    /\ VenueOK /\ HistoryOK
    /\ SweptUp /\ SweptDown
    /\ FundingComplete /\ RefusedOffBoundary

----------------------------------------------------------------------------
(* Facts about the answers of the venues.                                  *)

\* The settlements that have happened are finitely many.
LEMMA SettledOK ==
    ASSUME FundingAssumption, VenueOK
    PROVE  /\ Settled \subseteq 0 .. MaxInstant
           /\ IsFiniteSet(Settled)
           /\ \A S \in SUBSET Settled : IsFiniteSet(S) /\ Cardinality(S) \in Nat
           /\ \A S \in SUBSET Settled : \A T \in SUBSET S : Cardinality(T) <= Cardinality(S)
<1>1. Settled \subseteq 0 .. MaxInstant
  BY DEF VenueOK, Settled, FundingAssumption
<1>2. IsFiniteSet(0 .. MaxInstant)
  BY FS_Interval DEF FundingAssumption
<1>3. IsFiniteSet(Settled)
  BY <1>1, <1>2, FS_Subset
<1>4. \A S \in SUBSET Settled : IsFiniteSet(S) /\ Cardinality(S) \in Nat
  BY <1>3, FS_Subset, FS_CardinalityType
<1>5. \A S \in SUBSET Settled : \A T \in SUBSET S : Cardinality(T) <= Cardinality(S)
  BY <1>4, FS_Subset
<1>6. QED
  BY <1>1, <1>3, <1>4, <1>5

\* Up to its newest row an ascending page leaves nothing out; an empty one
\* means that nothing is left, and one row the same.
LEMMA AscendingWhole ==
    ASSUME FundingAssumption, VenueOK, NEW since \in Int
    PROVE  /\ Ascending(since) \subseteq Settled
           /\ \A s \in Ascending(since) : since <= s
           /\ \A s \in Settled, t \in Ascending(since) : since <= s /\ s <= t => s \in Ascending(since)
           /\ Ascending(since) = {} => \A s \in Settled : s < since
           /\ Ascending(since) # {} =>
                /\ Newest(Ascending(since)) \in Ascending(since)
                /\ \A u \in Ascending(since) : u <= Newest(Ascending(since))
           /\ Ascending(since) = {since} => \A s \in Settled : s <= since
<1> DEFINE upTo(s) == {u \in Settled : since <= u /\ u <= s}
<1>1. /\ Settled \subseteq 0 .. MaxInstant /\ IsFiniteSet(Settled)
      /\ \A s : upTo(s) \in SUBSET Settled
  BY SettledOK
<1>0. \A s \in Settled : s \in Int /\ s \in Nat /\ s <= MaxInstant
  BY <1>1 DEF FundingAssumption
<1>2. Ascending(since) = {s \in Settled : since <= s /\ Cardinality(upTo(s)) <= FundingLimit}
  BY DEF Ascending
<1>3. ASSUME NEW s \in Settled, NEW t \in Ascending(since), since <= s, s <= t
      PROVE  s \in Ascending(since)
  <2>0. t \in Settled /\ t \in Int /\ s \in Int
    BY <1>0, <1>2, <1>3
  <2>1. upTo(s) \in SUBSET upTo(t)
    <3>1. ASSUME NEW u \in upTo(s) PROVE u \in Settled /\ since <= u /\ u <= t
      BY <1>0, <1>3, <2>0
    <3>2. QED
      BY <3>1
  <2>2. Cardinality(upTo(s)) <= Cardinality(upTo(t)) /\ Cardinality(upTo(s)) \in Nat
        /\ Cardinality(upTo(t)) \in Nat
    BY <1>1, <2>1, SettledOK
  <2>3. Cardinality(upTo(t)) <= FundingLimit
    BY <1>2, <1>3
  <2>4. Cardinality(upTo(s)) <= FundingLimit
    BY <2>2, <2>3 DEF FundingAssumption
  <2>5. QED
    BY <1>2, <1>3, <2>4
<1>4. ASSUME Ascending(since) = {}, NEW s \in Settled, since <= s PROVE FALSE
  <2> DEFINE S == {u \in Settled : since <= u}
  <2>1. S \in SUBSET Nat /\ S # {}
    <3>1. s \in S
      BY <1>4
    <3>2. QED
      BY <1>0, <3>1
  <2>2. PICK f \in S : \A u \in S : f <= u
    BY <2>1, HasFirst
  <2>3. upTo(f) = {f}
    <3>1. f \in Settled /\ since <= f /\ f \in Int
      BY <1>0, <2>2
    <3>2. ASSUME NEW u \in upTo(f) PROVE u = f
      <4>1. u \in S /\ u \in Int /\ u <= f
        BY <1>0
      <4>2. f <= u
        BY <2>2, <4>1
      <4>3. QED
        BY <3>1, <4>1, <4>2
    <3>3. f \in upTo(f)
      BY <3>1
    <3>4. QED
      BY <3>2, <3>3
  <2>4. Cardinality({f}) = 1
    BY FS_Singleton
  <2>5. Cardinality(upTo(f)) <= FundingLimit
    BY <2>3, <2>4 DEF FundingAssumption
  <2>6. QED
    BY <1>2, <1>4, <2>2, <2>5
<1>5. ASSUME Ascending(since) # {}
      PROVE  /\ Newest(Ascending(since)) \in Ascending(since)
             /\ \A u \in Ascending(since) : u <= Newest(Ascending(since))
  <2>1. Ascending(since) \in SUBSET (0 .. MaxInstant)
    BY <1>1, <1>2
  <2>2. \E s \in Ascending(since) : \A u \in Ascending(since) : u <= s
    BY <1>5, <2>1, HasLast DEF FundingAssumption
  <2>3. QED
    BY <2>2 DEF Newest
<1>6. ASSUME Ascending(since) = {since}, NEW s \in Settled, s > since PROVE FALSE
  <2> DEFINE S == {u \in Settled : since < u}
  <2>1. S \in SUBSET Nat /\ S # {}
    <3>1. s \in S
      BY <1>0, <1>6
    <3>2. QED
      BY <1>0, <3>1
  <2>2. PICK f \in S : \A u \in S : f <= u
    BY <2>1, HasFirst
  <2>3. since \in Settled
    BY <1>2, <1>6
  <2>4. upTo(f) = {since} \cup {f}
    <3>1. f \in Settled /\ since < f /\ f \in Int
      BY <1>0, <2>2
    <3>2. ASSUME NEW u \in upTo(f), u # since PROVE u = f
      <4>1. u \in S /\ u \in Int /\ u <= f
        BY <1>0, <3>2
      <4>2. f <= u
        BY <2>2, <4>1
      <4>3. QED
        BY <3>1, <4>1, <4>2
    <3>3. f \in upTo(f) /\ since \in upTo(f)
      BY <2>3, <3>1
    <3>4. QED
      BY <3>2, <3>3
  <2>5. IsFiniteSet({since}) /\ Cardinality({since}) = 1
    BY FS_Singleton
  <2>6. Cardinality({since} \cup {f}) \in {1, 2}
    <3>1. CASE f = since
      <4>1. {since} \cup {f} = {since}
        BY <3>1
      <4> QED
        BY <2>5, <4>1
    <3>2. CASE f # since
      <4>1. Cardinality({since} \cup {f}) = Cardinality({since}) + 1
        BY <2>5, <3>2, FS_AddElement
      <4> QED
        BY <2>5, <4>1
    <3> QED
      BY <3>1, <3>2
  <2>7. Cardinality(upTo(f)) <= FundingLimit
    <3>1. Cardinality(upTo(f)) = Cardinality({since} \cup {f})
      BY <2>4
    <3>2. FundingLimit \in Nat /\ FundingLimit >= 2
      BY DEF FundingAssumption
    <3> HIDE DEF upTo
    <3>3. Cardinality(upTo(f)) \in {1, 2}
      BY <2>6, <3>1
    <3> QED
      BY <3>2, <3>3
  <2>8. f \in Ascending(since) /\ f # since
    BY <1>1, <1>2, <2>2, <2>7 DEF FundingAssumption
  <2>9. QED
    BY <1>6, <2>8
<1>7. Ascending(since) = {} => \A s \in Settled : s < since
  <2> SUFFICES ASSUME Ascending(since) = {}, NEW s \in Settled PROVE s < since
    OBVIOUS
  <2>1. ~(since <= s)
    BY <1>4
  <2>2. QED
    BY <1>0, <2>1
<1>8. Ascending(since) = {since} => \A s \in Settled : s <= since
  <2> SUFFICES ASSUME Ascending(since) = {since}, NEW s \in Settled PROVE s <= since
    OBVIOUS
  <2>1. ~(s > since)
    BY <1>6
  <2>2. QED
    BY <1>0, <2>1
<1>9. QED
  BY <1>2, <1>3, <1>5, <1>7, <1>8

\* The same from the other end.
LEMMA DescendingWhole ==
    ASSUME FundingAssumption, VenueOK, NEW since \in Int, NEW end \in Int
    PROVE  /\ Descending(since, end) \subseteq Settled
           /\ \A s \in Descending(since, end) : since <= s /\ s <= end
           /\ \A s \in Settled, t \in Descending(since, end) :
                t <= s /\ s <= end => s \in Descending(since, end)
           /\ Descending(since, end) = {} => \A s \in Settled : s < since \/ end < s
           /\ Descending(since, end) # {} =>
                /\ Oldest(Descending(since, end)) \in Descending(since, end)
                /\ \A u \in Descending(since, end) : Oldest(Descending(since, end)) <= u
<1> DEFINE from(s) == {u \in Settled : s <= u /\ u <= end}
           page == Descending(since, end)
<1>1. /\ Settled \subseteq 0 .. MaxInstant /\ IsFiniteSet(Settled)
      /\ \A s : from(s) \in SUBSET Settled
  BY SettledOK
<1>0. \A s \in Settled : s \in Int /\ s \in Nat /\ s <= MaxInstant
  BY <1>1 DEF FundingAssumption
<1>2. page = {s \in Settled : since <= s /\ s <= end /\ Cardinality(from(s)) <= FundingLimit}
  BY DEF Descending
<1>3. ASSUME NEW s \in Settled, NEW t \in page, t <= s, s <= end
      PROVE  s \in page
  <2>0. t \in Settled /\ t \in Int /\ s \in Int
    BY <1>0, <1>2, <1>3
  <2>1. from(s) \in SUBSET from(t)
    <3>1. ASSUME NEW u \in from(s) PROVE u \in Settled /\ t <= u /\ u <= end
      BY <1>0, <1>3, <2>0
    <3>2. QED
      BY <3>1
  <2>2. Cardinality(from(s)) <= Cardinality(from(t)) /\ Cardinality(from(s)) \in Nat
        /\ Cardinality(from(t)) \in Nat
    BY <1>1, <2>1, SettledOK
  <2>3. Cardinality(from(t)) <= FundingLimit /\ since <= t /\ t \in Settled
    BY <1>2, <1>3
  <2>4. Cardinality(from(s)) <= FundingLimit
    BY <2>2, <2>3 DEF FundingAssumption
  <2>5. since <= s
    BY <1>1, <1>3, <2>3 DEF FundingAssumption
  <2>6. QED
    BY <1>2, <1>3, <2>4, <2>5
<1>4. ASSUME page = {}, NEW s \in Settled, since <= s, s <= end PROVE FALSE
  <2> DEFINE S == {u \in Settled : u <= end}
  <2>1. S \in SUBSET (0 .. MaxInstant) /\ S # {}
    <3>1. s \in S
      BY <1>4
    <3>2. QED
      BY <1>1, <3>1
  <2>2. PICK l \in S : \A u \in S : u <= l
    BY <2>1, HasLast DEF FundingAssumption
  <2>3. from(l) = {l}
    <3>1. l \in Settled /\ l <= end /\ l \in Int
      BY <1>0, <2>2
    <3>2. ASSUME NEW u \in from(l) PROVE u = l
      <4>1. u \in S /\ u \in Int /\ l <= u
        BY <1>0
      <4>2. u <= l
        BY <2>2, <4>1
      <4>3. QED
        BY <3>1, <4>1, <4>2
    <3>3. l \in from(l)
      BY <3>1
    <3>4. QED
      BY <3>2, <3>3
  <2>4. Cardinality({l}) = 1
    BY FS_Singleton
  <2>5. Cardinality(from(l)) <= FundingLimit
    BY <2>3, <2>4 DEF FundingAssumption
  <2>6. since <= l
    BY <1>1, <1>4, <2>2 DEF FundingAssumption
  <2>7. QED
    BY <1>2, <1>4, <2>2, <2>5, <2>6
<1>5. ASSUME page # {}
      PROVE  Oldest(page) \in page /\ \A u \in page : Oldest(page) <= u
  <2>1. page \in SUBSET Nat
    BY <1>0, <1>2
  <2>2. \E s \in page : \A u \in page : s <= u
    BY <1>5, <2>1, HasFirst
  <2>3. QED
    BY <2>2 DEF Oldest
<1>6. page = {} => \A s \in Settled : s < since \/ end < s
  <2> SUFFICES ASSUME page = {}, NEW s \in Settled PROVE s < since \/ end < s
    OBVIOUS
  <2>1. ~(since <= s /\ s <= end)
    BY <1>4
  <2>2. QED
    BY <1>0, <2>1
<1>7. QED
  BY <1>2, <1>3, <1>5, <1>6

----------------------------------------------------------------------------
(* The steps of a fetch.                                                   *)

\* While a fetch runs its fields are typed and what it must have has happened.
LEMMA Running ==
    ASSUME FundingInv, history.phase = "run"
    PROVE  /\ history \in Fetches /\ history.asked <= venue.now /\ RowsOK(history.rows)
           /\ venue.settles \subseteq Int /\ venue.now \in Int
           /\ \A s : Asked(s) => s \in Settled
           /\ \A s \in Settled : s \in Int /\ s \in venue.settles /\ s <= venue.now
<1>1. history \in Fetches /\ history.asked <= venue.now /\ RowsOK(history.rows)
  BY DEF FundingInv, HistoryOK
<1>2. venue.settles \subseteq Int /\ venue.now \in Int
  BY DEF FundingInv, VenueOK
<1>3. ASSUME NEW s, Asked(s) PROVE s \in Settled
  <2>1. s \in Int /\ history.asked \in Int /\ s <= history.asked
    BY <1>1, <1>2, <1>3 DEF Asked, Fetches
  <2>2. s <= venue.now
    BY <1>1, <1>2, <2>1
  <2>3. QED
    BY <1>3, <2>2 DEF Asked, Settled
<1>4. QED
  BY <1>1, <1>2, <1>3 DEF Settled

\* Rows that lack nothing are saved as a complete history.
LEMMA SavedWhole ==
    ASSUME FundingInv, history.phase = "run", UNCHANGED venue,
           NEW rows, RowsOK(rows), history' = FundingSaved(rows),
           rows # {} => \A s : Asked(s) => s \in rows
    PROVE  FundingInv'
<1> DEFINE cut == IF history.open THEN rows ELSE {s \in rows : s <= history.end}
           phase == IF cut = {} THEN "empty" ELSE "saved"
<1>1. history \in Fetches /\ history.asked <= venue.now /\ venue.settles \subseteq Int
  BY Running
<1>2. history' = [history EXCEPT !.phase = phase, !.rows = cut]
  BY DEF FundingSaved
<1>3. cut \subseteq rows /\ cut \in SUBSET Int
  BY <1>1 DEF RowsOK
<1>4. phase \in {"empty", "saved"} /\ (phase = "saved" => cut # {})
  OBVIOUS
<1>5. \A s \in cut : history.open \/ s <= history.end
  OBVIOUS
<1>6. \A s : s \in rows /\ s <= history.end => s \in cut
  OBVIOUS
<1> HIDE DEF cut, phase
<1>7. /\ history' \in Fetches /\ history'.phase = phase /\ history'.rows = cut
      /\ history'.since = history.since /\ history'.end = history.end
      /\ history'.open = history.open /\ history'.asked = history.asked
  BY <1>1, <1>2, <1>3, <1>4 DEF Fetches
<1>8. VenueOK' /\ HistoryOK'
  BY <1>1, <1>3, <1>7 DEF FundingInv, VenueOK, HistoryOK, RowsOK
<1>9. SweptUp' /\ SweptDown' /\ RefusedOffBoundary'
  BY <1>4, <1>7 DEF SweptUp, SweptDown, RefusedOffBoundary
<1>10. FundingComplete'
  <2> SUFFICES ASSUME phase = "saved"
               PROVE  /\ \A s \in venue.settles : history.since <= s /\ s <= history.end
                                                  /\ s <= history.asked => s \in cut
                      /\ \A s \in cut : history.since <= s /\ (history.open \/ s <= history.end)
    BY <1>7 DEF FundingComplete
  <2>1. rows # {}
    BY <1>3, <1>4
  <2>2. QED
    BY <1>3, <1>5, <1>6, <2>1 DEF Asked, RowsOK
<1>11. QED
  BY <1>8, <1>9, <1>10 DEF FundingInv

\* A turn that reads on keeps the types.
LEMMA GoesOn ==
    ASSUME FundingInv, history.phase = "run", UNCHANGED venue,
           NEW rows, RowsOK(rows), NEW cursor \in Int,
           history' = [history EXCEPT !.rows = rows, !.cursor = cursor]
    PROVE  /\ VenueOK' /\ HistoryOK' /\ FundingComplete' /\ RefusedOffBoundary'
           /\ history'.phase = "run" /\ history'.since = history.since /\ history'.end = history.end
           /\ history'.asked = history.asked /\ history'.rows = rows /\ history'.cursor = cursor
<1>1. history \in Fetches /\ history.asked <= venue.now /\ venue.settles \subseteq Int
  BY Running
<1>2. rows \in SUBSET Int
  BY <1>1 DEF RowsOK
<1>3. /\ history' \in Fetches /\ history'.phase = "run" /\ history'.since = history.since
      /\ history'.end = history.end /\ history'.asked = history.asked
      /\ history'.rows = rows /\ history'.cursor = cursor
  BY <1>1, <1>2 DEF Fetches
<1>4. VenueOK' /\ HistoryOK'
  BY <1>1, <1>3 DEF FundingInv, VenueOK, HistoryOK, RowsOK
<1>5. QED
  BY <1>3, <1>4 DEF FundingComplete, RefusedOffBoundary

\* Binance's loop: what lies before the cursor has been read.
LEMMA BinanceKeeps ==
    ASSUME FundingAssumption, FundingInv, FundingBinance
    PROVE  FundingInv'
<1> DEFINE page == Ascending(history.cursor)
           rows == history.rows \cup page
<1>1. history.phase = "run" /\ venue.name = "binance" /\ UNCHANGED venue
  BY DEF FundingBinance
<1>2. /\ history \in Fetches /\ RowsOK(history.rows) /\ venue.settles \subseteq Int
      /\ \A s : Asked(s) => s \in Settled
      /\ \A s \in Settled : s \in Int /\ s \in venue.settles /\ s <= venue.now
  BY <1>1, Running
<1>3. history.cursor \in Int /\ history.since \in Int /\ history.end \in Int
  BY <1>2 DEF Fetches
<1>4. /\ history.since <= history.cursor
      /\ history.rows # {} => history.cursor - 1 \in venue.settles
      /\ \A s : Asked(s) /\ s < history.cursor => s \in history.rows
  BY <1>1 DEF FundingInv, SweptUp, Asked
<1>5. /\ page \subseteq Settled
      /\ \A s \in page : history.cursor <= s
      /\ \A s \in Settled, t \in page : history.cursor <= s /\ s <= t => s \in page
      /\ page = {} => \A s \in Settled : s < history.cursor
      /\ page # {} => Newest(page) \in page /\ \A u \in page : u <= Newest(page)
      /\ page = {history.cursor} => \A s \in Settled : s <= history.cursor
  BY <1>3, AscendingWhole DEF FundingInv
<1>6. RowsOK(rows)
  <2>1. ASSUME NEW s \in page PROVE s \in venue.settles /\ history.since <= s /\ s <= venue.now
    <3>1. s \in Int /\ history.cursor <= s /\ s \in venue.settles /\ s <= venue.now
      BY <1>2, <1>5
    <3> HIDE DEF page
    <3>2. QED
      BY <1>3, <1>4, <3>1
  <2>2. QED
    BY <1>2, <2>1 DEF RowsOK
<1>7. CASE history.cursor >= history.end \/ page = {}
  <2>1. history' = FundingSaved(history.rows)
    BY <1>1, <1>7 DEF FundingBinance
  <2>2. ASSUME history.rows # {}, NEW s, Asked(s) PROVE s \in history.rows
    <3>1. s \in Settled /\ s \in Int /\ s <= history.end
      BY <1>2, <2>2 DEF Asked
    <3>2. CASE page = {}
      BY <1>4, <1>5, <2>2, <3>1, <3>2
    <3>3. CASE history.cursor >= history.end
      <4>1. history.cursor - 1 \in venue.settles
        BY <1>4, <2>2
      <4>2. history.cursor \notin venue.settles
        <5>1. (history.cursor - 1) + 1 \notin venue.settles
          BY <4>1 DEF FundingInv, VenueOK
        <5>2. QED
          BY <1>3, <5>1
      <4>3. s # history.cursor
        BY <2>2, <4>2 DEF Asked
      <4>4. s < history.cursor
        BY <1>3, <3>1, <3>3, <4>3
      <4>5. QED
        BY <1>4, <2>2, <4>4
    <3>4. QED
      BY <1>7, <3>2, <3>3
  <2>3. QED
    BY <1>1, <1>2, <2>1, <2>2, SavedWhole
<1>8. CASE ~(history.cursor >= history.end \/ page = {}) /\ Newest(page) <= history.cursor
  <2>1. history' = FundingSaved(rows)
    BY <1>1, <1>8 DEF FundingBinance
  <2>2. page = {history.cursor}
    <3>1. ASSUME NEW s \in page PROVE s = history.cursor
      <4>1. s \in Int /\ Newest(page) \in Int /\ history.cursor <= s /\ s <= Newest(page)
        BY <1>2, <1>5, <1>8
      <4> HIDE DEF page
      <4>2. QED
        BY <1>3, <1>8, <4>1
    <3>2. QED
      BY <1>8, <3>1
  <2>3. ASSUME NEW s, Asked(s) PROVE s \in rows
    <3>1. s \in Int /\ s <= history.cursor
      BY <1>2, <1>5, <2>2, <2>3
    <3>2. QED
      BY <1>3, <1>4, <2>2, <2>3, <3>1
  <2>4. QED
    BY <1>1, <1>6, <2>1, <2>3, SavedWhole
<1>9. CASE ~(history.cursor >= history.end \/ page = {}) /\ ~(Newest(page) <= history.cursor)
  <2> DEFINE last == Newest(page)
  <2>1. history' = [history EXCEPT !.rows = rows, !.cursor = last + 1]
    BY <1>1, <1>9 DEF FundingBinance
  <2>2. /\ last \in page /\ last \in Int /\ last \in venue.settles /\ last > history.cursor
        /\ \A u \in page : u <= last
    BY <1>2, <1>3, <1>5, <1>9
  <2> HIDE DEF last
  <2>3. last + 1 \in Int
    BY <2>2
  <2>4. /\ VenueOK' /\ HistoryOK' /\ FundingComplete' /\ RefusedOffBoundary'
        /\ history'.phase = "run" /\ history'.since = history.since /\ history'.end = history.end
        /\ history'.asked = history.asked /\ history'.rows = rows /\ history'.cursor = last + 1
    BY <1>1, <1>6, <2>1, <2>3, GoesOn
  <2>5. ASSUME NEW s, Asked(s), s < last + 1 PROVE s \in rows
    <3>1. s \in Settled /\ s \in Int
      BY <1>2, <2>5
    <3>2. CASE s < history.cursor
      BY <1>4, <2>5, <3>2
    <3>3. CASE ~(s < history.cursor)
      <4>1. history.cursor <= s /\ s <= last
        BY <1>3, <2>2, <2>5, <3>1, <3>3
      <4>2. QED
        BY <1>5, <2>2, <3>1, <4>1
    <3>4. QED
      BY <3>2, <3>3
  <2>6. history.since <= last + 1 /\ (last + 1) - 1 \in venue.settles
    BY <1>3, <1>4, <2>2
  <2>7. SweptUp' /\ SweptDown'
    BY <1>1, <2>4, <2>5, <2>6 DEF SweptUp, SweptDown, Asked
  <2>8. QED
    BY <2>4, <2>7 DEF FundingInv
<1>10. QED
  BY <1>7, <1>8, <1>9

\* Bybit's loop: what lies behind the cursor has been read, and no page meets
\* a row read before.
LEMMA BybitKeeps ==
    ASSUME FundingAssumption, FundingInv, FundingBybit
    PROVE  FundingInv'
<1> DEFINE page == Descending(history.since, history.cursor)
           rows == history.rows \cup page
<1>1. history.phase = "run" /\ venue.name = "bybit" /\ UNCHANGED venue
  BY DEF FundingBybit
<1>2. /\ history \in Fetches /\ RowsOK(history.rows) /\ venue.settles \subseteq Int /\ venue.now \in Int
      /\ \A s : Asked(s) => s \in Settled
      /\ \A s \in Settled : s \in Int /\ s \in venue.settles /\ s <= venue.now
  BY <1>1, Running
<1>3. history.cursor \in Int /\ history.since \in Int /\ history.end \in Int
  BY <1>2 DEF Fetches
<1>4. /\ history.cursor <= history.end
      /\ \A s \in history.rows : s > history.cursor /\ s <= history.end
      /\ \A s : Asked(s) /\ s > history.cursor => s \in history.rows
  BY <1>1 DEF FundingInv, SweptDown, Asked
<1>5. /\ page \subseteq Settled
      /\ \A s \in page : history.since <= s /\ s <= history.cursor
      /\ \A s \in Settled, t \in page : t <= s /\ s <= history.cursor => s \in page
      /\ page = {} => \A s \in Settled : s < history.since \/ history.cursor < s
      /\ page # {} => Oldest(page) \in page /\ \A u \in page : Oldest(page) <= u
  BY <1>3, DescendingWhole DEF FundingInv
<1>6. RowsOK(rows)
  BY <1>2, <1>5 DEF RowsOK
<1>7. CASE history.since > history.cursor
  <2>1. history' = FundingSaved(history.rows)
    BY <1>1, <1>7 DEF FundingBybit
  <2>2. ASSUME NEW s, Asked(s) PROVE s \in history.rows
    <3>1. s \in Int /\ history.since <= s
      BY <1>2, <2>2 DEF Asked
    <3>2. s > history.cursor
      BY <1>3, <1>7, <3>1
    <3>3. QED
      BY <1>4, <2>2, <3>2
  <2>3. QED
    BY <1>1, <1>2, <2>1, <2>2, SavedWhole
<1>8. CASE ~(history.since > history.cursor) /\ Incomplete(page)
  <2>1. history' = [history EXCEPT !.phase = "refused"] /\ page = {} /\ history.rows # {}
    BY <1>1, <1>8 DEF FundingBybit, Incomplete
  <2>2. history.since \notin venue.settles
    <3> SUFFICES ASSUME history.since \in venue.settles PROVE FALSE
      OBVIOUS
    <3>1. PICK r \in history.rows : TRUE
      BY <2>1
    <3>2. r \in Int /\ history.since <= r /\ r <= venue.now
      BY <1>2 DEF RowsOK
    <3>3. history.since \in Settled
      BY <1>2, <1>3, <3>2 DEF Settled
    <3>4. QED
      BY <1>3, <1>5, <1>8, <2>1, <3>3
  <2>3. /\ history' \in Fetches /\ history'.phase = "refused" /\ history'.since = history.since
        /\ history'.asked = history.asked /\ history'.rows = history.rows
    BY <1>2, <2>1 DEF Fetches
  <2>4. VenueOK' /\ HistoryOK'
    BY <1>1, <1>2, <2>3 DEF FundingInv, VenueOK, HistoryOK, RowsOK
  <2>5. QED
    BY <1>1, <2>2, <2>3, <2>4
       DEF FundingInv, SweptUp, SweptDown, FundingComplete, RefusedOffBoundary
<1>9. CASE ~(history.since > history.cursor) /\ ~Incomplete(page) /\ page = {}
  <2>1. history' = FundingSaved(history.rows) /\ history.rows = {}
    BY <1>1, <1>9 DEF FundingBybit, Incomplete
  <2>2. QED
    BY <1>1, <1>2, <2>1, SavedWhole
<1>10. CASE ~(history.since > history.cursor) /\ page # {}
  <2> DEFINE first == Oldest(page)
  <2>1. ~Incomplete(page)
    BY <1>10 DEF Incomplete
  <2>2. page \cap history.rows = {}
    <3>1. ASSUME NEW s \in page, s \in history.rows PROVE FALSE
      <4>1. s \in Int /\ s <= history.cursor /\ s > history.cursor
        BY <1>2, <1>4, <1>5, <3>1
      <4> HIDE DEF page
      <4>2. QED
        BY <1>3, <4>1
    <3>2. QED
      BY <3>1
  <2>3. first \in page /\ first \in Int /\ history.since <= first /\ first <= history.cursor
        /\ \A u \in page : first <= u
    BY <1>2, <1>5, <1>10
  <2>4. ASSUME NEW s, Asked(s), first <= s PROVE s \in rows
    <3>1. s \in Settled /\ s \in Int
      BY <1>2, <2>4
    <3>2. CASE s > history.cursor
      BY <1>4, <2>4, <3>2
    <3>3. CASE ~(s > history.cursor)
      <4>1. s <= history.cursor
        BY <1>3, <3>1, <3>3
      <4> HIDE DEF first
      <4>2. QED
        BY <1>5, <2>3, <2>4, <3>1, <4>1
    <3>4. QED
      BY <3>2, <3>3
  <2>5. CASE first <= history.since
    <3>1. history' = FundingSaved(rows)
      BY <1>1, <1>10, <2>1, <2>2, <2>5 DEF FundingBybit
    <3>2. ASSUME NEW s, Asked(s) PROVE s \in rows
      <4>1. s \in Int /\ history.since <= s
        BY <1>2, <3>2 DEF Asked
      <4>2. first <= s
        BY <1>3, <2>3, <2>5, <4>1
      <4>3. QED
        BY <2>4, <3>2, <4>2
    <3>3. QED
      BY <1>1, <1>6, <3>1, <3>2, SavedWhole
  <2>6. CASE ~(first <= history.since)
    <3>1. history' = [history EXCEPT !.rows = rows, !.cursor = first - 1]
      BY <1>1, <1>10, <2>1, <2>2, <2>6 DEF FundingBybit, NextCursor
    <3> HIDE DEF first
    <3>2. first - 1 \in Int
      BY <2>3
    <3>3. /\ VenueOK' /\ HistoryOK' /\ FundingComplete' /\ RefusedOffBoundary'
          /\ history'.phase = "run" /\ history'.since = history.since /\ history'.end = history.end
          /\ history'.asked = history.asked /\ history'.rows = rows /\ history'.cursor = first - 1
      BY <1>1, <1>6, <3>1, <3>2, GoesOn
    <3>4. ASSUME NEW s \in rows PROVE s > first - 1 /\ s <= history.end
      <4>1. s \in Int
        BY <1>2, <1>6 DEF RowsOK
      <4>2. CASE s \in history.rows
        BY <1>3, <1>4, <2>3, <4>1, <4>2
      <4>3. CASE s \in page
        <5>1. first <= s /\ s <= history.cursor
          BY <1>5, <2>3, <4>3
        <5>2. QED
          BY <1>3, <1>4, <2>3, <4>1, <5>1
      <4>4. QED
        BY <4>2, <4>3
    <3>5. ASSUME NEW s, Asked(s), s > first - 1 PROVE s \in rows
      <4>1. s \in Int
        BY <1>2, <3>5
      <4>2. first <= s
        BY <2>3, <3>5, <4>1
      <4>3. QED
        BY <2>4, <3>5, <4>2
    <3>6. first - 1 <= history.end
      BY <1>3, <1>4, <2>3
    <3>7. SweptUp' /\ SweptDown'
      BY <1>1, <3>3, <3>4, <3>5, <3>6 DEF SweptUp, SweptDown, Asked
    <3>8. QED
      BY <3>3, <3>7 DEF FundingInv
  <2>7. QED
    BY <2>5, <2>6
<1>11. QED
  BY <1>7, <1>8, <1>9, <1>10

\* A fetch begins with nothing swept.
LEMMA BeginKeeps ==
    ASSUME FundingAssumption, FundingInv, NEW since \in FundingStarts, NEW end \in 0 .. MaxInstant,
           NEW open \in BOOLEAN, FundingBegin(since, end, open)
    PROVE  FundingInv'
<1>1. since \in Int /\ end \in Int /\ venue.now \in Int /\ UNCHANGED venue
  BY DEF FundingAssumption, FundingInv, VenueOK, FundingBegin
<1>2. /\ history' \in Fetches /\ history'.phase = "run" /\ history'.since = since
      /\ history'.end = end /\ history'.asked = venue.now /\ history'.rows = {}
      /\ history'.cursor = IF venue.name = "binance" THEN since ELSE end
  BY <1>1 DEF FundingBegin, Fetches
<1>3. VenueOK' /\ HistoryOK' /\ FundingComplete' /\ RefusedOffBoundary'
  BY <1>1, <1>2 DEF FundingInv, VenueOK, HistoryOK, RowsOK, FundingComplete, RefusedOffBoundary
<1>4. \A s \in venue.settles : s \in Int
  BY DEF FundingInv, VenueOK
<1>5. SweptUp'
  BY <1>1, <1>2, <1>4 DEF SweptUp, Asked
<1>6. SweptDown'
  <2>1. venue.name = "bybit" => history'.cursor = end
    BY <1>2
  <2>2. QED
    BY <1>1, <1>2, <1>4, <2>1 DEF SweptDown, Asked
<1>7. QED
  BY <1>3, <1>5, <1>6 DEF FundingInv

\* The venue's clock takes nothing back.
LEMMA SettleKeeps ==
    ASSUME FundingAssumption, FundingInv, Settle
    PROVE  FundingInv'
<1>1. /\ venue'.name = venue.name /\ venue'.settles = venue.settles /\ venue'.now = venue.now + 1
      /\ VenueOK' /\ venue.now \in Int /\ venue.settles \subseteq Int
  BY DEF FundingAssumption, FundingInv, VenueOK, Settle
<1>2. history' = history /\ history.phase = "run"
  BY DEF Settle
<1>3. HistoryOK'
  <2>1. history \in Fetches /\ history.asked <= venue.now /\ RowsOK(history.rows)
    BY <1>2, Running
  <2>2. history.asked \in Int
    BY <2>1 DEF Fetches
  <2>3. history.asked <= venue'.now
    BY <1>1, <2>1, <2>2
  <2>4. RowsOK(history.rows)'
    <3>1. ASSUME NEW s \in history.rows PROVE s <= venue'.now
      <4>1. s \in Int /\ s <= venue.now
        BY <1>1, <2>1 DEF RowsOK
      <4>2. QED
        BY <1>1, <4>1
    <3>2. QED
      BY <1>1, <1>2, <2>1, <3>1 DEF RowsOK
  <2>5. QED
    BY <1>2, <2>1, <2>3, <2>4 DEF HistoryOK
<1>4. QED
  BY <1>1, <1>2, <1>3
     DEF FundingInv, SweptUp, SweptDown, Asked, FundingComplete, RefusedOffBoundary

----------------------------------------------------------------------------
(* Theorems.                                                               *)

\* The invariant of a fetch, for every page limit, start, clock and set of
\* settlements that are not on neighbouring instants.
THEOREM FundingInvariant == FundingSpec => []FundingInv
<1>1. FundingInit => FundingInv
  BY FundingAssumption
     DEF FundingAssumption, FundingInit, FundingInv, VenueOK, HistoryOK, SweptUp, SweptDown,
         FundingComplete, RefusedOffBoundary
<1>2. FundingInv /\ [FundingNext]_fundingVars => FundingInv'
  <2> SUFFICES ASSUME FundingInv, [FundingNext]_fundingVars PROVE FundingInv'
    OBVIOUS
  <2>1. ASSUME NEW since \in FundingStarts, NEW end \in 1 .. MaxInstant,
               FundingBegin(since, end, FALSE)
        PROVE  FundingInv'
    <3>1. end \in 0 .. MaxInstant
      BY FundingAssumption DEF FundingAssumption
    <3>2. QED
      BY <2>1, <3>1, FundingAssumption, BeginKeeps
  <2>2. ASSUME NEW since \in FundingStarts, FundingBegin(since, venue.now, TRUE)
        PROVE  FundingInv'
    <3>1. venue.now \in 0 .. MaxInstant
      BY DEF FundingInv, VenueOK
    <3>2. QED
      BY <2>2, <3>1, FundingAssumption, BeginKeeps
  <2>3. CASE FundingBinance
    BY <2>3, FundingAssumption, BinanceKeeps
  <2>4. CASE FundingBybit
    BY <2>4, FundingAssumption, BybitKeeps
  <2>5. CASE Settle
    BY <2>5, FundingAssumption, SettleKeeps
  <2>6. CASE UNCHANGED fundingVars
    BY <2>6 DEF fundingVars, FundingInv, VenueOK, HistoryOK, RowsOK, SweptUp, SweptDown, Asked,
                FundingComplete, RefusedOffBoundary
  <2>7. QED
    BY <2>1, <2>2, <2>3, <2>4, <2>5, <2>6 DEF FundingNext
<1>3. QED
  BY <1>1, <1>2, PTL DEF FundingSpec

\* A saved history has every settlement of its range, however the venue pages
\* and settles meanwhile, and a refusal means that the range does not begin at
\* a settlement.
THEOREM HistoryIsWhole == FundingSpec => []FundingWhole
<1>1. FundingInv => FundingWhole
  BY DEF FundingInv, FundingWhole
<1>2. QED
  BY <1>1, FundingInvariant, PTL

----------------------------------------------------------------------------
(* Walk-forward.                                                           *)

\* The plan, which no step changes.
PlanOK ==
    /\ plan.index \in Times
    /\ plan.train \in Nat \ {0} /\ plan.test \in Nat \ {0} /\ plan.step \in Nat /\ plan.day \in Nat \ {0}
    /\ plan.unit \in {"bars", "time"}

\* Folds that were checked, and results that hold bars of their folds' test windows.
FoldInv ==
    /\ PlanOK
    /\ wf = [phase |-> wf.phase, folds |-> wf.folds, results |-> wf.results, curve |-> wf.curve, tested |-> wf.tested]
    /\ wf.phase \in {"start", "failed", "folds", "done", "swept"}
    /\ wf.phase = "start" => wf.results = <<>>
    /\ ~Planned => wf.results = <<>>
    /\ Planned =>
        /\ Convertible /\ wf.folds = Generated(Train, Test, StepOf)
        /\ Sound(wf.folds, Train, Test, StepOf)
        /\ Len(wf.results) \in Nat /\ DOMAIN wf.results = 1 .. Len(wf.results)
        /\ Len(wf.results) <= Len(wf.folds)
        /\ \A k \in DOMAIN wf.results :
            /\ wf.results[k].rows \subseteq Slice(wf.folds[k].testStart, wf.folds[k].testEnd)
            /\ wf.results[k].gain \in {0, 1}
    /\ wf.phase = "done" => wf.curve = Stitched(wf.results)
    /\ wf.phase = "swept" =>
        \E step \in Nat \ {0} :
            wf.tested = [w \in Windows(Len(plan.index), plan.train, plan.test, step) |-> DateSlice(w)]

\* The times of the bars never fall.
LEMMA TimesRise ==
    ASSUME WalkForwardAssumption, NEW times \in Times
    PROVE  /\ Len(times) \in Nat /\ Len(times) >= 2 /\ DOMAIN times = 1 .. Len(times)
           /\ \A i \in 1 .. Len(times) : times[i] \in Nat
           /\ \A i, j \in 1 .. Len(times) : i <= j => times[i] <= times[j]
<1>1. PICK n \in 2 .. MaxBarsWF : times \in [1 .. n -> 0 .. MaxGap * (n - 1)]
  BY DEF Times
<1>2. n \in Nat /\ n >= 2 /\ \A i \in 1 .. n : times[i] \in Nat
  BY <1>1 DEF WalkForwardAssumption
<1>3. times \in [1 .. n -> Nat]
  BY <1>1, <1>2
<1>4. Len(times) = n
  BY <1>2, <1>3
<1>5. \A i \in 1 .. n - 1 : times[i] <= times[i + 1]
  <2> TAKE i \in 1 .. n - 1
  <2>1. times[i + 1] - times[i] \in 0 .. MaxGap
    BY <1>4 DEF Times
  <2>2. times[i + 1] \in Nat /\ times[i] \in Nat
    BY <1>2
  <2> QED
    BY <2>1, <2>2 DEF WalkForwardAssumption
<1>6. \A i, j \in 1 .. n : i <= j => times[i] <= times[j]
  <2> SUFFICES ASSUME NEW i \in 1 .. n PROVE \A j \in 1 .. n : i <= j => times[i] <= times[j]
    OBVIOUS
  <2> DEFINE Falls == {j \in 1 .. n : i <= j /\ ~(times[i] <= times[j])}
  <2>1. CASE Falls = {}
    BY <2>1
  <2>2. CASE Falls # {}
    <3>1. Falls \in SUBSET Nat
      BY <1>2
    <3>2. PICK j \in Falls : \A u \in Falls : j <= u
      BY <2>2, <3>1, HasFirst
    <3>3. j \in 1 .. n /\ i <= j /\ ~(times[i] <= times[j]) /\ j # i /\ i \in Nat /\ j \in Nat
      BY <1>2, <3>2
    <3>4. j - 1 \in 1 .. n - 1 /\ i <= j - 1 /\ (j - 1) + 1 = j
      BY <1>2, <3>3
    <3>5. j - 1 \notin Falls
      BY <3>2, <3>3
    <3>6. times[i] <= times[j - 1]
      BY <3>4, <3>5, <1>2
    <3>7. times[j - 1] <= times[j]
      BY <1>5, <3>4
    <3>8. times[i] \in Nat /\ times[j] \in Nat /\ times[j - 1] \in Nat
      BY <1>2, <3>3, <3>4
    <3> QED
      BY <3>3, <3>6, <3>7, <3>8
  <2> QED
    BY <2>1, <2>2
<1> QED
  BY <1>2, <1>3, <1>4, <1>6

\* A median exists, and is a natural number.
LEMMA MedianIs ==
    ASSUME WalkForwardAssumption, PlanOK
    PROVE  Twice \in Nat
<1> DEFINE n == Len(plan.index) - 1
           most == plan.index[n + 1]
<1>1. /\ n \in Nat /\ n >= 1 /\ most \in Nat
      /\ \A i \in 1 .. n : /\ plan.index[i] \in Nat /\ plan.index[i + 1] \in Nat
                          /\ plan.index[i] <= plan.index[i + 1] /\ plan.index[i + 1] <= most
  <2>1. /\ Len(plan.index) \in Nat /\ Len(plan.index) >= 2
        /\ \A i \in 1 .. Len(plan.index) : plan.index[i] \in Nat
        /\ \A i, j \in 1 .. Len(plan.index) : i <= j => plan.index[i] <= plan.index[j]
    BY TimesRise DEF PlanOK
  <2>2. n \in Nat /\ n >= 1 /\ n + 1 \in 1 .. Len(plan.index)
    BY <2>1
  <2>3. \A i \in 1 .. n : /\ i \in 1 .. Len(plan.index) /\ i + 1 \in 1 .. Len(plan.index)
                         /\ i <= i + 1 /\ i + 1 <= n + 1
    BY <2>1
  <2> HIDE DEF n
  <2> QED
    BY <2>1, <2>2, <2>3
<1>2. DOMAIN Gaps = 1 .. n /\ Gaps \in [1 .. n -> Nat] /\ \A i \in 1 .. n : Gaps[i] \in 0 .. most
  <2>1. \A i \in 1 .. n : plan.index[i + 1] - plan.index[i] \in 0 .. most
    BY <1>1
  <2>2. Gaps = [i \in 1 .. n |-> plan.index[i + 1] - plan.index[i]]
    BY DEF Gaps
  <2> HIDE DEF n, most
  <2> QED
    BY <2>1, <2>2, <1>1
<1> HIDE DEF n, most
<1>3. Len(Gaps) = n
  BY <1>1, <1>2
<1> DEFINE Below(g) == {i \in 1 .. n : Gaps[i] < g}
           UpTo(g) == {i \in 1 .. n : Gaps[i] <= g}
<1>4. \A g : /\ IsFiniteSet(Below(g)) /\ Cardinality(Below(g)) \in Nat
             /\ IsFiniteSet(UpTo(g)) /\ Cardinality(UpTo(g)) \in Nat
  <2> TAKE g
  <2>1. IsFiniteSet(1 .. n)
    BY <1>1, FS_Interval
  <2>2. Below(g) \subseteq 1 .. n /\ UpTo(g) \subseteq 1 .. n
    OBVIOUS
  <2> QED
    BY <2>1, <2>2, FS_Subset, FS_CardinalityType
<1>5. ASSUME NEW k \in 1 .. n PROVE KthGap(k) \in Nat
  <2> DEFINE Enough == {g \in {Gaps[i] : i \in 1 .. n} : Cardinality(UpTo(g)) >= k}
             Values == {Gaps[i] : i \in 1 .. n}
  <2>1. PICK top \in Values : \A g \in Values : g <= top
    <3>1. Values \in SUBSET (0 .. most) /\ Gaps[1] \in Values
      BY <1>1, <1>2
    <3>2. \E s \in Values : \A u \in Values : u <= s
      BY <1>1, <3>1, HasLast
    <3> QED
      BY <3>2
  <2>2. UpTo(top) = 1 .. n
    BY <2>1
  <2>3. Cardinality(UpTo(top)) = n
    <3>1. Cardinality(1 .. n) = n
      BY <1>1, FS_Interval
    <3> QED
      BY <2>2, <3>1
  <2>4. Enough \in SUBSET Nat /\ Enough # {}
    <3>1. top \in Enough
      BY <2>1, <2>3, <1>1
    <3> QED
      BY <1>2, <3>1
  <2>5. PICK g \in Enough : \A u \in Enough : g <= u
    BY <2>4, HasFirst
  <2>6. Cardinality(Below(g)) < k
    <3>1. CASE Below(g) = {}
      BY <3>1, FS_EmptySet
    <3>2. CASE Below(g) # {}
      <4> DEFINE Less == {Gaps[i] : i \in Below(g)}
      <4>1. Less \in SUBSET (0 .. most) /\ Less # {}
        BY <3>2, <1>2
      <4>2. PICK h \in Less : \A u \in Less : u <= h
        BY <1>1, <4>1, HasLast
      <4>3. h \in Nat /\ h < g /\ h \in Values /\ g \in Nat
        BY <4>1, <4>2, <2>4
      <4>4. h \notin Enough
        BY <2>5, <4>3
      <4>5. Cardinality(UpTo(h)) < k
        <5>1. ~(Cardinality(UpTo(h)) >= k)
          BY <4>3, <4>4
        <5>2. Cardinality(UpTo(h)) \in Nat
          BY <1>4
        <5> HIDE DEF UpTo
        <5>3. k \in Nat
          BY <1>1
        <5> QED
          BY <5>1, <5>2, <5>3
      <4>6. UpTo(h) = Below(g)
        <5>1. \A i \in 1 .. n : Gaps[i] \in Nat
          BY <1>2
        <5>2. \A i \in UpTo(h) : i \in Below(g)
          BY <5>1, <4>3
        <5>3. \A i \in Below(g) : Gaps[i] <= h
          BY <4>2
        <5> QED
          BY <5>2, <5>3
      <4> QED
        BY <4>5, <4>6
    <3> QED
      BY <3>1, <3>2
  <2>7. /\ g \in {Gaps[i] : i \in DOMAIN Gaps}
        /\ Cardinality({i \in DOMAIN Gaps : Gaps[i] < g}) < k
        /\ Cardinality({i \in DOMAIN Gaps : Gaps[i] <= g}) >= k
    BY <2>5, <2>6, <1>2
  <2> DEFINE Good(x) == /\ Cardinality({i \in DOMAIN Gaps : Gaps[i] < x}) < k
                        /\ Cardinality({i \in DOMAIN Gaps : Gaps[i] <= x}) >= k
             Domain == {Gaps[i] : i \in DOMAIN Gaps}
  <2>8. g \in Domain /\ Good(g)
    BY <2>7
  <2>9. KthGap(k) = CHOOSE x \in Domain : Good(x)
    BY DEF KthGap
  <2> HIDE DEF Good, Domain
  <2>10. KthGap(k) \in Domain
    BY <2>8, <2>9
  <2> QED
    BY <2>10, <1>2 DEF Domain
<1>6. (n + 1) \div 2 \in 1 .. n /\ n \div 2 + 1 \in 1 .. n
  BY <1>1
<1> QED
  BY <1>3, <1>5, <1>6 DEF Twice
\* Quotients and multiples.
LEMMA Dividing ==
    ASSUME NEW R \in Nat \ {0}
    PROVE  /\ \A a \in Nat : a \div R \in Nat /\ (a % R = 0 => a = R * (a \div R))
           /\ \A a \in Nat : R * (a \div R) <= a /\ a < R * (a \div R) + R
           /\ \A q \in Nat : R * q \in Nat /\ (R * q) % R = 0
           /\ \A p, q \in Nat : p < q => R * p + R <= R * q
<1>1. \A a \in Nat : a \div R \in Nat
  OBVIOUS
<1>2. \A a \in Nat : a % R = 0 => a = R * (a \div R)
  OBVIOUS
<1>3. \A a \in Nat : R * (a \div R) <= a /\ a < R * (a \div R) + R
  OBVIOUS
<1>4. \A q \in Nat : R * q \in Nat
  OBVIOUS
<1>5. \A q \in Nat : (R * q) % R = 0
  OBVIOUS
<1>6. \A p, q \in Nat : p < q => R * p + R <= R * q
  OBVIOUS
<1> QED
  BY <1>1, <1>2, <1>3, <1>4, <1>5, <1>6

\* Windows that convert are a number of bars, and at least one.
LEMMA WindowsCount ==
    ASSUME WalkForwardAssumption, PlanOK, Convertible
    PROVE  Train \in Nat \ {0} /\ Test \in Nat \ {0} /\ StepOf \in Nat \ {0}
<1> DEFINE s == IF plan.step = 0 THEN plan.test ELSE plan.step
<1>1. plan.train \in Nat \ {0} /\ plan.test \in Nat \ {0} /\ s \in Nat \ {0}
  BY DEF PlanOK
<1> HIDE DEF s
<1>2. CASE plan.unit = "bars"
  BY <1>1, <1>2 DEF Train, Test, StepOf, ToBars, s
<1>3. CASE plan.unit # "bars"
  <2>1. Timed
    BY <1>3 DEF PlanOK, Timed
  <2>2. Twice \in Nat \ {0}
    BY <2>1, MedianIs DEF Convertible
  <2>3. \A v \in Nat : (2 * v) \div Twice \in Nat
    BY <2>2, Dividing
  <2>4. Train \in Nat /\ Test \in Nat /\ StepOf \in Nat
    BY <1>1, <1>3, <2>3 DEF Train, Test, StepOf, ToBars, s
  <2> QED
    BY <2>1, <2>4 DEF Convertible
<1> QED
  BY <1>2, <1>3

\* The k-th fold of an index of n bars.
Lies(f, k, n, train, test, step) ==
    /\ k \in Nat /\ k >= 1
    /\ f.testStart = train + step * (k - 1)
    /\ f.testEnd = train + step * (k - 1) + test - 1
    /\ f.trainEnd = train + step * (k - 1) - 1
    /\ f.testEnd <= n - 1

Laid(folds, n, train, test, step) ==
    /\ n >= train + test
    /\ Len(folds) = 1 + (n - (train + test)) \div step
    /\ DOMAIN folds = 1 .. 1 + (n - (train + test)) \div step
    /\ \A k \in DOMAIN folds : Lies(folds[k], k, n, train, test, step)

\* How many folds there are, and where the k-th one lies.
LEMMA FoldsAre ==
    ASSUME NEW n \in Nat, NEW train \in Nat \ {0}, NEW test \in Nat \ {0}, NEW step \in Nat \ {0},
           n = Len(plan.index), NEW folds, folds = Generated(train, test, step), Len(folds) > 1
    PROVE  Laid(folds, n, train, test, step)
<1> DEFINE M == ExpectedFolds(n, train, test, step)
           more == (n - (train + test)) \div step
<1> DEFINE spare == n - (train + test)
<1>1. /\ n < train + test => M = 0
      /\ ~(n < train + test) => M = 1 + spare \div step /\ more = spare \div step /\ spare \in Nat
  <2>1. n < train + test => M = 0
    BY DEF ExpectedFolds
  <2>2. more = spare \div step /\ spare \in Int
    OBVIOUS
  <2>3. ~(n < train + test) => spare \in Nat
    OBVIOUS
  <2>4. ASSUME ~(n < train + test) PROVE M = 1 + more
    BY <2>4, Zenon DEF ExpectedFolds
  <2> HIDE DEF M, more, spare
  <2> QED
    BY <2>1, <2>2, <2>3, <2>4
<1> HIDE DEF spare, more, M
<1>2. M \in Nat
  BY <1>1, Dividing
<1>3a. folds = [k \in 1 .. M |-> Fold(k - 1, train, test, step)]
  BY DEF Generated, M
<1>3. Len(folds) = M /\ DOMAIN folds = 1 .. M
  BY <1>2, <1>3a
<1>4. n >= train + test
  BY <1>1, <1>3
<1>5. spare \in Nat /\ spare = n - (train + test)
  BY <1>1, <1>4 DEF spare
<1>6. M = 1 + spare \div step /\ more = spare \div step
  BY <1>1, <1>4
<1>7. M = 1 + more /\ more \in Nat /\ step * more \in Nat /\ step * more <= spare
  BY <1>5, <1>6, Dividing
<1>8. ASSUME NEW k \in 1 .. M
      PROVE  /\ folds[k].testStart = train + step * (k - 1)
             /\ folds[k].testEnd = train + step * (k - 1) + test - 1
             /\ folds[k].trainEnd = train + step * (k - 1) - 1
             /\ folds[k].testEnd <= n - 1
  <2> DEFINE q == k - 1
             a == step * q
             b == step * more
  <2>1. q \in Nat /\ (q = more \/ q < more)
    BY <1>7
  <2> HIDE DEF q
  <2>2. a \in Nat /\ b \in Nat /\ b <= spare
    BY <2>1, <1>7, Dividing
  <2>3. a <= spare
    <3>1. CASE q = more
      BY <3>1, <2>2
    <3>2. CASE q < more
      <4>1. a + step <= b
        BY <2>1, <3>2, <1>7, Dividing
      <4> HIDE DEF a, b
      <4> QED
        BY <4>1, <2>2, <1>5
    <3> QED
      BY <3>1, <3>2, <2>1
  <2>4. folds[k] = Fold(k - 1, train, test, step)
    BY <1>3a
  <2>5. /\ folds[k].testEnd = train + test + a - 1
        /\ folds[k].testStart = train + test + a - 1 - test + 1
        /\ folds[k].trainEnd = train + test + a - 1 - test + 1 - 1
    BY <2>4 DEF Fold, q
  <2> HIDE DEF a, b
  <2>6. /\ folds[k].testStart = train + a /\ folds[k].testEnd = train + a + test - 1
        /\ folds[k].trainEnd = train + a - 1 /\ folds[k].testEnd <= n - 1
    <3>1. folds[k].testStart = train + a
      BY <2>2, <2>5
    <3>2. folds[k].testEnd = train + a + test - 1
      BY <2>2, <2>5
    <3>3. folds[k].trainEnd = train + a - 1
      BY <2>2, <2>5
    <3>4. folds[k].testEnd <= n - 1
      BY <2>2, <2>3, <1>5, <3>2
    <3> QED
      BY <3>1, <3>2, <3>3, <3>4
  <2> QED
    BY <2>6 DEF a, q
<1> QED
  <2>1. 1 .. M = 1 .. 1 + (n - (train + test)) \div step /\ M = 1 + (n - (train + test)) \div step
    BY <1>7 DEF more
  <2>2. \A k \in 1 .. M : k \in Nat /\ k >= 1
    BY <1>2
  <2>3. \A k \in 1 .. M : Lies(folds[k], k, n, train, test, step)
    BY <2>2, <1>8 DEF Lies
  <2> QED
    BY <2>1, <2>3, <1>3, <1>4 DEF Laid
\* Where windows that were checked lie: a bar of one comes after its training,
\* and if tests do not overlap after every bar of the windows before.
LEMMA WindowsApart ==
    ASSUME WalkForwardAssumption, PlanOK, Convertible, NEW folds, folds = Generated(Train, Test, StepOf),
           Sound(folds, Train, Test, StepOf), NEW l \in DOMAIN folds,
           NEW j \in Slice(folds[l].testStart, folds[l].testEnd)
    PROVE  /\ j > folds[l].trainEnd
           /\ StepOf >= Test =>
                \A k \in DOMAIN folds : k < l =>
                    \A i \in Slice(folds[k].testStart, folds[k].testEnd) : i < j
<1> DEFINE n == Len(plan.index)
           S == StepOf
<1>1. /\ n \in Nat /\ n >= 2
      /\ \A i \in 0 .. n - 1 : Time(i) \in Nat
      /\ \A i, u \in 0 .. n - 1 : i <= u => Time(i) <= Time(u)
  <2>1. /\ n \in Nat /\ n >= 2 /\ \A i \in 1 .. n : plan.index[i] \in Nat
        /\ \A i, u \in 1 .. n : i <= u => plan.index[i] <= plan.index[u]
    BY TimesRise DEF PlanOK
  <2> HIDE DEF n
  <2>2. \A i \in 0 .. n - 1 : i + 1 \in 1 .. n
    BY <2>1
  <2>3. \A i, u \in 0 .. n - 1 : i <= u => i + 1 <= u + 1
    BY <2>1
  <2> QED
    BY <2>1, <2>2, <2>3 DEF Time
<1>2. Train \in Nat \ {0} /\ Test \in Nat \ {0} /\ S \in Nat \ {0}
  BY WindowsCount
<1> HIDE DEF n, S
<1> DEFINE At(k) == S * (k - 1)
<1>3. \A k \in DOMAIN folds :
        /\ k \in Nat /\ k >= 1
        /\ folds[k].testStart = Train + At(k)
        /\ folds[k].testEnd = Train + At(k) + Test - 1
        /\ folds[k].trainEnd = Train + At(k) - 1
        /\ folds[k].testEnd <= n - 1
        /\ ~(Time(folds[k].testStart) <= Time(folds[k].trainEnd))
  <2>1. n = Len(plan.index) /\ Len(folds) > 1 /\ folds = Generated(Train, Test, S)
    BY DEF n, S, Sound
  <2>2. \A k \in DOMAIN folds :
            /\ k \in Nat /\ k >= 1
            /\ folds[k].testStart = Train + At(k)
            /\ folds[k].testEnd = Train + At(k) + Test - 1
            /\ folds[k].trainEnd = Train + At(k) - 1
            /\ folds[k].testEnd <= n - 1
    <3> HIDE DEF At
    <3>1. \A k \in DOMAIN folds :
            /\ k \in Nat /\ k >= 1
            /\ folds[k].testStart = Train + S * (k - 1)
            /\ folds[k].testEnd = Train + S * (k - 1) + Test - 1
            /\ folds[k].trainEnd = Train + S * (k - 1) - 1
            /\ folds[k].testEnd <= n - 1
      <4>1. n \in Nat /\ Train \in Nat \ {0} /\ Test \in Nat \ {0} /\ S \in Nat \ {0}
        BY <1>1, <1>2
      <4> HIDE DEF n, S
      <4>2. Laid(folds, n, Train, Test, S)
        BY <4>1, <2>1, FoldsAre, Zenon
      <4> QED
        BY <4>2 DEF Laid, Lies
    <3>2. \A k \in DOMAIN folds : At(k) = S * (k - 1)
      BY DEF At
    <3> QED
      BY <3>1, <3>2, Zenon
  <2>3. \A k \in DOMAIN folds : ~(Time(folds[k].testStart) <= Time(folds[k].trainEnd))
    BY DEF Leaks, Sound
  <2> HIDE DEF At
  <2> QED
    BY <2>2, <2>3
<1>4. \A k \in DOMAIN folds : At(k) \in Nat
  <2>1. \A k \in DOMAIN folds : k - 1 \in Nat
    BY <1>3
  <2> QED
    BY <1>2, <2>1, Dividing
<1>5. \A k, u \in DOMAIN folds : k < u => At(k) + S <= At(u)
  <2>1. \A k, u \in DOMAIN folds : k < u => k - 1 \in Nat /\ u - 1 \in Nat /\ k - 1 < u - 1
    BY <1>3
  <2>2. \A p, q \in Nat : p < q => S * p + S <= S * q
    BY <1>2, Dividing
  <2> QED
    BY <2>1, <2>2
<1> HIDE DEF At
<1>6. ASSUME NEW k \in DOMAIN folds
      PROVE  /\ folds[k].testStart \in 0 .. n - 1 /\ folds[k].testEnd \in 0 .. n - 1
             /\ folds[k].trainEnd \in 0 .. n - 1
             /\ Time(folds[k].trainEnd) < Time(folds[k].testStart)
  <2>1. /\ folds[k].testStart \in 0 .. n - 1 /\ folds[k].testEnd \in 0 .. n - 1
        /\ folds[k].trainEnd \in 0 .. n - 1
    BY <1>1, <1>2, <1>3, <1>4
  <2> QED
    BY <1>1, <1>3, <2>1
<1>7. \A k \in DOMAIN folds : \A i \in Slice(folds[k].testStart, folds[k].testEnd) :
        i \in 0 .. n - 1 /\ Time(folds[k].testStart) <= Time(i) /\ Time(i) <= Time(folds[k].testEnd)
  BY DEF Slice, n
<1>8. \A i, u \in 0 .. n - 1 : Time(i) < Time(u) => i < u
  <2> TAKE i, u \in 0 .. n - 1
  <2>1. u <= i => Time(u) <= Time(i)
    BY <1>1
  <2>2. Time(i) \in Nat /\ Time(u) \in Nat /\ i \in Int /\ u \in Int
    BY <1>1
  <2> QED
    BY <2>1, <2>2
<1>9. Time(folds[l].trainEnd) < Time(j)
  <2>1. /\ Time(folds[l].testStart) \in Nat /\ Time(folds[l].trainEnd) \in Nat /\ Time(j) \in Nat
        /\ Time(folds[l].testStart) <= Time(j) /\ Time(folds[l].trainEnd) < Time(folds[l].testStart)
    BY <1>1, <1>6, <1>7
  <2> QED
    BY <2>1
<1>10. j > folds[l].trainEnd
  <2>1. folds[l].trainEnd < j /\ j \in Int /\ folds[l].trainEnd \in Int
    BY <1>6, <1>7, <1>8, <1>9
  <2> QED
    BY <2>1
<1>11. ASSUME S >= Test, NEW k \in DOMAIN folds, k < l, NEW i \in Slice(folds[k].testStart, folds[k].testEnd)
       PROVE  i < j
  <2>1. folds[k].testEnd <= folds[l].trainEnd
    <3>1. At(k) + S <= At(l) /\ At(k) \in Nat /\ At(l) \in Nat
      BY <1>4, <1>5, <1>11
    <3>2. folds[k].testEnd = Train + At(k) + Test - 1 /\ folds[l].trainEnd = Train + At(l) - 1
      BY <1>3
    <3> QED
      BY <3>1, <3>2, <1>2, <1>11
  <2>2. Time(folds[k].testEnd) <= Time(folds[l].trainEnd) /\ Time(i) <= Time(folds[k].testEnd)
    BY <2>1, <1>1, <1>6, <1>7
  <2>3. /\ Time(folds[k].testEnd) \in Nat /\ Time(folds[l].trainEnd) \in Nat /\ Time(i) \in Nat /\ Time(j) \in Nat
        /\ i \in 0 .. n - 1 /\ j \in 0 .. n - 1
    BY <1>1, <1>6, <1>7
  <2>4. Time(i) < Time(j)
    BY <2>2, <2>3, <1>9
  <2> QED
    BY <2>3, <2>4, <1>8
<1> QED
  BY <1>10, <1>11 DEF S

\* The index and the windows of a plan.
LEMMA FoldStarts == ASSUME WalkForwardAssumption, FoldInit PROVE FoldInv
<1>1. PICK index \in Times, train \in 1 .. MaxWindow, test \in 1 .. MaxWindow, step \in 0 .. MaxWindow,
           mode \in {"rolling", "anchored"}, unit \in {"bars", "time"}, day \in DayLengths :
        plan = [index |-> index, train |-> train, test |-> test, step |-> step,
                mode |-> mode, unit |-> unit, day |-> day]
  BY DEF FoldInit
<1>2. /\ plan.index = index /\ plan.train = train /\ plan.test = test /\ plan.step = step
      /\ plan.unit = unit /\ plan.day = day
  BY <1>1
<1>3. PlanOK
  BY <1>2 DEF PlanOK, WalkForwardAssumption
<1>4. wf = [phase |-> "start", folds |-> <<>>, results |-> <<>>, curve |-> <<>>, tested |-> <<>>]
  BY DEF FoldInit
<1> QED
  BY <1>3, <1>4 DEF FoldInv, Planned

\* Nothing that hangs on the plan changes with it.
LEMMA PlanStays ==
    ASSUME plan' = plan
    PROVE  /\ PlanOK' <=> PlanOK
           /\ Convertible' <=> Convertible
           /\ Train' = Train /\ Test' = Test /\ StepOf' = StepOf
           /\ \A a, b, c : Generated(a, b, c)' = Generated(a, b, c)
           /\ \A f, a, b, c : Sound(f, a, b, c)' <=> Sound(f, a, b, c)
           /\ \A a, b : Slice(a, b)' = Slice(a, b)
           /\ \A w : DateSlice(w)' = DateSlice(w)
  BY DEF PlanOK, Convertible, Timed, Train, Test, StepOf, ToBars, Twice, KthGap, Gaps, Generated, Fold,
         ExpectedFolds, Sound, Leaks, Time, Slice, DateSlice
\* Folds that were checked stay checked.
LEMMA FoldsStay ==
    ASSUME plan' = plan, Convertible, NEW folds, wf.folds' = folds,
           folds = Generated(Train, Test, StepOf), Sound(folds, Train, Test, StepOf)
    PROVE  Convertible' /\ wf.folds' = Generated(Train, Test, StepOf)' /\ Sound(wf.folds, Train, Test, StepOf)'
<1>1. Convertible' /\ Train' = Train /\ Test' = Test /\ StepOf' = StepOf
  BY PlanStays
<1>2. Generated(Train, Test, StepOf)' = Generated(Train, Test, StepOf)
  BY <1>1 DEF Generated, Fold, ExpectedFolds
<1>3. Sound(wf.folds, Train, Test, StepOf)'
  BY <1>1 DEF Sound, Leaks, Time
<1> QED
  BY <1>1, <1>2, <1>3

\* Folds are generated only where they are sound.
LEMMA GenerateKeeps == ASSUME WalkForwardAssumption, FoldInv, Generate PROVE FoldInv'
<1>1. plan' = plan /\ PlanOK /\ PlanOK'
  BY PlanStays DEF Generate, FoldInv
<1>2. wf = [phase |-> "start", folds |-> wf.folds, results |-> <<>>, curve |-> wf.curve, tested |-> wf.tested]
  BY DEF Generate, FoldInv
<1>3. CASE wf' = [wf EXCEPT !.phase = "failed"]
  <2>1. wf' = [phase |-> "failed", folds |-> wf.folds, results |-> <<>>, curve |-> wf.curve, tested |-> wf.tested]
    BY <1>2, <1>3
  <2> QED
    BY <1>1, <2>1 DEF FoldInv, Planned
<1>4. CASE ~(wf' = [wf EXCEPT !.phase = "failed"])
  <2>1. PICK folds :
            /\ folds = Generated(Train, Test, StepOf) /\ Convertible /\ Sound(folds, Train, Test, StepOf)
            /\ wf' = [wf EXCEPT !.phase = "folds", !.folds = folds]
    BY <1>4, Zenon DEF Generate
  <2>2. Train \in Nat \ {0} /\ Test \in Nat \ {0} /\ StepOf \in Nat \ {0}
    BY <1>1, <2>1, WindowsCount
  <2>4. Len(folds) \in Nat /\ Len(folds) > 1
    <3>1. Len(folds) > 1
      BY <2>1 DEF Sound
    <3>2. Len(plan.index) \in Nat
      BY <1>1, TimesRise DEF PlanOK
    <3>3. Len(folds) = 1 + (Len(plan.index) - (Train + Test)) \div StepOf /\ Len(plan.index) >= Train + Test
      <4>1. folds = Generated(Train, Test, StepOf)
        BY <2>1
      <4>2. Laid(folds, Len(plan.index), Train, Test, StepOf)
        BY <2>2, <3>1, <3>2, <4>1, FoldsAre, Zenon
      <4> QED
        BY <4>2 DEF Laid
    <3>4. Len(plan.index) - (Train + Test) \in Nat
      BY <2>2, <3>2, <3>3
    <3>5. (Len(plan.index) - (Train + Test)) \div StepOf \in Nat
      BY <2>2, <3>4, Dividing
    <3> QED
      BY <3>1, <3>3, <3>5
  <2>5. wf' = [phase |-> "folds", folds |-> folds, results |-> <<>>, curve |-> wf.curve, tested |-> wf.tested]
    <3>1. wf' = [wf EXCEPT !.phase = "folds", !.folds = folds]
      BY <2>1
    <3>2. wf' = [phase |-> "folds", folds |-> folds, results |-> wf.results, curve |-> wf.curve, tested |-> wf.tested]
      BY <3>1 DEF FoldInv
    <3> QED
      BY <1>2, <3>2
  <2>6. wf.phase' = "folds" /\ wf.folds' = folds /\ wf.results' = <<>> /\ Planned'
    BY <2>5 DEF Planned
  <2>7. Sound(wf.folds, Train, Test, StepOf)' /\ Convertible' /\ wf.folds' = Generated(Train, Test, StepOf)'
    BY <1>1, <2>1, <2>6, FoldsStay
  <2>8. Len(wf.results)' = 0 /\ DOMAIN wf.results' = 1 .. Len(wf.results)'
    BY <2>6
  <2> QED
    BY <1>1, <2>4, <2>5, <2>6, <2>7, <2>8 DEF FoldInv
<1> QED
  BY <1>3, <1>4

\* A fold's result holds bars of its window.
LEMMA RunFoldKeeps == ASSUME WalkForwardAssumption, FoldInv, RunFold PROVE FoldInv'
<1>1. plan' = plan /\ PlanOK /\ PlanOK' /\ Planned /\ wf.phase = "folds"
  BY PlanStays DEF RunFold, FoldInv, Planned
<1> DEFINE m == Len(wf.results) + 1
           f == wf.folds[m]
<1>2. PICK gain \in {0, 1}, breach \in BOOLEAN :
        wf' = [wf EXCEPT !.results = Append(@, Result(f, gain, breach))]
  BY DEF RunFold
<1> DEFINE r == Result(f, gain, breach)
<1>3. /\ Len(wf.results) \in Nat /\ DOMAIN wf.results = 1 .. Len(wf.results) /\ Len(wf.results) < Len(wf.folds)
      /\ Convertible /\ wf.folds = Generated(Train, Test, StepOf) /\ Sound(wf.folds, Train, Test, StepOf)
  BY <1>1 DEF FoldInv, RunFold
<1>4. /\ Train \in Nat \ {0} /\ Test \in Nat \ {0} /\ StepOf \in Nat \ {0}
      /\ Len(plan.index) \in Nat /\ Len(wf.folds) > 1
  BY <1>1, <1>3, WindowsCount, TimesRise DEF PlanOK, Sound
<1>5. /\ m \in DOMAIN wf.folds /\ Len(wf.folds) \in Nat
      /\ Lies(f, m, Len(plan.index), Train, Test, StepOf)
  <2>1. Laid(wf.folds, Len(plan.index), Train, Test, StepOf)
    BY <1>3, <1>4, FoldsAre, Zenon
  <2>2. Len(plan.index) - (Train + Test) \in Nat
    BY <1>4, <2>1 DEF Laid
  <2>3. Len(wf.folds) \in Nat /\ DOMAIN wf.folds = 1 .. Len(wf.folds)
    <3>1. (Len(plan.index) - (Train + Test)) \div StepOf \in Nat
      BY <1>4, <2>2, Dividing
    <3> QED
      BY <2>1, <3>1 DEF Laid
  <2>4. m \in DOMAIN wf.folds
    BY <1>3, <2>3
  <2> QED
    BY <2>1, <2>3, <2>4 DEF Laid
<1>6. r.rows \subseteq Slice(f.testStart, f.testEnd) /\ r.gain \in {0, 1}
  <2>1. f.testStart \in Slice(f.testStart, f.testEnd)
    <3> DEFINE a == StepOf * (m - 1)
    <3>1. m - 1 \in Nat
      BY <1>3
    <3>2. a \in Nat
      BY <3>1, <1>4, Dividing
    <3>3. f.testStart = Train + a /\ f.testEnd = Train + a + Test - 1 /\ f.testEnd <= Len(plan.index) - 1
      BY <1>5 DEF Lies
    <3> HIDE DEF a, f, m
    <3>4. /\ f.testStart \in 0 .. Len(plan.index) - 1 /\ f.testStart + 1 <= f.testEnd + 1
          /\ f.testStart + 1 \in 1 .. Len(plan.index) /\ f.testEnd + 1 \in 1 .. Len(plan.index)
      BY <1>4, <3>2, <3>3
    <3>5. /\ Time(f.testStart) <= Time(f.testEnd) /\ Time(f.testStart) \in Nat
      BY <1>1, <3>4, TimesRise DEF PlanOK, Time
    <3> QED
      BY <3>4, <3>5 DEF Slice
  <2> HIDE DEF f
  <2>2. CASE breach
    BY <2>1, <2>2 DEF Result
  <2>3. CASE ~breach
    BY <2>3 DEF Result
  <2> QED
    BY <2>2, <2>3
<1> HIDE DEF r
<1> DEFINE results == Append(wf.results, r)
<1>7. wf' = [phase |-> "folds", folds |-> wf.folds, results |-> results, curve |-> wf.curve, tested |-> wf.tested]
  BY <1>1, <1>2 DEF FoldInv, r
<1>8. wf.phase' = "folds" /\ wf.folds' = wf.folds /\ wf.results' = results /\ Planned'
  BY <1>7 DEF Planned
<1>9. /\ Len(results) = m /\ DOMAIN results = 1 .. m /\ results[m] = r
      /\ \A k \in DOMAIN wf.results : results[k] = wf.results[k]
  <2>1. wf.results = [k \in 1 .. Len(wf.results) |-> wf.results[k]]
        \/ ~(wf.results = [k \in DOMAIN wf.results |-> wf.results[k]])
    BY <1>3
  <2> QED
    BY <1>3
<1>10. \A k \in DOMAIN results :
        /\ results[k].rows \subseteq Slice(wf.folds[k].testStart, wf.folds[k].testEnd)
        /\ results[k].gain \in {0, 1}
  <2>1. \A k \in DOMAIN results : k \in DOMAIN wf.results \/ k = m
    BY <1>3, <1>9
  <2>2. \A k \in DOMAIN wf.results :
            /\ wf.results[k].rows \subseteq Slice(wf.folds[k].testStart, wf.folds[k].testEnd)
            /\ wf.results[k].gain \in {0, 1}
    BY <1>1 DEF FoldInv
  <2> HIDE DEF results
  <2> QED
    BY <1>6, <1>9, <2>1, <2>2
<1>11. /\ Convertible' /\ wf.folds' = Generated(Train, Test, StepOf)'
       /\ Sound(wf.folds, Train, Test, StepOf)'
  BY <1>1, <1>3, <1>8, FoldsStay
<1>12. m \in Nat /\ m <= Len(wf.folds)
  BY <1>3, <1>5
<1> HIDE DEF results, m
<1>13. /\ Len(wf.results)' = m /\ DOMAIN wf.results' = 1 .. m
  BY <1>8, <1>9
<1>14. \A k \in DOMAIN wf.results' :
        /\ wf.results[k].rows' \subseteq Slice(wf.folds[k].testStart, wf.folds[k].testEnd)'
        /\ wf.results[k].gain' \in {0, 1}
  BY <1>1, <1>8, <1>9, <1>10 DEF Slice, Time
<1> QED
  BY <1>1, <1>7, <1>8, <1>11, <1>12, <1>13, <1>14 DEF FoldInv

\* Stitching changes the phase and the curve.
LEMMA FinishKeeps == ASSUME WalkForwardAssumption, FoldInv, Finish PROVE FoldInv'
<1>1. plan' = plan /\ PlanOK /\ PlanOK' /\ Planned
  BY PlanStays DEF Finish, FoldInv, Planned
<1> DEFINE curve == Stitched(wf.results)
<1>2. wf' = [wf EXCEPT !.phase = "done", !.curve = curve]
  BY DEF Finish
<1> HIDE DEF curve
<1>3. wf' = [phase |-> "done", folds |-> wf.folds, results |-> wf.results, curve |-> curve, tested |-> wf.tested]
  BY <1>2 DEF FoldInv
<1>4. wf.phase' = "done" /\ wf.folds' = wf.folds /\ wf.results' = wf.results /\ wf.curve' = curve /\ Planned'
  BY <1>3 DEF Planned
<1>5. Stitched(wf.results)' = curve
  BY <1>4 DEF Stitched, Capital, curve
<1>6. /\ Convertible' /\ wf.folds' = Generated(Train, Test, StepOf)'
      /\ Sound(wf.folds, Train, Test, StepOf)'
  BY <1>1, <1>4, FoldsStay DEF FoldInv
<1>7. \A k \in DOMAIN wf.results' :
        /\ wf.results[k].rows' \subseteq Slice(wf.folds[k].testStart, wf.folds[k].testEnd)'
        /\ wf.results[k].gain' \in {0, 1}
  BY <1>1, <1>4 DEF FoldInv, Slice, Time
<1> QED
  BY <1>1, <1>3, <1>4, <1>5, <1>6, <1>7 DEF FoldInv

\* A sweep tests its windows by date.
LEMMA SweepKeeps == ASSUME WalkForwardAssumption, FoldInv, Sweep PROVE FoldInv'
<1>1. plan' = plan /\ PlanOK /\ PlanOK' /\ wf.phase = "start" /\ wf.results = <<>>
  BY PlanStays DEF Sweep, FoldInv
<1> DEFINE step == IF plan.step = 0 THEN plan.test ELSE plan.step
           tested == [w \in Windows(Len(plan.index), plan.train, plan.test, step) |-> DateSlice(w)]
<1>2. wf' = [wf EXCEPT !.phase = "swept", !.tested = tested]
  BY DEF Sweep
<1>3. step \in Nat \ {0}
  BY <1>1 DEF PlanOK
<1> HIDE DEF tested, step
<1>5. wf' = [phase |-> "swept", folds |-> wf.folds, results |-> <<>>, curve |-> wf.curve, tested |-> tested]
  BY <1>1, <1>2 DEF FoldInv
<1>6. wf.phase' = "swept" /\ wf.tested' = tested /\ ~Planned'
  BY <1>5 DEF Planned
<1>7. PICK s \in Nat \ {0} : s = step
  BY <1>3
<1>8. wf.tested' = [w \in Windows(Len(plan.index), plan.train, plan.test, s) |-> DateSlice(w)]'
  BY <1>1, <1>6, <1>7 DEF tested, DateSlice, Time
<1>9. (\E z \in Nat \ {0} :
        wf.tested = [w \in Windows(Len(plan.index), plan.train, plan.test, z) |-> DateSlice(w)])'
  BY <1>7, <1>8
<1> QED
  BY <1>1, <1>5, <1>6, <1>9 DEF FoldInv
\* Each step keeps the invariant.
LEMMA FoldKeeps == ASSUME WalkForwardAssumption, FoldInv, [FoldNext]_foldVars PROVE FoldInv'
<1>1. CASE Generate
  BY <1>1, GenerateKeeps
<1>2. CASE RunFold
  BY <1>2, RunFoldKeeps
<1>3. CASE Finish
  BY <1>3, FinishKeeps
<1>4. CASE Sweep
  BY <1>4, SweepKeeps
<1>5. CASE UNCHANGED foldVars
  <2>1. plan' = plan /\ wf' = wf
    BY <1>5 DEF foldVars
  <2>2. PlanOK' /\ (Convertible' <=> Convertible)
    BY <2>1, PlanStays DEF FoldInv
  <2>3. (Planned' <=> Planned) /\ Stitched(wf.results)' = Stitched(wf.results)
    BY <2>1 DEF Planned, Stitched, Capital
  <2>4. Planned => /\ wf.folds' = Generated(Train, Test, StepOf)'
                   /\ Sound(wf.folds, Train, Test, StepOf)'
    BY <2>1, FoldsStay DEF FoldInv
  <2>5. ASSUME Planned
        PROVE  \A k \in DOMAIN wf.results' :
                /\ wf.results[k].rows' \subseteq Slice(wf.folds[k].testStart, wf.folds[k].testEnd)'
                /\ wf.results[k].gain' \in {0, 1}
    BY <2>1, <2>5 DEF FoldInv, Slice, Time
  <2>6. (wf.phase = "swept" =>
            \E s \in Nat \ {0} :
                wf.tested = [w \in Windows(Len(plan.index), plan.train, plan.test, s) |-> DateSlice(w)])'
    <3>1. SUFFICES ASSUME wf.phase = "swept"
                   PROVE  (\E s \in Nat \ {0} :
                            wf.tested = [w \in Windows(Len(plan.index), plan.train, plan.test, s) |-> DateSlice(w)])'
      BY <2>1
    <3>2. PICK s \in Nat \ {0} :
            wf.tested = [w \in Windows(Len(plan.index), plan.train, plan.test, s) |-> DateSlice(w)]
      BY <3>1 DEF FoldInv
    <3>3. wf.tested' = [w \in Windows(Len(plan.index), plan.train, plan.test, s) |-> DateSlice(w)]'
      BY <2>1, <3>2 DEF DateSlice, Time
    <3> QED
      BY <3>3
  <2> QED
    BY <2>1, <2>2, <2>3, <2>4, <2>5, <2>6 DEF FoldInv
<1> QED
  BY <1>1, <1>2, <1>3, <1>4, <1>5 DEF FoldNext

\* Whatever the index, the windows and the day.
LEMMA FoldInvariant == ASSUME WalkForwardAssumption PROVE FoldSpec => []FoldInv
<1>1. FoldInit => FoldInv
  BY FoldStarts
<1>2. FoldInv /\ [FoldNext]_foldVars => FoldInv'
  BY FoldKeeps
<1> QED
  BY <1>1, <1>2, PTL DEF FoldSpec

\* The sweep's windows are the folds'.
LEMMA SplittersMeet == ASSUME WalkForwardAssumption, FoldInv PROVE SplittersAgree
<1> SUFFICES ASSUME Planned
             PROVE  /\ {<<wf.folds[k].testStart, wf.folds[k].testEnd>> : k \in DOMAIN wf.folds} =
                            Windows(Len(plan.index), Train, Test, StepOf)
                    /\ wf.folds[Len(wf.folds)].testEnd + StepOf >= Len(plan.index)
  BY DEF SplittersAgree
<1>1. /\ Convertible /\ PlanOK /\ wf.folds = Generated(Train, Test, StepOf) /\ Len(wf.folds) > 1
      /\ Len(plan.index) \in Nat
  BY TimesRise DEF FoldInv, Sound, PlanOK
<1>2. Train \in Nat \ {0} /\ Test \in Nat \ {0} /\ StepOf \in Nat \ {0}
  BY <1>1, WindowsCount
<1> DEFINE n == Len(plan.index)
           T == Train
           E == Test
           S == StepOf
           folds == wf.folds
           more == (n - (T + E)) \div S
<1>3. /\ n >= T + E /\ Len(folds) = 1 + more /\ DOMAIN folds = 1 .. 1 + more
      /\ \A k \in DOMAIN folds : Lies(folds[k], k, n, T, E, S)
  <2>1. Laid(folds, n, T, E, S)
    BY <1>1, <1>2, FoldsAre, Zenon
  <2> QED
    BY <2>1 DEF Laid
<1>4. n \in Nat /\ T \in Nat \ {0} /\ E \in Nat \ {0} /\ S \in Nat \ {0}
  BY <1>1, <1>2
<1> DEFINE spare == n - (T + E)
<1>5. spare \in Nat /\ spare = n - (T + E) /\ more = spare \div S
  BY <1>3, <1>4
<1> HIDE DEF n, T, E, S, folds, more, spare
<1>6. more \in Nat /\ S * more <= spare /\ spare < S * more + S /\ S * more \in Nat
  BY <1>4, <1>5, Dividing
<1>7. ASSUME NEW k \in DOMAIN folds
      PROVE  <<folds[k].testStart, folds[k].testEnd>> \in Windows(n, T, E, S)
  <2> DEFINE q == k - 1
             a == S * q
             j == T + a
  <2>1. q \in Nat /\ (q = more \/ q < more)
    BY <1>3, <1>6
  <2>2. folds[k].testStart = T + S * q /\ folds[k].testEnd = T + S * q + E - 1
    BY <1>3 DEF Lies
  <2> HIDE DEF q
  <2>3. a \in Nat /\ a % S = 0
    BY <2>1, <1>4, Dividing
  <2>4. a <= spare
    <3>1. CASE q = more
      BY <3>1, <1>6
    <3>2. CASE q < more
      <4>1. a + S <= S * more
        BY <2>1, <3>2, <1>4, <1>6, Dividing
      <4> DEFINE b == S * more
      <4>2. a + S <= b /\ b <= spare /\ b \in Nat
        BY <4>1, <1>6
      <4> HIDE DEF a, b
      <4> QED
        BY <4>2, <2>3, <1>4, <1>5
    <3> QED
      BY <2>1, <3>1, <3>2
  <2>5. folds[k].testStart = j /\ folds[k].testEnd = j + E - 1
    BY <2>2
  <2> HIDE DEF a
  <2>6. j \in T .. n - E /\ j - T = a
    BY <2>3, <2>4, <1>4, <1>5
  <2>7. (j - T) % S = 0
    BY <2>3, <2>6
  <2> HIDE DEF j
  <2> QED
    BY <2>5, <2>6, <2>7 DEF Windows
<1>8. ASSUME NEW w \in Windows(n, T, E, S)
      PROVE  \E k \in DOMAIN folds : w = <<folds[k].testStart, folds[k].testEnd>>
  <2>1. PICK j \in T .. n - E : (j - T) % S = 0 /\ w = <<j, j + E - 1>>
    BY DEF Windows
  <2> DEFINE a == j - T
             q == a \div S
  <2>2. a \in Nat /\ a <= spare /\ a % S = 0 /\ j = T + a
    BY <2>1, <1>4, <1>5
  <2> HIDE DEF a
  <2>3. q \in Nat /\ a = S * q
    BY <2>2, <1>4, Dividing
  <2> HIDE DEF q
  <2>4. q <= more
    <3>1. SUFFICES ASSUME more < q PROVE FALSE
      BY <2>3, <1>6
    <3>2. S * more + S <= S * q
      BY <2>3, <1>4, <1>6, <3>1, Dividing
    <3> DEFINE b == S * more
    <3>3. b + S <= a /\ spare < b + S /\ b \in Nat
      BY <2>3, <3>2, <1>6
    <3> HIDE DEF b
    <3> QED
      BY <3>3, <2>2, <1>4, <1>5
  <2>5. q + 1 \in DOMAIN folds /\ (q + 1) - 1 = q
    BY <2>3, <2>4, <1>3, <1>6
  <2>6. folds[q + 1].testStart = T + S * q /\ folds[q + 1].testEnd = T + S * q + E - 1
    BY <1>3, <2>5 DEF Lies
  <2>7. w = <<folds[q + 1].testStart, folds[q + 1].testEnd>>
    BY <2>1, <2>2, <2>3, <2>6
  <2> QED
    BY <2>5, <2>7
<1>9. folds[Len(folds)].testEnd + S >= n
  <2> DEFINE b == S * more
  <2>1. Len(folds) \in DOMAIN folds /\ Len(folds) - 1 = more
    BY <1>3, <1>6
  <2>2. folds[Len(folds)].testEnd = T + b + E - 1
    BY <1>3, <2>1 DEF Lies
  <2>3. spare < b + S /\ b \in Nat
    BY <1>6
  <2> HIDE DEF b
  <2> QED
    BY <2>2, <2>3, <1>4, <1>5
<1>10. {<<folds[k].testStart, folds[k].testEnd>> : k \in DOMAIN folds} = Windows(n, T, E, S)
  <2>1. \A w \in Windows(n, T, E, S) : w \in {<<folds[k].testStart, folds[k].testEnd>> : k \in DOMAIN folds}
    BY <1>8
  <2>2. \A w \in {<<folds[k].testStart, folds[k].testEnd>> : k \in DOMAIN folds} : w \in Windows(n, T, E, S)
    BY <1>7
  <2> QED
    BY <2>1, <2>2
<1> QED
  BY <1>9, <1>10 DEF n, T, E, S, folds

\* On daily candles a date is a bar.
LEMMA DaysExact == ASSUME WalkForwardAssumption, FoldInv PROVE DailySlicesExact
<1> SUFFICES ASSUME wf.phase = "swept", plan.day = 1, NEW w \in DOMAIN wf.tested
             PROVE  wf.tested[w] = Slice(w[1], w[2])
  BY DEF DailySlicesExact
<1>1. PICK step \in Nat \ {0} :
        wf.tested = [v \in Windows(Len(plan.index), plan.train, plan.test, step) |-> DateSlice(v)]
  BY DEF FoldInv
<1>2. w \in Windows(Len(plan.index), plan.train, plan.test, step) /\ wf.tested[w] = DateSlice(w)
  BY <1>1
<1>3. PICK i \in plan.train .. Len(plan.index) - plan.test : w = <<i, i + plan.test - 1>>
  BY <1>2 DEF Windows
<1>4. plan.train \in Nat \ {0} /\ plan.test \in Nat \ {0} /\ plan.index \in Times
  BY DEF FoldInv, PlanOK
<1>5. Len(plan.index) \in Nat /\ \A k \in 1 .. Len(plan.index) : plan.index[k] \in Nat
  BY <1>4, TimesRise
<1>6. w[1] = i /\ w[2] = i + plan.test - 1
  BY <1>3
<1>7. w[1] + 1 \in 1 .. Len(plan.index) /\ w[2] + 1 \in 1 .. Len(plan.index)
  BY <1>3, <1>4, <1>5, <1>6
<1>8. Time(w[1]) \in Nat /\ Time(w[2]) \in Nat
  BY <1>5, <1>7 DEF Time
<1>9. \A x \in Nat : (x \div 1) * 1 = x
  OBVIOUS
<1> QED
  BY <1>2, <1>8, <1>9 DEF DateSlice, Slice

\* A sweep, which cuts windows on its own and by date, validates on the very
\* windows of a walk-forward: for every index, windows in bars or in time, and step.
THEOREM SweepMatches == FoldSpec => []SweepAgrees
<1>1. FoldInv => SweepAgrees
  BY WalkForwardAssumption, SplittersMeet, DaysExact DEF SweepAgrees
<1> QED
  BY <1>1, WalkForwardAssumption, FoldInvariant, PTL

\* A result has a fold.
LEMMA FoldsDomain ==
    ASSUME WalkForwardAssumption, FoldInv, Planned
    PROVE  DOMAIN wf.results \subseteq DOMAIN wf.folds
<1>1. /\ Convertible /\ PlanOK /\ wf.folds = Generated(Train, Test, StepOf) /\ Len(wf.folds) > 1
      /\ Len(plan.index) \in Nat /\ DOMAIN wf.results = 1 .. Len(wf.results)
      /\ Len(wf.results) \in Nat /\ Len(wf.results) <= Len(wf.folds)
  BY TimesRise DEF FoldInv, Sound, PlanOK
<1>2. Train \in Nat \ {0} /\ Test \in Nat \ {0} /\ StepOf \in Nat \ {0}
  BY <1>1, WindowsCount
<1>3. Laid(wf.folds, Len(plan.index), Train, Test, StepOf)
  BY <1>1, <1>2, FoldsAre, Zenon
<1>4. Len(plan.index) - (Train + Test) \in Nat
  BY <1>1, <1>2, <1>3 DEF Laid
<1>5. (Len(plan.index) - (Train + Test)) \div StepOf \in Nat
  BY <1>2, <1>4, Dividing
<1> QED
  BY <1>1, <1>3, <1>5 DEF Laid

\* Unless windows overlap, the bars of a result come before those of a later one.
LEMMA InOrder ==
    ASSUME WalkForwardAssumption, FoldInv, Planned, ~Overlapping,
           NEW k \in DOMAIN wf.results, NEW l \in DOMAIN wf.results, k < l,
           NEW i \in wf.results[k].rows, NEW j \in wf.results[l].rows
    PROVE  i < j /\ i # j
<1>1. /\ PlanOK /\ Convertible /\ wf.folds = Generated(Train, Test, StepOf)
      /\ Sound(wf.folds, Train, Test, StepOf)
      /\ i \in Slice(wf.folds[k].testStart, wf.folds[k].testEnd)
      /\ j \in Slice(wf.folds[l].testStart, wf.folds[l].testEnd)
  BY DEF FoldInv
<1>2. k \in DOMAIN wf.folds /\ l \in DOMAIN wf.folds
  BY FoldsDomain
<1>3. Train \in Nat \ {0} /\ Test \in Nat \ {0} /\ StepOf \in Nat \ {0}
  BY <1>1, WindowsCount
<1>4. StepOf >= Test
  BY <1>3 DEF Overlapping
<1>5. i < j
  BY <1>1, <1>2, <1>4, WindowsApart
<1>6. i \in Int /\ j \in Int
  <2>1. Len(plan.index) \in Nat
    BY <1>1, TimesRise DEF PlanOK
  <2> QED
    BY <1>1, <2>1 DEF Slice
<1> QED
  BY <1>5, <1>6

\* No bar of a result was trained on, and none is in two.
LEMMA Untrained == ASSUME WalkForwardAssumption, FoldInv PROVE TestedOnce
<1>1. CASE ~Planned
  BY <1>1 DEF FoldInv, TestedOnce
<1>2. CASE Planned
  <2>1. /\ PlanOK /\ Convertible /\ wf.folds = Generated(Train, Test, StepOf)
        /\ Sound(wf.folds, Train, Test, StepOf)
        /\ DOMAIN wf.results = 1 .. Len(wf.results) /\ Len(wf.results) \in Nat
        /\ \A k \in DOMAIN wf.results :
            wf.results[k].rows \subseteq Slice(wf.folds[k].testStart, wf.folds[k].testEnd)
    BY <1>2 DEF FoldInv
  <2>2. DOMAIN wf.results \subseteq DOMAIN wf.folds
    BY <1>2, FoldsDomain
  <2>3. \A k \in DOMAIN wf.results : \A i \in wf.results[k].rows : i > wf.folds[k].trainEnd
    <3> TAKE k \in DOMAIN wf.results
    <3> TAKE i \in wf.results[k].rows
    <3>1. k \in DOMAIN wf.folds /\ i \in Slice(wf.folds[k].testStart, wf.folds[k].testEnd)
      BY <2>1, <2>2
    <3> QED
      BY <2>1, <3>1, WindowsApart
  <2>4. ASSUME ~Overlapping, NEW k \in DOMAIN wf.results, NEW j \in DOMAIN wf.results, j # k
        PROVE  wf.results[j].rows \cap wf.results[k].rows = {}
    <3>1. CASE j < k
      BY <1>2, <2>4, <3>1, InOrder
    <3>2. CASE k < j
      BY <1>2, <2>4, <3>2, InOrder
    <3> QED
      BY <2>1, <2>4, <3>1, <3>2
  <2> QED
    BY <2>3, <2>4 DEF TestedOnce
<1> QED
  BY <1>1, <1>2

\* Where every fold starts is where the one before it ended.
LEMMA CapitalAdds ==
    ASSUME NEW results, NEW k \in Nat, k > 1, results[k - 1].gain \in {0, 1}
    PROVE  Capital(results, k) = Capital(results, k - 1) + results[k - 1].gain
<1> DEFINE Doubled(m) == {j \in 1 .. m - 1 : results[j].gain = 1}
<1>1. IsFiniteSet(Doubled(k - 1))
  <2>1. IsFiniteSet(1 .. (k - 1) - 1)
    BY FS_Interval
  <2> QED
    BY <2>1, FS_Subset
<1>2. Cardinality(Doubled(k - 1)) \in Nat
  BY <1>1, FS_CardinalityType
<1>3. CASE results[k - 1].gain = 1
  <2>1. Doubled(k) = Doubled(k - 1) \cup {k - 1} /\ k - 1 \notin Doubled(k - 1)
    BY <1>3
  <2>2. Cardinality(Doubled(k)) = Cardinality(Doubled(k - 1)) + 1
    BY <1>1, <2>1, FS_AddElement
  <2> QED
    BY <1>3, <2>2 DEF Capital
<1>4. CASE results[k - 1].gain = 0
  <2>1. Doubled(k) = Doubled(k - 1)
    BY <1>4
  <2>2. Capital(results, k) = Cardinality(Doubled(k)) /\ Capital(results, k - 1) = Cardinality(Doubled(k - 1))
    BY DEF Capital
  <2> HIDE DEF Doubled
  <2> QED
    BY <1>2, <1>4, <2>1, <2>2
<1> QED
  BY <1>3, <1>4

\* The curve goes forward and keeps its capital.
LEMMA Continues == ASSUME WalkForwardAssumption, FoldInv PROVE CurveContinues
<1> SUFFICES ASSUME wf.phase = "done", ~Overlapping
             PROVE  /\ \A k, l \in DOMAIN wf.curve : k < l =>
                            \A i \in wf.curve[k].rows, j \in wf.curve[l].rows : i < j
                    /\ \A k \in DOMAIN wf.curve :
                            wf.curve[k].from =
                                IF k = 1 THEN 0 ELSE wf.curve[k - 1].from + wf.results[k - 1].gain
  BY DEF CurveContinues
<1>1. Planned /\ wf.curve = Stitched(wf.results)
  BY DEF FoldInv, Planned
<1>2. /\ DOMAIN wf.results = 1 .. Len(wf.results) /\ Len(wf.results) \in Nat
      /\ \A k \in DOMAIN wf.results : wf.results[k].gain \in {0, 1}
  BY <1>1 DEF FoldInv
<1>3. /\ DOMAIN wf.curve = DOMAIN wf.results
      /\ \A k \in DOMAIN wf.results :
            wf.curve[k].rows = wf.results[k].rows /\ wf.curve[k].from = Capital(wf.results, k)
  BY <1>1 DEF Stitched
<1>4. ASSUME NEW k \in DOMAIN wf.curve, NEW l \in DOMAIN wf.curve, k < l,
             NEW i \in wf.curve[k].rows, NEW j \in wf.curve[l].rows
      PROVE  i < j
  BY <1>1, <1>3, <1>4, InOrder
<1>5. ASSUME NEW k \in DOMAIN wf.curve
      PROVE  wf.curve[k].from = IF k = 1 THEN 0 ELSE wf.curve[k - 1].from + wf.results[k - 1].gain
  <2>1. CASE k = 1
    <3>1. {j \in 1 .. 1 - 1 : wf.results[j].gain = 1} = {}
      OBVIOUS
    <3>2. Capital(wf.results, 1) = 0
      BY <3>1, FS_EmptySet DEF Capital
    <3> QED
      BY <1>3, <2>1, <3>2
  <2>2. CASE k # 1
    <3>1. k \in Nat /\ k > 1 /\ k - 1 \in DOMAIN wf.results
      BY <1>2, <1>3, <2>2
    <3>2. Capital(wf.results, k) = Capital(wf.results, k - 1) + wf.results[k - 1].gain
      BY <1>2, <3>1, CapitalAdds
    <3> QED
      BY <1>3, <2>2, <3>1, <3>2
  <2> QED
    BY <2>1, <2>2
<1> QED
  BY <1>4, <1>5

\* The stitched curve is out of sample and one account: for every index,
\* whatever times it repeats or skips, and every window and step.
THEOREM CurveIsHonest == FoldSpec => []HonestCurve
<1>1. FoldInv => HonestCurve
  BY WalkForwardAssumption, Untrained, Continues DEF HonestCurve
<1> QED
  BY <1>1, WalkForwardAssumption, FoldInvariant, PTL

=============================================================================
