------------------------- MODULE EventIngestProofs -------------------------
(***************************************************************************)
(* Proofs about EventIngest, for any callbacks, keys, window length and    *)
(* bounds.  ImageInv says of one image of the adapter and the reducer why  *)
(* nothing is booked twice and nothing is lost; IInv adds how the image in *)
(* memory, the image on disk and the routed events relate.                 *)
(***************************************************************************)
EXTENDS EventIngest, TLAPS, SequenceTheorems, WellFoundedInduction

\* The window names only events that took effect, every number taken is
\* covered by the source's mark, and every mark by the adapter's counter.
ImageInv(r) ==
    /\ r \in Image /\ Len(r.recent) <= RecentLimit
    /\ \A k \in Keys : r.books[k] = IF k \in r.booked THEN 1 ELSE 0
    /\ \A s \in Sources : r.high[s] <= r.sequence
    /\ \A e \in r.handled : e[3] <= r.high[e[2]]
    /\ \A c \in Callbacks : Economic(c) /\ c \in r.seen => KeyOf[c] \in r.booked
    /\ \A c \in Callbacks : Economic(c) /\ KeyOf[c] \in r.known => KeyOf[c] \in r.booked
    /\ \A c \in Callbacks : Economic(c) /\ c \in Elements(r.recent) => KeyOf[c] \in r.booked
    /\ Checkpointed => \A c \in Callbacks : r.applied[c] = 0 \/ (r.applied[c] = 1 /\ c \in r.seen)

----------------------------------------------------------------------------
(* The window of recent IDs.                                               *)

\* Trimming keeps a sequence of IDs, and no ID appears that was not there.
LEMMA YoungestOf ==
    ASSUME NEW s \in Seq(Ids), NEW id \in Ids
    PROVE  /\ Youngest(Append(s, id)) \in Seq(Ids)
           /\ \A x \in Elements(Youngest(Append(s, id))) : x = id \/ x \in Elements(s)
<1> DEFINE t == Append(s, id)
<1>1. t \in Seq(Ids) /\ Len(t) = Len(s) + 1 /\ Len(s) \in Nat
  OBVIOUS
<1>2. \A i \in 1 .. Len(t) : t[i] = id \/ (i \in DOMAIN s /\ t[i] = s[i])
  OBVIOUS
<1>3. CASE ~(Len(t) > RecentLimit)
  BY <1>1, <1>2, <1>3 DEF Youngest, Elements
<1>4. CASE Len(t) > RecentLimit
  <2> DEFINE m == Len(t) - RecentLimit + 1
             u == SubSeq(t, m, Len(t))
  <2>1. m \in Nat /\ m >= 1 /\ m <= Len(t) + 1
    BY <1>1, <1>4, BoundAssumption
  <2>2. u \in Seq(Ids) /\ \A i \in DOMAIN u : m + i - 1 \in 1 .. Len(t) /\ u[i] = t[m + i - 1]
    BY <1>1, <2>1
  <2>3. Youngest(t) = u
    BY <1>4 DEF Youngest
  <2> QED
    BY <1>2, <2>2, <2>3 DEF Elements
<1> QED
  BY <1>3, <1>4

\* Trimming bounds the window.
LEMMA YoungestShort ==
    ASSUME NEW s \in Seq(Ids)
    PROVE  Len(Youngest(s)) <= RecentLimit
<1>1. CASE ~(Len(s) > RecentLimit)
  BY <1>1, BoundAssumption DEF Youngest
<1>2. CASE Len(s) > RecentLimit
  BY <1>2, BoundAssumption DEF Youngest
<1> QED
  BY <1>1, <1>2

----------------------------------------------------------------------------
(* The reducer.                                                            *)

\* ImageInv but for what the event id itself brings: the adapter has already
\* seen it and noted its key when the reducer gets to handle it.
Pending(r, id) ==
    /\ r \in Image /\ Len(r.recent) <= RecentLimit
    /\ \A k \in Keys : r.books[k] = IF k \in r.booked THEN 1 ELSE 0
    /\ \A s \in Sources : r.high[s] <= r.sequence
    /\ \A e \in r.handled : e[3] <= r.high[e[2]]
    /\ \A c \in Callbacks : Economic(c) /\ c \in r.seen =>
            KeyOf[c] \in r.booked \/ (Economic(id) /\ KeyOf[c] = KeyOf[id])
    /\ \A c \in Callbacks : Economic(c) /\ KeyOf[c] \in r.known =>
            KeyOf[c] \in r.booked \/ (Economic(id) /\ KeyOf[c] = KeyOf[id])
    /\ \A c \in Callbacks : Economic(c) /\ c \in Elements(r.recent) => KeyOf[c] \in r.booked
    /\ Checkpointed => \A c \in Callbacks :
            r.applied[c] = 0 \/ (r.applied[c] = 1 /\ c \in r.seen /\ c # id)
    /\ id \in Callbacks => id \in r.seen

\* What remembering an event leaves in the reducer.
LEMMA RememberResult ==
    ASSUME NEW r \in Image, NEW id \in Ids, NEW source \in Sources, NEW n \in Nat
    PROVE  LET q == Remember(r, id, source, n)
           IN  /\ q \in Image /\ Len(q.recent) <= RecentLimit
               /\ q.seen = r.seen /\ q.known = r.known /\ q.applied = r.applied
               /\ q.books = r.books /\ q.booked = r.booked /\ q.handled = r.handled
               /\ q.sequence = r.sequence
               /\ \A x \in Elements(q.recent) : x = id \/ x \in Elements(r.recent)
               /\ \A s \in Sources : q.high[s] = IF s = source /\ n > r.high[s] THEN n ELSE r.high[s]
<1> DEFINE q == Remember(r, id, source, n)
           w == Youngest(Append(r.recent, id))
           h == Raise(r.high, source, n)
<1>1. r.recent \in Seq(Ids) /\ r.high \in [Sources -> Int]
  BY DEF Image
<1>2. w \in Seq(Ids) /\ \A x \in Elements(w) : x = id \/ x \in Elements(r.recent)
  BY <1>1, YoungestOf
<1>7. Len(w) <= RecentLimit
  <2>1. Append(r.recent, id) \in Seq(Ids)
    BY <1>1
  <2> QED
    BY <2>1, YoungestShort
<1>3. /\ h \in [Sources -> Int]
      /\ \A s \in Sources : h[s] = IF s = source /\ n > r.high[s] THEN n ELSE r.high[s]
  BY <1>1 DEF Raise
<1>4. q = [r EXCEPT !.recent = w, !.high = h]
  BY DEF Remember
<1> HIDE DEF w, h
<1>5. q.recent = w /\ q.high = h /\ q \in Image
  BY <1>2, <1>3, <1>4 DEF Image
<1>6. /\ q.seen = r.seen /\ q.known = r.known /\ q.applied = r.applied
      /\ q.books = r.books /\ q.booked = r.booked /\ q.handled = r.handled
      /\ q.sequence = r.sequence
  BY <1>4 DEF Image
<1> QED
  BY <1>2, <1>3, <1>5, <1>6, <1>7

\* Fills and settlements have a key, and only they share it.
LEMMA KeyOfEconomic ==
    ASSUME NEW id, Economic(id)
    PROVE  id \in Callbacks /\ KeyOf[id] \in Keys
BY CallbackAssumption DEF Economic, Kinds

\* What booking an event leaves: its key is in the books, everything else is
\* as it was.
LEMMA BookingResult ==
    ASSUME NEW r \in Image, NEW id \in Ids,
           \A k \in Keys : r.books[k] = IF k \in r.booked THEN 1 ELSE 0,
           Economic(id) => KeyOf[id] \notin r.booked
    PROVE  LET b == Booking(r, id)
           IN  /\ b \in Image
               /\ b.seen = r.seen /\ b.known = r.known /\ b.applied = r.applied
               /\ b.handled = r.handled /\ b.sequence = r.sequence
               /\ b.recent = r.recent /\ b.high = r.high
               /\ \A k \in Keys : b.books[k] = IF k \in b.booked THEN 1 ELSE 0
               /\ b.booked = r.booked \cup (IF Economic(id) THEN {KeyOf[id]} ELSE {})
               /\ b.books = r.books \/ \E k \in Keys : r.books[k] = 0 /\ b.books = [r.books EXCEPT ![k] = 1]
<1> DEFINE b == Booking(r, id)
<1>1. CASE ~Economic(id)
  BY <1>1 DEF Booking, Image
<1>2. CASE Economic(id)
  <2> DEFINE k == KeyOf[id]
             books == Tick(r.books, k)
             booked == r.booked \cup {k}
  <2>1. k \in Keys /\ r.books[k] = 0
    BY <1>2, KeyOfEconomic
  <2>2. books = [r.books EXCEPT ![k] = 1] /\ books \in [Keys -> Nat] /\ booked \subseteq Keys
    BY <2>1 DEF Tick, Image
  <2>3. \A x \in Keys : books[x] = IF x \in booked THEN 1 ELSE 0
    BY <2>1, <2>2 DEF Image
  <2>4. b = [r EXCEPT !.booked = booked, !.books = books]
    BY <1>2 DEF Booking
  <2> HIDE DEF books, booked, k, b
  <2>5. b \in Image /\ b.booked = booked /\ b.books = books
    BY <2>2, <2>4 DEF Image
  <2>6. /\ b.seen = r.seen /\ b.known = r.known /\ b.applied = r.applied
        /\ b.handled = r.handled /\ b.sequence = r.sequence
        /\ b.recent = r.recent /\ b.high = r.high
    BY <2>4 DEF Image
  <2> QED
    BY <1>2, <2>1, <2>2, <2>3, <2>5, <2>6 DEF booked, k, b
<1> QED
  BY <1>1, <1>2

\* An event that is not a replay takes effect once, and the image it leaves
\* satisfies the invariant.
LEMMA HandleFresh ==
    ASSUME NEW r, NEW id \in Ids, NEW source \in Sources, NEW n \in Nat,
           Pending(r, id), n <= r.sequence, ~Replayed(r, id, source, n)
    PROVE  LET h == Handle(r, id, source, n)
           IN  /\ ImageInv(h)
               /\ h.handled = r.handled \cup {<<id, source, n>>}
               /\ h.books = r.books \/ \E k \in Keys : r.books[k] = 0 /\ h.books = [r.books EXCEPT ![k] = 1]
<1> DEFINE q == Remember(r, id, source, n)
           b == Booking(q, id)
           h == Handle(r, id, source, n)
           handled == b.handled \cup {<<id, source, n>>}
           applied == IF id \in Callbacks THEN Tick(b.applied, id) ELSE b.applied
<1>1. r \in Image
  BY DEF Pending
<1>2. /\ q \in Image /\ Len(q.recent) <= RecentLimit
      /\ \A x \in Elements(q.recent) : x = id \/ x \in Elements(r.recent)
      /\ \A s \in Sources : q.high[s] = IF s = source /\ n > r.high[s] THEN n ELSE r.high[s]
  BY <1>1, RememberResult
<1>3. q.books = r.books /\ q.booked = r.booked /\ q.seen = r.seen /\ q.known = r.known
      /\ q.applied = r.applied /\ q.handled = r.handled /\ q.sequence = r.sequence
  BY <1>1, RememberResult
<1>4. Economic(id) => KeyOf[id] \notin q.booked
  BY <1>3 DEF Replayed
<1>17. \A k \in Keys : q.books[k] = IF k \in q.booked THEN 1 ELSE 0
  BY <1>3 DEF Pending
<1> HIDE DEF q
<1>5. /\ b \in Image
      /\ \A k \in Keys : b.books[k] = IF k \in b.booked THEN 1 ELSE 0
      /\ b.booked = q.booked \cup (IF Economic(id) THEN {KeyOf[id]} ELSE {})
      /\ b.books = q.books \/ \E k \in Keys : q.books[k] = 0 /\ b.books = [q.books EXCEPT ![k] = 1]
  BY <1>2, <1>4, <1>17, BookingResult
<1>6. b.seen = r.seen /\ b.known = r.known /\ b.applied = r.applied /\ b.handled = r.handled
      /\ b.sequence = r.sequence /\ b.recent = q.recent /\ b.high = q.high
  BY <1>2, <1>3, <1>4, <1>17, BookingResult
<1>7. h = [b EXCEPT !.handled = handled, !.applied = applied]
  BY DEF Handle, q
<1>8. handled \in SUBSET (Ids \X Sources \X Nat) /\ applied \in [Callbacks -> Nat]
  BY <1>5 DEF Image, Tick
<1> HIDE DEF b, h, handled, applied
<1>9. /\ h \in Image /\ h.handled = handled /\ h.applied = applied /\ h.seen = r.seen
      /\ h.known = r.known /\ h.sequence = r.sequence /\ h.recent = q.recent
      /\ h.high = q.high /\ h.booked = b.booked /\ h.books = b.books
  BY <1>5, <1>6, <1>7, <1>8 DEF Image
<1>10. h.handled = r.handled \cup {<<id, source, n>>}
  BY <1>6, <1>9 DEF handled
<1>18. /\ r.high \in [Sources -> Int] /\ r.sequence \in Nat
      /\ \A s \in Sources : r.high[s] <= r.sequence
      /\ \A e \in r.handled : e[3] <= r.high[e[2]]
  BY <1>1 DEF Pending, Image
<1>19. \A s \in Sources : h.high[s] = IF s = source /\ n > r.high[s] THEN n ELSE r.high[s]
  BY <1>2, <1>9
<1>11. \A s \in Sources : h.high[s] <= h.sequence
  <2> TAKE s \in Sources
  <2>1. r.high[s] \in Int /\ h.high[s] = IF s = source /\ n > r.high[s] THEN n ELSE r.high[s]
    BY <1>18, <1>19
  <2> QED
    BY <1>9, <1>18, <2>1
<1>12. \A e \in h.handled : e[3] <= h.high[e[2]]
  <2> TAKE e \in h.handled
  <2>1. e \in Ids \X Sources \X Nat
    BY <1>9, <1>8
  <2>2. CASE e \in r.handled
    <3>1. e[2] \in Sources /\ e[3] \in Nat
      BY <2>1
    <3>2. e[3] <= r.high[e[2]] /\ r.high[e[2]] \in Int
      BY <1>18, <2>2, <3>1
    <3>3. h.high[e[2]] = IF e[2] = source /\ n > r.high[e[2]] THEN n ELSE r.high[e[2]]
      BY <1>19, <3>1
    <3> QED
      BY <3>1, <3>2, <3>3
  <2>3. CASE e = <<id, source, n>>
    BY <1>18, <1>19, <2>3
  <2> QED
    BY <1>10, <2>2, <2>3
<1>13. \A c \in Callbacks : Economic(c) /\ c \in h.seen => KeyOf[c] \in h.booked
  BY <1>3, <1>5, <1>9 DEF Pending
<1>14. \A c \in Callbacks : Economic(c) /\ KeyOf[c] \in h.known => KeyOf[c] \in h.booked
  BY <1>3, <1>5, <1>9 DEF Pending
<1>15. \A c \in Callbacks : Economic(c) /\ c \in Elements(h.recent) => KeyOf[c] \in h.booked
  BY <1>2, <1>3, <1>5, <1>9 DEF Pending
<1>16. Checkpointed => \A c \in Callbacks : h.applied[c] = 0 \/ (h.applied[c] = 1 /\ c \in h.seen)
  <2> SUFFICES ASSUME Checkpointed, NEW c \in Callbacks
               PROVE  h.applied[c] = 0 \/ (h.applied[c] = 1 /\ c \in h.seen)
    OBVIOUS
  <2>1. r.applied \in [Callbacks -> Nat]
    BY <1>1 DEF Image
  <2>2. r.applied[c] = 0 \/ (r.applied[c] = 1 /\ c \in r.seen /\ c # id)
    BY DEF Pending
  <2>3. h.applied[c] = IF c = id THEN r.applied[c] + 1 ELSE r.applied[c]
    BY <1>6, <1>9, <2>1 DEF applied, Tick
  <2>4. c = id => c \in h.seen
    BY <1>9 DEF Pending
  <2> QED
    BY <1>9, <2>2, <2>3, <2>4
<1> QED
  BY <1>2, <1>3, <1>5, <1>9, <1>10, <1>11, <1>12, <1>13, <1>14, <1>15, <1>16 DEF ImageInv, h

----------------------------------------------------------------------------
(* The steps of the adapter.                                               *)

\* Writing only marks, in memory, the events of the step: the image on disk
\* lags behind by at most one key.
OneKeyBehind(old, new) ==
    new = old \/ \E k \in Keys : old[k] = 0 /\ new = [old EXCEPT ![k] = 1]

IInv ==
    /\ ImageInv(live) /\ ImageInv(durable)
    /\ durable.handled \subseteq live.handled
    /\ routed \subseteq durable.handled
    /\ phase \in {"idle", "unsaved", "unrouted"} /\ crashes \in 0 .. MaxCrashes
    /\ phase = "idle" => current = None
    /\ phase = "unsaved" => current = None \/ current \in live.handled
    /\ phase = "unrouted" => current = None \/ current \in durable.handled
    /\ phase # "unsaved" => live.books = durable.books
    /\ OneKeyBehind(durable.books, live.books)

\* The empty adapter and reducer satisfy the invariant.
LEMMA InitIInv == Init => IInv
<1> SUFFICES ASSUME Init PROVE IInv
  OBVIOUS
<1>1. Empty \in Image
  BY DEF Empty, Image
<1>2. ImageInv(Empty)
  BY <1>1, BoundAssumption DEF ImageInv, Empty, Elements
<1> QED
  BY <1>2, BoundAssumption DEF Init, IInv, OneKeyBehind, Empty

\* What the adapter notes about a callback before it numbers and publishes it.
LEMMA Prepared ==
    ASSUME NEW r, ImageInv(r), NEW c \in Callbacks, c \notin r.seen
    PROVE  LET q == Numbered(Native(Known(See(r, c), c), c))
           IN  /\ Pending(q, c)
               /\ q.sequence = r.sequence + 1 /\ q.high = r.high
               /\ q.books = r.books /\ q.handled = r.handled
<1> DEFINE s == See(r, c)
           k == Known(s, c)
           n == Native(k, c)
           q == Numbered(n)
<1>1. r \in Image
  BY DEF ImageInv
<1>2. s \in Image /\ s = [r EXCEPT !.seen = r.seen \cup {c}]
  BY <1>1 DEF See, Image
<1>3. KeyOf[c] # None => KeyOf[c] \in Keys
  BY CallbackAssumption
<1>4. k \in Image /\ k = [s EXCEPT !.known = s.known \cup (IF Guarded(c) THEN {KeyOf[c]} ELSE {})]
  <2>1. Guarded(c) => KeyOf[c] \in Keys
    BY CallbackAssumption DEF Guarded, Kinds
  <2> HIDE DEF s
  <2>2. CASE Guarded(c)
    BY <1>2, <2>1, <2>2 DEF Known, Image
  <2>3. CASE ~Guarded(c)
    BY <1>2, <2>3 DEF Known, Image
  <2> QED
    BY <2>2, <2>3
<1>7. /\ s.known = r.known /\ s.sequence = r.sequence /\ s.high = r.high /\ s.books = r.books
      /\ s.booked = r.booked /\ s.applied = r.applied /\ s.recent = r.recent
      /\ s.handled = r.handled /\ s.seen = r.seen \cup {c}
  BY <1>1, <1>2 DEF Image
<1> HIDE DEF s
<1>8. /\ k.sequence = r.sequence /\ k.high = r.high /\ k.books = r.books
      /\ k.booked = r.booked /\ k.applied = r.applied /\ k.recent = r.recent
      /\ k.handled = r.handled /\ k.seen = r.seen \cup {c}
      /\ k.known = r.known \cup (IF Guarded(c) THEN {KeyOf[c]} ELSE {})
  BY <1>2, <1>4, <1>7 DEF Image
<1> HIDE DEF k
<1>5. /\ n \in Image /\ n.sequence = r.sequence /\ n.high = r.high /\ n.books = r.books
      /\ n.booked = r.booked /\ n.applied = r.applied /\ n.recent = r.recent
      /\ n.handled = r.handled /\ n.seen = r.seen \cup {c} /\ n.known = k.known
  <2>1. CASE Economic(c)
    <3> DEFINE native == Tick(k.native, KeyOf[c])
    <3>0. KeyOf[c] \in Keys /\ k.native \in [Keys -> Nat]
      BY <1>4, <2>1, KeyOfEconomic DEF Image
    <3>1. native \in [Keys -> Nat]
      BY <3>0 DEF Tick
    <3>2. n = [k EXCEPT !.native = native]
      BY <2>1 DEF Native
    <3> HIDE DEF n, native
    <3>3. k \in Image
      BY <1>4
    <3>4. n \in Image
      BY <3>1, <3>2, <3>3 DEF Image
    <3>5. /\ n.sequence = k.sequence /\ n.high = k.high /\ n.books = k.books /\ n.known = k.known
          /\ n.booked = k.booked /\ n.applied = k.applied /\ n.recent = k.recent
          /\ n.handled = k.handled /\ n.seen = k.seen
      BY <3>2, <3>3 DEF Image
    <3> QED
      BY <1>8, <3>4, <3>5
  <2>2. CASE ~Economic(c)
    <3>1. n = k
      BY <2>2 DEF Native
    <3> QED
      BY <1>4, <1>8, <3>1
  <2> QED
    BY <2>1, <2>2
<1> HIDE DEF n
<1>10. /\ q \in Image /\ q.sequence = r.sequence + 1 /\ q.high = r.high /\ q.books = r.books
       /\ q.booked = r.booked /\ q.applied = r.applied /\ q.recent = r.recent
       /\ q.handled = r.handled /\ q.seen = r.seen \cup {c} /\ q.known = k.known
  <2>1. n.sequence \in Nat /\ n.sequence + 1 \in Nat
    BY <1>5 DEF Image
  <2>2. q = [n EXCEPT !.sequence = n.sequence + 1]
    BY DEF Numbered
  <2> HIDE DEF q
  <2> QED
    BY <1>5, <2>1, <2>2 DEF Image
<1> HIDE DEF q
<1>11. \A x \in Sources : q.high[x] <= q.sequence
  <2>1. r.high \in [Sources -> Int] /\ r.sequence \in Nat /\ \A x \in Sources : r.high[x] <= r.sequence
    BY DEF ImageInv, Image
  <2> QED
    BY <1>10, <2>1
<1>12. \A d \in Callbacks : Economic(d) /\ d \in q.seen =>
          KeyOf[d] \in q.booked \/ (Economic(c) /\ KeyOf[d] = KeyOf[c])
  BY <1>10 DEF ImageInv
<1>13. \A d \in Callbacks : Economic(d) /\ KeyOf[d] \in q.known =>
          KeyOf[d] \in q.booked \/ (Economic(c) /\ KeyOf[d] = KeyOf[c])
  <2> TAKE d \in Callbacks
  <2>1. Economic(d) /\ KeyOf[d] = KeyOf[c] => Economic(c)
    BY CallbackAssumption DEF Economic
  <2> QED
    BY <1>8, <1>10, <2>1 DEF ImageInv
<1>14. Checkpointed => \A d \in Callbacks :
          q.applied[d] = 0 \/ (q.applied[d] = 1 /\ d \in q.seen /\ d # c)
  BY <1>10 DEF ImageInv
<1> QED
  <2>1. c \in q.seen
    BY <1>10
  <2>2. /\ Len(q.recent) <= RecentLimit
        /\ \A x \in Keys : q.books[x] = IF x \in q.booked THEN 1 ELSE 0
        /\ \A e \in q.handled : e[3] <= q.high[e[2]]
        /\ \A d \in Callbacks : Economic(d) /\ d \in Elements(q.recent) => KeyOf[d] \in q.booked
    BY <1>10 DEF ImageInv
  <2>3. Pending(q, c)
    BY <1>10, <1>11, <1>12, <1>13, <1>14, <2>1, <2>2 DEF Pending
  <2> QED
    BY <1>10, <2>3 DEF q, n, k, s

\* A callback in memory: enough about the image it leaves for the invariant.
LEMMA ProcessStep ==
    ASSUME IInv, phase = "idle", NEW r, NEW event, Process(r, event),
           ImageInv(r), live.handled \subseteq r.handled, OneKeyBehind(live.books, r.books)
    PROVE  IInv'
<1>1. current' = None \/ current' \in live'.handled
  BY DEF Process
<1> QED
  BY <1>1 DEF IInv, Process

\* A callback the adapter publishes preserves the invariant.
LEMMA DeliverStep ==
    ASSUME IInv, NEW c \in Callbacks, Deliver(c)
    PROVE  IInv'
<1> DEFINE n == live.sequence + 1
           source == SourceOf[c]
           q == Numbered(Native(Known(See(live, c), c), c))
           h == Handle(q, c, source, n)
<1>1. phase = "idle" /\ c \notin live.seen /\ Process(h, <<c, source, n>>)
  BY DEF Deliver
<1>2. ImageInv(live) /\ live \in Image
  BY DEF IInv, ImageInv
<1>3. /\ Pending(q, c)
      /\ q.sequence = live.sequence + 1 /\ q.high = live.high
      /\ q.books = live.books /\ q.handled = live.handled
  BY <1>1, <1>2, Prepared
<1>4. c \in Ids /\ source \in Sources /\ n \in Nat
  BY <1>2, CallbackAssumption DEF Ids, Image
<1> HIDE DEF q, n, source
<1>5. CASE ~Replayed(q, c, source, n)
  <2>1. /\ ImageInv(h)
        /\ h.handled = q.handled \cup {<<c, source, n>>}
        /\ h.books = q.books \/ \E k \in Keys : q.books[k] = 0 /\ h.books = [q.books EXCEPT ![k] = 1]
    BY <1>3, <1>4, <1>5, HandleFresh DEF n
  <2> HIDE DEF h
  <2> QED
    BY <1>1, <1>3, <2>1, ProcessStep DEF OneKeyBehind
<1>6. CASE Replayed(q, c, source, n)
  <2>1. h = q
    BY <1>6 DEF Handle
  <2>2. ~(n <= q.high[source])
    <3>1. live.high[source] \in Int /\ live.sequence \in Nat /\ live.high[source] <= live.sequence
      BY <1>2, <1>4 DEF ImageInv, Image
    <3> QED
      BY <1>3, <3>1 DEF n
  <2>3. Economic(c) => KeyOf[c] \in q.booked
    BY <1>3, <1>6, <2>2 DEF Replayed, Pending
  <2>4. ImageInv(q)
    BY <1>3, <2>3 DEF Pending, ImageInv
  <2> HIDE DEF h
  <2> QED
    BY <1>1, <1>3, <2>1, <2>4, ProcessStep DEF OneKeyBehind
<1> QED
  BY <1>5, <1>6

\* A callback the adapter sees and does not publish preserves the invariant.
LEMMA IgnoreStep ==
    ASSUME IInv, NEW c \in Callbacks, Ignore(c)
    PROVE  IInv'
<1> DEFINE q == See(live, c)
<1>1. phase = "idle" /\ (Repeated(live, c) \/ ~Economic(c)) /\ Process(q, None)
  BY DEF Ignore
<1>2. ImageInv(live) /\ live \in Image
  BY DEF IInv, ImageInv
<1>3. /\ q \in Image /\ q.seen = live.seen \cup {c}
      /\ q.known = live.known /\ q.sequence = live.sequence /\ q.high = live.high
      /\ q.books = live.books /\ q.booked = live.booked /\ q.applied = live.applied
      /\ q.recent = live.recent /\ q.handled = live.handled
  <2>1. q = [live EXCEPT !.seen = live.seen \cup {c}]
    BY DEF See
  <2> HIDE DEF q
  <2> QED
    BY <1>2, <2>1 DEF Image
<1> HIDE DEF q
<1>4. Economic(c) => KeyOf[c] \in live.booked
  BY <1>1, <1>2 DEF Repeated, ImageInv
<1>5. ImageInv(q)
  BY <1>2, <1>3, <1>4 DEF ImageInv
<1> QED
  BY <1>1, <1>3, <1>5, ProcessStep DEF OneKeyBehind

\* An event the adapter raises itself preserves the invariant.
LEMMA InternalStep ==
    ASSUME IInv, NEW s \in Sources, Internal(s)
    PROVE  IInv'
<1> DEFINE n == live.sequence + 1
           id == <<s, n>>
           q == Numbered(live)
           h == Handle(q, id, s, n)
<1>1. phase = "idle" /\ Process(h, <<id, s, n>>)
  BY DEF Internal
<1>2. ImageInv(live) /\ live \in Image /\ live.sequence \in Nat
  BY DEF IInv, ImageInv, Image
<1>3. n \in Nat /\ id \in Ids /\ id \notin Callbacks
  BY <1>2, CallbackAssumption DEF Ids
<1>4. ~Economic(id)
  BY <1>3 DEF Economic
<1>5. /\ q \in Image /\ q.seen = live.seen /\ q.sequence = n
      /\ q.known = live.known /\ q.high = live.high
      /\ q.books = live.books /\ q.booked = live.booked /\ q.applied = live.applied
      /\ q.recent = live.recent /\ q.handled = live.handled
  <2>1. q = [live EXCEPT !.sequence = n]
    BY DEF Numbered
  <2> HIDE DEF q, n
  <2> QED
    BY <1>2, <1>3, <2>1 DEF Image
<1>6. \A x \in Sources : q.high[x] <= q.sequence
  <2>1. live.high \in [Sources -> Int] /\ \A x \in Sources : live.high[x] <= live.sequence
    BY <1>2 DEF ImageInv, Image
  <2> QED
    BY <1>2, <1>5, <2>1
<1> HIDE DEF q, id
<1>7. ImageInv(q)
  BY <1>2, <1>5, <1>6 DEF ImageInv
<1>8. Pending(q, id)
  BY <1>3, <1>4, <1>7 DEF ImageInv, Pending
<1>9. CASE ~Replayed(q, id, s, n)
  <2>1. /\ ImageInv(h)
        /\ h.handled = q.handled \cup {<<id, s, n>>}
        /\ h.books = q.books \/ \E k \in Keys : q.books[k] = 0 /\ h.books = [q.books EXCEPT ![k] = 1]
    <3>1. n <= q.sequence
      BY <1>3, <1>5
    <3> HIDE DEF n
    <3> QED
      BY <1>3, <1>8, <1>9, <3>1, HandleFresh
  <2> HIDE DEF h, n
  <2> QED
    BY <1>1, <1>5, <2>1, ProcessStep DEF OneKeyBehind
<1>10. CASE Replayed(q, id, s, n)
  <2>1. h = q
    BY <1>10 DEF Handle
  <2> HIDE DEF h, n
  <2> QED
    BY <1>1, <1>5, <1>7, <2>1, ProcessStep DEF OneKeyBehind
<1> QED
  BY <1>9, <1>10

\* A replayed event stands below its source's mark: the reducer drops it,
\* whatever has left the window since.
LEMMA ReplayStep ==
    ASSUME IInv, NEW e \in live.handled, Replay(e)
    PROVE  IInv'
<1>1. ImageInv(live)
  BY DEF IInv
<1>2. e[3] <= live.high[e[2]]
  BY <1>1 DEF ImageInv
<1>3. Handle(live, e[1], e[2], e[3]) = live
  BY <1>2 DEF Handle, Replayed
<1>4. phase = "idle" /\ Process(live, e)
  BY <1>3 DEF Replay
<1> QED
  BY <1>1, <1>4, ProcessStep DEF OneKeyBehind

\* The counter a restart resumes from is no smaller than any surviving mark.
LEMMA ResumeCovers ==
    ASSUME NEW r \in Image, NEW m \in Nat, \A s \in Sources : r.high[s] <= m
    PROVE  /\ ResumedSequence(r) \in Nat
           /\ \A s \in Sources : r.high[s] <= ResumedSequence(r)
<1> DEFINE marks == {r.sequence} \cup {r.high[s] : s \in Sources}
           bound == IF m >= r.sequence THEN m ELSE r.sequence
           gaps == {bound - x : x \in marks}
<1>1. r.sequence \in Nat /\ r.high \in [Sources -> Int]
  BY DEF Image
<1>2. bound \in Nat /\ marks \subseteq Int /\ \A x \in marks : x <= bound
  BY <1>1
<1>3. gaps \subseteq Nat /\ gaps # {}
  <2>1. ASSUME NEW x \in marks PROVE bound - x \in Nat
    <3>1. x \in Int /\ x <= bound
      BY <1>2
    <3> HIDE DEF bound, marks
    <3> QED
      BY <1>2, <3>1
  <2>2. r.sequence \in marks
    OBVIOUS
  <2> HIDE DEF bound, marks
  <2> QED
    BY <2>1, <2>2
<1>4. PICK g \in gaps : \A y \in gaps : ~(<<y, g>> \in OpToRel(<, Nat))
  BY <1>3, WFMin, NatLessThanWellFounded
<1>5. \A y \in gaps : g <= y
  <2> TAKE y \in gaps
  <2> HIDE DEF gaps
  <2>1. y \in Nat /\ g \in Nat
    BY <1>3, <1>4
  <2>2. ~(<<y, g>> \in OpToRel(<, Nat))
    BY <1>4
  <2>3. ~(y < g)
    BY <2>1, <2>2 DEF OpToRel
  <2> QED
    BY <2>1, <2>3
<1>6. PICK x \in marks : g = bound - x
  BY <1>4
<1>7. \A y \in marks : y <= x
  <2> TAKE y \in marks
  <2>1. g <= bound - y
    BY <1>5
  <2>2. x \in Int /\ y \in Int
    BY <1>2
  <2> HIDE DEF marks, gaps, bound
  <2> QED
    BY <1>2, <1>6, <2>1, <2>2
<1>8. ResumedSequence(r) = CHOOSE n \in marks : \A y \in marks : y <= n
  BY DEF ResumedSequence
<1> HIDE DEF marks
<1>9. ResumedSequence(r) \in marks /\ \A y \in marks : y <= ResumedSequence(r)
  BY <1>7, <1>8
<1> QED
  BY <1>1, <1>2, <1>9 DEF marks

\* A crash restores a pair that satisfies the invariant.
LEMMA CrashStep ==
    ASSUME IInv, Crash
    PROVE  IInv'
<1> DEFINE q == Surviving(durable)
           h == Resumed(q)
<1>1. /\ ImageInv(durable) /\ durable \in Image /\ durable.sequence \in Nat
      /\ durable.high \in [Sources -> Int]
      /\ \A s \in Sources : durable.high[s] <= durable.sequence
  BY DEF IInv, ImageInv, Image
<1>2. /\ q \in Image /\ q.high = durable.high /\ q.books = durable.books
      /\ q.booked = durable.booked /\ q.applied = durable.applied
      /\ q.recent = durable.recent /\ q.handled = durable.handled
      /\ q.seen \subseteq durable.seen /\ q.known \subseteq durable.known
      /\ Checkpointed => q.seen = durable.seen
  <2>1. CASE Checkpointed
    BY <1>1, <2>1 DEF Surviving
  <2>2. CASE ~Checkpointed
    <3> DEFINE none == [k \in Keys |-> 0]
    <3>1. none \in [Keys -> Nat]
      OBVIOUS
    <3>2. q = [durable EXCEPT !.seen = {}, !.known = {}, !.native = none, !.sequence = 0]
      BY <2>2 DEF Surviving
    <3> HIDE DEF q, none
    <3> QED
      BY <1>1, <2>2, <3>1, <3>2 DEF Image
  <2> QED
    BY <2>1, <2>2
<1> HIDE DEF q
<1>3. ResumedSequence(q) \in Nat /\ \A s \in Sources : q.high[s] <= ResumedSequence(q)
  BY <1>1, <1>2, ResumeCovers
<1>4. /\ h \in Image /\ h.high = q.high /\ h.books = q.books
      /\ h.booked = q.booked /\ h.applied = q.applied
      /\ h.recent = q.recent /\ h.handled = q.handled
      /\ h.seen = q.seen /\ h.known = q.known /\ h.sequence = ResumedSequence(q)
  <2> DEFINE n == ResumedSequence(q)
  <2>1. h = [q EXCEPT !.sequence = n]
    BY DEF Resumed
  <2> HIDE DEF h, n
  <2>2. n \in Nat
    BY <1>3 DEF n
  <2> QED
    BY <1>2, <2>1, <2>2 DEF Image, n
<1> HIDE DEF h
<1>5. ImageInv(h)
  BY <1>1, <1>2, <1>3, <1>4 DEF ImageInv
<1>6. crashes + 1 \in 0 .. MaxCrashes
  BY BoundAssumption DEF IInv, Crash
<1> QED
  BY <1>2, <1>4, <1>5, <1>6 DEF Crash, IInv, OneKeyBehind, q, h

----------------------------------------------------------------------------
(* Settlements: the adapter's total and the reducer's ledger.              *)

\* A settlement in the reducer's books is among the adapter's known ones, and
\* both have counted it equally often.
NativeInv(r) ==
    \A c \in Callbacks : Kind[c] = "funding" =>
        /\ KeyOf[c] \in r.booked => KeyOf[c] \in r.known
        /\ r.native[KeyOf[c]] = r.books[KeyOf[c]]

MoneyInv == Checkpointed => NativeInv(live) /\ NativeInv(durable)

\* The adapter's part of a delivery, as far as money is concerned.
LEMMA PreparedMoney ==
    ASSUME NEW r \in Image, NEW c \in Callbacks
    PROVE  LET q == Numbered(Native(Known(See(r, c), c), c))
           IN  /\ q.known = r.known \cup (IF Guarded(c) THEN {KeyOf[c]} ELSE {})
               /\ q.native = IF Economic(c) THEN Tick(r.native, KeyOf[c]) ELSE r.native
               /\ q.books = r.books /\ q.booked = r.booked
<1> DEFINE s == See(r, c)
           k == Known(s, c)
           n == Native(k, c)
           q == Numbered(n)
<1>1. /\ s.known = r.known /\ s.native = r.native /\ s.books = r.books /\ s.booked = r.booked
      /\ s.sequence = r.sequence
      /\ DOMAIN s = DOMAIN r
  BY DEF See, Image
<1>2. DOMAIN r = {"seen", "known", "native", "sequence", "recent", "high", "booked", "applied",
                  "books", "handled"}
  BY DEF Image
<1> HIDE DEF s
<1>3. /\ k.known = r.known \cup (IF Guarded(c) THEN {KeyOf[c]} ELSE {})
      /\ k.native = r.native /\ k.books = r.books /\ k.booked = r.booked /\ k.sequence = r.sequence
      /\ DOMAIN k = DOMAIN r
  BY <1>1, <1>2 DEF Known
<1> HIDE DEF k
<1>4. /\ n.native = IF Economic(c) THEN Tick(r.native, KeyOf[c]) ELSE r.native
      /\ n.known = k.known /\ n.books = r.books /\ n.booked = r.booked
      /\ DOMAIN n = DOMAIN r
  BY <1>2, <1>3 DEF Native
<1> HIDE DEF n
<1>5. /\ q.native = n.native /\ q.known = n.known /\ q.books = n.books /\ q.booked = n.booked
  BY <1>2, <1>4 DEF Numbered
<1> QED
  BY <1>3, <1>4, <1>5 DEF q, n, k, s

\* The reducer's part: it leaves the adapter's fields alone.
LEMMA HandledMoney ==
    ASSUME NEW r \in Image, NEW id \in Ids, NEW source \in Sources, NEW n \in Nat
    PROVE  LET h == Handle(r, id, source, n)
               fresh == ~Replayed(r, id, source, n) /\ Economic(id)
           IN  /\ h.known = r.known /\ h.native = r.native
               /\ h.books = IF fresh THEN Tick(r.books, KeyOf[id]) ELSE r.books
               /\ h.booked = IF fresh THEN r.booked \cup {KeyOf[id]} ELSE r.booked
<1> DEFINE q == Remember(r, id, source, n)
           b == Booking(q, id)
           h == Handle(r, id, source, n)
<1>1. CASE Replayed(r, id, source, n)
  BY <1>1 DEF Handle
<1>2. CASE ~Replayed(r, id, source, n)
  <2>1. q \in Image /\ q.known = r.known /\ q.books = r.books /\ q.booked = r.booked
    BY RememberResult
  <2>2. q.native = r.native
    BY DEF Remember, Image
  <2>3. DOMAIN q = {"seen", "known", "native", "sequence", "recent", "high", "booked", "applied",
                    "books", "handled"}
    BY <2>1 DEF Image
  <2> HIDE DEF q
  <2>4. /\ b.known = r.known /\ b.native = r.native
        /\ b.books = IF Economic(id) THEN Tick(r.books, KeyOf[id]) ELSE r.books
        /\ b.booked = IF Economic(id) THEN r.booked \cup {KeyOf[id]} ELSE r.booked
        /\ DOMAIN b = DOMAIN q
    BY <2>1, <2>2, <2>3 DEF Booking
  <2> HIDE DEF b
  <2>5. h.known = b.known /\ h.native = b.native /\ h.books = b.books /\ h.booked = b.booked
    <3> DEFINE handled == b.handled \cup {<<id, source, n>>}
               applied == IF id \in Callbacks THEN Tick(b.applied, id) ELSE b.applied
    <3>1. h = [b EXCEPT !.handled = handled, !.applied = applied]
      BY <1>2 DEF Handle, b, q
    <3> HIDE DEF h, handled, applied
    <3> QED
      BY <2>3, <2>4, <3>1
  <2> QED
    BY <1>2, <2>4, <2>5
<1> QED
  BY <1>1, <1>2

\* An event that is no settlement leaves the settlements of an image alone;
\* a settlement delivered is new to both sides.
LEMMA DeliverMoney ==
    ASSUME IInv, Checkpointed, NativeInv(live), NEW c \in Callbacks, Deliver(c)
    PROVE  NativeInv(live')
<1> DEFINE n == live.sequence + 1
           source == SourceOf[c]
           q == Numbered(Native(Known(See(live, c), c), c))
           h == Handle(q, c, source, n)
<1>1. c \notin live.seen /\ ~Repeated(live, c) /\ live' = h
  BY DEF Deliver, Process
<1>2. ImageInv(live) /\ live \in Image
  BY DEF IInv, ImageInv
<1>3. Pending(q, c) /\ q \in Image /\ q.high = live.high
  BY <1>1, <1>2, Prepared DEF Pending
<1>4. /\ q.known = live.known \cup (IF Guarded(c) THEN {KeyOf[c]} ELSE {})
      /\ q.native = IF Economic(c) THEN Tick(live.native, KeyOf[c]) ELSE live.native
      /\ q.books = live.books /\ q.booked = live.booked
  BY <1>2, PreparedMoney
<1>5. c \in Ids /\ source \in Sources /\ n \in Nat
  BY <1>2, CallbackAssumption DEF Ids, Image
<1>6. ~(n <= q.high[source])
  <2>1. live.high[source] \in Int /\ live.sequence \in Nat /\ live.high[source] <= live.sequence
    BY <1>2, <1>5 DEF ImageInv, Image
  <2> HIDE DEF q
  <2> QED
    BY <1>3, <2>1
<1> HIDE DEF q, n, source
<1>7. /\ h.known = q.known /\ h.native = q.native
      /\ h.books = IF ~Replayed(q, c, source, n) /\ Economic(c) THEN Tick(q.books, KeyOf[c]) ELSE q.books
      /\ h.booked = IF ~Replayed(q, c, source, n) /\ Economic(c)
                    THEN q.booked \cup {KeyOf[c]} ELSE q.booked
  BY <1>3, <1>5, HandledMoney
<1>8. Kind[c] = "funding" => Economic(c) /\ ~Replayed(q, c, source, n)
  <2> SUFFICES ASSUME Kind[c] = "funding" PROVE Economic(c) /\ ~Replayed(q, c, source, n)
    OBVIOUS
  <2>1. Economic(c) /\ KeyOf[c] \notin live.booked /\ Guarded(c)
    BY <1>1 DEF Economic, Guarded, Repeated, NativeInv
  <2>2. c \notin Elements(q.recent)
    BY <1>3, <1>4, <2>1 DEF Pending
  <2> QED
    BY <1>4, <1>6, <2>1, <2>2 DEF Replayed
<1>9. ASSUME NEW d \in Callbacks, Kind[d] = "funding"
      PROVE  /\ KeyOf[d] \in h.booked => KeyOf[d] \in h.known
             /\ h.native[KeyOf[d]] = h.books[KeyOf[d]]
  <2>1. KeyOf[d] \in Keys /\ Economic(d)
    BY <1>9, KeyOfEconomic DEF Economic
  <2>2. /\ KeyOf[d] \in live.booked => KeyOf[d] \in live.known
        /\ live.native[KeyOf[d]] = live.books[KeyOf[d]]
    BY <1>9 DEF NativeInv
  <2>3. live.native \in [Keys -> Nat] /\ live.books \in [Keys -> Nat]
    BY <1>2 DEF Image
  <2> HIDE DEF h
  <2>4. CASE KeyOf[c] = KeyOf[d]
    <3>1. Kind[c] = "funding"
      BY <1>9, <2>4, CallbackAssumption
    <3>2. Guarded(c)
      BY <3>1 DEF Guarded
    <3> QED
      BY <1>4, <1>7, <1>8, <2>1, <2>2, <2>3, <2>4, <3>1, <3>2 DEF Tick
  <2>5. CASE KeyOf[c] # KeyOf[d]
    <3>1. ASSUME NEW f \in [Keys -> Nat] PROVE Tick(f, KeyOf[c])[KeyOf[d]] = f[KeyOf[d]]
      BY <2>1, <2>5 DEF Tick
    <3>2. h.native[KeyOf[d]] = live.native[KeyOf[d]] /\ h.books[KeyOf[d]] = live.books[KeyOf[d]]
      BY <1>4, <1>7, <2>3, <3>1
    <3>3. KeyOf[d] \in h.booked => KeyOf[d] \in live.booked
      BY <1>4, <1>7, <2>5
    <3> QED
      BY <1>4, <1>7, <2>2, <3>2, <3>3
  <2> QED
    BY <2>4, <2>5
<1> QED
  BY <1>1, <1>9 DEF NativeInv

\* What the other steps leave in memory has the settlements of what they found.
LEMMA OtherMoney ==
    ASSUME IInv, Checkpointed, NativeInv(live), NativeInv(durable),
           \/ \E c \in Callbacks : Ignore(c)
           \/ \E s \in Sources : Internal(s)
           \/ \E e \in live.handled : Replay(e)
           \/ Crash
    PROVE  NativeInv(live')
<1>1. ImageInv(live) /\ live \in Image /\ live.sequence \in Nat /\ durable \in Image
  BY DEF IInv, ImageInv, Image
<1>2. ASSUME NEW c \in Callbacks, Ignore(c) PROVE NativeInv(live')
  <2>1. live' = [live EXCEPT !.seen = @ \cup {c}]
    BY <1>2 DEF Ignore, Process, See
  <2>2. /\ live'.native = live.native /\ live'.books = live.books
        /\ live'.known = live.known /\ live'.booked = live.booked
    BY <1>1, <2>1 DEF Image
  <2> QED
    BY <2>2 DEF NativeInv
<1>3. ASSUME NEW s \in Sources, Internal(s) PROVE NativeInv(live')
  <2> DEFINE n == live.sequence + 1
             q == Numbered(live)
  <2>1. live' = Handle(q, <<s, n>>, s, n)
    BY <1>3 DEF Internal, Process
  <2>2. n \in Nat /\ <<s, n>> \in Ids /\ ~Economic(<<s, n>>)
    BY <1>1, CallbackAssumption DEF Ids, Economic
  <2>3. q \in Image /\ q.native = live.native /\ q.books = live.books
        /\ q.known = live.known /\ q.booked = live.booked
    <3>1. q = [live EXCEPT !.sequence = n]
      BY DEF Numbered
    <3> HIDE DEF q, n
    <3> QED
      BY <1>1, <2>2, <3>1 DEF Image
  <2> HIDE DEF q, n
  <2>4. /\ live'.native = q.native /\ live'.books = q.books
        /\ live'.known = q.known /\ live'.booked = q.booked
    BY <2>1, <2>2, <2>3, HandledMoney
  <2> QED
    BY <2>3, <2>4 DEF NativeInv
<1>4. ASSUME NEW e \in live.handled, Replay(e) PROVE NativeInv(live')
  <2>1. e[3] <= live.high[e[2]]
    BY <1>1 DEF ImageInv
  <2>2. live' = live
    BY <1>4, <2>1 DEF Replay, Process, Handle, Replayed
  <2> QED
    BY <2>2
<1>5. CASE Crash
  <2>1. live' = [durable EXCEPT !.sequence = ResumedSequence(durable)]
    BY <1>5 DEF Crash, Surviving, Resumed
  <2>2. /\ live'.native = durable.native /\ live'.books = durable.books
        /\ live'.known = durable.known /\ live'.booked = durable.booked
    BY <1>1, <2>1 DEF Image
  <2> QED
    BY <2>2 DEF NativeInv
<1> QED
  BY <1>2, <1>3, <1>4, <1>5

----------------------------------------------------------------------------
(* Theorems.                                                               *)

\* IInv is inductive: it holds initially and every step of the adapter, of
\* the reducer and every crash preserves it.
THEOREM Inductive == Spec => []IInv
<1>1. Init => IInv
  BY InitIInv
<1>2. IInv /\ [Next]_vars => IInv'
  <2> SUFFICES ASSUME IInv, [Next]_vars PROVE IInv'
    OBVIOUS
  <2>1. CASE \E c \in Callbacks : Deliver(c)
    BY <2>1, DeliverStep
  <2>2. CASE \E c \in Callbacks : Ignore(c)
    BY <2>2, IgnoreStep
  <2>3. CASE \E s \in Sources : Internal(s)
    BY <2>3, InternalStep
  <2>4. CASE \E e \in live.handled : Replay(e)
    BY <2>4, ReplayStep
  <2>5. CASE Persist
    BY <2>5 DEF Persist, IInv, OneKeyBehind
  <2>6. CASE Route
    BY <2>6 DEF Route, IInv, OneKeyBehind
  <2>7. CASE Crash
    BY <2>7, CrashStep
  <2>8. CASE UNCHANGED vars
    BY <2>8 DEF vars, IInv, OneKeyBehind
  <2> QED
    BY <2>1, <2>2, <2>3, <2>4, <2>5, <2>6, <2>7, <2>8 DEF Next
<1> QED
  BY <1>1, <1>2, PTL DEF Spec

\* Type correctness of both images and the bound on the window.
THEOREM TypeCorrect == Spec => []TypeOK
<1>1. IInv => TypeOK
  BY DEF IInv, ImageInv, TypeOK, Images
<1> QED
  BY <1>1, Inductive, PTL

\* docs/ARCHITECTURE.md, invariant 5, for any number of executions,
\* settlements, redeliveries, replays and crashes, any length of the window of
\* recent event IDs, and with or without an adapter checkpoint.
THEOREM NeverBookedTwice == Spec => []BookedOnce
<1>1. IInv => BookedOnce
  BY DEF IInv, ImageInv, BookedOnce, Images
<1> QED
  BY <1>1, Inductive, PTL

\* With a checkpoint no native callback takes effect twice.
THEOREM NeverAppliedTwice == Spec => []AppliedOnce
<1>1. IInv => AppliedOnce
  <2> SUFFICES ASSUME IInv, Checkpointed, NEW r \in Images, NEW c \in Callbacks
               PROVE  r.applied[c] <= 1
    BY DEF AppliedOnce
  <2>1. ImageInv(r)
    BY DEF IInv, Images
  <2>2. r.applied[c] = 0 \/ r.applied[c] = 1
    BY <2>1 DEF ImageInv
  <2> QED
    BY <2>2
<1> QED
  BY <1>1, Inductive, PTL

\* The two money totals agree in memory and on disk, for any settlements,
\* redeliveries and crashes.
THEOREM MoneyInductive == Spec => []MoneyInv
<1>1. Init => MoneyInv
  <2> SUFFICES ASSUME Init PROVE NativeInv(Empty)
    BY DEF Init, MoneyInv
  <2>1. \A c \in Callbacks : Kind[c] = "funding" => KeyOf[c] \in Keys
    BY KeyOfEconomic DEF Economic
  <2> QED
    BY <2>1 DEF NativeInv, Empty
<1>2. IInv /\ MoneyInv /\ [Next]_vars => MoneyInv'
  <2> SUFFICES ASSUME IInv, Checkpointed, NativeInv(live), NativeInv(durable), [Next]_vars
               PROVE  NativeInv(live') /\ NativeInv(durable')
    BY DEF MoneyInv, NativeInv
  <2>1. CASE Persist \/ Route \/ UNCHANGED vars
    BY <2>1 DEF Persist, Route, vars, NativeInv
  <2>2. CASE \E c \in Callbacks : Deliver(c)
    BY <2>2, DeliverMoney DEF Deliver, Process
  <2>3. CASE \/ \E c \in Callbacks : Ignore(c)
             \/ \E s \in Sources : Internal(s)
             \/ \E e \in live.handled : Replay(e)
             \/ Crash
    BY <2>3, OtherMoney DEF Ignore, Internal, Replay, Crash, Process
  <2> QED
    BY <2>1, <2>2, <2>3 DEF Next
<1> QED
  BY <1>1, <1>2, Inductive, PTL DEF Spec

\* Nothing counts twice: no execution and no settlement in the reducer's
\* ledgers, no callback as an effect, no settlement in the adapter's total.
THEOREM NothingCountsTwice == Spec => []OnceOnly
<1>1. MoneyInv => NativeSettlementsMatch
  BY DEF MoneyInv, NativeInv, NativeSettlementsMatch, Images
<1> QED
  BY <1>1, MoneyInductive, NeverBookedTwice, NeverAppliedTwice, PTL DEF OnceOnly

\* A fill or settlement the adapter will not deliver again is in the books.
THEOREM NeverLost == Spec => []NothingLost
<1>1. IInv => NothingLost
  <2> SUFFICES ASSUME IInv, NEW r \in Images, NEW c \in r.seen, Economic(c)
               PROVE  r.books[KeyOf[c]] = 1
    BY DEF NothingLost
  <2>1. ImageInv(r) /\ c \in Callbacks /\ KeyOf[c] \in Keys
    BY KeyOfEconomic DEF IInv, Images
  <2> QED
    BY <2>1 DEF ImageInv
<1> QED
  BY <1>1, Inductive, PTL

\* Persist before route: no crash forgets a transition whose intents are out.
THEOREM EffectsAreDurable == Spec => []EffectsDurable
<1>1. IInv => EffectsDurable
  BY DEF IInv, EffectsDurable
<1> QED
  BY <1>1, Inductive, PTL

\* The books on disk implement the abstract ledger.
THEOREM Refinement == Spec => BooksRefineLedger
<1>1. Init => Ledger!LedgerInit
  BY DEF Init, Empty, Ledger!LedgerInit
<1>2. IInv /\ [Next]_vars => [Ledger!LedgerNext]_(durable.books)
  <2> SUFFICES ASSUME IInv, [Next]_vars
               PROVE  Ledger!LedgerNext \/ durable'.books = durable.books
    OBVIOUS
  <2>1. CASE Persist
    BY <2>1 DEF Persist, IInv, OneKeyBehind, Ledger!LedgerNext, Ledger!Book
  <2>2. CASE UNCHANGED durable
    BY <2>2
  <2> QED
    BY <2>1, <2>2 DEF Next, vars, Deliver, Ignore, Internal, Replay, Process, Route, Crash
<1> QED
  BY <1>1, <1>2, Inductive, PTL DEF Spec, BooksRefineLedger, Ledger!LedgerSpec
============================================================================
