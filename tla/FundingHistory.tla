--------------------------- MODULE FundingHistory ---------------------------
(***************************************************************************)
(* algo-fetch-funding (funding.py): the settlements of a perpetual, asked  *)
(* for page by page while the venue goes on settling.  Binance is read     *)
(* forward from the start, Bybit backward from the end, each in its own    *)
(* loop; rows are saved once, after the last page.                         *)
(***************************************************************************)
EXTENDS Integers, FiniteSets

CONSTANTS
    FundingLimit,   \* settlements in one answer: 1000 or 200
    FundingStarts,  \* bound: --start
    MaxInstant      \* bound: the venue's clock

\* With one row a page, Binance's loop would take its first page for the last.
ASSUME FundingAssumption ==
    FundingLimit \in Nat \ {0, 1} /\ MaxInstant \in Nat /\ FundingStarts \subseteq 1 .. MaxInstant

VARIABLES
    venue,          \* which exchange, when it settles, its clock
    history         \* the fetch: range asked for, cursor, rows, outcome

fundingVars == <<venue, history>>

Settled == {s \in venue.settles : s <= venue.now}

Oldest(page) == CHOOSE s \in page : \A u \in page : s <= u
Newest(page) == CHOOSE s \in page : \A u \in page : u <= s

\* fapiPublicGetFundingRate: the first settlements since the cursor, without an end.
Ascending(since) ==
    {s \in Settled : since <= s /\ Cardinality({u \in Settled : since <= u /\ u <= s}) <= FundingLimit}

\* fetch_funding_rate_history: the last settlements of the range.
Descending(since, end) ==
    {s \in Settled : since <= s /\ s <= end
                     /\ Cardinality({u \in Settled : s <= u /\ u <= end}) <= FundingLimit}

\* fetch_funding: without --end the range ends now.
FundingBegin(since, end, open) ==
    /\ history.phase = "idle"
    /\ history' = [phase |-> "run", since |-> since, end |-> end, open |-> open, asked |-> venue.now,
                   cursor |-> IF venue.name = "binance" THEN since ELSE end, rows |-> {}]
    /\ UNCHANGED venue

\* Mutant: nothing is left to ask before the newest page.
NextCursorForward(oldest) == history.since - 1

NextCursor(oldest) == oldest - 1

\* The rows are cut at --end and saved, if there are any.
FundingSaved(rows) ==
    LET cut == IF history.open THEN rows ELSE {s \in rows : s <= history.end}
    IN  [history EXCEPT !.phase = IF cut = {} THEN "empty" ELSE "saved", !.rows = cut]

\* One turn of _fetch_funding_binance.
FundingBinance ==
    LET page == Ascending(history.cursor)
        rows == history.rows \cup page
    IN  /\ history.phase = "run" /\ venue.name = "binance"
        /\ history' = IF history.cursor >= history.end \/ page = {} THEN FundingSaved(history.rows)
                      ELSE IF Newest(page) <= history.cursor THEN FundingSaved(rows)
                      ELSE [history EXCEPT !.rows = rows, !.cursor = Newest(page) + 1]
        /\ UNCHANGED venue

\* An empty page below rows already read: the history does not reach the start.
Incomplete(page) == page = {} /\ history.rows # {}

\* One turn of _fetch_funding_bybit.
FundingBybit ==
    LET page == Descending(history.since, history.cursor)
        rows == history.rows \cup page
    IN  /\ history.phase = "run" /\ venue.name = "bybit"
        /\ history' = IF history.since > history.cursor THEN FundingSaved(history.rows)
                      ELSE IF Incomplete(page) THEN [history EXCEPT !.phase = "refused"]
                      ELSE IF page = {} THEN FundingSaved(history.rows)
                      ELSE IF page \cap history.rows # {} THEN [history EXCEPT !.phase = "refused"]
                      ELSE IF Oldest(page) <= history.since THEN FundingSaved(rows)
                      ELSE [history EXCEPT !.rows = rows, !.cursor = NextCursor(Oldest(page))]
        /\ UNCHANGED venue

Settle ==
    /\ history.phase = "run" /\ venue.now < MaxInstant
    /\ venue' = [venue EXCEPT !.now = @ + 1]
    /\ UNCHANGED history

FundingInit ==
    /\ \E name \in {"binance", "bybit"}, settles \in SUBSET (1 .. MaxInstant), now \in 0 .. MaxInstant :
           /\ \A s \in settles : s + 1 \notin settles      \* hours apart, counted in less
           /\ venue = [name |-> name, settles |-> settles, now |-> now]
    /\ history = [phase |-> "idle"]

FundingNext ==
    \/ \E since \in FundingStarts, end \in 1 .. MaxInstant : FundingBegin(since, end, FALSE)
    \/ \E since \in FundingStarts : FundingBegin(since, venue.now, TRUE)
    \/ FundingBinance \/ FundingBybit \/ Settle

FundingSpec == FundingInit /\ [][FundingNext]_fundingVars

----------------------------------------------------------------------------
(* A saved history has every settlement of the range asked for that had    *)
(* happened when it was asked, and none of outside it.                     *)
FundingComplete ==
    history.phase = "saved" =>
        /\ {s \in venue.settles : history.since <= s /\ s <= history.end /\ s <= history.asked}
               \subseteq history.rows
        /\ \A s \in history.rows : history.since <= s /\ (history.open \/ s <= history.end)

(* Bybit's loop refuses exactly the ranges whose start is not itself a     *)
(* settlement, complete or not: it always asks once more below the oldest. *)
RefusedOffBoundary ==
    history.phase = "refused" => history.since \notin venue.settles

(* A fetch ends with the whole range or, off a settlement, with a refusal. *)
FundingWhole == FundingComplete /\ RefusedOffBoundary
=============================================================================
