---------------------------- MODULE LiveAccount ----------------------------
(***************************************************************************)
(* What the two live loops share: one symbol's account at the exchange,    *)
(* the trade journal and the memory of the one process that trades.        *)
(* Prices, quantities and sides are left out: the account is flat or holds *)
(* the n-th position that was opened, and every close is reduce-only.      *)
(*                                                                         *)
(*   mode     server, local or hybrid TP/SL                                *)
(*   acct     pos, the protective orders, how many positions were opened   *)
(*   mem      pc, the bar's signal, what the loop read (seen, info), the   *)
(*            position of the last bar (prev), its trade (cur), its        *)
(*            numbering (seq), and the tries of Close-All                  *)
(*   journal  trades.csv; closed is auxiliary: the position that was left  *)
(*   hurt     auxiliary: a response was lost, an entry's cancel failed     *)
(***************************************************************************)
EXTENDS Naturals, Sequences, FiniteSets

CONSTANTS
    MaxOpens,       \* bound: positions opened
    MaxFaults,      \* bound: calls that raise
    MaxSessions     \* bound: starts of the process

ASSUME LiveBounds == {MaxOpens, MaxFaults, MaxSessions} \subseteq Nat

VARIABLES mode, acct, mem, session, journal, faults, hurt

vars == <<mode, acct, mem, session, journal, faults, hurt>>

None == <<>>
Memory == [pc |-> "down", sig |-> "none", seen |-> 0, prev |-> 0, info |-> 0,
           cur |-> None, seq |-> 0, tries |-> 0]

AccountInit ==
    /\ acct = [pos |-> 0, orders |-> {}, opened |-> 0]
    /\ mem = Memory /\ session = 0 /\ journal = <<>> /\ faults = 0
    /\ hurt = [lost |-> FALSE, uncleared |-> FALSE]

At(pc) == mem.pc = pc
Goto(pc) == mem' = [mem EXCEPT !.pc = pc]

Works == UNCHANGED faults
Faulty == faults < MaxFaults /\ faults' = faults + 1

----------------------------------------------------------------------------
(* Calls to the exchange.  One that raises may have been executed.         *)

Opened(a) == [a EXCEPT !.pos = a.opened + 1, !.opened = @ + 1]

\* create_market(reduce_only=False)
MarketOpen(next, failed) ==
    /\ acct.opened < MaxOpens
    /\ \/ Works /\ acct' = Opened(acct) /\ Goto(next) /\ UNCHANGED hurt
       \/ /\ Faulty /\ acct' \in {acct, Opened(acct)} /\ Goto(failed)
          /\ hurt' = [hurt EXCEPT !.lost = @ \/ acct' # acct]
    /\ UNCHANGED <<mode, session, journal>>

\* create_market(reduce_only=True): refused without a position.
MarketClose(flat, next, failed) ==
    /\ \/ acct.pos # 0 /\ Works /\ acct' = flat /\ next /\ UNCHANGED hurt
       \/ acct.pos = 0 /\ Works /\ UNCHANGED <<acct, hurt>> /\ failed
       \/ /\ Faulty /\ acct' \in {acct, flat} /\ failed
          /\ hurt' = [hurt EXCEPT !.lost = @ \/ acct' # acct]
    /\ UNCHANGED <<mode, session, journal>>

\* cancel_all_orders, whose exceptions are swallowed.
CancelAll(next) ==
    /\ \/ Works /\ acct' = [acct EXCEPT !.orders = {}]
       \/ Faulty /\ UNCHANGED acct
    /\ next
    /\ UNCHANGED <<mode, session, journal>>

Armed(a, legs) == [a EXCEPT !.orders = @ \cup [leg : legs, of : {a.pos} \ {0}]]

----------------------------------------------------------------------------
(* The journal.                                                            *)

Row(what, id, closed) == [what |-> what, trade |-> id, closed |-> closed]
TradeId == <<session, mem.seq + 1>>

\* Mutant: a trade that is still in memory stays the current one.
LogEntryKeeping(next) ==
    LET kept == IF mem.cur = None THEN [id |-> TradeId, of |-> acct.opened] ELSE mem.cur
    IN  /\ journal' = Append(journal, Row("entry", TradeId, 0))
        /\ mem' = [mem EXCEPT !.seq = @ + 1, !.cur = kept, !.pc = next]
        /\ UNCHANGED <<mode, acct, session, faults, hurt>>

\* log_entry of a new trade
LogEntry(next) ==
    /\ journal' = Append(journal, Row("entry", TradeId, 0))
    /\ mem' = [mem EXCEPT !.seq = @ + 1, !.cur = [id |-> TradeId, of |-> acct.opened], !.pc = next]
    /\ UNCHANGED <<mode, acct, session, faults, hurt>>

\* The position that is gone when an exit is journaled is the last one opened.
LogExit(id, next) ==
    /\ journal' = Append(journal, Row("exit", id, acct.opened))
    /\ mem' = [mem EXCEPT !.cur = None, !.pc = next]
    /\ UNCHANGED <<mode, acct, session, faults, hurt>>

----------------------------------------------------------------------------
(* The exchange and the operator.                                          *)

\* A protective order executes: it closes whatever position there is.
ServerFill(o, rest) ==
    /\ o \in acct.orders /\ acct.pos # 0
    /\ acct' = [acct EXCEPT !.pos = 0, !.orders = rest]
    /\ UNCHANGED <<mode, mem, session, journal, faults, hurt>>

\* Liquidation, or a close by hand.
ExternalClose(rest) ==
    /\ acct.pos # 0 /\ acct' = [acct EXCEPT !.pos = 0, !.orders = rest]
    /\ Faulty
    /\ UNCHANGED <<mode, mem, session, journal, hurt>>

\* The process ends: killed, or by an exception nobody catches.
Crash ==
    /\ ~At("down") /\ mem' = Memory
    /\ UNCHANGED <<mode, acct, session, journal, faults, hurt>>

Start(pc) ==
    /\ At("down") /\ session < MaxSessions
    /\ session' = session + 1 /\ mem' = [Memory EXCEPT !.pc = pc]
    /\ UNCHANGED <<mode, acct, journal, faults, hurt>>

----------------------------------------------------------------------------
(* Properties.                                                             *)

Rows(what) == {i \in DOMAIN journal : journal[i].what = what}
Entered == {journal[i].trade : i \in Rows("entry")}

\* However the loop, its watchdogs and the exchange interleave, a trade that
\* was journaled in is journaled out at most once.
OneExitPerTrade ==
    \A i, j \in Rows("exit") : i # j /\ journal[i].trade = journal[j].trade =>
        journal[i].trade \notin Entered

\* The position an exit row reports is the one its entry row opened, unless
\* the exchange executed an order whose response was lost.
ExitClosesOwn ==
    [][~hurt.lost /\ Len(journal') > Len(journal) /\ journal'[Len(journal')].what = "exit"
        /\ mem.cur # None => mem.cur.of = journal'[Len(journal')].closed]_vars

\* An exit is journaled only when the account is flat.
ExitIsFlat ==
    [][Len(journal') > Len(journal) /\ journal'[Len(journal')].what = "exit" => acct.pos = 0]_vars

\* No protective order of an earlier position stands beside an open one,
\* unless the cancel before its entry failed.
OwnOrdersOnly ==
    acct.pos # 0 /\ ~hurt.uncleared => \A o \in acct.orders : o.of = acct.pos
============================================================================
