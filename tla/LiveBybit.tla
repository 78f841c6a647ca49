----------------------------- MODULE LiveBybit -----------------------------
(***************************************************************************)
(* live/live_bybit.py with exchanges/bybit_adapter.py: one bar after       *)
(* another, or Close-All instead of the loop.  TP and SL belong to the     *)
(* position and vanish with it.                                            *)
(***************************************************************************)
EXTENDS LiveAccount

MaxRetries == 3
Legs == IF mode = "server" THEN {"tp", "sl"} ELSE {}
Flat == [acct EXCEPT !.pos = 0, !.orders = {}]

Init == AccountInit /\ mode \in {"server", "local"}

\* main up to its loop: the trade of an earlier process is not resumed.
Boot == At("boot") /\ CancelAll(Goto("wait")) /\ UNCHANGED hurt

----------------------------------------------------------------------------
(* One bar.                                                                *)

Decided(sig, hit) ==
    IF mem.cur # None /\ mode = "local" /\ hit THEN "stop"
    ELSE IF sig = "enter" /\ acct.pos = 0 THEN "clear"
    ELSE IF sig = "exit" /\ acct.pos # 0 THEN "close" ELSE "wait"

Bar(sig, hit) ==
    /\ At("wait")
    /\ mem' = [mem EXCEPT !.sig = sig, !.seen = acct.pos, !.pc = Decided(sig, hit)]
    /\ UNCHANGED <<mode, acct, session, journal, faults, hurt>>

\* The local watchdog.
LocalStop == At("stop") /\ MarketClose(Flat, Goto("closed"), Goto("wait"))

\* Mutant: the orders are canceled before the trade is forgotten, in one
\* suppressed block.
ExitedTidyFirst ==
    /\ At("closed") /\ mem.cur # None
    /\ journal' = Append(journal, Row("exit", mem.cur.id, acct.opened))
    /\ mem' = [mem EXCEPT !.pc = "wait"]
    /\ UNCHANGED <<mode, acct, session, faults, hurt>>

Exited ==
    /\ At("closed")
    /\ LogExit(IF mem.cur # None THEN mem.cur.id ELSE <<session, mem.seq, "x">>, "tidy")

Tidy == At("tidy") /\ CancelAll(Goto("wait")) /\ UNCHANGED hurt

Clear ==
    /\ At("clear") /\ CancelAll(Goto("open"))
    /\ hurt' = [hurt EXCEPT !.uncleared = acct'.orders # {}]

Open == At("open") /\ MarketOpen("opened", "wait")

Enter == At("opened") /\ LogEntry(IF mode = "server" THEN "arm" ELSE "wait")

\* set_tpsl: one call for both, whose exception is swallowed.
Arm ==
    /\ At("arm") /\ Goto("wait")
    /\ \/ Works /\ acct' = Armed(acct, Legs)
       \/ Faulty /\ UNCHANGED acct
    /\ UNCHANGED <<mode, session, journal, hurt>>

SignalExit == At("close") /\ MarketClose(Flat, Goto("closed"), Goto("wait"))

----------------------------------------------------------------------------
(* close_all_positions                                                     *)

Tries(pc) == mem' = [mem EXCEPT !.tries = 0, !.pc = pc]
\* The next try, or the end after the last.
Again(pc, last) ==
    mem' = IF mem.tries + 1 = MaxRetries THEN [mem EXCEPT !.pc = last, !.tries = @ + 1]
           ELSE [mem EXCEPT !.pc = pc, !.tries = @ + 1]

CancelForAll ==
    /\ At("cancel_all")
    /\ \/ Works /\ acct' = [acct EXCEPT !.orders = {}] /\ Tries("read_all")
       \/ /\ Faulty /\ UNCHANGED acct
          /\ mem' = IF mem.tries + 1 = MaxRetries THEN [mem EXCEPT !.pc = "read_all", !.tries = 0]
                    ELSE [mem EXCEPT !.tries = @ + 1]
    /\ UNCHANGED <<mode, session, journal, hurt>>

ReadForAll ==
    /\ At("read_all")
    /\ Goto(IF acct.pos = 0 THEN "done" ELSE "close_all")
    /\ UNCHANGED <<mode, acct, session, journal, faults, hurt>>

CloseForAll ==
    /\ At("close_all") /\ MarketClose(Flat, Goto("done"), Again("read_all", "done"))

----------------------------------------------------------------------------
Next ==
    \/ Start("boot") \/ Start("cancel_all") \/ Boot \/ Crash
    \/ \E sig \in {"none", "enter", "exit"}, hit \in BOOLEAN : Bar(sig, hit)
    \/ LocalStop \/ Exited \/ Tidy \/ Clear \/ Open \/ Enter \/ Arm \/ SignalExit
    \/ CancelForAll \/ ReadForAll \/ CloseForAll
    \/ \E o \in acct.orders : ServerFill(o, {})
    \/ ExternalClose({})
============================================================================
