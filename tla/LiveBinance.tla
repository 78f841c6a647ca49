---------------------------- MODULE LiveBinance ----------------------------
(***************************************************************************)
(* live/live_binance.py with exchanges/binance_adapter.py.  TP and SL are  *)
(* orders of their own: each is placed by itself and stands until it is    *)
(* canceled.  A restarted process resumes the position it finds.           *)
(***************************************************************************)
EXTENDS LiveAccount

CONSTANT Answers    \* "text": strategies answer strings; "signal": Signal objects

Legs == CASE mode = "server" -> {"tp", "sl"} [] mode = "hybrid" -> {"tp"} [] OTHER -> {"sl"}
Flat == [acct EXCEPT !.pos = 0]

Init == AccountInit /\ mode \in {"server", "local", "hybrid"}

----------------------------------------------------------------------------
(* Start.                                                                  *)

Boot == At("boot") /\ CancelAll(Goto("resume")) /\ UNCHANGED hurt

\* The position is read once for its size and once for its details; what
\* cannot be read is not resumed.
Resume ==
    /\ At("resume")
    /\ \/ Works /\ mem' = [mem EXCEPT !.prev = acct.pos, !.pc = IF acct.pos = 0 THEN "wait" ELSE "adopt"]
       \/ Faulty /\ mem' = [mem EXCEPT !.prev = acct.pos, !.pc = "wait"]
    /\ UNCHANGED <<mode, acct, session, journal, hurt>>

Adopt == At("adopt") /\ LogEntry("arm")

----------------------------------------------------------------------------
(* One bar.                                                                *)

\* sig == "enter": a Signal object equals no string.
Heard(sig) == IF Answers = "text" THEN sig ELSE "none"

\* Watchdog 1: the position is gone since the last bar.
Vanished == mem.cur # None /\ mem.prev # 0 /\ acct.pos = 0 /\ mode \in {"server", "hybrid"}

Decided(sig, hit) ==
    IF Vanished THEN "closed"
    ELSE IF mem.cur # None /\ mode \in {"local", "hybrid"} /\ hit THEN "stop"
    ELSE IF Heard(sig) = "enter" /\ acct.pos = 0 THEN "clear"
    ELSE IF Heard(sig) = "exit" /\ acct.pos # 0 THEN "close" ELSE "wait"

\* Every path of the bar ends with prev_pos = pos, the position read here.
Bar(sig, hit) ==
    /\ At("wait")
    /\ mem' = [mem EXCEPT !.sig = sig, !.seen = acct.pos, !.prev = acct.pos,
                          !.pc = Decided(sig, hit)]
    /\ UNCHANGED <<mode, acct, session, journal, faults, hurt>>

\* Watchdog 2: the local TP/SL.
LocalStop == At("stop") /\ MarketClose(Flat, Goto("closed"), Goto("wait"))

Tidy == At("tidy") /\ CancelAll(Goto("wait")) /\ UNCHANGED hurt

\* Mutant: the orders of the last trade are taken for canceled.
ClearNothing ==
    /\ At("clear") /\ Goto("open")
    /\ UNCHANGED <<mode, acct, session, journal, faults, hurt>>

Clear ==
    /\ At("clear") /\ CancelAll(Goto("open"))
    /\ hurt' = [hurt EXCEPT !.uncleared = acct'.orders # {}]

Open == At("open") /\ MarketOpen("opened", "wait")

Enter == At("opened") /\ LogEntry("arm")

\* set_tpsl: either order may fail by itself.
Arm ==
    /\ At("arm") /\ Goto("wait")
    /\ \/ Works /\ acct' = Armed(acct, Legs)
       \/ Faulty /\ \E legs \in SUBSET Legs \ {Legs} : acct' = Armed(acct, legs)
    /\ UNCHANGED <<mode, session, journal, hurt>>

\* _read_position_info before the close: what a trade the process does not
\* know is journaled with.
ReadInfo ==
    /\ At("close")
    /\ \/ Works /\ mem' = [mem EXCEPT !.info = acct.pos, !.pc = "exit"]
       \/ Faulty /\ mem' = [mem EXCEPT !.info = 0, !.pc = "exit"]
    /\ UNCHANGED <<mode, acct, session, journal, hurt>>

SignalExit ==
    At("exit") /\ MarketClose(Flat, Goto(IF mem.cur = None THEN "unknown" ELSE "closed"), Goto("wait"))

\* A trade nobody journaled gets its entry row now, if it could be read.
Unknown ==
    /\ At("unknown")
    /\ IF mem.info # 0 THEN LogEntry("closed")
       ELSE Goto("tidy") /\ UNCHANGED <<mode, acct, session, journal, faults, hurt>>

Exited == At("closed") /\ LogExit(mem.cur.id, "tidy")

----------------------------------------------------------------------------
Next ==
    \/ Start("boot") \/ Boot \/ Resume \/ Adopt \/ Crash
    \/ \E sig \in {"none", "enter", "exit"}, hit \in BOOLEAN : Bar(sig, hit)
    \/ LocalStop \/ Exited \/ Tidy \/ Clear \/ Open \/ Enter \/ Arm
    \/ ReadInfo \/ SignalExit \/ Unknown
    \/ \E o \in acct.orders : ServerFill(o, acct.orders \ {o})
    \/ ExternalClose(acct.orders)

============================================================================
