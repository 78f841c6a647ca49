----------------------------- MODULE LiveLoops -----------------------------
(***************************************************************************)
(* Either live loop, on the account and the journal both are written for.  *)
(***************************************************************************)
EXTENDS LiveAccount

CONSTANT Answers        \* "text" or "signal", as LiveBinance has it

ASSUME AnswersAssumption == Answers \in {"text", "signal"}

VARIABLE exchange

Bybit == INSTANCE LiveBybit
Binance == INSTANCE LiveBinance

Init ==
    \/ exchange = "bybit" /\ Bybit!Init
    \/ exchange = "binance" /\ Binance!Init

Next ==
    \/ exchange = "bybit" /\ Bybit!Next /\ UNCHANGED exchange
    \/ exchange = "binance" /\ Binance!Next /\ UNCHANGED exchange

Spec == Init /\ [][Next]_<<vars, exchange>>

\* Unless a call failed, the trade in memory has the protective orders of its
\* mode, across restarts.
ArmedUnlessFailed ==
    faults = 0 /\ At("wait") /\ mem.cur # None /\ acct.pos # 0 =>
        {o.leg : o \in acct.orders} = IF exchange = "bybit" THEN Bybit!Legs ELSE Binance!Legs

\* Close-All that did not use up its tries left the account flat.
CloseAllFlat ==
    [][mem'.pc = "done" /\ mem.pc # "done" /\ mem'.tries < Bybit!MaxRetries => acct'.pos = 0]_vars

\* An open position is behind the protective orders of its mode and behind no
\* others.
OrdersFitPosition == OwnOrdersOnly /\ ArmedUnlessFailed

\* Whatever a loop reports as closed is closed, and is the trade it names.
ExitsAreTrue == ExitClosesOwn /\ ExitIsFlat /\ CloseAllFlat

\* An entry signal of the strategy on a flat account is executed.
SignalExecuted ==
    [][At("wait") /\ mem' # mem /\ mem'.sig = "enter" /\ acct.pos = 0 /\ mem.cur = None
        => mem'.pc \in {"clear", "down"}]_vars
============================================================================
