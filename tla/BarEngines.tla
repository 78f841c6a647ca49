----------------------------- MODULE BarEngines -----------------------------
(***************************************************************************)
(* One strategy on two engines: the wrapper of engine/backtester.py on     *)
(* backtesting.py, with its risk gate, and engine/nautilus_adapter.py on   *)
(* Nautilus (zero latency, fills on the close).  Both see the same bars.   *)
(*                                                                         *)
(*   market  n, bar, phase: whose turn it is                               *)
(*   setup   kind of strategy, onClose, pyramid, limits: what main was     *)
(*           given                                                         *)
(*   legacy  algo, the account (cash, pos, order), wrap: the wrapper's     *)
(*           side and levels, risk, breach, report                         *)
(*   native  algo, pos, status                                             *)
(*   past    auxiliary: the equity of every bar, where limits are set      *)
(***************************************************************************)
EXTENDS BarStrategies, RiskLimits, Sequences

CONSTANTS
    MaxBars,        \* bound: bars delivered
    Cash,           \* cash of the account
    FirstPrice,     \* the first close
    LowPrice,       \* bound: closes are in LowPrice .. TopPrice
    TopPrice,
    Kinds           \* strategies that run

ASSUME EnginesAssumption ==
    /\ MaxBars \in Nat /\ Cash \in Nat /\ LowPrice \in Nat /\ TopPrice \in Nat
    /\ LowPrice > Reward /\ FirstPrice \in LowPrice .. TopPrice
    /\ Kinds \subseteq {"pullback", "reversion", "momentum", "buy_and_hold", "dca", "scripted"}

VARIABLES market, setup, legacy, native, past

barVars == <<market, setup, legacy, native, past>>

NoOrder == <<>>
Unwatched == [side |-> "flat", sl |-> 0, tp |-> 0]
NoLimits == [drawdown |-> 0, daily |-> 0, positions |-> -1]

----------------------------------------------------------------------------
(* The bars.                                                               *)

Higher(a, b) == IF a > b THEN a ELSE b
Lower(a, b) == IF a < b THEN a ELSE b

Plain(o, h, l, c) ==
    [o |-> o, h |-> h, l |-> l, c |-> c, setup |-> "flat", dot |-> FALSE, quiet |-> FALSE,
     gate |-> "both", lower |-> c - 1, upper |-> c + 1, cross |-> "none", does |-> "hold", to |-> "long"]

Closes(prev) == {c \in prev - 1 .. prev + 1 : c \in LowPrice .. TopPrice}

\* Of a bar that was decided on, only the close is needed.
Past(c) == Plain(c, c, c, c)

\* Bars whose shadows matter, and bars that are only a close.
Shaped(prev) ==
    {Plain(prev, Higher(prev, c) + up, Lower(prev, c) - down, c) : c \in Closes(prev), up, down \in 0 .. 1}
Bare(prev) == {Plain(prev, Higher(prev, c), Lower(prev, c), c) : c \in Closes(prev)}

\* What each strategy looks at beside prices.
Marked(b, side, dot, quiet) == [b EXCEPT !.setup = side, !.dot = dot, !.quiet = quiet]
Banded(b, x, y, gate) == [b EXCEPT !.lower = b.c - x, !.upper = b.c + y, !.gate = gate]
Crossed(b, x) == [b EXCEPT !.cross = x]
Told(b, x, side) == [b EXCEPT !.does = x, !.to = side]

PullbackBars(prev) ==
    {Marked(b, side, dot, quiet) :
        b \in Shaped(prev), side \in {"flat", "long", "short"}, dot \in BOOLEAN, quiet \in BOOLEAN}
ReversionBars(prev) ==
    {Banded(b, x, y, gate) :
        b \in Shaped(prev), x \in 0 .. 1, y \in 0 .. 1, gate \in {"long", "short", "both"}}
MomentumBars(prev) == {Crossed(b, x) : b \in Bare(prev), x \in {"none", "long", "short"}}
ScriptedBars(prev) == {Told(b, x, side) : b \in Bare(prev), x \in {"hold", "enter", "exit"}, side \in Sides}

BarsFor(kind, prev) ==
    CASE kind = "pullback" -> PullbackBars(prev)
      [] kind = "reversion" -> ReversionBars(prev)
      [] kind = "momentum" -> MomentumBars(prev)
      [] kind = "scripted" -> ScriptedBars(prev)
      [] OTHER -> Bare(prev)

----------------------------------------------------------------------------
(* The broker of backtesting.py.                                           *)

Equity(a, price) == a.cash + a.pos * price
Order(does, side, size, price) == [does |-> does, side |-> side, size |-> size, price |-> price]
Closed(a, price) == [a EXCEPT !.cash = Equity(a, price), !.pos = 0]

Lots(a, order, price) == IF order.size = 0 THEN Equity(a, price) \div price ELSE order.size
Affordable(a, lots, price) ==
    lots > 0 /\ lots * price <= Equity(a, price) - (IF a.pos < 0 THEN -a.pos ELSE a.pos) * price

\* An order that cannot be paid is dropped with a warning.
Bought(a, order, lots, price) ==
    IF Affordable(a, lots, price)
    THEN [a EXCEPT !.pos = @ + Dir(order.side) * lots, !.cash = @ - Dir(order.side) * lots * price,
                   !.order = NoOrder]
    ELSE [a EXCEPT !.order = NoOrder, !.dropped = TRUE]

\* exclusive_orders: an entry closes what is open first.
Filled(a, price) ==
    IF a.order.does = "exit" THEN [Closed(a, price) EXCEPT !.order = NoOrder]
    ELSE LET base == IF setup.pyramid THEN a ELSE Closed(a, price)
         IN  Bought(base, a.order, Lots(base, a.order, price), price)

----------------------------------------------------------------------------
(* The wrapper's next().                                                   *)

Position(a) == a.pos # 0

\* Levels of the signal: the stop may only come closer.
Informed(w, signal) ==
    [w EXCEPT !.sl = Tighter(w.side, @, signal.sl), !.tp = IF signal.tp # 0 THEN signal.tp ELSE @]

Leave(a) == [a EXCEPT !.order = Order("exit", "flat", 0, market.bar.c), !.wrap = Unwatched]
Enter(a, signal) == [a EXCEPT !.order = Order("enter", signal.side, signal.size, market.bar.c)]

Managed(a, signal) ==
    IF signal.action = "enter" /\ signal.side = a.wrap.side THEN Enter(a, signal)
    ELSE IF signal.action = "exit"
            \/ SameBarHit(a.wrap.side, a.wrap.sl, a.wrap.tp, market.bar, TpFirst(setup.kind)) # "none"
    THEN Leave(a) ELSE a

Acted(a, signal) ==
    IF Position(a) THEN Managed([a EXCEPT !.wrap = Informed(@, signal)], signal)
    ELSE IF signal.action = "enter"
    THEN Enter([a EXCEPT !.wrap = [side |-> signal.side, sl |-> signal.sl, tp |-> signal.tp]], signal)
    ELSE a

\* The risk gate comes before the strategy; its state begins with the first
\* bar the wrapper sees.
Guarded(a, equity) ==
    [a EXCEPT !.risk = IF a.risk = NoOrder THEN InitState(equity, market.n)
                       ELSE UpdateState(@, equity, market.n, IF Position(a) THEN 1 ELSE 0)]

Breached(a, kind) == [(IF Position(a) THEN Leave(a) ELSE a) EXCEPT !.breach = kind]

----------------------------------------------------------------------------
BarInit ==
    \E kind \in Kinds, onClose, pyramid \in BOOLEAN,
       limits \in {NoLimits, [NoLimits EXCEPT !.drawdown = 30, !.daily = 20], [NoLimits EXCEPT !.positions = 0]} :
        /\ pyramid => kind = "dca"
        /\ limits # NoLimits => kind \in {"scripted", "buy_and_hold"}
        /\ setup = [kind |-> kind, onClose |-> onClose, pyramid |-> pyramid, limits |-> limits]
        /\ market = [n |-> 1, bar |-> Past(FirstPrice), phase |-> "native"]
        /\ legacy = [algo |-> Fresh, cash |-> Cash, pos |-> 0, order |-> NoOrder, dropped |-> FALSE,
                     wrap |-> Unwatched, risk |-> NoOrder, breach |-> "none", report |-> NoOrder]
        /\ native = [algo |-> Fresh, pos |-> 0, cursor |-> 0,
                     status |-> IF pyramid THEN "refused" ELSE "running"]
        /\ past = [equity |-> <<>>]

\* The broker takes the next bar: a waiting order is filled, at the close it
\* was placed on or at this open.
NextBar ==
    /\ market.phase = "bar" /\ market.n < MaxBars /\ legacy.breach = "none"
    /\ \E bar \in BarsFor(setup.kind, market.bar.c) :
        /\ market' = [n |-> market.n + 1, bar |-> bar, phase |-> "legacy"]
        /\ legacy' = IF legacy.order = NoOrder THEN legacy
                     ELSE Filled(legacy, IF setup.onClose THEN legacy.order.price ELSE bar.o)
    /\ UNCHANGED <<setup, native, past>>

LegacyBar ==
    /\ market.phase = "legacy"
    /\ \E equity \in {Equity(legacy, market.bar.c)} :
       \E a \in {IF setup.limits = NoLimits THEN legacy ELSE Guarded(legacy, equity)} :
       \E kind \in {IF setup.limits = NoLimits THEN "none" ELSE CheckAll(a.risk, equity, setup.limits)} :
       \E answer \in {OnBar(setup.kind, a.algo, market.bar)} :
        /\ legacy' = IF kind # "none" THEN Breached(a, kind)
                     ELSE Acted([a EXCEPT !.algo = answer.memory], answer.signal)
        /\ past' = [equity |-> IF setup.limits = NoLimits THEN <<>> ELSE Append(past.equity, equity)]
    /\ market' = [market EXCEPT !.phase = "native"]
    /\ UNCHANGED <<setup, native>>

\* What Tier-1 does not support ends the native run.
Supported(signal) ==
    /\ signal.sl = 0 /\ signal.tp = 0
    /\ signal.action = "enter" => native.pos = 0 /\ signal.size > 0

Netted(pos, signal) ==
    CASE signal.action = "enter" -> Dir(signal.side) * signal.size
      [] signal.action = "exit" -> 0
      [] OTHER -> pos

\* Mutant: the first bar is no warm-up.
NativeBarEager ==
    /\ market.phase = "native"
    /\ \E answer \in {OnBar(setup.kind, native.algo, market.bar)} :
        native' = IF native.status # "running" THEN native
                  ELSE [algo |-> answer.memory, cursor |-> native.cursor + 1,
                        pos |-> Netted(native.pos, answer.signal),
                        status |-> IF Supported(answer.signal) THEN "running" ELSE "refused"]
    /\ market' = [market EXCEPT !.phase = "bar", !.bar = Past(market.bar.c)]
    /\ UNCHANGED <<setup, legacy, past>>

\* The first bar only moves the cursor, as backtesting.py starts at its second.
NativeBar ==
    /\ market.phase = "native"
    /\ \E answer \in {OnBar(setup.kind, native.algo, market.bar)} :
        native' = IF native.status # "running" THEN native
                  ELSE IF native.cursor = 0 THEN [native EXCEPT !.cursor = 1]
                  ELSE [algo |-> answer.memory, cursor |-> native.cursor + 1,
                        pos |-> Netted(native.pos, answer.signal),
                        status |-> IF Supported(answer.signal) THEN "running" ELSE "refused"]
    /\ market' = [market EXCEPT !.phase = "bar", !.bar = Past(market.bar.c)]
    /\ UNCHANGED <<setup, legacy, past>>

\* run_backtest: a breach leaves no result to report but itself.
Report ==
    /\ market.phase = "bar" /\ (market.n = MaxBars \/ legacy.breach # "none")
    /\ legacy' = [legacy EXCEPT !.report =
                    [breach |-> legacy.breach,
                     equity |-> IF legacy.breach = "none" THEN Equity(legacy, market.bar.c) ELSE Cash]]
    /\ market' = [market EXCEPT !.phase = "done"]
    /\ UNCHANGED <<setup, native, past>>

BarNext == NextBar \/ LegacyBar \/ NativeBar \/ Report

BarSpec == BarInit /\ [][BarNext]_barVars

----------------------------------------------------------------------------
(* Properties.                                                             *)

Decided == market.phase \in {"native", "bar"}
Target ==
    IF legacy.order = NoOrder
    THEN IF legacy.pos > 0 THEN "long" ELSE IF legacy.pos < 0 THEN "short" ELSE "flat"
    ELSE legacy.order.side

\* A strategy that keeps its own position believes what the broker will hold,
\* and the wrapper watches the levels the strategy watches, unless the broker
\* dropped an order.
StrategyKnowsPosition ==
    Decided /\ setup.kind \in {"pullback", "reversion"} /\ ~legacy.dropped =>
        /\ legacy.algo.side = Target /\ legacy.wrap.side = Target
        /\ Position(legacy) /\ legacy.order = NoOrder =>
            legacy.wrap.sl = legacy.algo.sl /\ legacy.wrap.tp = legacy.algo.tp

\* The limits by their definition, on the equity of every bar of the run.
BrokenAt(j) ==
    LET equity == past.equity
        today == {i \in 1 .. j : NormalizeDay(i + 1) = NormalizeDay(j + 1)}
        first == CHOOSE i \in today : \A k \in today : i <= k
    IN  \/ \E i \in 1 .. j : Lost(equity[i], equity[j], setup.limits.drawdown)
        \/ Lost(equity[first], equity[j], setup.limits.daily)

\* A run with loss limits halts at the first bar that breaks one by its
\* definition, and at no other.
HaltedAtFirstBreach ==
    Decided /\ past.equity # <<>> /\ setup.limits.positions < 0 =>
        /\ \A j \in 1 .. Len(past.equity) - 1 : ~BrokenAt(j)
        /\ legacy.breach # "none" <=> BrokenAt(Len(past.equity))

\* As long as the native engine accepts the strategy, it decides and holds
\* what the backtester does.
TierOneParity ==
    market.phase = "bar" /\ native.status = "running" /\ legacy.breach = "none" /\ ~legacy.dropped =>
        /\ native.algo = legacy.algo
        /\ native.pos = IF legacy.order = NoOrder THEN legacy.pos
                        ELSE Dir(legacy.order.side) * legacy.order.size
=============================================================================
