----------------------------- MODULE LiveProofs -----------------------------
(***************************************************************************)
(* Both live loops, whatever the exchange, the operator and the failures   *)
(* of single calls do, for any number of positions, faults and restarts:   *)
(* orders belong to the position they protect, exits are reported of the   *)
(* trade that was closed, and once.                                        *)
(***************************************************************************)
EXTENDS LiveLoops, SequenceTheorems, TLAPS

Steps ==
    {"down", "boot", "resume", "adopt", "wait", "stop", "closed", "tidy", "clear", "open", "opened",
     "arm", "close", "exit", "unknown", "cancel_all", "read_all", "close_all", "done"}
Orders == [leg : {"tp", "sl"}, of : Nat]
Trades == Nat \X Nat
Currents == [id : Trades, of : Nat]
JournalRows == [what : {"entry", "exit"}, trade : Trades \cup (Nat \X Nat \X {"x"}), closed : Nat]

Accounts == [pos : Nat, orders : SUBSET Orders, opened : Nat]
Memories ==
    [pc : Steps, sig : {"none", "enter", "exit"}, seen : Nat, prev : Nat, info : Nat,
     cur : Currents \cup {None}, seq : Nat, tries : Nat]
Hurts == [lost : BOOLEAN, uncleared : BOOLEAN]

TypeInv ==
    /\ exchange \in {"bybit", "binance"}
    /\ mode \in {"server", "local", "hybrid"}
    /\ acct \in Accounts /\ mem \in Memories /\ hurt \in Hurts
    /\ session \in Nat /\ faults \in Nat /\ journal \in Seq(JournalRows)

\* What a step of the loop may rely on: whether it has a trade, whether the
\* account is flat, how many tries are left; Close-All ends flat or without.
StepInv ==
    /\ At("down") \/ At("boot") \/ At("resume") \/ At("adopt") \/ At("tidy") \/ At("unknown") => mem.cur = None
    /\ At("stop") => mem.cur # None
    /\ exchange = "binance" /\ At("closed") => mem.cur # None
    /\ At("clear") \/ At("open") \/ At("closed") \/ At("unknown") => acct.pos = 0
    /\ At("cancel_all") \/ At("read_all") \/ At("close_all") => mem.tries < Bybit!MaxRetries
    /\ At("done") /\ mem.tries < Bybit!MaxRetries => acct.pos = 0

\* On Bybit protective orders end with their position; an entry that was
\* cleared finds none.
OrderInv ==
    /\ exchange = "bybit" => /\ acct.pos = 0 \/ mode = "local" => acct.orders = {}
                             /\ mode # "hybrid"
    /\ OwnOrdersOnly
    /\ At("open") /\ ~hurt.uncleared => acct.orders = {}

\* Without faults an entry finds no orders, and arms what it opened.
LegsOf == IF exchange = "bybit" THEN Bybit!Legs ELSE Binance!Legs
ArmInv ==
    faults = 0 =>
        /\ At("open") \/ At("opened") \/ At("arm") \/ At("resume") \/ At("adopt") => acct.orders = {}
        /\ At("wait") /\ mem.cur # None /\ acct.pos # 0 => {o.leg : o \in acct.orders} = LegsOf

\* The trade in memory is the last position opened, but for the moment
\* between an entry and its journal row.
OwnInv == ~hurt.lost /\ mem.cur # None /\ ~At("opened") => mem.cur.of = acct.opened

\* Numbers of trades grow; the trade in memory has no exit yet.  s is the
\* number of the session, q of its last trade, pc where it is.
Given(t, s, q, pc) == t[1] < s \/ (t[1] = s /\ (pc = "down" \/ t[2] <= q))
InOrder(j, cur, s, q, pc) ==
    /\ \A i \in DOMAIN j :
        /\ j[i].what = "entry" => j[i].trade \in Trades
        /\ j[i].trade \in Trades => Given(j[i].trade, s, q, pc)
    /\ cur # None =>
        /\ Given(cur.id, s, q, pc)
        /\ \A i \in DOMAIN j : j[i].what = "exit" => j[i].trade # cur.id
    /\ \A i, k \in DOMAIN j :
        i # k /\ j[i].what = "exit" /\ j[k].what = "exit" /\ j[i].trade \in Trades
            => j[i].trade # j[k].trade
JournalInv == InOrder(journal, mem.cur, session, mem.seq, mem.pc)

CoreInv == TypeInv /\ StepInv /\ OrderInv /\ ArmInv /\ OwnInv
LiveInv == CoreInv /\ JournalInv

\* An absent trade is none.
LEMMA NoneIs == ASSUME NEW c \in Currents PROVE c # None
BY DEF Currents, None

----------------------------------------------------------------------------
(* What each kind of update leaves and changes.                            *)

\* The memory after an entry was journaled.
LEMMA EntryKept ==
    ASSUME TypeInv, NEW p \in Steps, NEW c \in Currents,
           mem' = [mem EXCEPT !.seq = @ + 1, !.cur = c, !.pc = p]
    PROVE  mem' \in Memories /\ mem'.pc = p /\ mem'.cur = c /\ mem'.seq = mem.seq + 1 /\ mem'.tries = mem.tries
<1> DEFINE q == mem.seq + 1
<1>1. q \in Nat /\ mem' = [mem EXCEPT !.seq = q, !.cur = c, !.pc = p]
  BY DEF Memories, TypeInv
<1> HIDE DEF q
<1>2. mem' \in Memories /\ mem'.pc = p /\ mem'.cur = c /\ mem'.seq = q /\ mem'.tries = mem.tries
  BY <1>1 DEF Memories, TypeInv
<1> QED
  BY <1>2 DEF q

\* The memory after a try of Close-All, and after a read of the position.
LEMMA Counted ==
    ASSUME TypeInv, NEW p \in Steps, NEW k \in Nat,
           \/ mem' = [mem EXCEPT !.tries = k, !.pc = p]
           \/ mem' = [mem EXCEPT !.pc = p, !.tries = k]
           \/ mem' = [mem EXCEPT !.tries = k] /\ p = mem.pc
    PROVE  mem' \in Memories /\ mem'.pc = p /\ mem'.cur = mem.cur /\ mem'.seq = mem.seq /\ mem'.tries = k
BY DEF Memories, TypeInv

\* The memory after the read that an exit is reported from.
LEMMA Noted ==
    ASSUME TypeInv, NEW i \in Nat, mem' = [mem EXCEPT !.info = i, !.pc = "exit"]
    PROVE  mem' \in Memories /\ mem'.pc = "exit" /\ mem'.cur = mem.cur /\ mem'.seq = mem.seq
BY DEF Memories, TypeInv, Steps

\* The account after an entry: a new position, its orders as they were.
LEMMA OpenedIs ==
    ASSUME NEW a \in Accounts
    PROVE  /\ Opened(a) \in Accounts /\ Opened(a).pos = a.opened + 1
           /\ Opened(a).opened = a.opened + 1 /\ Opened(a).orders = a.orders
<1> DEFINE k == a.opened + 1
           n == Opened(a)
<1>1. k \in Nat /\ n = [a EXCEPT !.pos = k, !.opened = k]
  BY DEF Opened, Accounts
<1> HIDE DEF k, n
<1>2. n \in Accounts /\ n.pos = k /\ n.opened = k /\ n.orders = a.orders
  BY <1>1 DEF Accounts
<1> QED
  BY <1>2 DEF k, n

\* What is remembered of failures, after one of them.
LEMMA Harmed ==
    ASSUME NEW h \in Hurts, NEW b \in BOOLEAN, NEW n
    PROVE  /\ n = [h EXCEPT !.lost = b] => n \in Hurts /\ n.lost = b /\ n.uncleared = h.uncleared
           /\ n = [h EXCEPT !.uncleared = b] => n \in Hurts /\ n.lost = h.lost /\ n.uncleared = b
BY DEF Hurts

----------------------------------------------------------------------------
(* The journal.                                                            *)

\* A step without a row keeps the journal in order.
LEMMA NoRow ==
    ASSUME NEW j \in Seq(JournalRows), NEW cur \in Currents \cup {None}, NEW new \in {cur, None},
           NEW s \in Nat, NEW q \in Nat, NEW pc,
           NEW s2 \in Nat, NEW q2 \in Nat, NEW pc2,
           s2 = s \/ s2 = s + 1, s2 = s => pc2 = "down" \/ (pc # "down" /\ q2 = q),
           InOrder(j, cur, s, q, pc)
    PROVE  InOrder(j, new, s2, q2, pc2)
<1>1. ASSUME NEW t \in Trades, Given(t, s, q, pc) PROVE Given(t, s2, q2, pc2)
  BY <1>1 DEF Given, Trades
<1>2. new # None => new = cur /\ cur.id \in Trades
  BY DEF Currents
<1> QED
  BY <1>1, <1>2 DEF InOrder

\* What an exit without a trade is journaled as is the number of no trade.
LEMMA Nameless == ASSUME NEW id \in Nat \X Nat \X {"x"} PROVE id \notin Trades
<1>1. DOMAIN id = 1 .. 3
  OBVIOUS
<1>2. ASSUME id \in Trades PROVE DOMAIN id = 1 .. 2
  BY <1>2 DEF Trades
<1> QED
  BY <1>1, <1>2

\* A new row, by position.
LEMMA RowIs ==
    ASSUME NEW j \in Seq(JournalRows), NEW r \in JournalRows, NEW new, new = Append(j, r)
    PROVE  /\ new \in Seq(JournalRows)
           /\ DOMAIN new = DOMAIN j \cup {Len(j) + 1} /\ Len(new) = Len(j) + 1
           /\ Len(j) + 1 \notin DOMAIN j
           /\ new[Len(j) + 1] = r
           /\ \A i \in DOMAIN j : new[i] = j[i]
OBVIOUS

\* Rows have their type.
LEMMA EntryTyped ==
    ASSUME TypeInv, journal' = Append(journal, Row("entry", <<session, mem.seq + 1>>, 0))
    PROVE  journal' \in Seq(JournalRows)
<1>1. Row("entry", <<session, mem.seq + 1>>, 0) \in JournalRows
  BY DEF TypeInv, Memories, Row, JournalRows, Trades
<1> QED
  BY <1>1 DEF TypeInv

\* The journal after a row for an exit.
LEMMA ExitTyped ==
    ASSUME TypeInv, NEW id,
           journal' = Append(journal, Row("exit", id, acct.opened)),
           (mem.cur # None /\ id = mem.cur.id) \/ id = <<session, mem.seq, "x">>
    PROVE  journal' \in Seq(JournalRows)
<1>1. id \in Trades \cup (Nat \X Nat \X {"x"})
  BY DEF TypeInv, Memories, Currents
<1>2. Row("exit", id, acct.opened) \in JournalRows
  BY <1>1 DEF TypeInv, Accounts, Row, JournalRows
<1> QED
  BY <1>2 DEF TypeInv

\* What arming adds are orders of the position, with the legs it is given.
LEMMA ArmedTyped ==
    ASSUME NEW a \in Accounts, NEW legs \in SUBSET {"tp", "sl"}
    PROVE  /\ a.orders \cup [leg : legs, of : {a.pos} \ {0}] \in SUBSET Orders
           /\ \A o \in [leg : legs, of : {a.pos} \ {0}] : o.of = a.pos
           /\ a.pos = 0 \/ legs = {} => [leg : legs, of : {a.pos} \ {0}] = {}
BY DEF Accounts, Orders

\* Arming a position gives it every leg asked for.
LEMMA LegsArmed ==
    ASSUME NEW legs, NEW p \in Nat \ {0}
    PROVE  {o.leg : o \in [leg : legs, of : {p} \ {0}]} = legs
<1>1. ASSUME NEW l \in legs PROVE l \in {o.leg : o \in [leg : legs, of : {p} \ {0}]}
  <2>1. [leg |-> l, of |-> p] \in [leg : legs, of : {p} \ {0}] /\ [leg |-> l, of |-> p].leg = l
    OBVIOUS
  <2> QED
    BY <2>1
<1>2. ASSUME NEW o \in [leg : legs, of : {p} \ {0}] PROVE o.leg \in legs
  OBVIOUS
<1> QED
  BY <1>1, <1>2

\* An entry has a number of its own.
LEMMA EntryRow ==
    ASSUME NEW j \in Seq(JournalRows), NEW cur \in Currents \cup {None}, NEW n \in Nat,
           NEW s \in Nat, NEW q \in Nat, NEW pc, NEW new_pc, pc # "down", InOrder(j, cur, s, q, pc)
    PROVE  InOrder(Append(j, Row("entry", <<s, q + 1>>, 0)), [id |-> <<s, q + 1>>, of |-> n],
                   s, q + 1, new_pc)
<1> DEFINE t == <<s, q + 1>>
           r == Row("entry", t, 0)
           c == [id |-> t, of |-> n]
           new == Append(j, r)
           k == Len(j) + 1
<1>1. t \in Trades /\ t[1] = s /\ t[2] = q + 1
  BY DEF Trades
<1> HIDE DEF t
<1>2. r \in JournalRows /\ r.what = "entry" /\ r.trade = t
  BY <1>1 DEF Row, JournalRows
<1>3. c \in Currents /\ c.id = t
  BY <1>1 DEF Currents
<1>4. ASSUME NEW u \in Trades, Given(u, s, q, pc) PROVE u # t /\ Given(u, s, q + 1, new_pc)
  BY <1>1, <1>4 DEF Given, Trades
<1>5. Given(t, s, q + 1, new_pc)
  BY <1>1 DEF Given
<1>6. \A i \in DOMAIN j : j[i].trade # t
  BY <1>1, <1>4 DEF InOrder
<1> HIDE DEF r, c
<1>7. /\ DOMAIN new = DOMAIN j \cup {k} /\ k \notin DOMAIN j
      /\ new[k] = r /\ \A i \in DOMAIN j : new[i] = j[i]
  BY <1>2, RowIs
<1> HIDE DEF new, k
<1>8. \A i \in DOMAIN new :
        /\ new[i].what = "entry" => new[i].trade \in Trades
        /\ new[i].trade \in Trades => Given(new[i].trade, s, q + 1, new_pc)
  BY <1>1, <1>2, <1>4, <1>5, <1>7 DEF InOrder
<1>9. \A i \in DOMAIN new : new[i].what = "exit" => i \in DOMAIN j /\ new[i] = j[i]
  BY <1>2, <1>7
<1>10. InOrder(new, c, s, q + 1, new_pc)
  BY <1>3, <1>5, <1>6, <1>8, <1>9 DEF InOrder
<1> QED
  BY <1>10 DEF new, r, c, t

\* An exit is the only one of the trade that was in memory.
LEMMA ExitRow ==
    ASSUME NEW j \in Seq(JournalRows), NEW cur \in Currents \cup {None}, NEW n \in Nat,
           NEW s \in Nat, NEW q \in Nat, NEW pc, NEW new_pc, pc # "down", InOrder(j, cur, s, q, pc), NEW id,
           \/ cur # None /\ id = cur.id
           \/ id \in Nat \X Nat \X {"x"}
    PROVE  InOrder(Append(j, Row("exit", id, n)), None, s, q, new_pc)
<1> DEFINE r == Row("exit", id, n)
           new == Append(j, r)
           k == Len(j) + 1
<1>1. id \in Trades => cur # None /\ id = cur.id
  BY Nameless
<1>2. id \in Trades \cup (Nat \X Nat \X {"x"})
  BY DEF Currents
<1>3. r \in JournalRows /\ r.what = "exit" /\ r.trade = id
  BY <1>2 DEF Row, JournalRows
<1> HIDE DEF r
<1>4. /\ DOMAIN new = DOMAIN j \cup {k} /\ k \notin DOMAIN j
      /\ new[k] = r /\ \A i \in DOMAIN j : new[i] = j[i]
  BY <1>3, RowIs
<1> HIDE DEF new, k
<1>5. \A i \in DOMAIN new :
        /\ new[i].what = "entry" => new[i].trade \in Trades
        /\ new[i].trade \in Trades => Given(new[i].trade, s, q, new_pc)
  BY <1>1, <1>3, <1>4 DEF InOrder, Given
<1>6. ASSUME NEW i \in DOMAIN new, NEW m \in DOMAIN new, i # m,
             new[i].what = "exit", new[m].what = "exit", new[i].trade \in Trades
      PROVE  new[i].trade # new[m].trade
  <2>1. ASSUME NEW x \in DOMAIN j, new[x].what = "exit", id \in Trades PROVE new[x].trade # id
    BY <1>1, <1>4, <2>1 DEF InOrder
  <2>2. CASE i = k
    BY <1>3, <1>4, <1>6, <2>1, <2>2
  <2>3. CASE m = k
    BY <1>3, <1>4, <1>6, <2>1, <2>3
  <2>4. CASE i # k /\ m # k
    <3>1. i \in DOMAIN j /\ m \in DOMAIN j /\ new[i] = j[i] /\ new[m] = j[m]
      BY <1>4, <2>4
    <3> QED
      BY <1>6, <3>1 DEF InOrder
  <2> QED
    BY <2>2, <2>3, <2>4
<1>7. InOrder(new, None, s, q, new_pc)
  BY <1>5, <1>6 DEF InOrder
<1> QED
  BY <1>7 DEF new, r

\* A process starts with nothing in memory.
LEMMA BybitStartSafe ==
    ASSUME CoreInv, exchange = "bybit", UNCHANGED exchange, NEW pc \in {"boot", "cancel_all"}, Bybit!Start(pc)
    PROVE  CoreInv'
<1> USE DEF CoreInv
<1>1. /\ mem.pc = "down" /\ mem' \in Memories /\ mem'.pc = pc
      /\ mem'.cur = None /\ mem'.tries = 0
      /\ session' = session + 1 /\ UNCHANGED <<mode, acct, journal, faults, hurt>>
  BY DEF Memories, Accounts, Bybit!Start, Bybit!Memory, Memory, Bybit!None, None, Bybit!At, Steps
<1>2. TypeInv'
  BY <1>1 DEF TypeInv
<1>3. StepInv'
  BY <1>1, NoneIs DEF StepInv, TypeInv, At, Bybit!MaxRetries
<1>4. OrderInv'
  BY <1>1 DEF OrderInv, StepInv, TypeInv, At, OwnOrdersOnly
<1>5. ArmInv'
  BY <1>1 DEF ArmInv, OrderInv, StepInv, TypeInv, LegsOf, Bybit!Legs, Binance!Legs, At
<1>6. OwnInv'
  BY <1>1, NoneIs DEF OwnInv, StepInv, TypeInv, At
<1> QED
  BY <1>2, <1>3, <1>4, <1>5, <1>6

\* A crash forgets the trade.
LEMMA BybitCrashSafe ==
    ASSUME CoreInv, exchange = "bybit", UNCHANGED exchange, Bybit!Crash
    PROVE  CoreInv'
<1> USE DEF CoreInv
<1>1. mem' = Memory /\ UNCHANGED <<mode, acct, session, journal, faults, hurt>>
  BY DEF Bybit!Crash, Bybit!Memory, Memory, Bybit!None, None
<1>2. mem' \in Memories /\ mem'.pc = "down" /\ mem'.cur = None
  BY <1>1 DEF Memory, Memories, Steps
<1>3. TypeInv'
  BY <1>1, <1>2 DEF TypeInv
<1>4. StepInv'
  BY <1>1, <1>2, NoneIs DEF StepInv, TypeInv, At, Bybit!MaxRetries
<1>5. OrderInv'
  BY <1>1, <1>2 DEF OrderInv, StepInv, TypeInv, At, OwnOrdersOnly
<1>6. ArmInv'
  BY <1>1, <1>2 DEF ArmInv, OrderInv, StepInv, TypeInv, LegsOf, Bybit!Legs, Binance!Legs, At
<1>7. OwnInv'
  BY <1>1, <1>2, NoneIs DEF OwnInv, StepInv, TypeInv, At
<1> QED
  BY <1>3, <1>4, <1>5, <1>6, <1>7

\* Start: the orders of the last process are canceled.
LEMMA BybitBootSafe ==
    ASSUME CoreInv, exchange = "bybit", UNCHANGED exchange, Bybit!Boot
    PROVE  CoreInv'
<1> USE DEF CoreInv
<1>1. /\ mem.pc = "boot" /\ mem' \in Memories /\ mem'.pc = "wait"
      /\ mem'.cur = mem.cur /\ mem'.tries = mem.tries
      /\ UNCHANGED <<mode, session, journal, hurt>>
  BY DEF Memories, Accounts, TypeInv, Steps, Bybit!Boot, Bybit!CancelAll, Bybit!Goto, Bybit!At
<1>2. /\ acct' \in Accounts /\ acct'.pos = acct.pos /\ acct'.opened = acct.opened
      /\ faults' \in {faults, faults + 1}
      /\ (acct'.orders = {} \/ (acct'.orders = acct.orders /\ faults' = faults + 1))
  BY DEF Memories, Accounts, TypeInv, Bybit!Boot, Bybit!CancelAll, Bybit!Works, Bybit!Faulty
<1>3. TypeInv'
  BY <1>1, <1>2 DEF TypeInv
<1>4. StepInv'
  BY <1>1, <1>2, NoneIs DEF StepInv, TypeInv, At, Bybit!MaxRetries
<1>5. OrderInv'
  BY <1>1, <1>2 DEF OrderInv, StepInv, TypeInv, At, OwnOrdersOnly
<1>6. ArmInv'
  BY <1>1, <1>2 DEF ArmInv, OrderInv, StepInv, TypeInv, LegsOf, Bybit!Legs, Binance!Legs, At
<1>7. OwnInv'
  BY <1>1, <1>2, NoneIs DEF OwnInv, StepInv, TypeInv, At
<1> QED
  BY <1>3, <1>4, <1>5, <1>6, <1>7

\* A bar decides what the account allows.
LEMMA BybitBarSafe ==
    ASSUME CoreInv, exchange = "bybit", UNCHANGED exchange, NEW sig \in {"none", "enter", "exit"},
        NEW hit \in BOOLEAN, Bybit!Bar(sig, hit)
    PROVE  CoreInv'
<1> USE DEF CoreInv
<1>1. UNCHANGED <<mode, acct, session, journal, faults, hurt>>
  BY DEF Bybit!Bar
<1>2. /\ Bybit!Decided(sig, hit) \in {"stop", "clear", "close", "wait"}
      /\ Bybit!Decided(sig, hit) \in {"stop", "closed"} => mem.cur # None
      /\ Bybit!Decided(sig, hit) \in {"clear", "closed"} => acct.pos = 0
  BY DEF Bybit!Decided, Bybit!None, None
<1>3. /\ mem.pc = "wait" /\ mem' \in Memories /\ mem'.pc = Bybit!Decided(sig, hit)
      /\ mem'.cur = mem.cur /\ mem'.tries = mem.tries
  BY <1>2 DEF Memories, TypeInv, Accounts, Steps, Bybit!Bar, Bybit!At
<1>4. TypeInv'
  BY <1>1, <1>2, <1>3 DEF TypeInv
<1>5. StepInv'
  BY <1>1, <1>2, <1>3, NoneIs DEF StepInv, TypeInv, At, Bybit!MaxRetries
<1>6. OrderInv'
  BY <1>1, <1>2, <1>3 DEF OrderInv, StepInv, TypeInv, At, OwnOrdersOnly
<1>7. ArmInv'
  BY <1>1, <1>2, <1>3 DEF ArmInv, OrderInv, StepInv, TypeInv, LegsOf, Bybit!Legs, Binance!Legs, At
<1>8. OwnInv'
  BY <1>1, <1>2, <1>3, NoneIs DEF OwnInv, StepInv, TypeInv, At
<1> QED
  BY <1>4, <1>5, <1>6, <1>7, <1>8

\* The local stop closes the position or fails.
LEMMA BybitLocalStopSafe ==
    ASSUME CoreInv, exchange = "bybit", UNCHANGED exchange, Bybit!LocalStop
    PROVE  CoreInv'
<1> USE DEF CoreInv
<1>1. /\ mem.pc = "stop" /\ UNCHANGED <<mode, session, journal>> /\ faults' \in {faults, faults + 1}
      /\ (acct' = acct \/ acct' = Bybit!Flat)
  BY DEF TypeInv, Bybit!LocalStop, Bybit!MarketClose, Bybit!Works, Bybit!Faulty, Bybit!At
<1>2. /\ Bybit!Flat \in Accounts /\ Bybit!Flat.pos = 0 /\ Bybit!Flat.opened = acct.opened
      /\ Bybit!Flat.orders = {}
  BY DEF TypeInv, Accounts, Bybit!Flat
<1>3. /\ acct' \in Accounts /\ acct'.opened = acct.opened
      /\ (acct' = acct \/ (acct'.pos = 0 /\ acct'.orders = {}))
  BY <1>1, <1>2 DEF TypeInv
<1>4. (hurt.lost \/ acct' # acct) \in BOOLEAN
  OBVIOUS
<1>5. /\ hurt' \in Hurts /\ hurt'.uncleared = hurt.uncleared
      /\ hurt.lost => hurt'.lost
  BY <1>4, Harmed DEF TypeInv, Hurts, Bybit!LocalStop, Bybit!MarketClose
<1>6. /\ mem' \in Memories /\ mem'.cur = mem.cur
      /\ \/ mem'.pc = "closed" /\ acct'.pos = 0
         \/ mem'.pc = "wait" /\ (acct'.pos = 0 \/ faults' = faults + 1)
  BY <1>2 DEF TypeInv, Steps, Memories, Bybit!LocalStop, Bybit!MarketClose, Bybit!Goto, Bybit!Works,
     Bybit!Faulty
<1>7. TypeInv'
  BY <1>1, <1>2, <1>3, <1>5, <1>6 DEF TypeInv
<1>8. StepInv'
  BY <1>1, <1>2, <1>3, <1>5, <1>6, NoneIs DEF StepInv, TypeInv, At, Bybit!MaxRetries
<1>9. OrderInv'
  BY <1>1, <1>2, <1>3, <1>5, <1>6 DEF OrderInv, StepInv, TypeInv, At, OwnOrdersOnly
<1>10. ArmInv'
  BY <1>1, <1>2, <1>3, <1>5, <1>6 DEF ArmInv, OrderInv, StepInv, TypeInv, LegsOf, Bybit!Legs, Binance!Legs, At
<1>11. OwnInv'
  BY <1>1, <1>2, <1>3, <1>5, <1>6, NoneIs DEF OwnInv, StepInv, TypeInv, At
<1> QED
  BY <1>7, <1>8, <1>9, <1>10, <1>11

\* The exit of a signal closes the position or fails.
LEMMA BybitSignalExitSafe ==
    ASSUME CoreInv, exchange = "bybit", UNCHANGED exchange, Bybit!SignalExit
    PROVE  CoreInv'
<1> USE DEF CoreInv
<1>1. /\ mem.pc = "close" /\ UNCHANGED <<mode, session, journal>> /\ faults' \in {faults, faults + 1}
      /\ (acct' = acct \/ acct' = Bybit!Flat)
  BY DEF TypeInv, Bybit!SignalExit, Bybit!MarketClose, Bybit!Works, Bybit!Faulty, Bybit!At
<1>2. /\ Bybit!Flat \in Accounts /\ Bybit!Flat.pos = 0 /\ Bybit!Flat.opened = acct.opened
      /\ Bybit!Flat.orders = {}
  BY DEF TypeInv, Accounts, Bybit!Flat
<1>3. /\ acct' \in Accounts /\ acct'.opened = acct.opened
      /\ (acct' = acct \/ (acct'.pos = 0 /\ acct'.orders = {}))
  BY <1>1, <1>2 DEF TypeInv
<1>4. (hurt.lost \/ acct' # acct) \in BOOLEAN
  OBVIOUS
<1>5. /\ hurt' \in Hurts /\ hurt'.uncleared = hurt.uncleared
      /\ hurt.lost => hurt'.lost
  BY <1>4, Harmed DEF TypeInv, Hurts, Bybit!SignalExit, Bybit!MarketClose
<1>6. /\ mem' \in Memories /\ mem'.cur = mem.cur
      /\ \/ mem'.pc = "closed" /\ acct'.pos = 0
         \/ mem'.pc = "wait" /\ (acct'.pos = 0 \/ faults' = faults + 1)
  BY <1>2 DEF TypeInv, Steps, Memories, Bybit!SignalExit, Bybit!MarketClose, Bybit!Goto, Bybit!Works,
     Bybit!Faulty
<1>7. TypeInv'
  BY <1>1, <1>2, <1>3, <1>5, <1>6 DEF TypeInv
<1>8. StepInv'
  BY <1>1, <1>2, <1>3, <1>5, <1>6, NoneIs DEF StepInv, TypeInv, At, Bybit!MaxRetries
<1>9. OrderInv'
  BY <1>1, <1>2, <1>3, <1>5, <1>6 DEF OrderInv, StepInv, TypeInv, At, OwnOrdersOnly
<1>10. ArmInv'
  BY <1>1, <1>2, <1>3, <1>5, <1>6 DEF ArmInv, OrderInv, StepInv, TypeInv, LegsOf, Bybit!Legs, Binance!Legs, At
<1>11. OwnInv'
  BY <1>1, <1>2, <1>3, <1>5, <1>6, NoneIs DEF OwnInv, StepInv, TypeInv, At
<1> QED
  BY <1>7, <1>8, <1>9, <1>10, <1>11

\* One try of Close-All.
LEMMA BybitCloseForAllSafe ==
    ASSUME CoreInv, exchange = "bybit", UNCHANGED exchange, Bybit!CloseForAll
    PROVE  CoreInv'
<1> USE DEF CoreInv
<1>1. /\ mem.pc = "close_all" /\ UNCHANGED <<mode, session, journal>> /\ faults' \in {faults, faults + 1}
      /\ (acct' = acct \/ acct' = Bybit!Flat)
  BY DEF TypeInv, Bybit!CloseForAll, Bybit!MarketClose, Bybit!Works, Bybit!Faulty, Bybit!At
<1>2. /\ Bybit!Flat \in Accounts /\ Bybit!Flat.pos = 0 /\ Bybit!Flat.opened = acct.opened
      /\ Bybit!Flat.orders = {}
  BY DEF TypeInv, Accounts, Bybit!Flat
<1>3. /\ acct' \in Accounts /\ acct'.opened = acct.opened
      /\ (acct' = acct \/ (acct'.pos = 0 /\ acct'.orders = {}))
  BY <1>1, <1>2 DEF TypeInv
<1>4. (hurt.lost \/ acct' # acct) \in BOOLEAN
  OBVIOUS
<1>5. /\ hurt' \in Hurts /\ hurt'.uncleared = hurt.uncleared
      /\ hurt.lost => hurt'.lost
  BY <1>4, Harmed DEF TypeInv, Hurts, Bybit!CloseForAll, Bybit!MarketClose
<1>6. \/ mem' = [mem EXCEPT !.pc = "done"] /\ acct' = Bybit!Flat
      \/ mem.tries + 1 = 3 /\ mem' = [mem EXCEPT !.pc = "done", !.tries = mem.tries + 1]
      \/ mem.tries + 1 # 3 /\ mem' = [mem EXCEPT !.pc = "read_all", !.tries = mem.tries + 1]
  BY DEF Bybit!CloseForAll, Bybit!MarketClose, Bybit!Goto, Bybit!Again, Bybit!MaxRetries
<1>7. /\ mem.tries + 1 \in Nat /\ mem.tries \in Nat
      /\ mem' = [mem EXCEPT !.pc = "done"] => mem' \in Memories /\ mem'.pc = "done" /\ mem'.cur = mem.cur
  BY DEF TypeInv, Memories, Steps
<1>8. /\ mem' \in Memories /\ mem'.cur = mem.cur /\ mem.tries \in Nat
      /\ \/ mem'.pc = "done" /\ (acct'.pos = 0 \/ mem'.tries = 3)
         \/ mem'.pc = "read_all" /\ mem'.tries = mem.tries + 1 /\ mem'.tries # 3
  BY <1>2, <1>6, <1>7, Counted DEF Steps
<1>9. TypeInv'
  BY <1>1, <1>2, <1>3, <1>5, <1>6, <1>8 DEF TypeInv
<1>10. StepInv'
  BY <1>1, <1>2, <1>3, <1>5, <1>6, <1>8, NoneIs DEF StepInv, TypeInv, At, Bybit!MaxRetries
<1>11. OrderInv'
  BY <1>1, <1>2, <1>3, <1>5, <1>6, <1>8 DEF OrderInv, StepInv, TypeInv, At, OwnOrdersOnly
<1>12. ArmInv'
  BY <1>1, <1>2, <1>3, <1>5, <1>6, <1>8 DEF ArmInv, OrderInv, StepInv, TypeInv, LegsOf, Bybit!Legs,
     Binance!Legs, At
<1>13. OwnInv'
  BY <1>1, <1>2, <1>3, <1>5, <1>6, <1>8, NoneIs DEF OwnInv, StepInv, TypeInv, At
<1> QED
  BY <1>9, <1>10, <1>11, <1>12, <1>13

\* An exit is journaled and the trade forgotten.
LEMMA BybitExitedSafe ==
    ASSUME CoreInv, exchange = "bybit", UNCHANGED exchange, Bybit!Exited
    PROVE  CoreInv'
<1> USE DEF CoreInv
<1>1. /\ mem.pc = "closed" /\ mem' \in Memories /\ mem'.pc = "tidy"
      /\ mem'.cur = None /\ mem'.tries = mem.tries
      /\ UNCHANGED <<mode, acct, session, faults, hurt>>
  BY DEF Memories, Accounts, TypeInv, Steps, Bybit!Exited, Bybit!LogExit, Bybit!None, None, Bybit!At
<1>2. journal' \in Seq(JournalRows)
  BY ExitTyped DEF TypeInv, StepInv, At, Bybit!Exited, Bybit!LogExit, Bybit!Row, Row, Bybit!None, None,
     Bybit!At
<1>3. TypeInv'
  BY <1>1, <1>2 DEF TypeInv
<1>4. StepInv'
  BY <1>1, <1>2, NoneIs DEF StepInv, TypeInv, At, Bybit!MaxRetries
<1>5. OrderInv'
  BY <1>1, <1>2 DEF OrderInv, StepInv, TypeInv, At, OwnOrdersOnly
<1>6. ArmInv'
  BY <1>1, <1>2 DEF ArmInv, OrderInv, StepInv, TypeInv, LegsOf, Bybit!Legs, Binance!Legs, At
<1>7. OwnInv'
  BY <1>1, <1>2, NoneIs DEF OwnInv, StepInv, TypeInv, At
<1> QED
  BY <1>3, <1>4, <1>5, <1>6, <1>7

\* After an exit the orders are canceled.
LEMMA BybitTidySafe ==
    ASSUME CoreInv, exchange = "bybit", UNCHANGED exchange, Bybit!Tidy
    PROVE  CoreInv'
<1> USE DEF CoreInv
<1>1. /\ mem.pc = "tidy" /\ mem' \in Memories /\ mem'.pc = "wait"
      /\ mem'.cur = mem.cur /\ mem'.tries = mem.tries
      /\ UNCHANGED <<mode, session, journal, hurt>>
  BY DEF Memories, Accounts, TypeInv, Steps, Bybit!Tidy, Bybit!CancelAll, Bybit!Goto, Bybit!At
<1>2. /\ acct' \in Accounts /\ acct'.pos = acct.pos /\ acct'.opened = acct.opened
      /\ faults' \in {faults, faults + 1}
      /\ (acct'.orders = {} \/ (acct'.orders = acct.orders /\ faults' = faults + 1))
  BY DEF Memories, Accounts, TypeInv, Bybit!Tidy, Bybit!CancelAll, Bybit!Works, Bybit!Faulty
<1>3. TypeInv'
  BY <1>1, <1>2 DEF TypeInv
<1>4. StepInv'
  BY <1>1, <1>2, NoneIs DEF StepInv, TypeInv, At, Bybit!MaxRetries
<1>5. OrderInv'
  BY <1>1, <1>2 DEF OrderInv, StepInv, TypeInv, At, OwnOrdersOnly
<1>6. ArmInv'
  BY <1>1, <1>2 DEF ArmInv, OrderInv, StepInv, TypeInv, LegsOf, Bybit!Legs, Binance!Legs, At
<1>7. OwnInv'
  BY <1>1, <1>2, NoneIs DEF OwnInv, StepInv, TypeInv, At
<1> QED
  BY <1>3, <1>4, <1>5, <1>6, <1>7

\* Before an entry the orders of the last trade are canceled.
LEMMA BybitClearSafe ==
    ASSUME CoreInv, exchange = "bybit", UNCHANGED exchange, Bybit!Clear
    PROVE  CoreInv'
<1> USE DEF CoreInv
<1>1. /\ mem.pc = "clear" /\ mem' \in Memories /\ mem'.pc = "open"
      /\ mem'.cur = mem.cur /\ mem'.tries = mem.tries
      /\ UNCHANGED <<mode, session, journal>>
  BY DEF Memories, Accounts, TypeInv, Steps, Bybit!Clear, Bybit!CancelAll, Bybit!Goto, Bybit!At
<1>2. /\ acct' \in Accounts /\ acct'.pos = acct.pos /\ acct'.opened = acct.opened
      /\ faults' \in {faults, faults + 1}
      /\ (acct'.orders = {} \/ (acct'.orders = acct.orders /\ faults' = faults + 1))
  BY DEF Memories, Accounts, TypeInv, Bybit!Clear, Bybit!CancelAll, Bybit!Works, Bybit!Faulty
<1>3. PICK b \in BOOLEAN : b <=> acct'.orders # {}
  OBVIOUS
<1>4. hurt' = [hurt EXCEPT !.uncleared = b]
  BY <1>3 DEF Bybit!Clear
<1>5. hurt' \in Hurts /\ hurt'.lost = hurt.lost /\ (hurt'.uncleared <=> acct'.orders # {})
  BY <1>3, <1>4, Harmed DEF TypeInv
<1>6. TypeInv'
  BY <1>1, <1>2, <1>4, <1>5 DEF TypeInv
<1>7. StepInv'
  BY <1>1, <1>2, <1>4, <1>5, NoneIs DEF StepInv, TypeInv, At, Bybit!MaxRetries
<1>8. OrderInv'
  BY <1>1, <1>2, <1>4, <1>5 DEF OrderInv, StepInv, TypeInv, At, OwnOrdersOnly
<1>9. ArmInv'
  BY <1>1, <1>2, <1>4, <1>5 DEF ArmInv, OrderInv, StepInv, TypeInv, LegsOf, Bybit!Legs, Binance!Legs, At
<1>10. OwnInv'
  BY <1>1, <1>2, <1>4, <1>5, NoneIs DEF OwnInv, StepInv, TypeInv, At
<1> QED
  BY <1>6, <1>7, <1>8, <1>9, <1>10

\* An entry opens the next position or fails.
LEMMA BybitOpenSafe ==
    ASSUME CoreInv, exchange = "bybit", UNCHANGED exchange, Bybit!Open
    PROVE  CoreInv'
<1> USE DEF CoreInv
<1>1. /\ mem.pc = "open" /\ UNCHANGED <<mode, session, journal>> /\ faults' \in {faults, faults + 1}
      /\ mem' \in Memories /\ mem'.cur = mem.cur
  BY DEF Memories, Accounts, TypeInv, Steps, Bybit!Open, Bybit!MarketOpen, Bybit!Works, Bybit!Faulty,
     Bybit!Goto, Bybit!At
<1>2. /\ Bybit!Opened(acct) \in Accounts /\ Bybit!Opened(acct).pos = acct.opened + 1
      /\ Bybit!Opened(acct).opened = acct.opened + 1 /\ Bybit!Opened(acct).orders = acct.orders
  BY OpenedIs DEF TypeInv, Bybit!Opened, Opened
<1>3. /\ acct' \in Accounts /\ acct'.orders = acct.orders
      /\ (acct' = acct \/ (acct'.pos = acct.opened + 1 /\ acct'.opened = acct.opened + 1))
  BY <1>2 DEF TypeInv, Bybit!Open, Bybit!MarketOpen
<1>4. (hurt.lost \/ acct' # acct) \in BOOLEAN
  OBVIOUS
<1>5. /\ hurt' \in Hurts /\ hurt'.uncleared = hurt.uncleared
      /\ hurt.lost => hurt'.lost
  BY <1>4, Harmed DEF TypeInv, Hurts, Bybit!Open, Bybit!MarketOpen
<1>6. \/ mem'.pc = "opened"
      \/ mem'.pc = "wait" /\ faults' = faults + 1 /\ hurt'.lost = (hurt.lost \/ acct' # acct)
  BY <1>4, Harmed DEF TypeInv, Memories, Steps, Bybit!Open, Bybit!MarketOpen, Bybit!Works, Bybit!Faulty,
     Bybit!Goto
<1>7. TypeInv'
  BY <1>1, <1>2, <1>3, <1>5, <1>6 DEF TypeInv
<1>8. StepInv'
  BY <1>1, <1>2, <1>3, <1>5, <1>6, NoneIs DEF StepInv, TypeInv, At, Bybit!MaxRetries
<1>9. OrderInv'
  BY <1>1, <1>2, <1>3, <1>5, <1>6 DEF OrderInv, StepInv, TypeInv, At, OwnOrdersOnly
<1>10. ArmInv'
  BY <1>1, <1>2, <1>3, <1>5, <1>6 DEF ArmInv, OrderInv, StepInv, TypeInv, LegsOf, Bybit!Legs, Binance!Legs, At
<1>11. OwnInv'
  BY <1>1, <1>2, <1>3, <1>5, <1>6, NoneIs DEF OwnInv, StepInv, TypeInv, At
<1> QED
  BY <1>7, <1>8, <1>9, <1>10, <1>11

\* What was opened is journaled.
LEMMA BybitEnterSafe ==
    ASSUME CoreInv, exchange = "bybit", UNCHANGED exchange, Bybit!Enter
    PROVE  CoreInv'
<1> USE DEF CoreInv
<1>1. [id |-> Bybit!TradeId, of |-> acct.opened] \in Currents
  BY DEF TypeInv, Accounts, Memories, Currents, Trades, Bybit!TradeId
<1>2. mem' = [mem EXCEPT !.seq = @ + 1, !.cur = [id |-> Bybit!TradeId, of |-> acct.opened],
     !.pc = (IF mode = "server" THEN "arm" ELSE "wait")]
  BY DEF Bybit!Enter, Bybit!LogEntry
<1>3. /\ mem.pc = "opened" /\ mem' \in Memories /\ mem'.pc = (IF mode = "server" THEN "arm" ELSE "wait")
      /\ mem'.cur = [id |-> Bybit!TradeId, of |-> acct.opened] /\ mem'.tries = mem.tries
      /\ UNCHANGED <<mode, acct, session, faults, hurt>>
  BY <1>1, <1>2, EntryKept DEF Steps, Bybit!Enter, Bybit!LogEntry, Bybit!At
<1>4. journal' \in Seq(JournalRows) /\ mem'.cur.of = acct.opened
  BY <1>1, <1>3, EntryTyped DEF Bybit!Enter, Bybit!LogEntry, Bybit!TradeId, Bybit!Row, Row
<1>5. TypeInv'
  BY <1>1, <1>2, <1>3, <1>4 DEF TypeInv
<1>6. StepInv'
  BY <1>1, <1>2, <1>3, <1>4, NoneIs DEF StepInv, TypeInv, At, Bybit!MaxRetries
<1>7. OrderInv'
  BY <1>1, <1>2, <1>3, <1>4 DEF OrderInv, StepInv, TypeInv, At, OwnOrdersOnly
<1>8. ArmInv'
  BY <1>1, <1>2, <1>3, <1>4 DEF ArmInv, OrderInv, StepInv, TypeInv, LegsOf, Bybit!Legs, Binance!Legs, At
<1>9. OwnInv'
  BY <1>1, <1>2, <1>3, <1>4, NoneIs DEF OwnInv, StepInv, TypeInv, At
<1> QED
  BY <1>5, <1>6, <1>7, <1>8, <1>9

\* set_tpsl adds the orders of the position.
LEMMA BybitArmSafe ==
    ASSUME CoreInv, exchange = "bybit", UNCHANGED exchange, Bybit!Arm
    PROVE  CoreInv'
<1> USE DEF CoreInv
<1>1. /\ mem.pc = "arm" /\ mem' \in Memories /\ mem'.pc = "wait"
      /\ mem'.cur = mem.cur /\ mem'.tries = mem.tries
      /\ UNCHANGED <<mode, session, journal, hurt>>
  BY DEF Memories, Accounts, TypeInv, Steps, Bybit!Arm, Bybit!Goto, Bybit!At
<1>2. LegsOf \in SUBSET {"tp", "sl"} /\ Bybit!Legs = LegsOf
  BY DEF LegsOf, Bybit!Legs, Binance!Legs
<1>3. PICK legs \in SUBSET LegsOf :
          /\ acct' = [acct EXCEPT !.orders = @ \cup [leg : legs, of : {acct.pos} \ {0}]]
          /\ (faults' = faults + 1 \/ (faults' = faults /\ legs = LegsOf))
  <2>1. CASE faults' = faults /\ acct' = Bybit!Armed(acct, LegsOf)
    BY <2>1 DEF Bybit!Armed
  <2>2. CASE faults' = faults + 1 /\ acct' = acct
    <3>1. acct' = [acct EXCEPT !.orders = @ \cup [leg : {}, of : {acct.pos} \ {0}]]
      BY <2>2 DEF TypeInv, Accounts
    <3>2. {} \in SUBSET LegsOf
      OBVIOUS
    <3> QED
      BY <2>2, <3>1, <3>2
  <2> QED
    BY <1>2, <2>1, <2>2 DEF Bybit!Arm, Bybit!Works, Bybit!Faulty
<1>4. legs \in SUBSET {"tp", "sl"}
  BY <1>2, <1>3
<1>5. /\ acct' \in Accounts /\ acct'.pos = acct.pos /\ acct'.opened = acct.opened
      /\ acct'.orders = acct.orders \cup [leg : legs, of : {acct.pos} \ {0}]
      /\ (faults' = faults + 1 \/ (faults' = faults /\ legs = LegsOf))
      /\ \A o \in [leg : legs, of : {acct.pos} \ {0}] : o.of = acct.pos
      /\ (acct.pos = 0 \/ legs = {} => [leg : legs, of : {acct.pos} \ {0}] = {})
      /\ (acct.pos # 0 => {o.leg : o \in [leg : legs, of : {acct.pos} \ {0}]} = legs)
  BY <1>3, <1>4, ArmedTyped, LegsArmed DEF TypeInv, Accounts
<1>6. LegsOf' = LegsOf /\ (exchange = "bybit" /\ mode # "server" => legs = {})
  BY <1>1, <1>3 DEF LegsOf, Bybit!Legs, Binance!Legs
<1>7. faults = 0 => acct'.orders = [leg : legs, of : {acct.pos} \ {0}]
  BY <1>1, <1>5 DEF ArmInv, At
<1>8. TypeInv'
  BY <1>1, <1>2, <1>3, <1>4, <1>5, <1>6, <1>7 DEF TypeInv
<1>9. StepInv'
  BY <1>1, <1>2, <1>3, <1>4, <1>5, <1>6, <1>7, NoneIs DEF StepInv, TypeInv, At, Bybit!MaxRetries
<1>10. OrderInv'
  BY <1>1, <1>2, <1>3, <1>4, <1>5, <1>6, <1>7 DEF OrderInv, StepInv, TypeInv, At, OwnOrdersOnly
<1>11. ArmInv'
  BY <1>1, <1>2, <1>3, <1>4, <1>5, <1>6, <1>7 DEF ArmInv, TypeInv, At
<1>12. OwnInv'
  BY <1>1, <1>2, <1>3, <1>4, <1>5, <1>6, <1>7, NoneIs DEF OwnInv, StepInv, TypeInv, At
<1> QED
  BY <1>8, <1>9, <1>10, <1>11, <1>12

\* Close-All cancels first.
LEMMA BybitCancelForAllSafe ==
    ASSUME CoreInv, exchange = "bybit", UNCHANGED exchange, Bybit!CancelForAll
    PROVE  CoreInv'
<1> USE DEF CoreInv
<1>1. /\ mem.pc = "cancel_all" /\ UNCHANGED <<mode, session, journal, hurt>>
      /\ acct' \in Accounts /\ acct'.pos = acct.pos /\ acct'.opened = acct.opened
      /\ acct'.orders \in {acct.orders, {}} /\ faults' \in {faults, faults + 1}
  BY DEF Memories, Accounts, TypeInv, Bybit!CancelForAll, Bybit!Works, Bybit!Faulty, Bybit!At
<1>2. mem.tries \in Nat /\ mem.tries < 3 /\ mem.tries + 1 \in Nat
  BY DEF TypeInv, Memories, StepInv, At, Bybit!MaxRetries, Bybit!CancelForAll, Bybit!At
<1>3. \/ mem' = [mem EXCEPT !.tries = 0, !.pc = "read_all"]
      \/ mem' = [mem EXCEPT !.pc = "read_all", !.tries = 0]
      \/ mem.tries + 1 # 3 /\ mem' = [mem EXCEPT !.tries = mem.tries + 1]
  BY DEF Bybit!CancelForAll, Bybit!Tries, Bybit!MaxRetries
<1>4. /\ mem' \in Memories /\ mem'.cur = mem.cur /\ mem'.tries < 3
      /\ mem'.pc \in {"read_all", "cancel_all"}
  <2> DEFINE k == mem.tries + 1
  <2>1. CASE k # 3 /\ mem' = [mem EXCEPT !.tries = k]
    <3>1. k \in Nat /\ k < 3
      BY <1>2, <2>1
    <3> HIDE DEF k
    <3> QED
      BY <1>1, <2>1, <3>1 DEF TypeInv, Memories
  <2>2. CASE mem' = [mem EXCEPT !.tries = 0, !.pc = "read_all"]
    <3>1. PICK p \in Steps, i \in Nat : p = "read_all" /\ i = 0
      BY DEF Steps
    <3>2. mem' \in Memories /\ mem'.pc = p /\ mem'.cur = mem.cur /\ mem'.tries = i
      BY <2>2, <3>1, Counted
    <3> QED
      BY <3>1, <3>2
  <2>3. CASE mem' = [mem EXCEPT !.pc = "read_all", !.tries = 0]
    <3>1. PICK p \in Steps, i \in Nat : p = "read_all" /\ i = 0
      BY DEF Steps
    <3>2. mem' \in Memories /\ mem'.pc = p /\ mem'.cur = mem.cur /\ mem'.tries = i
      BY <2>3, <3>1, Counted
    <3> QED
      BY <3>1, <3>2
  <2> QED
    BY <1>3, <2>1, <2>2, <2>3
<1>5. TypeInv'
  BY <1>1, <1>2, <1>3, <1>4 DEF TypeInv
<1>6. StepInv'
  BY <1>1, <1>2, <1>3, <1>4, NoneIs DEF StepInv, TypeInv, At, Bybit!MaxRetries
<1>7. OrderInv'
  BY <1>1, <1>2, <1>3, <1>4 DEF OrderInv, StepInv, TypeInv, At, OwnOrdersOnly
<1>8. ArmInv'
  BY <1>1, <1>2, <1>3, <1>4 DEF ArmInv, OrderInv, StepInv, TypeInv, LegsOf, Bybit!Legs, Binance!Legs, At
<1>9. OwnInv'
  BY <1>1, <1>2, <1>3, <1>4, NoneIs DEF OwnInv, StepInv, TypeInv, At
<1> QED
  BY <1>5, <1>6, <1>7, <1>8, <1>9

\* Close-All ends when the account is flat.
LEMMA BybitReadForAllSafe ==
    ASSUME CoreInv, exchange = "bybit", UNCHANGED exchange, Bybit!ReadForAll
    PROVE  CoreInv'
<1> USE DEF CoreInv
<1>1. UNCHANGED <<mode, acct, session, journal, faults, hurt>>
  BY DEF Bybit!ReadForAll
<1>2. /\ mem.pc = "read_all" /\ mem' \in Memories /\ mem'.pc = (IF acct.pos = 0 THEN "done" ELSE "close_all")
      /\ mem'.cur = mem.cur /\ mem'.tries = mem.tries
  BY DEF Memories, Accounts, TypeInv, Steps, Bybit!ReadForAll, Bybit!Goto, Bybit!At
<1>3. TypeInv'
  BY <1>1, <1>2 DEF TypeInv
<1>4. StepInv'
  BY <1>1, <1>2, NoneIs DEF StepInv, TypeInv, At, Bybit!MaxRetries
<1>5. OrderInv'
  BY <1>1, <1>2 DEF OrderInv, StepInv, TypeInv, At, OwnOrdersOnly
<1>6. ArmInv'
  BY <1>1, <1>2 DEF ArmInv, OrderInv, StepInv, TypeInv, LegsOf, Bybit!Legs, Binance!Legs, At
<1>7. OwnInv'
  BY <1>1, <1>2, NoneIs DEF OwnInv, StepInv, TypeInv, At
<1> QED
  BY <1>3, <1>4, <1>5, <1>6, <1>7

\* A protective order executes.
LEMMA BybitFillSafe ==
    ASSUME CoreInv, exchange = "bybit", UNCHANGED exchange, NEW o \in acct.orders, Bybit!ServerFill(o, {})
    PROVE  CoreInv'
<1> USE DEF CoreInv
<1>1. UNCHANGED <<mode, mem, session, journal, faults, hurt>>
  BY DEF Bybit!ServerFill
<1>2. acct' \in Accounts /\ acct'.pos = 0 /\ acct'.orders = {} /\ acct'.opened = acct.opened
  BY DEF Memories, Accounts, TypeInv, Bybit!ServerFill
<1>3. TypeInv'
  BY <1>1, <1>2 DEF TypeInv
<1>4. StepInv'
  BY <1>1, <1>2, NoneIs DEF StepInv, TypeInv, At, Bybit!MaxRetries
<1>5. OrderInv'
  BY <1>1, <1>2 DEF OrderInv, StepInv, TypeInv, At, OwnOrdersOnly
<1>6. ArmInv'
  BY <1>1, <1>2 DEF ArmInv, OrderInv, StepInv, TypeInv, LegsOf, Bybit!Legs, Binance!Legs, At
<1>7. OwnInv'
  BY <1>1, <1>2, NoneIs DEF OwnInv, StepInv, TypeInv, At
<1> QED
  BY <1>3, <1>4, <1>5, <1>6, <1>7

\* Somebody else closes the position.
LEMMA BybitExternalCloseSafe ==
    ASSUME CoreInv, exchange = "bybit", UNCHANGED exchange, Bybit!ExternalClose({})
    PROVE  CoreInv'
<1> USE DEF CoreInv
<1>1. UNCHANGED <<mode, mem, session, journal, hurt>> /\ faults' = faults + 1
  BY DEF Bybit!ExternalClose, Bybit!Faulty
<1>2. acct' \in Accounts /\ acct'.pos = 0 /\ acct'.orders = {} /\ acct'.opened = acct.opened
  BY DEF Memories, Accounts, TypeInv, Bybit!ExternalClose
<1>3. TypeInv'
  BY <1>1, <1>2 DEF TypeInv
<1>4. StepInv'
  BY <1>1, <1>2, NoneIs DEF StepInv, TypeInv, At, Bybit!MaxRetries
<1>5. OrderInv'
  BY <1>1, <1>2 DEF OrderInv, StepInv, TypeInv, At, OwnOrdersOnly
<1>6. ArmInv'
  BY <1>1, <1>2 DEF ArmInv, OrderInv, StepInv, TypeInv, LegsOf, Bybit!Legs, Binance!Legs, At
<1>7. OwnInv'
  BY <1>1, <1>2, NoneIs DEF OwnInv, StepInv, TypeInv, At
<1> QED
  BY <1>3, <1>4, <1>5, <1>6, <1>7

\* A process starts with nothing in memory.
LEMMA BinanceStartSafe ==
    ASSUME CoreInv, exchange = "binance", UNCHANGED exchange, NEW pc \in {"boot"}, Binance!Start(pc)
    PROVE  CoreInv'
<1> USE DEF CoreInv
<1>1. /\ mem.pc = "down" /\ mem' \in Memories /\ mem'.pc = pc
      /\ mem'.cur = None /\ mem'.tries = 0
      /\ session' = session + 1 /\ UNCHANGED <<mode, acct, journal, faults, hurt>>
  BY DEF Memories, Accounts, Binance!Start, Binance!Memory, Memory, Binance!None, None, Binance!At, Steps
<1>2. TypeInv'
  BY <1>1 DEF TypeInv
<1>3. StepInv'
  BY <1>1, NoneIs DEF StepInv, TypeInv, At, Bybit!MaxRetries
<1>4. OrderInv'
  BY <1>1 DEF OrderInv, StepInv, TypeInv, At, OwnOrdersOnly
<1>5. ArmInv'
  BY <1>1 DEF ArmInv, OrderInv, StepInv, TypeInv, LegsOf, Bybit!Legs, Binance!Legs, At
<1>6. OwnInv'
  BY <1>1, NoneIs DEF OwnInv, StepInv, TypeInv, At
<1> QED
  BY <1>2, <1>3, <1>4, <1>5, <1>6

\* A crash forgets the trade.
LEMMA BinanceCrashSafe ==
    ASSUME CoreInv, exchange = "binance", UNCHANGED exchange, Binance!Crash
    PROVE  CoreInv'
<1> USE DEF CoreInv
<1>1. mem' = Memory /\ UNCHANGED <<mode, acct, session, journal, faults, hurt>>
  BY DEF Binance!Crash, Binance!Memory, Memory, Binance!None, None
<1>2. mem' \in Memories /\ mem'.pc = "down" /\ mem'.cur = None
  BY <1>1 DEF Memory, Memories, Steps
<1>3. TypeInv'
  BY <1>1, <1>2 DEF TypeInv
<1>4. StepInv'
  BY <1>1, <1>2, NoneIs DEF StepInv, TypeInv, At, Bybit!MaxRetries
<1>5. OrderInv'
  BY <1>1, <1>2 DEF OrderInv, StepInv, TypeInv, At, OwnOrdersOnly
<1>6. ArmInv'
  BY <1>1, <1>2 DEF ArmInv, OrderInv, StepInv, TypeInv, LegsOf, Bybit!Legs, Binance!Legs, At
<1>7. OwnInv'
  BY <1>1, <1>2, NoneIs DEF OwnInv, StepInv, TypeInv, At
<1> QED
  BY <1>3, <1>4, <1>5, <1>6, <1>7

\* Start: the orders of the last process are canceled.
LEMMA BinanceBootSafe ==
    ASSUME CoreInv, exchange = "binance", UNCHANGED exchange, Binance!Boot
    PROVE  CoreInv'
<1> USE DEF CoreInv
<1>1. /\ mem.pc = "boot" /\ mem' \in Memories /\ mem'.pc = "resume"
      /\ mem'.cur = mem.cur /\ mem'.tries = mem.tries
      /\ UNCHANGED <<mode, session, journal, hurt>>
  BY DEF Memories, Accounts, TypeInv, Steps, Binance!Boot, Binance!CancelAll, Binance!Goto, Binance!At
<1>2. /\ acct' \in Accounts /\ acct'.pos = acct.pos /\ acct'.opened = acct.opened
      /\ faults' \in {faults, faults + 1}
      /\ (acct'.orders = {} \/ (acct'.orders = acct.orders /\ faults' = faults + 1))
  BY DEF Memories, Accounts, TypeInv, Binance!Boot, Binance!CancelAll, Binance!Works, Binance!Faulty
<1>3. TypeInv'
  BY <1>1, <1>2 DEF TypeInv
<1>4. StepInv'
  BY <1>1, <1>2, NoneIs DEF StepInv, TypeInv, At, Bybit!MaxRetries
<1>5. OrderInv'
  BY <1>1, <1>2 DEF OrderInv, StepInv, TypeInv, At, OwnOrdersOnly
<1>6. ArmInv'
  BY <1>1, <1>2 DEF ArmInv, OrderInv, StepInv, TypeInv, LegsOf, Bybit!Legs, Binance!Legs, At
<1>7. OwnInv'
  BY <1>1, <1>2, NoneIs DEF OwnInv, StepInv, TypeInv, At
<1> QED
  BY <1>3, <1>4, <1>5, <1>6, <1>7

\* Start: what position there is.
LEMMA BinanceResumeSafe ==
    ASSUME CoreInv, exchange = "binance", UNCHANGED exchange, Binance!Resume
    PROVE  CoreInv'
<1> USE DEF CoreInv
<1>1. mem.pc = "resume" /\ UNCHANGED <<mode, session, journal,
     hurt>> /\ acct' = acct /\ faults' \in {faults, faults + 1}
  BY DEF TypeInv, Binance!Resume, Binance!Works, Binance!Faulty, Binance!At
<1>2. mem' \in Memories /\ mem'.cur = mem.cur /\ mem'.pc \in {"wait", "adopt"}
  BY DEF Memories, Accounts, TypeInv, Steps, Binance!Resume
<1>3. TypeInv'
  BY <1>1, <1>2 DEF TypeInv
<1>4. StepInv'
  BY <1>1, <1>2, NoneIs DEF StepInv, TypeInv, At, Bybit!MaxRetries
<1>5. OrderInv'
  BY <1>1, <1>2 DEF OrderInv, StepInv, TypeInv, At, OwnOrdersOnly
<1>6. ArmInv'
  BY <1>1, <1>2 DEF ArmInv, OrderInv, StepInv, TypeInv, LegsOf, Bybit!Legs, Binance!Legs, At
<1>7. OwnInv'
  BY <1>1, <1>2, NoneIs DEF OwnInv, StepInv, TypeInv, At
<1> QED
  BY <1>3, <1>4, <1>5, <1>6, <1>7

\* A position found at the start becomes a trade.
LEMMA BinanceAdoptSafe ==
    ASSUME CoreInv, exchange = "binance", UNCHANGED exchange, Binance!Adopt
    PROVE  CoreInv'
<1> USE DEF CoreInv
<1>1. [id |-> Binance!TradeId, of |-> acct.opened] \in Currents
  BY DEF TypeInv, Accounts, Memories, Currents, Trades, Binance!TradeId
<1>2. mem' = [mem EXCEPT !.seq = @ + 1, !.cur = [id |-> Binance!TradeId, of |-> acct.opened], !.pc = "arm"]
  BY DEF Binance!Adopt, Binance!LogEntry
<1>3. /\ mem.pc = "adopt" /\ mem' \in Memories /\ mem'.pc = "arm"
      /\ mem'.cur = [id |-> Binance!TradeId, of |-> acct.opened] /\ mem'.tries = mem.tries
      /\ UNCHANGED <<mode, acct, session, faults, hurt>>
  BY <1>1, <1>2, EntryKept DEF Steps, Binance!Adopt, Binance!LogEntry, Binance!At
<1>4. journal' \in Seq(JournalRows) /\ mem'.cur.of = acct.opened
  BY <1>1, <1>3, EntryTyped DEF Binance!Adopt, Binance!LogEntry, Binance!TradeId, Binance!Row, Row
<1>5. TypeInv'
  BY <1>1, <1>2, <1>3, <1>4 DEF TypeInv
<1>6. StepInv'
  BY <1>1, <1>2, <1>3, <1>4, NoneIs DEF StepInv, TypeInv, At, Bybit!MaxRetries
<1>7. OrderInv'
  BY <1>1, <1>2, <1>3, <1>4 DEF OrderInv, StepInv, TypeInv, At, OwnOrdersOnly
<1>8. ArmInv'
  BY <1>1, <1>2, <1>3, <1>4 DEF ArmInv, OrderInv, StepInv, TypeInv, LegsOf, Bybit!Legs, Binance!Legs, At
<1>9. OwnInv'
  BY <1>1, <1>2, <1>3, <1>4, NoneIs DEF OwnInv, StepInv, TypeInv, At
<1> QED
  BY <1>5, <1>6, <1>7, <1>8, <1>9

\* A bar decides what the account allows.
LEMMA BinanceBarSafe ==
    ASSUME CoreInv, exchange = "binance", UNCHANGED exchange, NEW sig \in {"none", "enter", "exit"},
        NEW hit \in BOOLEAN, Binance!Bar(sig, hit)
    PROVE  CoreInv'
<1> USE DEF CoreInv
<1>1. UNCHANGED <<mode, acct, session, journal, faults, hurt>>
  BY DEF Binance!Bar
<1>2. /\ Binance!Decided(sig, hit) \in {"closed", "stop", "clear", "close", "wait"}
      /\ Binance!Decided(sig, hit) \in {"stop", "closed"} => mem.cur # None
      /\ Binance!Decided(sig, hit) \in {"clear", "closed"} => acct.pos = 0
  BY DEF Binance!Decided, Binance!None, None, Binance!Vanished
<1>3. /\ mem.pc = "wait" /\ mem' \in Memories /\ mem'.pc = Binance!Decided(sig, hit)
      /\ mem'.cur = mem.cur /\ mem'.tries = mem.tries
  BY <1>2 DEF Memories, TypeInv, Accounts, Steps, Binance!Bar, Binance!At
<1>4. TypeInv'
  BY <1>1, <1>2, <1>3 DEF TypeInv
<1>5. StepInv'
  BY <1>1, <1>2, <1>3, NoneIs DEF StepInv, TypeInv, At, Bybit!MaxRetries
<1>6. OrderInv'
  BY <1>1, <1>2, <1>3 DEF OrderInv, StepInv, TypeInv, At, OwnOrdersOnly
<1>7. ArmInv'
  BY <1>1, <1>2, <1>3 DEF ArmInv, OrderInv, StepInv, TypeInv, LegsOf, Bybit!Legs, Binance!Legs, At
<1>8. OwnInv'
  BY <1>1, <1>2, <1>3, NoneIs DEF OwnInv, StepInv, TypeInv, At
<1> QED
  BY <1>4, <1>5, <1>6, <1>7, <1>8

\* The local stop closes the position or fails.
LEMMA BinanceLocalStopSafe ==
    ASSUME CoreInv, exchange = "binance", UNCHANGED exchange, Binance!LocalStop
    PROVE  CoreInv'
<1> USE DEF CoreInv
<1>1. /\ mem.pc = "stop" /\ UNCHANGED <<mode, session, journal>> /\ faults' \in {faults, faults + 1}
      /\ (acct' = acct \/ acct' = Binance!Flat)
  BY DEF TypeInv, Binance!LocalStop, Binance!MarketClose, Binance!Works, Binance!Faulty, Binance!At
<1>2. /\ Binance!Flat \in Accounts /\ Binance!Flat.pos = 0 /\ Binance!Flat.opened = acct.opened
      /\ Binance!Flat.orders = acct.orders
  BY DEF TypeInv, Accounts, Binance!Flat
<1>3. /\ acct' \in Accounts /\ acct'.opened = acct.opened
      /\ (acct' = acct \/ (acct'.pos = 0))
      /\ acct'.orders = acct.orders
  BY <1>1, <1>2 DEF TypeInv
<1>4. (hurt.lost \/ acct' # acct) \in BOOLEAN
  OBVIOUS
<1>5. /\ hurt' \in Hurts /\ hurt'.uncleared = hurt.uncleared
      /\ hurt.lost => hurt'.lost
  BY <1>4, Harmed DEF TypeInv, Hurts, Binance!LocalStop, Binance!MarketClose
<1>6. /\ mem' \in Memories /\ mem'.cur = mem.cur
      /\ \/ mem'.pc = "closed" /\ acct'.pos = 0
         \/ mem'.pc = "wait" /\ (acct'.pos = 0 \/ faults' = faults + 1)
  BY <1>2 DEF TypeInv, Steps, Memories, Binance!LocalStop, Binance!MarketClose, Binance!Goto, Binance!Works,
     Binance!Faulty
<1>7. TypeInv'
  BY <1>1, <1>2, <1>3, <1>5, <1>6 DEF TypeInv
<1>8. StepInv'
  BY <1>1, <1>2, <1>3, <1>5, <1>6, NoneIs DEF StepInv, TypeInv, At, Bybit!MaxRetries
<1>9. OrderInv'
  BY <1>1, <1>2, <1>3, <1>5, <1>6 DEF OrderInv, StepInv, TypeInv, At, OwnOrdersOnly
<1>10. ArmInv'
  BY <1>1, <1>2, <1>3, <1>5, <1>6 DEF ArmInv, OrderInv, StepInv, TypeInv, LegsOf, Bybit!Legs, Binance!Legs, At
<1>11. OwnInv'
  BY <1>1, <1>2, <1>3, <1>5, <1>6, NoneIs DEF OwnInv, StepInv, TypeInv, At
<1> QED
  BY <1>7, <1>8, <1>9, <1>10, <1>11

\* The position is read before it is closed.
LEMMA BinanceReadInfoSafe ==
    ASSUME CoreInv, exchange = "binance", UNCHANGED exchange, Binance!ReadInfo
    PROVE  CoreInv'
<1> USE DEF CoreInv
<1>1. mem.pc = "close" /\ UNCHANGED <<mode, session, journal, hurt>> /\ acct' = acct /\ faults' \in {faults,
     faults + 1}
  BY DEF TypeInv, Binance!ReadInfo, Binance!Works, Binance!Faulty, Binance!At
<1>2. mem' \in Memories /\ mem'.cur = mem.cur /\ mem'.pc = "exit"
  BY Noted DEF TypeInv, Accounts, Binance!ReadInfo
<1>3. TypeInv'
  BY <1>1, <1>2 DEF TypeInv
<1>4. StepInv'
  BY <1>1, <1>2, NoneIs DEF StepInv, TypeInv, At, Bybit!MaxRetries
<1>5. OrderInv'
  BY <1>1, <1>2 DEF OrderInv, StepInv, TypeInv, At, OwnOrdersOnly
<1>6. ArmInv'
  BY <1>1, <1>2 DEF ArmInv, OrderInv, StepInv, TypeInv, LegsOf, Bybit!Legs, Binance!Legs, At
<1>7. OwnInv'
  BY <1>1, <1>2, NoneIs DEF OwnInv, StepInv, TypeInv, At
<1> QED
  BY <1>3, <1>4, <1>5, <1>6, <1>7

\* The exit of a signal closes the position or fails.
LEMMA BinanceSignalExitSafe ==
    ASSUME CoreInv, exchange = "binance", UNCHANGED exchange, Binance!SignalExit
    PROVE  CoreInv'
<1> USE DEF CoreInv
<1>1. /\ mem.pc = "exit" /\ UNCHANGED <<mode, session, journal>> /\ faults' \in {faults, faults + 1}
      /\ (acct' = acct \/ acct' = Binance!Flat)
  BY DEF TypeInv, Binance!SignalExit, Binance!MarketClose, Binance!Works, Binance!Faulty, Binance!At
<1>2. /\ Binance!Flat \in Accounts /\ Binance!Flat.pos = 0 /\ Binance!Flat.opened = acct.opened
      /\ Binance!Flat.orders = acct.orders
  BY DEF TypeInv, Accounts, Binance!Flat
<1>3. /\ acct' \in Accounts /\ acct'.opened = acct.opened
      /\ (acct' = acct \/ (acct'.pos = 0))
      /\ acct'.orders = acct.orders
  BY <1>1, <1>2 DEF TypeInv
<1>4. (hurt.lost \/ acct' # acct) \in BOOLEAN
  OBVIOUS
<1>5. /\ hurt' \in Hurts /\ hurt'.uncleared = hurt.uncleared
      /\ hurt.lost => hurt'.lost
  BY <1>4, Harmed DEF TypeInv, Hurts, Binance!SignalExit, Binance!MarketClose
<1>6. /\ mem' \in Memories /\ mem'.cur = mem.cur
      /\ \/ mem'.pc = "closed" /\ acct'.pos = 0 /\ mem.cur # None
         \/ mem'.pc = "unknown" /\ acct'.pos = 0 /\ mem.cur = None
         \/ mem'.pc = "wait" /\ (acct'.pos = 0 \/ faults' = faults + 1)
  BY <1>2 DEF TypeInv, Steps, Memories, Binance!SignalExit, Binance!MarketClose, Binance!Goto, Binance!None,
     None, Binance!Works, Binance!Faulty
<1>7. TypeInv'
  BY <1>1, <1>2, <1>3, <1>5, <1>6 DEF TypeInv
<1>8. StepInv'
  BY <1>1, <1>2, <1>3, <1>5, <1>6, NoneIs DEF StepInv, TypeInv, At, Bybit!MaxRetries
<1>9. OrderInv'
  BY <1>1, <1>2, <1>3, <1>5, <1>6 DEF OrderInv, StepInv, TypeInv, At, OwnOrdersOnly
<1>10. ArmInv'
  BY <1>1, <1>2, <1>3, <1>5, <1>6 DEF ArmInv, OrderInv, StepInv, TypeInv, LegsOf, Bybit!Legs, Binance!Legs, At
<1>11. OwnInv'
  BY <1>1, <1>2, <1>3, <1>5, <1>6, NoneIs DEF OwnInv, StepInv, TypeInv, At
<1> QED
  BY <1>7, <1>8, <1>9, <1>10, <1>11

\* An exit is journaled and the trade forgotten.
LEMMA BinanceExitedSafe ==
    ASSUME CoreInv, exchange = "binance", UNCHANGED exchange, Binance!Exited
    PROVE  CoreInv'
<1> USE DEF CoreInv
<1>1. /\ mem.pc = "closed" /\ mem' \in Memories /\ mem'.pc = "tidy"
      /\ mem'.cur = None /\ mem'.tries = mem.tries
      /\ UNCHANGED <<mode, acct, session, faults, hurt>>
  BY DEF Memories, Accounts, TypeInv, Steps, Binance!Exited, Binance!LogExit, Binance!None, None, Binance!At
<1>2. journal' \in Seq(JournalRows)
  BY ExitTyped DEF TypeInv, StepInv, At, Binance!Exited, Binance!LogExit, Binance!Row, Row, Binance!None,
     None, Binance!At
<1>3. TypeInv'
  BY <1>1, <1>2 DEF TypeInv
<1>4. StepInv'
  BY <1>1, <1>2, NoneIs DEF StepInv, TypeInv, At, Bybit!MaxRetries
<1>5. OrderInv'
  BY <1>1, <1>2 DEF OrderInv, StepInv, TypeInv, At, OwnOrdersOnly
<1>6. ArmInv'
  BY <1>1, <1>2 DEF ArmInv, OrderInv, StepInv, TypeInv, LegsOf, Bybit!Legs, Binance!Legs, At
<1>7. OwnInv'
  BY <1>1, <1>2, NoneIs DEF OwnInv, StepInv, TypeInv, At
<1> QED
  BY <1>3, <1>4, <1>5, <1>6, <1>7

\* After an exit the orders are canceled.
LEMMA BinanceTidySafe ==
    ASSUME CoreInv, exchange = "binance", UNCHANGED exchange, Binance!Tidy
    PROVE  CoreInv'
<1> USE DEF CoreInv
<1>1. /\ mem.pc = "tidy" /\ mem' \in Memories /\ mem'.pc = "wait"
      /\ mem'.cur = mem.cur /\ mem'.tries = mem.tries
      /\ UNCHANGED <<mode, session, journal, hurt>>
  BY DEF Memories, Accounts, TypeInv, Steps, Binance!Tidy, Binance!CancelAll, Binance!Goto, Binance!At
<1>2. /\ acct' \in Accounts /\ acct'.pos = acct.pos /\ acct'.opened = acct.opened
      /\ faults' \in {faults, faults + 1}
      /\ (acct'.orders = {} \/ (acct'.orders = acct.orders /\ faults' = faults + 1))
  BY DEF Memories, Accounts, TypeInv, Binance!Tidy, Binance!CancelAll, Binance!Works, Binance!Faulty
<1>3. TypeInv'
  BY <1>1, <1>2 DEF TypeInv
<1>4. StepInv'
  BY <1>1, <1>2, NoneIs DEF StepInv, TypeInv, At, Bybit!MaxRetries
<1>5. OrderInv'
  BY <1>1, <1>2 DEF OrderInv, StepInv, TypeInv, At, OwnOrdersOnly
<1>6. ArmInv'
  BY <1>1, <1>2 DEF ArmInv, OrderInv, StepInv, TypeInv, LegsOf, Bybit!Legs, Binance!Legs, At
<1>7. OwnInv'
  BY <1>1, <1>2, NoneIs DEF OwnInv, StepInv, TypeInv, At
<1> QED
  BY <1>3, <1>4, <1>5, <1>6, <1>7

\* Before an entry the orders of the last trade are canceled.
LEMMA BinanceClearSafe ==
    ASSUME CoreInv, exchange = "binance", UNCHANGED exchange, Binance!Clear
    PROVE  CoreInv'
<1> USE DEF CoreInv
<1>1. /\ mem.pc = "clear" /\ mem' \in Memories /\ mem'.pc = "open"
      /\ mem'.cur = mem.cur /\ mem'.tries = mem.tries
      /\ UNCHANGED <<mode, session, journal>>
  BY DEF Memories, Accounts, TypeInv, Steps, Binance!Clear, Binance!CancelAll, Binance!Goto, Binance!At
<1>2. /\ acct' \in Accounts /\ acct'.pos = acct.pos /\ acct'.opened = acct.opened
      /\ faults' \in {faults, faults + 1}
      /\ (acct'.orders = {} \/ (acct'.orders = acct.orders /\ faults' = faults + 1))
  BY DEF Memories, Accounts, TypeInv, Binance!Clear, Binance!CancelAll, Binance!Works, Binance!Faulty
<1>3. PICK b \in BOOLEAN : b <=> acct'.orders # {}
  OBVIOUS
<1>4. hurt' = [hurt EXCEPT !.uncleared = b]
  BY <1>3 DEF Binance!Clear
<1>5. hurt' \in Hurts /\ hurt'.lost = hurt.lost /\ (hurt'.uncleared <=> acct'.orders # {})
  BY <1>3, <1>4, Harmed DEF TypeInv
<1>6. TypeInv'
  BY <1>1, <1>2, <1>4, <1>5 DEF TypeInv
<1>7. StepInv'
  BY <1>1, <1>2, <1>4, <1>5, NoneIs DEF StepInv, TypeInv, At, Bybit!MaxRetries
<1>8. OrderInv'
  BY <1>1, <1>2, <1>4, <1>5 DEF OrderInv, StepInv, TypeInv, At, OwnOrdersOnly
<1>9. ArmInv'
  BY <1>1, <1>2, <1>4, <1>5 DEF ArmInv, OrderInv, StepInv, TypeInv, LegsOf, Bybit!Legs, Binance!Legs, At
<1>10. OwnInv'
  BY <1>1, <1>2, <1>4, <1>5, NoneIs DEF OwnInv, StepInv, TypeInv, At
<1> QED
  BY <1>6, <1>7, <1>8, <1>9, <1>10

\* An entry opens the next position or fails.
LEMMA BinanceOpenSafe ==
    ASSUME CoreInv, exchange = "binance", UNCHANGED exchange, Binance!Open
    PROVE  CoreInv'
<1> USE DEF CoreInv
<1>1. /\ mem.pc = "open" /\ UNCHANGED <<mode, session, journal>> /\ faults' \in {faults, faults + 1}
      /\ mem' \in Memories /\ mem'.cur = mem.cur
  BY DEF Memories, Accounts, TypeInv, Steps, Binance!Open, Binance!MarketOpen, Binance!Works,
     Binance!Faulty, Binance!Goto, Binance!At
<1>2. /\ Binance!Opened(acct) \in Accounts /\ Binance!Opened(acct).pos = acct.opened + 1
      /\ Binance!Opened(acct).opened = acct.opened + 1 /\ Binance!Opened(acct).orders = acct.orders
  BY OpenedIs DEF TypeInv, Binance!Opened, Opened
<1>3. /\ acct' \in Accounts /\ acct'.orders = acct.orders
      /\ (acct' = acct \/ (acct'.pos = acct.opened + 1 /\ acct'.opened = acct.opened + 1))
  BY <1>2 DEF TypeInv, Binance!Open, Binance!MarketOpen
<1>4. (hurt.lost \/ acct' # acct) \in BOOLEAN
  OBVIOUS
<1>5. /\ hurt' \in Hurts /\ hurt'.uncleared = hurt.uncleared
      /\ hurt.lost => hurt'.lost
  BY <1>4, Harmed DEF TypeInv, Hurts, Binance!Open, Binance!MarketOpen
<1>6. \/ mem'.pc = "opened"
      \/ mem'.pc = "wait" /\ faults' = faults + 1 /\ hurt'.lost = (hurt.lost \/ acct' # acct)
  BY <1>4, Harmed DEF TypeInv, Memories, Steps, Binance!Open, Binance!MarketOpen, Binance!Works,
     Binance!Faulty, Binance!Goto
<1>7. TypeInv'
  BY <1>1, <1>2, <1>3, <1>5, <1>6 DEF TypeInv
<1>8. StepInv'
  BY <1>1, <1>2, <1>3, <1>5, <1>6, NoneIs DEF StepInv, TypeInv, At, Bybit!MaxRetries
<1>9. OrderInv'
  BY <1>1, <1>2, <1>3, <1>5, <1>6 DEF OrderInv, StepInv, TypeInv, At, OwnOrdersOnly
<1>10. ArmInv'
  BY <1>1, <1>2, <1>3, <1>5, <1>6 DEF ArmInv, OrderInv, StepInv, TypeInv, LegsOf, Bybit!Legs, Binance!Legs, At
<1>11. OwnInv'
  BY <1>1, <1>2, <1>3, <1>5, <1>6, NoneIs DEF OwnInv, StepInv, TypeInv, At
<1> QED
  BY <1>7, <1>8, <1>9, <1>10, <1>11

\* What was opened is journaled.
LEMMA BinanceEnterSafe ==
    ASSUME CoreInv, exchange = "binance", UNCHANGED exchange, Binance!Enter
    PROVE  CoreInv'
<1> USE DEF CoreInv
<1>1. [id |-> Binance!TradeId, of |-> acct.opened] \in Currents
  BY DEF TypeInv, Accounts, Memories, Currents, Trades, Binance!TradeId
<1>2. mem' = [mem EXCEPT !.seq = @ + 1, !.cur = [id |-> Binance!TradeId, of |-> acct.opened], !.pc = "arm"]
  BY DEF Binance!Enter, Binance!LogEntry
<1>3. /\ mem.pc = "opened" /\ mem' \in Memories /\ mem'.pc = "arm"
      /\ mem'.cur = [id |-> Binance!TradeId, of |-> acct.opened] /\ mem'.tries = mem.tries
      /\ UNCHANGED <<mode, acct, session, faults, hurt>>
  BY <1>1, <1>2, EntryKept DEF Steps, Binance!Enter, Binance!LogEntry, Binance!At
<1>4. journal' \in Seq(JournalRows) /\ mem'.cur.of = acct.opened
  BY <1>1, <1>3, EntryTyped DEF Binance!Enter, Binance!LogEntry, Binance!TradeId, Binance!Row, Row
<1>5. TypeInv'
  BY <1>1, <1>2, <1>3, <1>4 DEF TypeInv
<1>6. StepInv'
  BY <1>1, <1>2, <1>3, <1>4, NoneIs DEF StepInv, TypeInv, At, Bybit!MaxRetries
<1>7. OrderInv'
  BY <1>1, <1>2, <1>3, <1>4 DEF OrderInv, StepInv, TypeInv, At, OwnOrdersOnly
<1>8. ArmInv'
  BY <1>1, <1>2, <1>3, <1>4 DEF ArmInv, OrderInv, StepInv, TypeInv, LegsOf, Bybit!Legs, Binance!Legs, At
<1>9. OwnInv'
  BY <1>1, <1>2, <1>3, <1>4, NoneIs DEF OwnInv, StepInv, TypeInv, At
<1> QED
  BY <1>5, <1>6, <1>7, <1>8, <1>9

\* set_tpsl adds the orders of the position.
LEMMA BinanceArmSafe ==
    ASSUME CoreInv, exchange = "binance", UNCHANGED exchange, Binance!Arm
    PROVE  CoreInv'
<1> USE DEF CoreInv
<1>1. /\ mem.pc = "arm" /\ mem' \in Memories /\ mem'.pc = "wait"
      /\ mem'.cur = mem.cur /\ mem'.tries = mem.tries
      /\ UNCHANGED <<mode, session, journal, hurt>>
  BY DEF Memories, Accounts, TypeInv, Steps, Binance!Arm, Binance!Goto, Binance!At
<1>2. LegsOf \in SUBSET {"tp", "sl"} /\ Binance!Legs = LegsOf
  BY DEF LegsOf, Bybit!Legs, Binance!Legs
<1>3. PICK legs \in SUBSET LegsOf :
          /\ acct' = [acct EXCEPT !.orders = @ \cup [leg : legs, of : {acct.pos} \ {0}]]
          /\ (faults' = faults + 1 \/ (faults' = faults /\ legs = LegsOf))
  BY <1>2 DEF Binance!Arm, Binance!Armed, Binance!Works, Binance!Faulty
<1>4. legs \in SUBSET {"tp", "sl"}
  BY <1>2, <1>3
<1>5. /\ acct' \in Accounts /\ acct'.pos = acct.pos /\ acct'.opened = acct.opened
      /\ acct'.orders = acct.orders \cup [leg : legs, of : {acct.pos} \ {0}]
      /\ (faults' = faults + 1 \/ (faults' = faults /\ legs = LegsOf))
      /\ \A o \in [leg : legs, of : {acct.pos} \ {0}] : o.of = acct.pos
      /\ (acct.pos = 0 \/ legs = {} => [leg : legs, of : {acct.pos} \ {0}] = {})
      /\ (acct.pos # 0 => {o.leg : o \in [leg : legs, of : {acct.pos} \ {0}]} = legs)
  BY <1>3, <1>4, ArmedTyped, LegsArmed DEF TypeInv, Accounts
<1>6. LegsOf' = LegsOf /\ (exchange = "bybit" /\ mode # "server" => legs = {})
  BY <1>1, <1>3 DEF LegsOf, Bybit!Legs, Binance!Legs
<1>7. faults = 0 => acct'.orders = [leg : legs, of : {acct.pos} \ {0}]
  BY <1>1, <1>5 DEF ArmInv, At
<1>8. TypeInv'
  BY <1>1, <1>2, <1>3, <1>4, <1>5, <1>6, <1>7 DEF TypeInv
<1>9. StepInv'
  BY <1>1, <1>2, <1>3, <1>4, <1>5, <1>6, <1>7, NoneIs DEF StepInv, TypeInv, At, Bybit!MaxRetries
<1>10. OrderInv'
  BY <1>1, <1>2, <1>3, <1>4, <1>5, <1>6, <1>7 DEF OrderInv, StepInv, TypeInv, At, OwnOrdersOnly
<1>11. ArmInv'
  BY <1>1, <1>2, <1>3, <1>4, <1>5, <1>6, <1>7 DEF ArmInv, TypeInv, At
<1>12. OwnInv'
  BY <1>1, <1>2, <1>3, <1>4, <1>5, <1>6, <1>7, NoneIs DEF OwnInv, StepInv, TypeInv, At
<1> QED
  BY <1>8, <1>9, <1>10, <1>11, <1>12

\* A protective order executes.
LEMMA BinanceFillSafe ==
    ASSUME CoreInv, exchange = "binance", UNCHANGED exchange, NEW o \in acct.orders, Binance!ServerFill(o,
        acct.orders \ {o})
    PROVE  CoreInv'
<1> USE DEF CoreInv
<1>1. UNCHANGED <<mode, mem, session, journal, faults, hurt>>
  BY DEF Binance!ServerFill
<1>2. acct' \in Accounts /\ acct'.pos = 0 /\ acct'.orders = (acct.orders \ {o}) /\ acct'.opened = acct.opened
  BY DEF Memories, Accounts, TypeInv, Binance!ServerFill
<1>3. TypeInv'
  BY <1>1, <1>2 DEF TypeInv
<1>4. StepInv'
  BY <1>1, <1>2, NoneIs DEF StepInv, TypeInv, At, Bybit!MaxRetries
<1>5. OrderInv'
  BY <1>1, <1>2 DEF OrderInv, StepInv, TypeInv, At, OwnOrdersOnly
<1>6. ArmInv'
  BY <1>1, <1>2 DEF ArmInv, OrderInv, StepInv, TypeInv, LegsOf, Bybit!Legs, Binance!Legs, At
<1>7. OwnInv'
  BY <1>1, <1>2, NoneIs DEF OwnInv, StepInv, TypeInv, At
<1> QED
  BY <1>3, <1>4, <1>5, <1>6, <1>7

\* Somebody else closes the position.
LEMMA BinanceExternalCloseSafe ==
    ASSUME CoreInv, exchange = "binance", UNCHANGED exchange, Binance!ExternalClose(acct.orders)
    PROVE  CoreInv'
<1> USE DEF CoreInv
<1>1. UNCHANGED <<mode, mem, session, journal, hurt>> /\ faults' = faults + 1
  BY DEF Binance!ExternalClose, Binance!Faulty
<1>2. acct' \in Accounts /\ acct'.pos = 0 /\ acct'.orders = acct.orders /\ acct'.opened = acct.opened
  BY DEF Memories, Accounts, TypeInv, Binance!ExternalClose
<1>3. TypeInv'
  BY <1>1, <1>2 DEF TypeInv
<1>4. StepInv'
  BY <1>1, <1>2, NoneIs DEF StepInv, TypeInv, At, Bybit!MaxRetries
<1>5. OrderInv'
  BY <1>1, <1>2 DEF OrderInv, StepInv, TypeInv, At, OwnOrdersOnly
<1>6. ArmInv'
  BY <1>1, <1>2 DEF ArmInv, OrderInv, StepInv, TypeInv, LegsOf, Bybit!Legs, Binance!Legs, At
<1>7. OwnInv'
  BY <1>1, <1>2, NoneIs DEF OwnInv, StepInv, TypeInv, At
<1> QED
  BY <1>3, <1>4, <1>5, <1>6, <1>7

\* A trade nobody journaled.
LEMMA BinanceUnknownSafe ==
    ASSUME CoreInv, exchange = "binance", UNCHANGED exchange, Binance!Unknown
    PROVE  CoreInv'
<1> USE DEF CoreInv
<1>1. [id |-> Binance!TradeId, of |-> acct.opened] \in Currents
  BY DEF TypeInv, Accounts, Memories, Currents, Trades, Binance!TradeId
<1>2. /\ mem.pc = "unknown" /\ UNCHANGED <<mode, acct, session, faults, hurt>>
      /\ \/ mem' = [mem EXCEPT !.seq = @ + 1, !.cur = [id |-> Binance!TradeId, of |-> acct.opened],
          !.pc = "closed"]
         \/ mem' = [mem EXCEPT !.pc = "tidy"]
  BY DEF Binance!Unknown, Binance!LogEntry, Binance!Goto, Binance!At
<1>3. mem' = [mem EXCEPT !.pc = "tidy"] => mem' \in Memories /\ mem'.pc = "tidy" /\ mem'.cur = mem.cur
  BY DEF TypeInv, Memories, Steps
<1>4. /\ mem' \in Memories
      /\ \/ mem'.pc = "closed" /\ mem'.cur \in Currents /\ mem'.cur # None /\ mem'.cur.of = acct.opened
         \/ mem'.pc = "tidy" /\ mem'.cur = mem.cur
  <2>1. CASE mem' = [mem EXCEPT !.seq = @ + 1, !.cur = [id |-> Binance!TradeId, of |-> acct.opened],
       !.pc = "closed"]
    <3>1. mem' \in Memories /\ mem'.pc = "closed" /\ mem'.cur = [id |-> Binance!TradeId, of |-> acct.opened]
      BY <1>1, <2>1, EntryKept DEF Steps
    <3> QED
      BY <1>1, <3>1, NoneIs
  <2>2. CASE mem' = [mem EXCEPT !.pc = "tidy"]
    BY <1>3, <2>2
  <2> QED
    BY <1>2, <2>1, <2>2
<1>5. journal' \in Seq(JournalRows)
  BY <1>1, <1>2, EntryTyped DEF TypeInv, Binance!Unknown, Binance!LogEntry, Binance!TradeId, Binance!Row, Row
<1>6. TypeInv'
  BY <1>1, <1>2, <1>4, <1>5 DEF TypeInv
<1>7. StepInv'
  BY <1>1, <1>2, <1>4, <1>5, NoneIs DEF StepInv, TypeInv, At, Bybit!MaxRetries
<1>8. OrderInv'
  BY <1>1, <1>2, <1>4, <1>5 DEF OrderInv, StepInv, TypeInv, At, OwnOrdersOnly
<1>9. ArmInv'
  BY <1>1, <1>2, <1>4, <1>5 DEF ArmInv, OrderInv, StepInv, TypeInv, LegsOf, Bybit!Legs, Binance!Legs, At
<1>10. OwnInv'
  BY <1>1, <1>2, <1>4, <1>5, NoneIs DEF OwnInv, StepInv, TypeInv, At
<1> QED
  BY <1>6, <1>7, <1>8, <1>9, <1>10

----------------------------------------------------------------------------
(* All steps.                                                              *)

\* Every step keeps what concerns the account and the memory.
LEMMA CoreStep == ASSUME CoreInv, [Next]_<<vars, exchange>> PROVE CoreInv'
<1>1. CASE UNCHANGED <<vars, exchange>>
  BY <1>1 DEF vars, CoreInv, TypeInv, StepInv, OrderInv, ArmInv, OwnInv, OwnOrdersOnly, At, LegsOf,
              Bybit!Legs, Binance!Legs, Bybit!MaxRetries
<1>2. CASE exchange = "bybit" /\ Bybit!Next /\ UNCHANGED exchange
  BY <1>2, BybitStartSafe, BybitCrashSafe, BybitBootSafe, BybitBarSafe, BybitLocalStopSafe, BybitExitedSafe,
     BybitTidySafe, BybitClearSafe, BybitOpenSafe, BybitEnterSafe, BybitArmSafe, BybitSignalExitSafe,
     BybitCancelForAllSafe, BybitReadForAllSafe, BybitCloseForAllSafe, BybitFillSafe,
     BybitExternalCloseSafe DEF Bybit!Next
<1>3. CASE exchange = "binance" /\ Binance!Next /\ UNCHANGED exchange
  BY <1>3, BinanceStartSafe, BinanceCrashSafe, BinanceBootSafe, BinanceResumeSafe, BinanceAdoptSafe,
     BinanceBarSafe, BinanceLocalStopSafe, BinanceExitedSafe, BinanceTidySafe, BinanceClearSafe,
     BinanceOpenSafe, BinanceEnterSafe, BinanceArmSafe, BinanceReadInfoSafe, BinanceSignalExitSafe,
     BinanceUnknownSafe, BinanceFillSafe, BinanceExternalCloseSafe DEF Binance!Next
<1> QED
  BY <1>1, <1>2, <1>3 DEF Next

\* What a step does to the journal: it leaves it, or appends one row.
Silent ==
    /\ UNCHANGED journal /\ mem'.cur \in {mem.cur, None}
    /\ \/ session' = session + 1
       \/ session' = session /\ mem'.pc = "down"
       \/ session' = session /\ mem'.seq = mem.seq /\ mem.pc # "down"
Entering ==
    /\ mem.pc # "down" /\ mem'.pc # "down" /\ UNCHANGED session
    /\ journal' = Append(journal, Row("entry", <<session, mem.seq + 1>>, 0))
    /\ mem'.cur = [id |-> <<session, mem.seq + 1>>, of |-> acct.opened] /\ mem'.seq = mem.seq + 1
Exiting ==
    /\ At("closed") /\ mem'.pc = "tidy" /\ UNCHANGED session
    /\ mem'.cur = None /\ mem'.seq = mem.seq
    /\ journal' = Append(journal, Row("exit", IF mem.cur # None THEN mem.cur.id ELSE <<session, mem.seq,
        "x">>,
                                      acct.opened))

\* The memory of an entry, as EntryKept has it.
LEMMA EntryGiven ==
    ASSUME TypeInv, NEW p \in Steps,
           mem' = [mem EXCEPT !.seq = @ + 1, !.cur = [id |-> <<session, mem.seq + 1>>, of |-> acct.opened],
               !.pc = p]
    PROVE  /\ mem'.cur = [id |-> <<session, mem.seq + 1>>, of |-> acct.opened]
           /\ mem'.seq = mem.seq + 1 /\ mem'.pc = p
<1> DEFINE c == [id |-> <<session, mem.seq + 1>>, of |-> acct.opened]
<1>1. c \in Currents
  BY DEF TypeInv, Accounts, Memories, Currents, Trades
<1>2. mem' = [mem EXCEPT !.seq = @ + 1, !.cur = c, !.pc = p]
  OBVIOUS
<1> HIDE DEF c
<1>3. mem'.cur = c /\ mem'.seq = mem.seq + 1 /\ mem'.pc = p
  BY <1>1, <1>2, EntryKept
<1> QED
  BY <1>3 DEF c

\* Every step of the Bybit loop is one of these.
LEMMA BybitRows ==
    ASSUME CoreInv, exchange = "bybit", Bybit!Next
    PROVE  Silent \/ Entering \/ Exiting
<1> USE DEF CoreInv
<1>1. CASE Bybit!Start("boot") \/ Bybit!Start("cancel_all")
  BY <1>1 DEF Silent, Bybit!Start, Bybit!Memory, Bybit!None, None
<1>2. CASE Bybit!Crash
  BY <1>2 DEF Silent, Bybit!Crash, Bybit!Memory, Bybit!None, None
<1>3. CASE Bybit!Boot
  BY <1>3 DEF Silent, TypeInv, Memories, Bybit!Boot, Bybit!CancelAll, Bybit!Goto, Bybit!At
<1>4. CASE Bybit!Tidy
  BY <1>4 DEF Silent, TypeInv, Memories, Bybit!Tidy, Bybit!CancelAll, Bybit!Goto, Bybit!At
<1>5. CASE Bybit!Clear
  BY <1>5 DEF Silent, TypeInv, Memories, Bybit!Clear, Bybit!CancelAll, Bybit!Goto, Bybit!At
<1>6. CASE \E sig \in {"none", "enter", "exit"}, hit \in BOOLEAN : Bybit!Bar(sig, hit)
  BY <1>6 DEF Silent, TypeInv, Memories, Bybit!Bar, Bybit!At
<1>7. CASE Bybit!LocalStop
  BY <1>7 DEF Silent, TypeInv, Memories, Bybit!LocalStop, Bybit!MarketClose, Bybit!Goto, Bybit!At
<1>8. CASE Bybit!SignalExit
  BY <1>8 DEF Silent, TypeInv, Memories, Bybit!SignalExit, Bybit!MarketClose, Bybit!Goto, Bybit!At
<1>9. CASE Bybit!Open
  BY <1>9 DEF Silent, TypeInv, Memories, Bybit!Open, Bybit!MarketOpen, Bybit!Goto, Bybit!At
<1>10. CASE Bybit!Arm
  BY <1>10 DEF Silent, TypeInv, Memories, Bybit!Arm, Bybit!Goto, Bybit!At
<1>11. CASE Bybit!CancelForAll
  BY <1>11 DEF Silent, TypeInv, Memories, Bybit!CancelForAll, Bybit!Tries, Bybit!At
<1>12. CASE Bybit!ReadForAll
  BY <1>12 DEF Silent, TypeInv, Memories, Bybit!ReadForAll, Bybit!Goto, Bybit!At
<1>13. CASE Bybit!CloseForAll
  BY <1>13 DEF Silent, TypeInv, Memories, Bybit!CloseForAll, Bybit!Again, Bybit!MarketClose, Bybit!Goto,
     Bybit!At
<1>14. CASE \E o \in acct.orders : Bybit!ServerFill(o, {})
  BY <1>14 DEF Silent, Bybit!ServerFill
<1>15. CASE Bybit!ExternalClose({})
  BY <1>15 DEF Silent, Bybit!ExternalClose
<1>16. CASE Bybit!Enter
  <2>1. mem' = [mem EXCEPT !.seq = @ + 1, !.cur = [id |-> <<session, mem.seq + 1>>, of |-> acct.opened],
       !.pc = mem'.pc]
         /\ mem'.pc \in {"arm", "wait"}
    BY <1>16 DEF TypeInv, Memories, Bybit!Enter, Bybit!LogEntry, Bybit!TradeId
  <2> QED
    BY <1>16, <2>1, EntryGiven DEF Entering, Bybit!Enter, Bybit!LogEntry, Bybit!TradeId, Bybit!Row, Row,
       Bybit!At, Steps
<1>17. CASE Bybit!Exited
  BY <1>17 DEF Exiting, At, TypeInv, Memories, StepInv, Bybit!Exited, Bybit!LogExit, Bybit!Row, Row,
     Bybit!None, None, Bybit!At
<1> QED
  BY <1>1, <1>2, <1>3, <1>4, <1>5, <1>6, <1>7, <1>8, <1>9, <1>10, <1>11, <1>12, <1>13, <1>14, <1>15, <1>16,
     <1>17 DEF Bybit!Next

\* Every step of the Binance loop is one of these.
LEMMA BinanceRows ==
    ASSUME CoreInv, exchange = "binance", Binance!Next
    PROVE  Silent \/ Entering \/ Exiting
<1> USE DEF CoreInv
<1>1. CASE Binance!Start("boot")
  BY <1>1 DEF Silent, Binance!Start, Binance!Memory, Binance!None, None
<1>2. CASE Binance!Crash
  BY <1>2 DEF Silent, Binance!Crash, Binance!Memory, Binance!None, None
<1>3. CASE Binance!Boot
  BY <1>3 DEF Silent, TypeInv, Memories, Binance!Boot, Binance!CancelAll, Binance!Goto, Binance!At
<1>4. CASE Binance!Tidy
  BY <1>4 DEF Silent, TypeInv, Memories, Binance!Tidy, Binance!CancelAll, Binance!Goto, Binance!At
<1>5. CASE Binance!Clear
  BY <1>5 DEF Silent, TypeInv, Memories, Binance!Clear, Binance!CancelAll, Binance!Goto, Binance!At
<1>6. CASE \E sig \in {"none", "enter", "exit"}, hit \in BOOLEAN : Binance!Bar(sig, hit)
  BY <1>6 DEF Silent, TypeInv, Memories, Binance!Bar, Binance!At
<1>7. CASE Binance!LocalStop
  BY <1>7 DEF Silent, TypeInv, Memories, Binance!LocalStop, Binance!MarketClose, Binance!Goto, Binance!At
<1>8. CASE Binance!SignalExit
  BY <1>8 DEF Silent, TypeInv, Memories, Binance!SignalExit, Binance!MarketClose, Binance!Goto, Binance!At
<1>9. CASE Binance!Open
  BY <1>9 DEF Silent, TypeInv, Memories, Binance!Open, Binance!MarketOpen, Binance!Goto, Binance!At
<1>10. CASE Binance!Arm
  BY <1>10 DEF Silent, TypeInv, Memories, Binance!Arm, Binance!Goto, Binance!At
<1>11. CASE Binance!Resume
  BY <1>11 DEF Silent, TypeInv, Memories, Binance!Resume, Binance!At
<1>12. CASE Binance!ReadInfo
  BY <1>12 DEF Silent, TypeInv, Memories, Binance!ReadInfo, Binance!At
<1>13. CASE \E o \in acct.orders : Binance!ServerFill(o, acct.orders \ {o})
  BY <1>13 DEF Silent, Binance!ServerFill
<1>14. CASE Binance!ExternalClose(acct.orders)
  BY <1>14 DEF Silent, Binance!ExternalClose
<1>15. CASE Binance!Enter
  <2>1. mem' = [mem EXCEPT !.seq = @ + 1, !.cur = [id |-> <<session, mem.seq + 1>>, of |-> acct.opened],
       !.pc = mem'.pc]
         /\ mem'.pc \in {"arm", "wait"}
    BY <1>15 DEF TypeInv, Memories, Binance!Enter, Binance!LogEntry, Binance!TradeId
  <2> QED
    BY <1>15, <2>1, EntryGiven DEF Entering, Binance!Enter, Binance!LogEntry, Binance!TradeId, Binance!Row,
       Row, Binance!At, Steps
<1>16. CASE Binance!Adopt
  <2>1. mem' = [mem EXCEPT !.seq = @ + 1, !.cur = [id |-> <<session, mem.seq + 1>>, of |-> acct.opened],
       !.pc = mem'.pc]
         /\ mem'.pc \in {"arm", "wait"}
    BY <1>16 DEF TypeInv, Memories, Binance!Adopt, Binance!LogEntry, Binance!TradeId
  <2> QED
    BY <1>16, <2>1, EntryGiven DEF Entering, Binance!Adopt, Binance!LogEntry, Binance!TradeId, Binance!Row,
       Row, Binance!At, Steps
<1>17. CASE Binance!Unknown
  <2>1. CASE mem.info # 0
    <3>1. mem' = [mem EXCEPT !.seq = @ + 1, !.cur = [id |-> <<session, mem.seq + 1>>, of |-> acct.opened],
         !.pc = "closed"]
      BY <1>17, <2>1 DEF Binance!Unknown, Binance!LogEntry, Binance!TradeId
    <3> QED
      BY <1>17, <2>1, <3>1, EntryGiven DEF Entering, Binance!Unknown, Binance!LogEntry, Binance!TradeId,
         Binance!Row, Row, Binance!At, Steps
  <2>2. CASE mem.info = 0
    BY <1>17, <2>2 DEF Silent, TypeInv, Memories, Binance!Unknown, Binance!Goto, Binance!At
  <2> QED
    BY <2>1, <2>2
<1>18. CASE Binance!Exited
  BY <1>18 DEF Exiting, At, TypeInv, Memories, StepInv, Binance!Exited, Binance!LogExit, Binance!Row, Row,
     Binance!None, None, Binance!At
<1> QED
  BY <1>1, <1>2, <1>3, <1>4, <1>5, <1>6, <1>7, <1>8, <1>9, <1>10, <1>11, <1>12, <1>13, <1>14, <1>15, <1>16,
     <1>17, <1>18 DEF Binance!Next

\* The order of the journal survives every step.
LEMMA JournalStep == ASSUME CoreInv, JournalInv, [Next]_<<vars, exchange>> PROVE JournalInv'
<1>1. /\ journal \in Seq(JournalRows) /\ mem.cur \in Currents \cup {None}
      /\ session \in Nat /\ mem.seq \in Nat /\ acct.opened \in Nat
  BY DEF CoreInv, TypeInv, Memories, Accounts
<1>2. session' \in Nat /\ mem'.seq \in Nat
  BY CoreStep DEF CoreInv, TypeInv, Memories
<1>3. CASE UNCHANGED <<vars, exchange>>
  BY <1>3 DEF vars, JournalInv
<1>4. CASE Silent
  <2>1. /\ mem'.cur \in {mem.cur, None} /\ (session' = session \/ session' = session + 1)
        /\ session' = session => mem'.pc = "down" \/ (mem.pc # "down" /\ mem'.seq = mem.seq)
    BY <1>1, <1>4 DEF Silent
  <2>2. InOrder(journal, mem'.cur, session', mem'.seq, mem'.pc)
    <3>1. session' \in Nat /\ mem'.seq \in Nat /\ JournalInv
      BY <1>2
    <3> QED
      BY <1>1, <2>1, <3>1, NoRow DEF JournalInv
  <2> QED
    BY <1>4, <2>2 DEF Silent, JournalInv
<1>5. CASE Entering
  <2>1. InOrder(journal, mem.cur, session, mem.seq, mem.pc)
    BY DEF JournalInv
  <2>2. InOrder(journal', mem'.cur, session', mem'.seq, mem'.pc)
    BY <1>1, <1>5, <2>1, EntryRow DEF Entering
  <2> QED
    BY <2>2 DEF JournalInv
<1>6. CASE Exiting
  <2>1. InOrder(journal, mem.cur, session, mem.seq, mem.pc) /\ mem.pc # "down"
    BY <1>6 DEF Exiting, JournalInv, At
  <2> DEFINE id == IF mem.cur # None THEN mem.cur.id ELSE <<session, mem.seq, "x">>
  <2>2. (mem.cur # None /\ id = mem.cur.id) \/ id \in Nat \X Nat \X {"x"}
    BY <1>1
  <2>3. journal' = Append(journal, Row("exit", id, acct.opened))
    BY <1>6 DEF Exiting
  <2> HIDE DEF id
  <2>4. InOrder(journal', None, session, mem.seq, mem'.pc)
    BY <1>1, <2>1, <2>2, <2>3, ExitRow
  <2> QED
    BY <1>6, <2>4 DEF Exiting, JournalInv
<1> QED
  BY <1>3, <1>4, <1>5, <1>6, BybitRows, BinanceRows DEF Next

----------------------------------------------------------------------------
(* The theorems.                                                           *)

\* Both loops start so.
LEMMA LiveInit == Init => LiveInv
<1> SUFFICES ASSUME Init PROVE LiveInv
  OBVIOUS
<1>1. PICK m \in {"server", "local", "hybrid"} : mode = m /\ (exchange = "bybit" => m # "hybrid")
  BY DEF Init, Bybit!Init, Binance!Init
<1>2. /\ exchange \in {"bybit", "binance"}
      /\ acct = [pos |-> 0, orders |-> {}, opened |-> 0] /\ mem = Memory
      /\ session = 0 /\ journal = <<>> /\ faults = 0
      /\ hurt = [lost |-> FALSE, uncleared |-> FALSE]
  BY DEF Init, Bybit!Init, Binance!Init, Bybit!AccountInit, Binance!AccountInit, Bybit!Memory,
         Binance!Memory, Bybit!None, Binance!None, Memory, None
<1>3. mem.pc = "down" /\ mem.cur = None /\ mem \in Memories
  BY <1>2 DEF Memory, Memories, Steps
<1>4. acct \in Accounts /\ acct.pos = 0 /\ acct.orders = {} /\ hurt \in Hurts
  BY <1>2 DEF Accounts, Hurts
<1>5. TypeInv
  BY <1>1, <1>2, <1>3, <1>4 DEF TypeInv
<1>6. StepInv /\ OrderInv /\ ArmInv /\ OwnInv
  BY <1>1, <1>2, <1>3, <1>4 DEF StepInv, OrderInv, ArmInv, OwnInv, OwnOrdersOnly, At
<1>7. JournalInv
  BY <1>2, <1>3 DEF JournalInv, InOrder
<1> QED
  BY <1>5, <1>6, <1>7 DEF LiveInv, CoreInv

\* LiveInv is inductive: it holds in every state of either loop.
THEOREM LiveInvariant == Spec => []LiveInv
<1>1. LiveInv /\ [Next]_<<vars, exchange>> => LiveInv'
  BY CoreStep, JournalStep DEF LiveInv
<1> QED
  BY <1>1, LiveInit, PTL DEF Spec

\* However the loop, its watchdogs and the exchange interleave, and however
\* often the process restarts, a journaled trade is journaled out at most once.
THEOREM ExitsOnce == Spec => []OneExitPerTrade
<1>1. LiveInv => OneExitPerTrade
  <2> SUFFICES ASSUME LiveInv, NEW i \in Rows("exit"), NEW j \in Rows("exit"), i # j,
                      journal[i].trade = journal[j].trade, NEW e \in Rows("entry"),
                      journal[e].trade = journal[i].trade
               PROVE  FALSE
    BY DEF OneExitPerTrade, Entered
  <2>1. journal[i].trade \in Trades
    BY DEF LiveInv, JournalInv, InOrder, Rows
  <2> QED
    BY <2>1 DEF LiveInv, JournalInv, InOrder, Rows
<1> QED
  BY <1>1, LiveInvariant, PTL

\* An open position is behind the protective orders of its mode, and no order
\* of another position stands beside it.
THEOREM OrdersFit == Spec => []OrdersFitPosition
<1>1. LiveInv => OrdersFitPosition
  BY DEF LiveInv, CoreInv, OrderInv, ArmInv, LegsOf, OrdersFitPosition, ArmedUnlessFailed
<1> QED
  BY <1>1, LiveInvariant, PTL

\* The last row of the journal after a step that wrote an exit.
LEMMA ExitIs ==
    ASSUME CoreInv, [Next]_<<vars, exchange>>,
           Len(journal') > Len(journal), journal'[Len(journal')].what = "exit"
    PROVE  Exiting /\ journal'[Len(journal')].closed = acct.opened
<1>1. journal \in Seq(JournalRows)
  BY DEF CoreInv, TypeInv
<1>2. Silent \/ Entering \/ Exiting
  BY <1>1, BybitRows, BinanceRows DEF Next, vars
<1>3. ASSUME NEW r, journal' = Append(journal, r) PROVE journal'[Len(journal')] = r
  BY <1>1, <1>3
<1>4. ~Silent
  BY <1>1 DEF Silent
<1>5. ~Entering
  BY <1>3 DEF Entering, Row
<1>6. Exiting => journal'[Len(journal')].closed = acct.opened
  BY <1>3 DEF Exiting, Row
<1> QED
  BY <1>2, <1>4, <1>5, <1>6

\* Whatever a loop reports as closed is closed, and is the trade it names.
THEOREM ExitsTrue == Spec => ExitsAreTrue
<1> DEFINE Own == ~hurt.lost /\ Len(journal') > Len(journal) /\ journal'[Len(journal')].what = "exit"
                  /\ mem.cur # None => mem.cur.of = journal'[Len(journal')].closed
           Flat == Len(journal') > Len(journal) /\ journal'[Len(journal')].what = "exit" => acct.pos = 0
           All == mem'.pc = "done" /\ mem.pc # "done" /\ mem'.tries < Bybit!MaxRetries => acct'.pos = 0
<1>1. LiveInv /\ [Next]_<<vars, exchange>> => [Own]_vars
  BY ExitIs DEF LiveInv, CoreInv, OwnInv, Exiting, At
<1>2. LiveInv /\ [Next]_<<vars, exchange>> => [Flat]_vars
  BY ExitIs DEF LiveInv, CoreInv, StepInv, Exiting, At
<1>3. LiveInv /\ [Next]_<<vars, exchange>> => [All]_vars
  BY CoreStep DEF LiveInv, CoreInv, StepInv, At
<1> QED
  BY <1>1, <1>2, <1>3, LiveInvariant, PTL
     DEF Spec, ExitsAreTrue, ExitClosesOwn, ExitIsFlat, CloseAllFlat
=============================================================================
