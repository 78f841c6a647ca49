------------------------------ MODULE Research ------------------------------
(***************************************************************************)
(* The research command an operator starts: a backtest of one strategy     *)
(* (BarEngines), a walk-forward or a sweep (WalkForward), a development    *)
(* run of session 4 (Session4Execution), or the commands that prepare the  *)
(* data (MarketData, FundingHistory); and, by itself, the evaluator of     *)
(* mastermind's signals (SignalEvaluator).  They share code and no state:  *)
(* a process runs one of them, the others' variables stay as they began.   *)
(***************************************************************************)
EXTENDS BarEngines, WalkForward, Session4Execution, MarketData, FundingHistory,
        SignalEvaluator

VARIABLE tool

researchVars ==
    <<tool, market, setup, legacy, native, past, plan, wf, desk, monitor, result, audit,
      feed, job, files, venue, history, rules, memory, life, fact, count>>

\* A tool that does not run.
NoBars ==
    /\ market = [phase |-> "idle"] /\ setup = <<>> /\ legacy = [algo |-> Fresh]
    /\ native = <<>> /\ past = [equity |-> <<>>]
NoFolds == plan = <<>> /\ wf = [phase |-> "idle", results |-> <<>>]
NoDesk ==
    /\ desk = [phase |-> "idle", pos |-> NoPosition] /\ monitor = [liquidation |-> 0]
    /\ result = "none" /\ audit = [hours |-> <<>>]

NoData ==
    /\ feed = [source |-> "none"] /\ job = Idle4
    /\ files = [raw |-> <<>>, processed |-> <<>>, coarse |-> <<>>, toPresent |-> FALSE]
NoFunding == venue = <<>> /\ history = [phase |-> "none"]
NoSignals ==
    /\ rules = [policy |-> "none"] /\ memory = <<>> /\ life = FlatLife
    /\ fact = NoFact /\ count = [used |-> 0]

ResearchInit ==
    \/ tool = "backtest" /\ BarInit /\ NoFolds /\ NoDesk /\ NoData /\ NoFunding /\ NoSignals
    \/ tool = "walkforward" /\ NoBars /\ FoldInit /\ NoDesk /\ NoData /\ NoFunding /\ NoSignals
    \/ tool = "session4" /\ NoBars /\ NoFolds /\ DeskInit /\ NoData /\ NoFunding /\ NoSignals
    \/ tool = "data" /\ NoBars /\ NoFolds /\ NoDesk /\ DataInit /\ NoFunding /\ NoSignals
    \/ tool = "funding" /\ NoBars /\ NoFolds /\ NoDesk /\ NoData /\ FundingInit /\ NoSignals
    \/ tool = "signals" /\ NoBars /\ NoFolds /\ NoDesk /\ NoData /\ NoFunding /\ SignalInit

ResearchNext ==
    /\ UNCHANGED tool
    /\ \/ tool = "backtest" /\ BarNext
          /\ UNCHANGED <<foldVars, deskVars, dataVars, fundingVars, signalVars>>
       \/ tool = "walkforward" /\ FoldNext
          /\ UNCHANGED <<barVars, deskVars, dataVars, fundingVars, signalVars>>
       \/ tool = "session4" /\ DeskNext
          /\ UNCHANGED <<barVars, foldVars, dataVars, fundingVars, signalVars>>
       \/ tool = "data" /\ DataNext
          /\ UNCHANGED <<barVars, foldVars, deskVars, fundingVars, signalVars>>
       \/ tool = "funding" /\ FundingNext
          /\ UNCHANGED <<barVars, foldVars, deskVars, dataVars, signalVars>>
       \/ tool = "signals" /\ SignalNext
          /\ UNCHANGED <<barVars, foldVars, deskVars, dataVars, fundingVars>>

ResearchSpec == ResearchInit /\ [][ResearchNext]_researchVars

=============================================================================
