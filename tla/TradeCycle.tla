---------------------------- MODULE TradeCycle ----------------------------
(***************************************************************************)
(* What the mms v2 reducer promises about one trade cycle after another:   *)
(* a setup that has traded ends only through one final verdict, and the    *)
(* verdict of a trade, and nothing else, moves the sequential risk mode.   *)
(***************************************************************************)
CONSTANTS Sequential,   \* the sequential matrix is enabled
          Verdicts      \* final close reasons

VARIABLES mode,      \* "FULL" or "SCOUT"
          stage,     \* "idle", "pending", "traded" or "closed"
          verdict,   \* final close reason of a closed setup, "-" before
          won        \* a closed setup's net PnL is positive

cycle == <<mode, stage, verdict, won>>

CycleInit == mode = "FULL" /\ stage = "idle" /\ verdict = "-" /\ won = FALSE

NextMode ==
    IF ~Sequential THEN mode
    ELSE IF verdict = "BASE_SL" THEN "SCOUT"
    ELSE IF mode = "SCOUT" /\ verdict = "TP" /\ won THEN "FULL"
    ELSE mode

Move(from, to) == stage = from /\ stage' = to

Open == Move("idle", "pending") /\ UNCHANGED <<mode, verdict, won>>
Trade == Move("pending", "traded") /\ UNCHANGED <<mode, verdict, won>>
Abandon == Move("pending", "idle") /\ UNCHANGED <<mode, verdict, won>>
Close == Move("traded", "closed") /\ verdict' \in Verdicts /\ won' \in BOOLEAN /\ UNCHANGED mode

\* Funding of the closed setup arrives before its final reconciliation.
Settle == Move("closed", "closed") /\ won' \in BOOLEAN /\ UNCHANGED <<mode, verdict>>

\* A late entry fill withdraws the provisional finalization.
Withdraw == Move("closed", "traded") /\ verdict' = "-" /\ won' = FALSE /\ UNCHANGED mode

Retire == Move("closed", "idle") /\ mode' = NextMode /\ verdict' = "-" /\ won' = FALSE

CycleNext == Open \/ Trade \/ Abandon \/ Close \/ Settle \/ Withdraw \/ Retire

CycleSpec == CycleInit /\ [][CycleNext]_cycle
============================================================================
