----------------------------- MODULE RunLedger -----------------------------
(***************************************************************************)
(* What the retry profile of an experiment promises: a run is attempted at *)
(* most MaxAttempts times, completes once and for all, and is not          *)
(* attempted again after an error that may not be retried.                 *)
(***************************************************************************)
EXTENDS Naturals

CONSTANTS Runs, MaxAttempts
VARIABLES used, state

Init == used = [r \in Runs |-> 0] /\ state = [r \in Runs |-> "open"]

Attempt(r) ==
    /\ state[r] = "open" /\ used[r] < MaxAttempts
    /\ used' = [used EXCEPT ![r] = @ + 1]
    /\ UNCHANGED state

Settle(r, outcome) ==
    /\ state[r] = "open" /\ used[r] > 0
    /\ state' = [state EXCEPT ![r] = outcome]
    /\ UNCHANGED used

Next == \E r \in Runs : Attempt(r) \/ Settle(r, "complete") \/ Settle(r, "forbidden")

Spec == Init /\ [][Next]_<<used, state>>
============================================================================
