--------------------------- MODULE MCMastermind ---------------------------
(***************************************************************************)
(* Model values of the TLC runs of Mastermind; the bounds are in the cfgs. *)
(***************************************************************************)
EXTENDS Mastermind

LongOnly == {1}
ShortOnly == {-1}
============================================================================
