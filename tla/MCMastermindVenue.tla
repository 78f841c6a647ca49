------------------------ MODULE MCMastermindVenue ------------------------
(* Long trades: the code is symmetric in the side. *)
EXTENDS MastermindVenue

LongOnly == {1}
============================================================================
