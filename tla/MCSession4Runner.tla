------------------------- MODULE MCSession4Runner -------------------------
(* Two symbols; run 2 has one of its own. *)
EXTENDS Session4Runner

TwoSymbols == [r \in Runs |-> IF r = 2 THEN 2 ELSE 1]
WholeMatrix == {Runs}
===========================================================================
