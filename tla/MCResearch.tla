----------------------------- MODULE MCResearch -----------------------------
(* Mark prices of calm and crashing hours; bars that touch the lower band, *)
(* the upper or none, rise or fall, and carry a stochastic that is up or   *)
(* down in the oversold zone or down in the overbought one.                *)
EXTENDS Research

TwoMarks == {[low |-> 9, high |-> 11], [low |-> 5, high |-> 15]}

HourBars ==
    {[open |-> body[1], close |-> body[2], low |-> span[1], high |-> span[2],
      lower |-> 4, upper |-> 7, k |-> stoch[1], d |-> stoch[2]] :
        body \in {<<5, 6>>, <<6, 5>>}, span \in {<<3, 6>>, <<5, 8>>, <<5, 6>>},
        stoch \in {<<1, 2>>, <<2, 1>>, <<8, 9>>}}
=============================================================================
