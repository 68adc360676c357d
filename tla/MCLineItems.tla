----------------------------- MODULE MCLineItems -----------------------------
(* An instance of LineItems for TLC.                                       *)
EXTENDS LineItems

MCAmounts == {-100, 0, 100, 200}
MCPercents == {0, 50, 150}

==============================================================================
