------------------------------ MODULE MCFinance ------------------------------
(* Instances of Finance for TLC.                                           *)
EXTENDS Finance, TLC

Symmetry == Permutations(Tasks)

==============================================================================
