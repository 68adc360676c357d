------------------------------ MODULE MCAccounts ------------------------------
(* Instances of Accounts for TLC.                                          *)
EXTENDS Accounts, TLC

Symmetry == {p @@ q : p \in Permutations(Requests), q \in Permutations(Users)}
MCNone == {}

===============================================================================
