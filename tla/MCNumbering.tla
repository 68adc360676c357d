----------------------------- MODULE MCNumbering -----------------------------
(* Instances of Numbering for TLC: loose gear, and radiographic reports,   *)
(* whose letters RT occur in every CERT number.                            *)
EXTENDS Numbering, TLC

CONSTANTS RT

MCTags == {LG, RT}
MCSpells(t) == {t, RT}
Symmetry == Permutations(Devices) \cup Permutations(Clerks)

==============================================================================
