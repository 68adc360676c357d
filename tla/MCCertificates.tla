---------------------------- MODULE MCCertificates ----------------------------
(***************************************************************************)
(* Instances of Certificates for TLC.  One certificate number is enough:   *)
(* handlers touch only the row of their own number.                        *)
(***************************************************************************)
EXTENDS Certificates, TLC

CONSTANTS adm, ben

MCUsers == {adm, ben}
MCAdmins == {adm}
MCDeleters == {adm}
\* The administrator sees every certificate, ben only his own.
MCViewers == {adm}

Symmetry == Permutations(Saves) \cup Permutations(Deletes)

===============================================================================
