---------------------------- MODULE MCPhotoStorage ----------------------------
(***************************************************************************)
(* Instances of PhotoStorage for TLC.                                      *)
(***************************************************************************)
EXTENDS PhotoStorage, TLC

Symmetry ==
    Permutations(Files) \cup Permutations(Saves) \cup Permutations(Deletes)
        \cup Permutations(Signings) \cup Permutations(CertNos)

===============================================================================
