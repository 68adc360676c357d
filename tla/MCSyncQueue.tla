----------------------------- MODULE MCSyncQueue -----------------------------
(***************************************************************************)
(* Instances of SyncQueue for TLC, with attempts capped well below 10: two *)
(* edits with the hook's flushes alone, and one edit with two accounts and *)
(* the flushes of the hook and of the badge overlapping.                   *)
(***************************************************************************)
EXTENDS SyncQueue, TLC

CONSTANTS hook, badge

MCHook == hook
MCHookOnly == {hook}
MCHookAndBadge == {hook, badge}

Symmetry == Permutations(Docs)

===============================================================================
