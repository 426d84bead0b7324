--------------------------- MODULE ManualActionsMC ---------------------------
(***************************************************************************)
(* Small instances of ManualActions.                                       *)
(***************************************************************************)
EXTENDS ManualActions, TLC

Symmetry == Permutations(Clients) \cup Permutations(Ids)
=============================================================================
