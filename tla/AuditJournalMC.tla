--------------------------- MODULE AuditJournalMC ----------------------------
(***************************************************************************)
(* Small instances of AuditJournal.                                        *)
(***************************************************************************)
EXTENDS AuditJournal, TLC

Symmetry == Permutations(Writers) \cup Permutations(Inodes)

(* Events of one and of two bytes take turns. *)
Alternating == [e \in Events |-> 1 + (e % 2)]
=============================================================================
