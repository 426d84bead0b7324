--------------------------- MODULE ExecDeadlineMC ----------------------------
(***************************************************************************)
(* Small instances of ExecDeadline.                                        *)
(***************************************************************************)
EXTENDS ExecDeadline, TLC

Symmetry == Permutations(Execs) \cup Permutations(Clients)
=============================================================================
