------------------------- MODULE RuleCycleHistoryMC -------------------------
(***************************************************************************)
(* Small instances of RuleCycleHistory for TLC.                            *)
(***************************************************************************)
EXTENDS RuleCycleHistory

OneConditional == [r \in 1 .. 1 |-> TRUE]
OneOther == [r \in 1 .. 1 |-> <<"other">>]
=============================================================================
