---------------------------- MODULE RuleCycleMC -----------------------------
(***************************************************************************)
(* A small instance of RuleCycle for TLC.                                  *)
(***************************************************************************)
EXTENDS RuleCycle

(* A rule on the container state, then one on a measurement that restarts  *)
(* twice.                                                                  *)
StateThenMetric == [r \in 1 .. 2 |-> r = 2]
OtherThenRestarts ==
  [r \in 1 .. 2 |-> IF r = 1 THEN <<"other">> ELSE <<"restart", "other", "restart">>]
=============================================================================
