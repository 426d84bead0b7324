---------------------------- MODULE CollectionMC -----------------------------
(***************************************************************************)
(* A small instance of Collection for TLC.                                 *)
(***************************************************************************)
EXTENDS Collection

(* A container that starts too often; one that runs hot and was not killed *)
(* for its memory; one that was started and is cold.                       *)
ThreeRules == <<"flapping", "hot", "fresh">>
TheirConditions ==
  [flapping |-> <<[resource |-> "start", operator |-> ">=", value |-> 2]>>,
   hot |-> <<[resource |-> "oom", operator |-> "==", value |-> 0],
             [resource |-> "measured", operator |-> ">=", value |-> 1]>>,
   fresh |-> <<[resource |-> "start", operator |-> "==", value |-> 1]>>]
=============================================================================
