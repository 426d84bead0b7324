--------------------------- MODULE RequestLifecycle ---------------------------
(***************************************************************************)
(* What the manual-action API promises about one request identifier while  *)
(* its record is retained: one request at a time is queued or running, it  *)
(* moves forward only, its command is attempted at most once, a request    *)
(* that was given up was never attempted, and a record that has ended does *)
(* not change until it is dropped.                                         *)
(***************************************************************************)
CONSTANT Ids

VARIABLES state,     \* state of each identifier, "absent" when not retained
          attempted  \* identifiers whose command was attempted

rvars == <<state, attempted>>

InFlight == {"queued", "running"}
Ended == {"succeeded", "failed"}

RInit ==
  /\ state = [i \in Ids |-> "absent"]
  /\ attempted = {}

(* Records that have ended may be dropped to make room. *)
Accept(i, dropped) ==
  /\ state[i] = "absent"
  /\ \A j \in Ids : state[j] \notin InFlight
  /\ dropped \subseteq {j \in Ids : state[j] \in Ended}
  /\ state' = [j \in Ids |-> IF j = i THEN "queued"
                             ELSE IF j \in dropped THEN "absent" ELSE state[j]]
  /\ attempted' = attempted \ dropped

GiveUp(i) ==
  /\ state[i] = "queued"
  /\ state' = [state EXCEPT ![i] = "failed"]
  /\ UNCHANGED attempted

Start(i) ==
  /\ state[i] = "queued"
  /\ state' = [state EXCEPT ![i] = "running"]
  /\ UNCHANGED attempted

Attempt(i) ==
  /\ state[i] = "running" /\ i \notin attempted
  /\ attempted' = attempted \cup {i}
  /\ UNCHANGED state

Finish(i, s) ==
  /\ state[i] = "running" /\ i \in attempted
  /\ state' = [state EXCEPT ![i] = s]
  /\ UNCHANGED attempted

ForgetAll ==
  /\ state' = [i \in Ids |-> "absent"]
  /\ attempted' = {}

RNext ==
  \/ \E i \in Ids : \E dropped \in SUBSET Ids : Accept(i, dropped)
  \/ \E i \in Ids : GiveUp(i) \/ Start(i) \/ Attempt(i)
  \/ \E i \in Ids : \E s \in Ended : Finish(i, s)
  \/ ForgetAll

RSpec == RInit /\ [][RNext]_rvars
=============================================================================
