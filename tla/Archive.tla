------------------------------- MODULE Archive -------------------------------
(***************************************************************************)
(* What a migration promises of its output directories: a directory is     *)
(* created by one run, becomes complete in one step, and is told complete  *)
(* to the operator only once nothing, a power loss included, can undo it.  *)
(***************************************************************************)
CONSTANT Dirs  \* output directories

VARIABLES status,       \* of each directory
          acknowledged  \* directories that a run reported complete

Init == /\ status = [d \in Dirs |-> "absent"]
        /\ acknowledged = {}

Create(d) == /\ status[d] = "absent"
             /\ status' = [status EXCEPT ![d] = "incomplete"]
             /\ UNCHANGED acknowledged

Commit(d) == /\ status[d] = "incomplete"
             /\ status' = [status EXCEPT ![d] = "complete"]
             /\ UNCHANGED acknowledged

Acknowledge(d) == /\ status[d] = "complete"
                  /\ acknowledged' = acknowledged \cup {d}
                  /\ UNCHANGED status

(* A power loss may take back what was not acknowledged. *)
Undone(s) == CASE s = "complete" -> {"absent", "incomplete", "complete"}
               [] s = "incomplete" -> {"absent", "incomplete"}
               [] OTHER -> {"absent"}
Lose == /\ status' \in [Dirs -> {"absent", "incomplete", "complete"}]
        /\ \A d \in Dirs : IF d \in acknowledged THEN status'[d] = status[d]
                                                 ELSE status'[d] \in Undone(status[d])
        /\ UNCHANGED acknowledged

Next == Lose \/ \E d \in Dirs : Create(d) \/ Commit(d) \/ Acknowledge(d)

Spec == Init /\ [][Next]_<<status, acknowledged>>
=============================================================================
