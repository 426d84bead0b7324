---------------------------- MODULE RestartBudget ---------------------------
(***************************************************************************)
(* What the automatic restart limit promises, whoever runs and whatever    *)
(* fails: a restart is reserved durably before it is sent, at most Limit   *)
(* are reserved for a container, and only an explicit rearm gives it a new *)
(* budget.  A reservation may be wasted; a restart is never sent without   *)
(* one.  (RestartPolicy in core/policy.py: "a per-container automatic      *)
(* restart budget, latched until explicit rearm".)                         *)
(***************************************************************************)
EXTENDS Naturals

CONSTANTS Containers, Limit

VARIABLES reserved,  \* reservations per container since its last rearm
          sent       \* restarts sent per container since its last rearm

Init == /\ reserved = [c \in Containers |-> 0]
        /\ sent = [c \in Containers |-> 0]

Reserve(c) == /\ reserved[c] < Limit
              /\ reserved' = [reserved EXCEPT ![c] = @ + 1]
              /\ UNCHANGED sent

Send(c) == /\ sent[c] < reserved[c]
           /\ sent' = [sent EXCEPT ![c] = @ + 1]
           /\ UNCHANGED reserved

Rearm(c) == /\ reserved[c] > 0
            /\ reserved' = [reserved EXCEPT ![c] = 0]
            /\ sent' = [sent EXCEPT ![c] = 0]

Next == \E c \in Containers : Reserve(c) \/ Send(c) \/ Rearm(c)

Spec == Init /\ [][Next]_<<reserved, sent>>
=============================================================================
