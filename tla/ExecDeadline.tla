---------------------------- MODULE ExecDeadline -----------------------------
(***************************************************************************)
(* Container execs with a deadline.  The thread of the monitoring cycle    *)
(* starts a worker thread for each exec and waits for its future until the *)
(* deadline.  When that passes, the cycle gives up: the worker, which is   *)
(* still inside the Docker SDK, becomes the owner of the cycle's           *)
(* connection and closes it when the call returns, and no further exec is  *)
(* submitted while that worker lives.  The command itself runs in the      *)
(* container whatever becomes of the call.                                 *)
(* Sources: adapters/docker.py (DockerActionExecutor, begin_cycle and      *)
(* end_cycle of DockerCollector), core/engine.py for the outcome recorded. *)
(***************************************************************************)
CONSTANTS Execs,    \* exec calls, each with its worker thread and its future
          Clients,  \* connections to Docker
          None

ASSUME NoneAssumption == None \notin Execs /\ None \notin Clients

VARIABLES main,      \* where the thread of the cycle is
          current,   \* the exec it works on
          client,    \* collector.client
          pending,   \* executor._pending_exec
          worker,    \* worker thread of each exec
          future,    \* what its future holds
          late,      \* execs whose deadline has passed
          uses,      \* the client on which each exec is called
          callback,  \* execs whose completion closes their client
          remote,    \* the command in the container
          outcome,   \* what the audit journal and the caller are told of it
          opened,    \* history: clients that have been connected
          closed     \* history: how often each client was closed

thread == <<main, current, client, pending>>
call == <<worker, future, late, uses, callback>>
vars == <<thread, call, remote, outcome, opened, closed>>

Results == {"exit zero", "exit nonzero", "no status", "API error",
            "interrupted", "declined"}
Alive(e) == worker[e] \in {"started", "checked", "calling", "completed"}

(***************************************************************************)
(* TypeOK: the variables keep their types.                                 *)
(***************************************************************************)
TypeOK ==
  /\ main \in {"idle", "cycle", "waiting", "giving up", "detached", "ending"}
  /\ current \in Execs \cup {None}
  /\ client \in Clients \cup {None}
  /\ pending \in Execs \cup {None}
  /\ worker \in [Execs -> {"new", "started", "checked", "calling", "completed", "dead"}]
  /\ future \in [Execs -> Results \cup {"unset"}]
  /\ late \subseteq Execs
  /\ uses \in [Execs -> Clients \cup {None}]
  /\ callback \subseteq Execs
  /\ remote \in [Execs -> {"none", "running", "ended"}]
  /\ outcome \in [Execs -> {"none", "succeeded", "failed", "unknown", "refused"}]
  /\ opened \subseteq Clients
  /\ closed \in [Clients -> {"never", "once", "twice"}]

Init ==
  /\ main = "idle" /\ current = None /\ client = None /\ pending = None
  /\ worker = [e \in Execs |-> "new"]
  /\ future = [e \in Execs |-> "unset"]
  /\ late = {}
  /\ uses = [e \in Execs |-> None]
  /\ callback = {}
  /\ remote = [e \in Execs |-> "none"]
  /\ outcome = [e \in Execs |-> "none"]
  /\ opened = {}
  /\ closed = [c \in Clients |-> "never"]

Closing(c) == [closed EXCEPT ![c] = IF @ = "never" THEN "once" ELSE "twice"]

-----------------------------------------------------------------------------
(***************************************************************************)
(* The thread of the cycle.                                                *)
(***************************************************************************)
BeginCycle(c) ==
  /\ main = "idle"
  /\ client = None
  /\ c \notin opened
  /\ client' = c
  /\ opened' = opened \cup {c}
  /\ main' = "cycle"
  /\ UNCHANGED <<current, pending, call, remote, outcome, closed>>

(* Mutant: a worker that was abandoned is forgotten. *)
Forgotten == FALSE
StillPending == pending # None /\ Alive(pending)

(* "exec not submitted: previous Docker call is still pending": the cycle  *)
(* fails.                                                                  *)
RefuseExec(e) ==
  /\ main = "cycle"
  /\ worker[e] = "new" /\ outcome[e] = "none"
  /\ StillPending
  /\ outcome' = [outcome EXCEPT ![e] = "refused"]
  /\ main' = "ending"
  /\ UNCHANGED <<current, client, pending, call, remote, opened, closed>>

StartExec(e) ==
  /\ main = "cycle"
  /\ worker[e] = "new" /\ outcome[e] = "none"
  /\ ~StillPending
  /\ pending' = None
  /\ current' = e
  /\ worker' = [worker EXCEPT ![e] = "started"]
  /\ uses' = [uses EXCEPT ![e] = client]
  /\ main' = "waiting"
  /\ UNCHANGED <<client, future, late, callback, remote, outcome, opened, closed>>

(* Mutant: an exec without a status is a success. *)
ToldKindly(result) ==
  CASE result \in {"exit zero", "no status"} -> "succeeded"
    [] result = "interrupted" -> "unknown"
    [] OTHER -> "failed"

(* What _apply records, and whether the cycle goes on.  An API error makes *)
(* execute return False, which is a failed command.                        *)
Told(result) ==
  CASE result = "exit zero" -> "succeeded"
    [] result \in {"no status", "interrupted"} -> "unknown"
    [] OTHER -> "failed"

TakeResult(e) ==
  /\ main = "waiting" /\ current = e
  /\ future[e] # "unset"
  /\ outcome' = [outcome EXCEPT ![e] = Told(future[e])]
  /\ main' = IF future[e] = "exit zero" THEN "cycle" ELSE "ending"
  /\ current' = None
  /\ UNCHANGED <<client, pending, call, remote, opened, closed>>

(* wait returns without a result at the deadline.  From here on the future *)
(* may be completed between any two steps.                                 *)
GiveUp(e) ==
  /\ main = "waiting" /\ current = e
  /\ e \in late /\ future[e] = "unset"
  /\ main' = "giving up"
  /\ UNCHANGED <<current, client, pending, call, remote, outcome, opened, closed>>

(* Mutant: the cycle keeps its client. *)
KeepClient(e) ==
  /\ main = "giving up" /\ current = e
  /\ pending' = e
  /\ main' = "detached"
  /\ UNCHANGED <<current, client, call, remote, outcome, opened, closed>>

Detach(e) ==
  /\ main = "giving up" /\ current = e
  /\ client' = None
  /\ pending' = e
  /\ main' = "detached"
  /\ UNCHANGED <<current, call, remote, outcome, opened, closed>>

(* Mutant: a future that has been completed meanwhile is not noticed. *)
AddCallback(e) ==
  /\ main = "detached" /\ current = e
  /\ callback' = callback \cup {e} /\ UNCHANGED closed
  /\ outcome' = [outcome EXCEPT ![e] = "unknown"]
  /\ main' = "ending"
  /\ current' = None
  /\ UNCHANGED <<client, pending, worker, future, late, uses, remote, opened>>

(* add_done_callback calls back at once when the future is complete. *)
HandOver(e) ==
  /\ main = "detached" /\ current = e
  /\ IF future[e] = "unset"
     THEN callback' = callback \cup {e} /\ UNCHANGED closed
     ELSE closed' = Closing(uses[e]) /\ UNCHANGED callback
  /\ outcome' = [outcome EXCEPT ![e] = "unknown"]
  /\ main' = "ending"
  /\ current' = None
  /\ UNCHANGED <<client, pending, worker, future, late, uses, remote, opened>>

(* Also when a cycle ends for any other reason. *)
EndCycle ==
  /\ main \in {"cycle", "ending"}
  /\ client' = None
  /\ closed' = IF client # None THEN Closing(client) ELSE closed
  /\ main' = "idle"
  /\ UNCHANGED <<current, pending, call, remote, outcome, opened>>

-----------------------------------------------------------------------------
(***************************************************************************)
(* The worker threads.                                                     *)
(***************************************************************************)
Complete(e, result) ==
  /\ future' = [future EXCEPT ![e] = result]
  /\ worker' = [worker EXCEPT ![e] = "completed"]
  /\ UNCHANGED <<thread, late, uses, callback, remote, outcome, opened, closed>>

(* "exec deadline expired before submission" *)
Decline(e) ==
  /\ worker[e] = "started" /\ e \in late
  /\ Complete(e, "declined")

CheckDeadline(e) ==
  /\ worker[e] = "started" /\ e \notin late
  /\ worker' = [worker EXCEPT ![e] = "checked"]
  /\ UNCHANGED <<thread, future, late, uses, callback, remote, outcome, opened, closed>>

Submit(e) ==
  /\ worker[e] = "checked"
  /\ worker' = [worker EXCEPT ![e] = "calling"]
  /\ UNCHANGED <<thread, future, late, uses, callback, remote, outcome, opened, closed>>

(* exec_run: an exit status after the command has ended, no status for one *)
(* that was detached, an error response or a broken connection at any time.*)
Return(e, result) ==
  /\ worker[e] = "calling"
  /\ result \in {"exit zero", "exit nonzero"} => remote[e] = "ended"
  /\ result = "no status" => remote[e] # "none"
  /\ result # "declined"
  /\ Complete(e, result)

(* The callback runs in the worker, which then ends. *)
Die(e) ==
  /\ worker[e] = "completed"
  /\ worker' = [worker EXCEPT ![e] = "dead"]
  /\ closed' = IF e \in callback THEN Closing(uses[e]) ELSE closed
  /\ UNCHANGED <<thread, future, late, uses, callback, remote, outcome, opened>>

-----------------------------------------------------------------------------
(***************************************************************************)
(* Time, and the command in the container: a request that has left starts  *)
(* it, also when the connection breaks first.                              *)
(***************************************************************************)
Expire(e) ==
  /\ worker[e] # "new" /\ e \notin late
  /\ late' = late \cup {e}
  /\ UNCHANGED <<thread, worker, future, uses, callback, remote, outcome, opened, closed>>

RemoteStart(e) ==
  /\ worker[e] = "calling" \/ future[e] = "interrupted"
  /\ remote[e] = "none"
  /\ remote' = [remote EXCEPT ![e] = "running"]
  /\ UNCHANGED <<thread, call, outcome, opened, closed>>

RemoteEnd(e) ==
  /\ remote[e] = "running"
  /\ remote' = [remote EXCEPT ![e] = "ended"]
  /\ UNCHANGED <<thread, call, outcome, opened, closed>>

ExecStep(e) == StartExec(e) \/ RefuseExec(e)
WaitStep(e) == TakeResult(e) \/ GiveUp(e) \/ Detach(e) \/ HandOver(e)
WorkerStep(e) == Decline(e) \/ CheckDeadline(e) \/ Submit(e) \/ Die(e)

Next ==
  \/ \E c \in Clients : BeginCycle(c)
  \/ EndCycle
  \/ \E e \in Execs : \/ ExecStep(e) \/ WaitStep(e) \/ WorkerStep(e)
                      \/ Expire(e) \/ RemoteStart(e) \/ RemoteEnd(e)
                      \/ \E result \in Results : Return(e, result)

Spec == Init /\ [][Next]_vars

(* Both threads run and the clock advances.  Docker and the container owe  *)
(* nothing: a call may never return.                                       *)
FairSpec ==
  /\ Spec
  /\ WF_vars(EndCycle)
  /\ \A e \in Execs : WF_vars(WaitStep(e)) /\ WF_vars(WorkerStep(e)) /\ WF_vars(Expire(e))

-----------------------------------------------------------------------------
(***************************************************************************)
(* A connection is closed once at most, whoever closes it, and never under *)
(* a call that is still being made on it.                                  *)
(***************************************************************************)
ClosedOnceAfterUse ==
  /\ \A c \in Clients : closed[c] # "twice"
  /\ \A e \in Execs : uses[e] # None /\ closed[uses[e]] # "never"
                        => worker[e] \in {"completed", "dead"}

(***************************************************************************)
(* Only one exec at a time is on its way to Docker: an abandoned call      *)
(* holds back every other.                                                 *)
(***************************************************************************)
OneCallAtATime ==
  \A d, e \in Execs : Alive(d) /\ future[d] = "unset"
                      /\ Alive(e) /\ future[e] = "unset" => d = e

(***************************************************************************)
(* "succeeded" is said only of a command that has ended; one that was      *)
(* refused or declined as too late is never started, now or later.         *)
(***************************************************************************)
OutcomeHonest ==
  \A e \in Execs :
    /\ outcome[e] = "succeeded" => remote[e] = "ended"
    /\ outcome[e] = "refused" \/ future[e] = "declined" => remote[e] = "none"

(***************************************************************************)
(* "An interrupted connection or unavailable exit status also produces an  *)
(* unknown result": a command reported as failed has ended, or has never   *)
(* been started.                                                           *)
(***************************************************************************)
FailureIsKnown ==
  \A e \in Execs : outcome[e] = "failed" => remote[e] # "running"

(***************************************************************************)
(* A cycle that waits for an exec ends, also when Docker never answers.    *)
(***************************************************************************)
WaitsEnd == main = "waiting" ~> main \in {"cycle", "idle"}

(***************************************************************************)
(* Every connection is closed in the end, whether the cycle waited for the *)
(* calls on it or not, unless one of them never returns.                   *)
(***************************************************************************)
ConnectionsClosed ==
  \A c \in Clients :
    c \in opened ~> \/ closed[c] # "never"
                    \/ \E e \in Execs : uses[e] = c /\ future[e] = "unset"

(***************************************************************************)
(* Both: whatever Docker does, cycles go on and connections are given      *)
(* back.                                                                   *)
(***************************************************************************)
CallsSettle == WaitsEnd /\ ConnectionsClosed
=============================================================================
