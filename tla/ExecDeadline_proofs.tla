------------------------- MODULE ExecDeadline_proofs -------------------------
(***************************************************************************)
(* Theorems about ExecDeadline, for any number of execs and connections.   *)
(*                                                                         *)
(* The connection of a call changes its owner.  The inductive invariant    *)
(* says who it is: the cycle (client = uses[current]), nobody while the    *)
(* cycle hands it over ("detached"), the worker (e is in callback) until   *)
(* it dies; and that a worker whose call has not returned is the current   *)
(* one or the pending one, so that no other call is made beside it.        *)
(***************************************************************************)
EXTENDS ExecDeadline, TLAPS

Waits == {"waiting", "giving up", "detached"}

(* The cycle: its connection, and the exec it waits for. *)
ThreadOK ==
  /\ main \notin Waits => current = None
  /\ main \in Waits => /\ current \in Execs
                       /\ worker[current] # "new"
                       /\ outcome[current] = "none"
                       /\ current \notin callback
  /\ main \in {"waiting", "giving up"} => client = uses[current] /\ pending = None
  /\ main = "detached" => /\ client = None /\ pending = current
                          /\ closed[uses[current]] = "never"
  /\ main \in {"cycle", "waiting", "giving up"} => client # None
  /\ main = "idle" => client = None

(* Connections: used after they were opened; the cycle's is open. *)
ClientOK ==
  /\ client # None => client \in opened /\ closed[client] = "never"
  /\ \A c \in Clients : closed[c] # "never" => c \in opened
  /\ \A c \in Clients : closed[c] # "twice"

(* The worker of one exec, and who owns its connection. *)
WorkerOK(e) ==
  /\ worker[e] = "new" => uses[e] = None /\ e \notin callback
  /\ worker[e] # "new" => uses[e] \in opened /\ outcome[e] # "refused"
  /\ worker[e] \in {"completed", "dead"} <=> future[e] # "unset"
  /\ e \in callback /\ worker[e] # "dead"
       => pending = e /\ closed[uses[e]] = "never" /\ uses[e] # client
  /\ worker[e] # "new" /\ future[e] = "unset"
       => e = current \/ (e = pending /\ e \in callback)

(* What is known of its command. *)
CommandOK(e) ==
  /\ worker[e] \in {"new", "started", "checked"} => remote[e] = "none"
  /\ future[e] = "exit zero" => remote[e] = "ended"
  /\ future[e] = "declined" => remote[e] = "none"
  /\ outcome[e] = "succeeded" => remote[e] = "ended"

IInv == /\ TypeOK /\ ThreadOK /\ ClientOK
        /\ \A e \in Execs : WorkerOK(e) /\ CommandOK(e)

-----------------------------------------------------------------------------
(***************************************************************************)
(* Initial states, and one lemma for each action.                          *)
(***************************************************************************)

(* Nothing is connected, started or called. *)
LEMMA InitInv == Init => IInv
<1> SUFFICES ASSUME Init PROVE IInv
  OBVIOUS
<1>1. TypeOK
  BY DEF Init, TypeOK
<1>2. ThreadOK /\ ClientOK
  BY DEF Init, ThreadOK, ClientOK, Waits
<1>3. ASSUME NEW e \in Execs PROVE WorkerOK(e) /\ CommandOK(e)
  BY DEF Init, WorkerOK, CommandOK
<1> QED BY <1>1, <1>2, <1>3 DEF IInv

(* begin_cycle: a new connection, on which no call has been made. *)
LEMMA BeginCycleInv ==
  ASSUME IInv, NEW c \in Clients, BeginCycle(c)
  PROVE  IInv'
<1> USE NoneAssumption DEF BeginCycle, Closing, thread, call
<1>1. TypeOK'
  BY DEF IInv, TypeOK
<1>2. ThreadOK'
  BY DEF IInv, TypeOK, ThreadOK, ClientOK, WorkerOK, Waits
<1>3. ClientOK'
  BY DEF IInv, TypeOK, ThreadOK, ClientOK, WorkerOK, Waits
<1>4. ASSUME NEW f \in Execs PROVE WorkerOK(f)'
  BY DEF IInv, TypeOK, ThreadOK, ClientOK, WorkerOK, Waits
<1>5. ASSUME NEW f \in Execs PROVE CommandOK(f)'
  BY DEF IInv, CommandOK
<1> QED BY <1>1, <1>2, <1>3, <1>4, <1>5 DEF IInv

(* The exec is not submitted, its worker never started. *)
LEMMA RefuseExecInv ==
  ASSUME IInv, NEW e \in Execs, RefuseExec(e)
  PROVE  IInv'
<1> USE NoneAssumption DEF RefuseExec, thread, call
<1>1. TypeOK'
  BY DEF IInv, TypeOK
<1>2. ThreadOK'
  BY DEF IInv, TypeOK, ThreadOK, ClientOK, WorkerOK, Waits
<1>3. ClientOK'
  BY DEF IInv, TypeOK, ThreadOK, ClientOK, WorkerOK, Waits
<1>4. ASSUME NEW f \in Execs PROVE WorkerOK(f)'
  BY DEF IInv, TypeOK, ThreadOK, ClientOK, WorkerOK, Waits
<1>5. ASSUME NEW f \in Execs PROVE CommandOK(f)'
  <2>1. CommandOK(f) /\ WorkerOK(f)
    BY DEF IInv
  <2>2. CASE f = e
    <3>1. UNCHANGED <<worker, future, remote>> /\ outcome'[f] = "refused"
      BY <2>2 DEF IInv, TypeOK
    <3> QED BY <2>1, <2>2, <3>1 DEF CommandOK
  <2>3. CASE f # e
    <3>1. UNCHANGED <<worker[f], future[f], outcome[f], remote[f]>>
      BY <2>3 DEF IInv, TypeOK
    <3> QED BY <2>1, <3>1 DEF CommandOK
  <2> QED BY <2>2, <2>3
<1> QED BY <1>1, <1>2, <1>3, <1>4, <1>5 DEF IInv

(* No worker is alive: this one is the only one whose call is not over. *)
LEMMA StartExecInv ==
  ASSUME IInv, NEW e \in Execs, StartExec(e)
  PROVE  IInv'
<1> USE NoneAssumption DEF StartExec, StillPending, Alive, thread, call
<1>1. TypeOK'
  BY DEF IInv, TypeOK
<1>2. ThreadOK'
  BY DEF IInv, TypeOK, ThreadOK, ClientOK, WorkerOK, Waits
<1>3. ClientOK'
  BY DEF IInv, TypeOK, ThreadOK, ClientOK, WorkerOK, Waits
<1>4. ASSUME NEW f \in Execs PROVE WorkerOK(f)'
  BY DEF IInv, TypeOK, ThreadOK, ClientOK, WorkerOK, Waits
<1>5. ASSUME NEW f \in Execs PROVE CommandOK(f)'
  <2>1. CommandOK(f) /\ WorkerOK(f)
    BY DEF IInv
  <2>2. CASE f = e
    BY <2>1, <2>2 DEF IInv, TypeOK, WorkerOK, CommandOK
  <2>3. CASE f # e
    <3>1. UNCHANGED <<worker[f], future[f], outcome[f], remote[f]>>
      BY <2>3 DEF IInv, TypeOK
    <3> QED BY <2>1, <3>1 DEF CommandOK
  <2> QED BY <2>2, <2>3
<1> QED BY <1>1, <1>2, <1>3, <1>4, <1>5 DEF IInv

(* The result arrives in time. *)
LEMMA TakeResultInv ==
  ASSUME IInv, NEW e \in Execs, TakeResult(e)
  PROVE  IInv'
<1> USE NoneAssumption DEF TakeResult, Told, Results, thread, call
<1>1. TypeOK'
  BY DEF IInv, TypeOK
<1>2. ThreadOK'
  BY DEF IInv, TypeOK, ThreadOK, ClientOK, WorkerOK, Waits
<1>3. ClientOK'
  BY DEF IInv, TypeOK, ThreadOK, ClientOK, WorkerOK, Waits
<1>4. ASSUME NEW f \in Execs PROVE WorkerOK(f)'
  BY DEF IInv, TypeOK, ThreadOK, ClientOK, WorkerOK, Waits
<1>5. ASSUME NEW f \in Execs PROVE CommandOK(f)'
  <2>1. CommandOK(f) /\ WorkerOK(f)
    BY DEF IInv
  <2>2. CASE f = e
    <3>1. outcome'[f] = "succeeded" => future[f] = "exit zero"
      BY <2>2 DEF IInv, TypeOK
    <3> QED BY <2>1, <3>1 DEF CommandOK
  <2>3. CASE f # e
    <3>1. UNCHANGED <<worker[f], future[f], outcome[f], remote[f]>>
      BY <2>3 DEF IInv, TypeOK
    <3> QED BY <2>1, <3>1 DEF CommandOK
  <2> QED BY <2>2, <2>3
<1> QED BY <1>1, <1>2, <1>3, <1>4, <1>5 DEF IInv

(* The wait ends without a result. *)
LEMMA GiveUpInv ==
  ASSUME IInv, NEW e \in Execs, GiveUp(e)
  PROVE  IInv'
<1> USE NoneAssumption DEF GiveUp, thread, call
<1>1. TypeOK'
  BY DEF IInv, TypeOK
<1>2. ThreadOK'
  BY DEF IInv, TypeOK, ThreadOK, ClientOK, WorkerOK, Waits
<1>3. ClientOK'
  BY DEF IInv, TypeOK, ThreadOK, ClientOK, WorkerOK, Waits
<1>4. ASSUME NEW f \in Execs PROVE WorkerOK(f)'
  BY DEF IInv, TypeOK, ThreadOK, ClientOK, WorkerOK, Waits
<1>5. ASSUME NEW f \in Execs PROVE CommandOK(f)'
  BY DEF IInv, CommandOK
<1> QED BY <1>1, <1>2, <1>3, <1>4, <1>5 DEF IInv

(* The cycle gives its connection up. *)
LEMMA DetachInv ==
  ASSUME IInv, NEW e \in Execs, Detach(e)
  PROVE  IInv'
<1> USE NoneAssumption DEF Detach, thread, call
<1>1. TypeOK'
  BY DEF IInv, TypeOK
<1>2. ThreadOK'
  BY DEF IInv, TypeOK, ThreadOK, ClientOK, WorkerOK, Waits
<1>3. ClientOK'
  BY DEF IInv, TypeOK, ThreadOK, ClientOK, WorkerOK, Waits
<1>4. ASSUME NEW f \in Execs PROVE WorkerOK(f)'
  <2>1. ~(f \in callback /\ worker[f] # "dead")
    BY DEF IInv, ThreadOK, WorkerOK
  <2> QED BY <2>1 DEF IInv, TypeOK, ThreadOK, WorkerOK, Waits
<1>5. ASSUME NEW f \in Execs PROVE CommandOK(f)'
  BY DEF IInv, CommandOK
<1> QED BY <1>1, <1>2, <1>3, <1>4, <1>5 DEF IInv

(* The worker becomes its owner, or, when it is done, the connection is closed. *)
LEMMA HandOverInv ==
  ASSUME IInv, NEW e \in Execs, HandOver(e)
  PROVE  IInv'
<1> USE NoneAssumption DEF HandOver, Closing, thread, call
<1>1. TypeOK'
  BY DEF IInv, TypeOK
<1>2. ThreadOK'
  BY DEF IInv, TypeOK, ThreadOK, ClientOK, WorkerOK, Waits
<1>6. /\ pending = e /\ client = None /\ current' = None /\ e \notin callback
      /\ uses[e] \in Clients /\ uses[e] \in opened /\ closed[uses[e]] = "never"
  BY DEF IInv, TypeOK, ThreadOK, ClientOK, WorkerOK, Waits
<1>7. \/ future[e] = "unset" /\ callback' = callback \cup {e} /\ UNCHANGED closed
      \/ /\ future[e] # "unset" /\ UNCHANGED callback
         /\ closed' = [closed EXCEPT ![uses[e]] = "once"]
  BY <1>6 DEF IInv, TypeOK
<1>3. ClientOK'
  BY <1>6, <1>7 DEF IInv, TypeOK, ClientOK
<1>4. ASSUME NEW f \in Execs PROVE WorkerOK(f)'
  <2>1. CASE f = e
    BY <1>6, <1>7, <2>1 DEF IInv, TypeOK, WorkerOK
  <2>2. CASE f # e
    <3>1. WorkerOK(f)
      BY DEF IInv
    <3>2. ~(f \in callback /\ worker[f] # "dead")
      BY <1>6, <2>2, <3>1 DEF WorkerOK
    <3>3. f \in callback' <=> f \in callback
      BY <1>7, <2>2
    <3> QED BY <1>6, <2>2, <3>1, <3>2, <3>3 DEF IInv, ThreadOK, WorkerOK, Waits
  <2> QED BY <2>1, <2>2
<1>5. ASSUME NEW f \in Execs PROVE CommandOK(f)'
  <2>1. CommandOK(f) /\ WorkerOK(f)
    BY DEF IInv
  <2>2. CASE f = e
    BY <2>1, <2>2 DEF IInv, TypeOK, WorkerOK, CommandOK
  <2>3. CASE f # e
    <3>1. UNCHANGED <<worker[f], future[f], outcome[f], remote[f]>>
      BY <2>3 DEF IInv, TypeOK
    <3> QED BY <2>1, <3>1 DEF CommandOK
  <2> QED BY <2>2, <2>3
<1> QED BY <1>1, <1>2, <1>3, <1>4, <1>5 DEF IInv

(* end_cycle: only the owner closes, and the cycle is the owner if it has a client. *)
LEMMA EndCycleInv ==
  ASSUME IInv, EndCycle
  PROVE  IInv'
<1> USE NoneAssumption DEF EndCycle, Closing, thread, call
<1>1. TypeOK'
  BY DEF IInv, TypeOK
<1>2. ThreadOK'
  BY DEF IInv, TypeOK, ThreadOK, ClientOK, WorkerOK, Waits
<1>6. ASSUME NEW c \in Clients
      PROVE  closed'[c] = IF c = client THEN "once" ELSE closed[c]
  <2>1. closed \in [Clients -> {"never", "once", "twice"}]
    BY DEF IInv, TypeOK
  <2>2. client # None => closed[client] = "never"
    BY DEF IInv, ClientOK
  <2> QED BY <2>1, <2>2
<1>7. current = None
  BY DEF IInv, ThreadOK, Waits
<1>3. ClientOK'
  BY <1>6 DEF IInv, TypeOK, ClientOK
<1>4. ASSUME NEW f \in Execs PROVE WorkerOK(f)'
  <2>1. WorkerOK(f) /\ uses[f] \in Clients \cup {None}
    BY DEF IInv, TypeOK
  <2>2. CASE f \in callback /\ worker[f] # "dead"
    <3>1. uses[f] \in Clients /\ uses[f] # client
      BY <2>1, <2>2 DEF WorkerOK, IInv, TypeOK
    <3>2. closed'[uses[f]] = "never" /\ client' = None
      BY <2>1, <2>2, <3>1, <1>6 DEF WorkerOK
    <3> QED BY <2>1, <2>2, <3>1, <3>2, <1>7 DEF WorkerOK
  <2>3. CASE ~(f \in callback /\ worker[f] # "dead")
    BY <2>1, <2>3, <1>7 DEF WorkerOK
  <2> QED BY <2>2, <2>3
<1>5. ASSUME NEW f \in Execs PROVE CommandOK(f)'
  BY DEF IInv, CommandOK
<1> QED BY <1>1, <1>2, <1>3, <1>4, <1>5 DEF IInv

(* The worker finds that the deadline has passed. *)
LEMMA DeclineInv ==
  ASSUME IInv, NEW e \in Execs, Decline(e)
  PROVE  IInv'
<1> USE NoneAssumption DEF Decline, Complete, Results, thread, call
<1>1. TypeOK'
  BY DEF IInv, TypeOK
<1>2. ThreadOK'
  BY DEF IInv, TypeOK, ThreadOK, ClientOK, WorkerOK, Waits
<1>3. ClientOK'
  BY DEF IInv, TypeOK, ThreadOK, ClientOK, WorkerOK, Waits
<1>4. ASSUME NEW f \in Execs PROVE WorkerOK(f)'
  <2>1. CASE f = e
    BY <2>1 DEF IInv, TypeOK, WorkerOK
  <2>2. CASE f # e
    <3>1. UNCHANGED <<worker[f], future[f]>>
      BY <2>2 DEF IInv, TypeOK
    <3>2. WorkerOK(f)
      BY DEF IInv
    <3> QED BY <3>1, <3>2 DEF WorkerOK
  <2> QED BY <2>1, <2>2
<1>5. ASSUME NEW f \in Execs PROVE CommandOK(f)'
  <2>1. CommandOK(f) /\ WorkerOK(f)
    BY DEF IInv
  <2>2. CASE f = e
    BY <2>1, <2>2 DEF IInv, TypeOK, WorkerOK, CommandOK
  <2>3. CASE f # e
    <3>1. UNCHANGED <<worker[f], future[f], outcome[f], remote[f]>>
      BY <2>3 DEF IInv, TypeOK
    <3> QED BY <2>1, <3>1 DEF CommandOK
  <2> QED BY <2>2, <2>3
<1> QED BY <1>1, <1>2, <1>3, <1>4, <1>5 DEF IInv

(* It finds that it has not. *)
LEMMA CheckDeadlineInv ==
  ASSUME IInv, NEW e \in Execs, CheckDeadline(e)
  PROVE  IInv'
<1> USE NoneAssumption DEF CheckDeadline, thread, call
<1>1. TypeOK'
  BY DEF IInv, TypeOK
<1>2. ThreadOK'
  BY DEF IInv, TypeOK, ThreadOK, ClientOK, WorkerOK, Waits
<1>3. ClientOK'
  BY DEF IInv, TypeOK, ThreadOK, ClientOK, WorkerOK, Waits
<1>4. ASSUME NEW f \in Execs PROVE WorkerOK(f)'
  <2>1. CASE f = e
    BY <2>1 DEF IInv, TypeOK, WorkerOK
  <2>2. CASE f # e
    <3>1. UNCHANGED <<worker[f], future[f]>>
      BY <2>2 DEF IInv, TypeOK
    <3>2. WorkerOK(f)
      BY DEF IInv
    <3> QED BY <3>1, <3>2 DEF WorkerOK
  <2> QED BY <2>1, <2>2
<1>5. ASSUME NEW f \in Execs PROVE CommandOK(f)'
  <2>1. CommandOK(f) /\ WorkerOK(f)
    BY DEF IInv
  <2>2. CASE f = e
    BY <2>1, <2>2 DEF IInv, TypeOK, WorkerOK, CommandOK
  <2>3. CASE f # e
    <3>1. UNCHANGED <<worker[f], future[f], outcome[f], remote[f]>>
      BY <2>3 DEF IInv, TypeOK
    <3> QED BY <2>1, <3>1 DEF CommandOK
  <2> QED BY <2>2, <2>3
<1> QED BY <1>1, <1>2, <1>3, <1>4, <1>5 DEF IInv

(* It calls the SDK. *)
LEMMA SubmitInv ==
  ASSUME IInv, NEW e \in Execs, Submit(e)
  PROVE  IInv'
<1> USE NoneAssumption DEF Submit, thread, call
<1>1. TypeOK'
  BY DEF IInv, TypeOK
<1>2. ThreadOK'
  BY DEF IInv, TypeOK, ThreadOK, ClientOK, WorkerOK, Waits
<1>3. ClientOK'
  BY DEF IInv, TypeOK, ThreadOK, ClientOK, WorkerOK, Waits
<1>4. ASSUME NEW f \in Execs PROVE WorkerOK(f)'
  <2>1. CASE f = e
    BY <2>1 DEF IInv, TypeOK, WorkerOK
  <2>2. CASE f # e
    <3>1. UNCHANGED <<worker[f], future[f]>>
      BY <2>2 DEF IInv, TypeOK
    <3>2. WorkerOK(f)
      BY DEF IInv
    <3> QED BY <3>1, <3>2 DEF WorkerOK
  <2> QED BY <2>1, <2>2
<1>5. ASSUME NEW f \in Execs PROVE CommandOK(f)'
  <2>1. CommandOK(f) /\ WorkerOK(f)
    BY DEF IInv
  <2>2. CASE f = e
    BY <2>1, <2>2 DEF IInv, TypeOK, WorkerOK, CommandOK
  <2>3. CASE f # e
    <3>1. UNCHANGED <<worker[f], future[f], outcome[f], remote[f]>>
      BY <2>3 DEF IInv, TypeOK
    <3> QED BY <2>1, <3>1 DEF CommandOK
  <2> QED BY <2>2, <2>3
<1> QED BY <1>1, <1>2, <1>3, <1>4, <1>5 DEF IInv

(* The SDK returns, or raises. *)
LEMMA ReturnInv ==
  ASSUME IInv, NEW e \in Execs, NEW result \in Results, Return(e, result)
  PROVE  IInv'
<1> USE NoneAssumption DEF Return, Complete, Results, thread, call
<1>1. TypeOK'
  BY DEF IInv, TypeOK
<1>2. ThreadOK'
  BY DEF IInv, TypeOK, ThreadOK, ClientOK, WorkerOK, Waits
<1>3. ClientOK'
  BY DEF IInv, TypeOK, ThreadOK, ClientOK, WorkerOK, Waits
<1>4. ASSUME NEW f \in Execs PROVE WorkerOK(f)'
  <2>1. CASE f = e
    <3>1. worker'[f] = "completed" /\ future'[f] = result
      BY <2>1 DEF IInv, TypeOK
    <3>2. WorkerOK(f)
      BY DEF IInv
    <3> QED BY <2>1, <3>1, <3>2 DEF WorkerOK
  <2>2. CASE f # e
    <3>1. UNCHANGED <<worker[f], future[f]>>
      BY <2>2 DEF IInv, TypeOK
    <3>2. WorkerOK(f)
      BY DEF IInv
    <3> QED BY <3>1, <3>2 DEF WorkerOK
  <2> QED BY <2>1, <2>2
<1>5. ASSUME NEW f \in Execs PROVE CommandOK(f)'
  <2>1. CommandOK(f) /\ WorkerOK(f)
    BY DEF IInv
  <2>2. CASE f = e
    <3>1. UNCHANGED <<outcome, remote>> /\ worker'[f] = "completed" /\ future'[f] = result
      BY <2>2 DEF IInv, TypeOK
    <3> QED BY <2>1, <2>2, <3>1 DEF CommandOK
  <2>3. CASE f # e
    <3>1. UNCHANGED <<worker[f], future[f], outcome[f], remote[f]>>
      BY <2>3 DEF IInv, TypeOK
    <3> QED BY <2>1, <3>1 DEF CommandOK
  <2> QED BY <2>2, <2>3
<1> QED BY <1>1, <1>2, <1>3, <1>4, <1>5 DEF IInv

(* The callback runs: the worker closes what it owns. *)
LEMMA DieInv ==
  ASSUME IInv, NEW e \in Execs, Die(e)
  PROVE  IInv'
<1> USE NoneAssumption DEF Die, Closing, thread, call
<1>1. TypeOK'
  BY DEF IInv, TypeOK
<1>6. ASSUME e \notin callback
      PROVE  ThreadOK' /\ ClientOK' /\ \A f \in Execs : WorkerOK(f)'
  <2>1. UNCHANGED closed
    BY <1>6
  <2>2. ThreadOK' /\ ClientOK'
    BY <2>1 DEF IInv, TypeOK, ThreadOK, ClientOK, Waits
  <2>3. ASSUME NEW f \in Execs PROVE WorkerOK(f)'
    <3>1. CASE f = e
      BY <3>1, <2>1, <1>6 DEF IInv, TypeOK, WorkerOK
    <3>2. CASE f # e
      BY <3>2, <2>1 DEF IInv, TypeOK, WorkerOK
    <3> QED BY <3>1, <3>2
  <2> QED BY <2>2, <2>3
<1>7. ASSUME e \in callback
      PROVE  ThreadOK' /\ ClientOK' /\ \A f \in Execs : WorkerOK(f)'
  <2>1. /\ pending = e /\ uses[e] \in Clients /\ uses[e] \in opened
        /\ closed[uses[e]] = "never" /\ uses[e] # client
    BY <1>7 DEF IInv, TypeOK, WorkerOK
  <2>2. closed' = [closed EXCEPT ![uses[e]] = "once"]
    BY <1>7, <2>1 DEF IInv, TypeOK
  <2>3. ~(main \in Waits)
    BY <1>7, <2>1 DEF IInv, ThreadOK, Waits
  <2>4. ThreadOK' /\ ClientOK'
    <3>1. ThreadOK'
      BY <2>3 DEF IInv, ThreadOK, Waits
    <3>2. ASSUME NEW c \in Clients
          PROVE  closed'[c] = IF c = uses[e] THEN "once" ELSE closed[c]
      BY <2>2 DEF IInv, TypeOK
    <3>3. ClientOK'
      BY <2>1, <3>2 DEF IInv, TypeOK, ClientOK
    <3> QED BY <3>1, <3>3
  <2>5. ASSUME NEW f \in Execs PROVE WorkerOK(f)'
    <3>1. CASE f = e
      <4>1. worker'[f] = "dead" /\ WorkerOK(f)
        BY <3>1 DEF IInv, TypeOK
      <4> QED BY <3>1, <4>1 DEF WorkerOK
    <3>2. CASE f # e
      <4>1. ~(f \in callback /\ worker[f] # "dead")
        BY <3>2, <2>1 DEF IInv, WorkerOK
      <4>2. worker'[f] = worker[f]
        BY <3>2 DEF IInv, TypeOK
      <4>3. WorkerOK(f)
        BY DEF IInv
      <4> QED BY <4>1, <4>2, <4>3 DEF WorkerOK
    <3> QED BY <3>1, <3>2
  <2> QED BY <2>4, <2>5
<1>2. ThreadOK' /\ ClientOK' /\ \A f \in Execs : WorkerOK(f)'
  BY <1>6, <1>7
<1>5. ASSUME NEW f \in Execs PROVE CommandOK(f)'
  <2>1. CommandOK(f) /\ WorkerOK(f)
    BY DEF IInv
  <2>2. CASE f = e
    <3>1. UNCHANGED <<future, outcome, remote>> /\ worker'[f] = "dead"
      BY <2>2 DEF IInv, TypeOK
    <3> QED BY <2>1, <2>2, <3>1 DEF CommandOK
  <2>3. CASE f # e
    <3>1. UNCHANGED <<worker[f], future[f], outcome[f], remote[f]>>
      BY <2>3 DEF IInv, TypeOK
    <3> QED BY <2>1, <3>1 DEF CommandOK
  <2> QED BY <2>2, <2>3
<1> QED BY <1>1, <1>2, <1>5 DEF IInv

(* The deadline passes. *)
LEMMA ExpireInv ==
  ASSUME IInv, NEW e \in Execs, Expire(e)
  PROVE  IInv'
<1> USE NoneAssumption DEF Expire, thread, call
<1>1. TypeOK'
  BY DEF IInv, TypeOK
<1>2. ThreadOK'
  BY DEF IInv, TypeOK, ThreadOK, ClientOK, WorkerOK, Waits
<1>3. ClientOK'
  BY DEF IInv, TypeOK, ThreadOK, ClientOK, WorkerOK, Waits
<1>4. ASSUME NEW f \in Execs PROVE WorkerOK(f)'
  BY DEF IInv, TypeOK, ThreadOK, ClientOK, WorkerOK, Waits
<1>5. ASSUME NEW f \in Execs PROVE CommandOK(f)'
  BY DEF IInv, CommandOK
<1> QED BY <1>1, <1>2, <1>3, <1>4, <1>5 DEF IInv

(* The command is started. *)
LEMMA RemoteStartInv ==
  ASSUME IInv, NEW e \in Execs, RemoteStart(e)
  PROVE  IInv'
<1> USE NoneAssumption DEF RemoteStart, thread, call
<1>1. TypeOK'
  BY DEF IInv, TypeOK
<1>2. ThreadOK'
  BY DEF IInv, TypeOK, ThreadOK, ClientOK, WorkerOK, Waits
<1>3. ClientOK'
  BY DEF IInv, TypeOK, ThreadOK, ClientOK, WorkerOK, Waits
<1>4. ASSUME NEW f \in Execs PROVE WorkerOK(f)'
  BY DEF IInv, TypeOK, ThreadOK, ClientOK, WorkerOK, Waits
<1>5. ASSUME NEW f \in Execs PROVE CommandOK(f)'
  <2>1. CommandOK(f) /\ WorkerOK(f)
    BY DEF IInv
  <2>2. CASE f = e
    BY <2>1, <2>2 DEF IInv, TypeOK, WorkerOK, CommandOK
  <2>3. CASE f # e
    <3>1. UNCHANGED <<worker[f], future[f], outcome[f], remote[f]>>
      BY <2>3 DEF IInv, TypeOK
    <3> QED BY <2>1, <3>1 DEF CommandOK
  <2> QED BY <2>2, <2>3
<1> QED BY <1>1, <1>2, <1>3, <1>4, <1>5 DEF IInv

(* The command ends. *)
LEMMA RemoteEndInv ==
  ASSUME IInv, NEW e \in Execs, RemoteEnd(e)
  PROVE  IInv'
<1> USE NoneAssumption DEF RemoteEnd, thread, call
<1>1. TypeOK'
  BY DEF IInv, TypeOK
<1>2. ThreadOK'
  BY DEF IInv, TypeOK, ThreadOK, ClientOK, WorkerOK, Waits
<1>3. ClientOK'
  BY DEF IInv, TypeOK, ThreadOK, ClientOK, WorkerOK, Waits
<1>4. ASSUME NEW f \in Execs PROVE WorkerOK(f)'
  BY DEF IInv, TypeOK, ThreadOK, ClientOK, WorkerOK, Waits
<1>5. ASSUME NEW f \in Execs PROVE CommandOK(f)'
  <2>1. CommandOK(f) /\ WorkerOK(f)
    BY DEF IInv
  <2>2. CASE f = e
    BY <2>1, <2>2 DEF IInv, TypeOK, WorkerOK, CommandOK
  <2>3. CASE f # e
    <3>1. UNCHANGED <<worker[f], future[f], outcome[f], remote[f]>>
      BY <2>3 DEF IInv, TypeOK
    <3> QED BY <2>1, <3>1 DEF CommandOK
  <2> QED BY <2>2, <2>3
<1> QED BY <1>1, <1>2, <1>3, <1>4, <1>5 DEF IInv

(* Every step, and a step that changes nothing. *)
LEMMA NextInv == IInv /\ [Next]_vars => IInv'
<1> SUFFICES ASSUME IInv, [Next]_vars PROVE IInv'
  OBVIOUS
<1>1. CASE UNCHANGED vars
  <2> USE <1>1 DEF vars, thread, call
  <2>1. TypeOK'
    BY DEF IInv, TypeOK
  <2>2. (ThreadOK /\ ClientOK)'
    BY DEF IInv, ThreadOK, ClientOK
  <2>3. ASSUME NEW e \in Execs PROVE (WorkerOK(e) /\ CommandOK(e))'
    BY DEF IInv, WorkerOK, CommandOK
  <2> QED BY <2>1, <2>2, <2>3 DEF IInv
<1>2. ASSUME NEW c \in Clients, BeginCycle(c) PROVE IInv'
  BY <1>2, BeginCycleInv
<1>3. ASSUME NEW e \in Execs, ExecStep(e) \/ WaitStep(e) PROVE IInv'
  BY <1>3, RefuseExecInv, StartExecInv, TakeResultInv, GiveUpInv, DetachInv, HandOverInv
     DEF ExecStep, WaitStep
<1>4. ASSUME NEW e \in Execs,
             WorkerStep(e) \/ \E result \in Results : Return(e, result)
      PROVE  IInv'
  BY <1>4, DeclineInv, CheckDeadlineInv, SubmitInv, ReturnInv, DieInv DEF WorkerStep
<1>5. ASSUME NEW e \in Execs, Expire(e) \/ RemoteStart(e) \/ RemoteEnd(e)
      PROVE  IInv'
  BY <1>5, ExpireInv, RemoteStartInv, RemoteEndInv
<1> QED BY <1>1, <1>2, <1>3, <1>4, <1>5, EndCycleInv DEF Next

(* Invariance: the inductive invariant holds in every state. *)
THEOREM Invariance == Spec => []IInv
BY InitInv, NextInv, PTL DEF Spec

-----------------------------------------------------------------------------
(***************************************************************************)
(* The results.                                                            *)
(***************************************************************************)

(* TypeCorrect: every variable keeps its type. *)
THEOREM TypeCorrect == Spec => []TypeOK
<1>1. IInv => TypeOK
  BY DEF IInv
<1> QED BY <1>1, Invariance, PTL

(* ConnectionOwned: whoever closes a connection, the cycle or an abandoned *)
(* worker (_close_when_done), it is closed once at most and never under a  *)
(* call that is still being made on it.                                    *)
THEOREM ConnectionOwned == Spec => []ClosedOnceAfterUse
<1>1. IInv => ClosedOnceAfterUse
  <2> SUFFICES ASSUME IInv, NEW e \in Execs, uses[e] # None,
                      closed[uses[e]] # "never"
               PROVE  worker[e] \in {"completed", "dead"}
    BY DEF IInv, ClientOK, ClosedOnceAfterUse
  <2>1. worker[e] # "new"
    BY DEF IInv, WorkerOK
  <2>2. e # current
    <3>1. CASE main \in {"waiting", "giving up"}
      BY <3>1, NoneAssumption DEF IInv, TypeOK, ThreadOK, ClientOK, Waits
    <3>2. CASE main = "detached"
      BY <3>2 DEF IInv, ThreadOK
    <3>3. CASE main \notin Waits
      BY <3>3, NoneAssumption DEF IInv, ThreadOK
    <3> QED BY <3>1, <3>2, <3>3 DEF Waits
  <2> QED BY <2>1, <2>2 DEF IInv, TypeOK, WorkerOK
<1> QED BY <1>1, Invariance, PTL

(* CallsSerialized: an abandoned call holds back every other               *)
(* (executor._pending_exec).                                               *)
THEOREM CallsSerialized == Spec => []OneCallAtATime
<1>1. IInv => OneCallAtATime
  <2> SUFFICES ASSUME IInv, NEW d \in Execs, NEW e \in Execs,
                      Alive(d), future[d] = "unset",
                      Alive(e), future[e] = "unset"
               PROVE  d = e
    BY DEF OneCallAtATime
  <2>1. /\ d = current \/ (d = pending /\ d \in callback)
        /\ e = current \/ (e = pending /\ e \in callback)
    BY DEF IInv, WorkerOK, Alive
  <2>2. current \in Execs /\ pending \in callback => pending = None
    BY NoneAssumption DEF IInv, ThreadOK, Waits
  <2> QED BY <2>1, <2>2, NoneAssumption
<1> QED BY <1>1, Invariance, PTL

(* OutcomeTrue: success is reported of a command that has ended; one that  *)
(* was refused, or declined as too late, is never started.                 *)
THEOREM OutcomeTrue == Spec => []OutcomeHonest
<1>1. IInv => OutcomeHonest
  BY DEF IInv, TypeOK, WorkerOK, CommandOK, OutcomeHonest
<1> QED BY <1>1, Invariance, PTL
=============================================================================
