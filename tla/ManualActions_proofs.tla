------------------------ MODULE ManualActions_proofs ------------------------
(***************************************************************************)
(* Proofs about ManualActions, for any identifiers, targets, HTTP threads, *)
(* history length and timeouts, and whatever faults occur.                 *)
(***************************************************************************)
EXTENDS ManualActions, TLAPS

(***************************************************************************)
(* The inductive invariant: what the properties say, and where the         *)
(* scheduler is when they are about to depend on it.                       *)
(***************************************************************************)
Working == {"taken", "invalid", "execute"}

(* The history knows the requests in flight; there is at most one. *)
FlightOK ==
  /\ \A i \in Ids : record[i].status = "queued" <=> i = pending
  /\ \A i \in Ids : record[i].status = "running" <=> i = active
  /\ pending = None \/ active = None
  /\ active # None <=> sched \in Working

(* `order' lists the identifiers retained, once each. *)
OrderOK ==
  /\ \A i \in Ids : i \in Retained <=> \E n \in 1 .. Len(order) : order[n] = i
  /\ \A m, n \in 1 .. Len(order) : order[m] = order[n] => m = n
  /\ Len(order) <= HistoryLimit

(* What was journaled and attempted, by state of the record. *)
CountsOK(i) ==
  /\ events[i].attempts <= events[i].started
  /\ events[i].started <= events[i].queued
  /\ i = pending => /\ events[i].started < events[i].queued
                    /\ events[i].ran = 0
  /\ i = active /\ sched \in {"taken", "invalid"}
       => events[i].attempts < events[i].started /\ events[i].ran = 0
  /\ i = active /\ sched = "execute" => events[i].ran = 1

ToldOK(i) ==
  /\ record[i].status \in {"queued", "running"} => record[i].error = "none"
  /\ record[i].status \in {"succeeded", "failed"}
       => events[i].ran = IF record[i].error \in Outcomes THEN 1 ELSE 0

(* An attempt is made, and lasts, without valid measurements. *)
CacheOK ==
  /\ sched \in {"invalid", "execute"} => age = None
  /\ sched = "collect" => ~behind.collected
  /\ age # None => ~behind.cached

IInv == /\ TypeOK /\ FlightOK /\ OrderOK /\ CacheOK
        /\ \A i \in Ids : CountsOK(i) /\ ToldOK(i)

(* What a step must do for the inductive invariant and the refinement. *)
StepOK == IInv' /\ [Lifecycle!RNext]_(Lifecycle!rvars)

-----------------------------------------------------------------------------
(* Nothing is retained, attempted or measured when a process starts. *)
LEMMA InitInv == Init => IInv /\ Lifecycle!RInit
<1> SUFFICES ASSUME Init PROVE IInv /\ Lifecycle!RInit
  OBVIOUS
<1> USE NoneAssumption, LimitsAssumption
<1>1. \A i \in Ids : record[i] = NoRecord /\ events[i] = NoEvents
  BY DEF Init, NoRecords
<1>2. TypeOK
  <2>1. order \in Seq(Ids) /\ waited \in Ages(QueueTimeout)
    BY DEF Init, Ages
  <2>2. record \in [Ids -> Records \cup {NoRecord}]
    BY DEF Init, NoRecords
  <2>3. events \in [Ids -> [queued : Nat, started : Nat, attempts : Nat, ran : Nat]]
    BY DEF Init, NoEvents
  <2>4. reading \in [Clients -> (SUBSET Targets) \cup {None}]
    BY DEF Init, NoReadings
  <2> QED BY <2>1, <2>2, <2>3, <2>4 DEF Init, TypeOK, SchedNames
<1>3. FlightOK /\ OrderOK /\ CacheOK
  BY <1>1 DEF Init, FlightOK, OrderOK, CacheOK, NoRecord, Retained, Working
<1>4. ASSUME NEW i \in Ids PROVE CountsOK(i) /\ ToldOK(i)
  <2>1. record[i].status = "absent" /\ i # pending /\ i # active
    BY <1>1 DEF Init, NoRecord
  <2>2. /\ events[i].attempts = 0 /\ events[i].started = 0 /\ events[i].queued = 0
    BY <1>1 DEF NoEvents
  <2> QED BY <2>1, <2>2 DEF CountsOK, ToldOK
<1>5. Lifecycle!RInit
  BY <1>1 DEF Lifecycle!RInit, NoRecord, Retained
<1> QED BY <1>2, <1>3, <1>4, <1>5 DEF IInv

-----------------------------------------------------------------------------
(***************************************************************************)
(* Steps that leave the requests and what is known of them alone.          *)
(***************************************************************************)
LEMMA QuietStep ==
  ASSUME IInv, TypeOK', CacheOK',
         UNCHANGED <<order, record, pending, active, events>>,
         sched' = sched \/ {sched, sched'} \cap Working = {}
  PROVE  StepOK
<1> USE DEF IInv
<1>1. FlightOK'
  BY DEF FlightOK, Working
<1>2. OrderOK'
  BY DEF OrderOK, Retained
<1>3. \A i \in Ids : (CountsOK(i) /\ ToldOK(i))'
  BY DEF CountsOK, ToldOK, FlightOK, Working
<1>4. UNCHANGED Lifecycle!rvars
  BY DEF Lifecycle!rvars, Retained
<1> QED BY <1>1, <1>2, <1>3, <1>4 DEF StepOK

(* The steps of the HTTP threads that do not accept, of the scheduler      *)
(* between attempts, and of the environment.                               *)
QuietAction ==
  \/ \E c \in Clients : ReadStatus(c)
  \/ \E c \in Clients, i \in Ids, t \in Targets : Answer(c, i, t)
  \/ BeginCycle \/ CycleFails \/ Poll \/ Stopped \/ TakeNothing
  \/ \E targets \in SUBSET Targets : CycleSucceeds(targets)
  \/ \E place \in {"inner", "outer"} : Rest(place)
  \/ Tick \/ Stop

(* A quiet step preserves the invariant. *)
LEMMA QuietInv == ASSUME IInv, QuietAction PROVE StepOK
<1> USE NoneAssumption, LimitsAssumption
<1>1. UNCHANGED <<order, record, pending, active, events>>
  BY DEF QuietAction, ReadStatus, Answer, BeginCycle, CycleFails, Poll, Stopped,
         TakeNothing, CycleSucceeds, Rest, Tick, Stop, queue
<1>2. sched' = sched \/ {sched, sched'} \cap Working = {}
  BY DEF QuietAction, ReadStatus, Answer, BeginCycle, CycleFails, Poll, Stopped,
         TakeNothing, CycleSucceeds, Rest, Tick, Stop, Goto, Working
<1>3. TypeOK' /\ CacheOK'
  <2> USE DEF IInv, TypeOK, CacheOK, SchedNames, Goto, queue, cache
  <2>1. ASSUME NEW c \in Clients, ReadStatus(c) PROVE TypeOK' /\ CacheOK'
    BY <2>1 DEF ReadStatus, Told
  <2>2. ASSUME NEW c \in Clients, NEW i \in Ids, NEW t \in Targets, Answer(c, i, t)
        PROVE  TypeOK' /\ CacheOK'
    BY <2>2 DEF Answer
  <2>3. CASE BeginCycle
    BY <2>3 DEF BeginCycle
  <2>4. CASE CycleFails
    BY <2>4 DEF CycleFails
  <2>5. CASE Poll \/ Stopped \/ TakeNothing
    BY <2>5 DEF Poll, Stopped, TakeNothing
  <2>6. ASSUME NEW targets \in SUBSET Targets, CycleSucceeds(targets)
        PROVE  TypeOK' /\ CacheOK'
    <3>1. 0 \in Ages(StaleAfter)
      BY DEF Ages
    <3> QED BY <2>6, <3>1 DEF CycleSucceeds
  <2>7. ASSUME NEW place \in {"inner", "outer"}, Rest(place)
        PROVE  TypeOK' /\ CacheOK'
    BY <2>7 DEF Rest
  <2>8. CASE Tick
    <3>1. ASSUME NEW limit \in Nat, NEW a \in Ages(limit)
          PROVE  Older(a, limit) \in Ages(limit)
      BY DEF Older, Ages
    <3>2. waited' \in Ages(QueueTimeout) /\ age' \in Ages(StaleAfter) \cup {None}
      BY <2>8, <3>1 DEF Tick
    <3> QED BY <2>8, <3>2 DEF Tick
  <2>9. CASE Stop
    BY <2>9 DEF Stop
  <2> QED BY <2>1, <2>2, <2>3, <2>4, <2>5, <2>6, <2>7, <2>8, <2>9
         DEF QuietAction
<1> QED BY <1>1, <1>2, <1>3, QuietStep

-----------------------------------------------------------------------------
(***************************************************************************)
(* Steps that change the record of the request in flight.                  *)
(***************************************************************************)

(* One record in flight is replaced by another record. *)
LEMMA UpdateRecord ==
  ASSUME IInv, NEW k \in Ids, record[k].status \in {"queued", "running"},
         NEW r \in Records, record' = [record EXCEPT ![k] = r], order' = order
  PROVE  /\ record' \in [Ids -> Records \cup {NoRecord}]
         /\ record'[k] = r
         /\ \A j \in Ids \ {k} : record'[j] = record[j]
         /\ Retained' = Retained
         /\ OrderOK'
<1>1. record \in [Ids -> Records \cup {NoRecord}]
  BY DEF IInv, TypeOK
<1>2. /\ record' \in [Ids -> Records \cup {NoRecord}]
      /\ record'[k] = r
      /\ \A j \in Ids \ {k} : record'[j] = record[j]
  BY <1>1
<1>3. record[k] # NoRecord /\ r # NoRecord
  BY DEF NoRecord, Records, Statuses
<1>4. Retained' = Retained
  BY <1>2, <1>3 DEF Retained
<1>5. OrderOK'
  BY <1>4 DEF OrderOK, IInv
<1> QED BY <1>2, <1>4, <1>5

(* What the invariant says of the request that is pending. *)
LEMMA PendingRequest ==
  ASSUME IInv, pending # None
  PROVE  /\ pending \in Ids /\ active = None /\ sched \notin Working
         /\ record[pending] \in Records
         /\ record[pending].status = "queued" /\ record[pending].error = "none"
         /\ events[pending].started < events[pending].queued
         /\ events[pending].ran = 0
         /\ pending \in Retained
<1>1. pending \in Ids /\ record[pending].status = "queued"
  BY DEF IInv, TypeOK, FlightOK
<1>2. record[pending] # NoRecord
  BY <1>1 DEF NoRecord
<1>3. record[pending] \in Records
  BY <1>1, <1>2 DEF IInv, TypeOK
<1>4. active = None /\ sched \notin Working
  BY DEF IInv, FlightOK
<1>5. CountsOK(pending) /\ ToldOK(pending)
  BY <1>1 DEF IInv
<1> QED BY <1>1, <1>2, <1>3, <1>4, <1>5 DEF CountsOK, ToldOK, Retained

(* What it says of the request that is active. *)
LEMMA ActiveRequest ==
  ASSUME IInv, sched \in Working
  PROVE  /\ active \in Ids /\ pending = None
         /\ record[active] \in Records
         /\ record[active].status = "running" /\ record[active].error = "none"
         /\ active \in Retained
<1>1. active \in Ids /\ record[active].status = "running"
  BY DEF IInv, TypeOK, FlightOK
<1>2. record[active] # NoRecord
  BY <1>1 DEF NoRecord
<1>3. record[active] \in Records
  BY <1>1, <1>2 DEF IInv, TypeOK
<1>4. pending = None
  BY <1>1, NoneAssumption DEF IInv, FlightOK
<1>5. ToldOK(active)
  BY <1>1 DEF IInv
<1> QED BY <1>1, <1>2, <1>3, <1>4, <1>5 DEF ToldOK, Retained

(* take gives the request up. *)
LEMMA GiveUpInv ==
  ASSUME IInv, TakeExpired \/ TakeUnaudited
  PROVE  StepOK
<1> USE NoneAssumption
<1>1. PICK error \in {"expired", "audit_unavailable"} :
        /\ sched = "poll" /\ pending # None /\ Fail(pending, error)
        /\ pending' = None /\ sched' \in {"rest", "outer"}
        /\ UNCHANGED <<order, active, waited, cache, stop, reading, events, behind>>
  BY DEF TakeExpired, TakeUnaudited, Goto
<1>2. /\ pending \in Ids /\ active = None /\ record[pending] \in Records
      /\ record[pending].status = "queued" /\ events[pending].ran = 0
      /\ pending \in Retained
  BY <1>1, PendingRequest
<1> DEFINE r == [record[pending] EXCEPT !.status = "failed", !.error = error]
<1>3. r \in Records /\ r.status = "failed" /\ r.error = error
  BY <1>2 DEF Records, Statuses, Errors
<1>4. record' = [record EXCEPT ![pending] = r]
  <2>1. record \in [Ids -> Records \cup {NoRecord}]
    BY DEF IInv, TypeOK
  <2> QED BY <1>1, <1>2, <2>1 DEF Fail
<1> HIDE DEF r
<1>5. /\ record' \in [Ids -> Records \cup {NoRecord}]
      /\ record'[pending] = r
      /\ \A j \in Ids \ {pending} : record'[j] = record[j]
      /\ Retained' = Retained
      /\ OrderOK'
  BY <1>1, <1>2, <1>3, <1>4, UpdateRecord
<1>6. TypeOK'
  BY <1>1, <1>5 DEF IInv, TypeOK, SchedNames, cache
<1>7. FlightOK'
  BY <1>1, <1>2, <1>3, <1>5 DEF IInv, FlightOK, Working
<1>8. CacheOK'
  BY <1>1 DEF IInv, CacheOK, cache
<1>9. ASSUME NEW j \in Ids PROVE CountsOK(j)' /\ ToldOK(j)'
  <2>1. CountsOK(j) /\ ToldOK(j)
    BY DEF IInv
  <2>2. CountsOK(j)'
    BY <1>1, <1>2, <2>1 DEF CountsOK
  <2>3. ToldOK(j)'
    BY <1>1, <1>2, <1>3, <1>5, <2>1 DEF ToldOK, Outcomes
  <2> QED BY <2>2, <2>3
<1>10. PICK i \in Ids : i = pending
  BY <1>2
<1>11. Lifecycle!GiveUp(i)
  <2>1. [j \in Ids |-> record'[j].status]
          = [[j \in Ids |-> record[j].status] EXCEPT ![i] = "failed"]
    BY <1>3, <1>5, <1>10
  <2>2. {j \in Retained' : events'[j].ran > 0} = {j \in Retained : events[j].ran > 0}
    BY <1>1, <1>5
  <2> QED BY <1>2, <1>10, <2>1, <2>2 DEF Lifecycle!GiveUp
<1>12. Lifecycle!RNext
  BY <1>11 DEF Lifecycle!RNext
<1> QED BY <1>5, <1>6, <1>7, <1>8, <1>9, <1>12 DEF StepOK, IInv


(* take starts the request. *)
LEMMA TakeInv ==
  ASSUME IInv, Take
  PROVE  StepOK
<1> USE NoneAssumption
<1>1. /\ sched = "poll" /\ pending # None
      /\ events' = [events EXCEPT ![pending].started = @ + 1]
      /\ record' = [record EXCEPT ![pending].status = "running"]
      /\ active' = pending /\ pending' = None /\ sched' = "taken"
      /\ UNCHANGED <<order, waited, cache, stop, reading, behind>>
  BY DEF Take, Goto
<1>2. PICK i \in Ids : i = pending
  BY <1>1, PendingRequest
<1>3. /\ active = None /\ record[i] \in Records
      /\ record[i].status = "queued" /\ record[i].error = "none"
      /\ events[i].started < events[i].queued /\ events[i].ran = 0
      /\ i \in Retained
  BY <1>1, <1>2, PendingRequest
<1> DEFINE r == [record[i] EXCEPT !.status = "running"]
           e == [events[i] EXCEPT !.started = @ + 1]
<1>4. r \in Records /\ r.status = "running" /\ r.error = "none"
  BY <1>3 DEF Records, Statuses
<1>5. events \in [Ids -> [queued : Nat, started : Nat, attempts : Nat, ran : Nat]]
  BY DEF IInv, TypeOK
<1>6. /\ e \in [queued : Nat, started : Nat, attempts : Nat, ran : Nat]
      /\ e.queued = events[i].queued /\ e.started = events[i].started + 1
      /\ e.attempts = events[i].attempts /\ e.ran = 0
  BY <1>3, <1>5
<1>7. record' = [record EXCEPT ![i] = r]
  <2>1. record \in [Ids -> Records \cup {NoRecord}]
    BY DEF IInv, TypeOK
  <2> QED BY <1>1, <1>2, <1>3, <2>1
<1>8. events' = [events EXCEPT ![i] = e]
  BY <1>1, <1>2, <1>5
<1> HIDE DEF r, e
<1>9. events'[i] = e /\ \A j \in Ids \ {i} : events'[j] = events[j]
  BY <1>5, <1>8
<1>10. /\ record' \in [Ids -> Records \cup {NoRecord}]
       /\ record'[i] = r
       /\ \A j \in Ids \ {i} : record'[j] = record[j]
       /\ Retained' = Retained
       /\ OrderOK'
  BY <1>1, <1>3, <1>4, <1>7, UpdateRecord
<1>11. TypeOK'
  <2>1. events' \in [Ids -> [queued : Nat, started : Nat, attempts : Nat, ran : Nat]]
    BY <1>5, <1>6, <1>8
  <2>2. active' \in Ids \cup {None} /\ pending' \in Ids \cup {None}
    BY <1>1, <1>2
  <2> QED BY <1>1, <1>10, <2>1, <2>2 DEF IInv, TypeOK, SchedNames, cache
<1>12. FlightOK'
  BY <1>1, <1>2, <1>3, <1>4, <1>10 DEF IInv, FlightOK, Working
<1>13. CacheOK'
  BY <1>1 DEF IInv, CacheOK, cache
<1>14. ASSUME NEW j \in Ids PROVE CountsOK(j)' /\ ToldOK(j)'
  <2>1. CountsOK(j) /\ ToldOK(j)
    BY DEF IInv
  <2>2. CASE j = i
    <3>1. CountsOK(i)'
      BY <1>1, <1>2, <1>3, <1>5, <1>6, <1>9, <2>1, <2>2 DEF CountsOK
    <3>2. ToldOK(i)'
      BY <1>4, <1>10 DEF ToldOK
    <3> QED BY <2>2, <3>1, <3>2
  <2>3. CASE j # i
    BY <1>1, <1>2, <1>9, <1>10, <2>1, <2>3 DEF CountsOK, ToldOK
  <2> QED BY <2>2, <2>3
<1>15. Lifecycle!Start(i)
  <2>1. [j \in Ids |-> record'[j].status]
          = [[j \in Ids |-> record[j].status] EXCEPT ![i] = "running"]
    BY <1>4, <1>10
  <2>2. {j \in Retained' : events'[j].ran > 0} = {j \in Retained : events[j].ran > 0}
    BY <1>3, <1>6, <1>9, <1>10 DEF Retained
  <2> QED BY <1>3, <2>1, <2>2 DEF Lifecycle!Start
<1>16. Lifecycle!RNext
  BY <1>15 DEF Lifecycle!RNext
<1> QED BY <1>10, <1>11, <1>12, <1>13, <1>14, <1>16 DEF StepOK, IInv

(* The measurements are invalidated. *)
LEMMA InvalidateInv ==
  ASSUME IInv, Invalidate
  PROVE  StepOK
<1>1. /\ sched = "taken" /\ age' = None /\ sched' = "invalid"
      /\ UNCHANGED <<order, record, pending, active, waited, cycleOk, admits,
                     stop, reading, events, behind>>
  BY DEF Invalidate, Goto, queue
<1>2. TypeOK'
  BY <1>1 DEF IInv, TypeOK, SchedNames
<1>3. FlightOK'
  BY <1>1 DEF IInv, FlightOK, Working
<1>4. OrderOK'
  BY <1>1 DEF IInv, OrderOK, Retained
<1>5. CacheOK'
  BY <1>1 DEF CacheOK
<1>6. \A j \in Ids : CountsOK(j)' /\ ToldOK(j)'
  BY <1>1 DEF IInv, CountsOK, ToldOK
<1>7. UNCHANGED Lifecycle!rvars
  BY <1>1 DEF Lifecycle!rvars, Retained
<1> QED BY <1>2, <1>3, <1>4, <1>5, <1>6, <1>7 DEF StepOK, IInv

(* The command is attempted. *)
LEMMA AttemptInv ==
  ASSUME IInv, Attempt
  PROVE  StepOK
<1> USE NoneAssumption
<1>1. /\ sched = "invalid" /\ sched' = "execute"
      /\ events' = [events EXCEPT ![active].attempts = @ + 1, ![active].ran = @ + 1]
      /\ behind' = [cached |-> TRUE, collected |-> TRUE]
      /\ UNCHANGED <<order, record, pending, active, waited, age, cycleOk, admits,
                     stop, reading>>
  BY DEF Attempt, Goto, queue, cache
<1>2. sched \in Working
  BY <1>1 DEF Working
<1>3. PICK i \in Ids : i = active
  BY <1>2, ActiveRequest
<1>4. /\ pending = None /\ i \in Retained
      /\ record[i].status = "running" /\ record[i].error = "none"
  BY <1>2, <1>3, ActiveRequest
<1>5. events \in [Ids -> [queued : Nat, started : Nat, attempts : Nat, ran : Nat]]
  BY DEF IInv, TypeOK
<1>6. CountsOK(i)
  BY DEF IInv
<1>7. events[i].ran = 0 /\ events[i].attempts < events[i].started
  BY <1>1, <1>3, <1>6 DEF CountsOK
<1> DEFINE e == [events[i] EXCEPT !.attempts = @ + 1, !.ran = @ + 1]
<1>8. /\ e \in [queued : Nat, started : Nat, attempts : Nat, ran : Nat]
      /\ e.queued = events[i].queued /\ e.started = events[i].started
      /\ e.attempts = events[i].attempts + 1 /\ e.ran = 1
  <2>1. events[i] \in [queued : Nat, started : Nat, attempts : Nat, ran : Nat]
    BY <1>5
  <2>2. events[i].attempts + 1 \in Nat /\ events[i].ran + 1 = 1
    BY <1>7, <2>1
  <2>3. e = [events[i] EXCEPT !.attempts = events[i].attempts + 1, !.ran = 1]
    BY <2>2
  <2> HIDE DEF e
  <2> QED BY <2>1, <2>2, <2>3
<1>9. events' = [events EXCEPT ![i] = e]
  BY <1>1, <1>3, <1>5
<1> HIDE DEF e
<1>10. events'[i] = e /\ \A j \in Ids \ {i} : events'[j] = events[j]
  BY <1>5, <1>9
<1>11. TypeOK'
  BY <1>1, <1>5, <1>8, <1>9 DEF IInv, TypeOK, SchedNames
<1>12. FlightOK'
  BY <1>1 DEF IInv, FlightOK, Working
<1>13. OrderOK'
  BY <1>1 DEF IInv, OrderOK, Retained
<1>14. CacheOK'
  BY <1>1 DEF IInv, CacheOK
<1>15. ASSUME NEW j \in Ids PROVE CountsOK(j)' /\ ToldOK(j)'
  <2>1. CountsOK(j) /\ ToldOK(j)
    BY DEF IInv
  <2>2. CASE j = i
    <3>1. events[i].queued \in Nat /\ events[i].started \in Nat /\ events[i].attempts \in Nat
      BY <1>5
    <3>2. CountsOK(i)'
      BY <1>1, <1>3, <1>4, <1>6, <1>7, <1>8, <1>10, <3>1 DEF CountsOK
    <3>3. ToldOK(i)'
      BY <1>1, <1>4 DEF ToldOK
    <3> QED BY <2>2, <3>2, <3>3
  <2>3. CASE j # i
    BY <1>1, <1>3, <1>10, <2>1, <2>3 DEF CountsOK, ToldOK
  <2> QED BY <2>2, <2>3
<1>16. Lifecycle!Attempt(i)
  <2>1. Retained' = Retained
    BY <1>1 DEF Retained
  <2>2. {j \in Retained' : events'[j].ran > 0}
          = {j \in Retained : events[j].ran > 0} \cup {i}
    BY <1>4, <1>8, <1>10, <2>1 DEF Retained
  <2>3. i \notin {j \in Retained : events[j].ran > 0}
    BY <1>7
  <2> QED BY <1>1, <1>4, <2>2, <2>3 DEF Lifecycle!Attempt
<1>17. Lifecycle!RNext
  BY <1>16 DEF Lifecycle!RNext
<1> QED BY <1>11, <1>12, <1>13, <1>14, <1>15, <1>17 DEF StepOK, IInv

(* complete records how the attempt ended. *)
LEMMA CompleteInv ==
  ASSUME IInv, NEW error \in Outcomes, Complete(error)
  PROVE  StepOK
<1> USE NoneAssumption
<1> DEFINE s == IF error = "none" THEN "succeeded" ELSE "failed"
<1>1. /\ sched = "execute" /\ sched' = "outer" /\ active' = None
      /\ record' = [record EXCEPT ![active].status = s, ![active].error = error]
      /\ UNCHANGED <<order, pending, waited, age, cycleOk, admits, stop, reading,
                     events, behind>>
  BY DEF Complete, Goto, cache
<1>2. sched \in Working
  BY <1>1 DEF Working
<1>3. PICK i \in Ids : i = active
  BY <1>2, ActiveRequest
<1>4. /\ pending = None /\ i \in Retained /\ record[i] \in Records
      /\ record[i].status = "running" /\ record[i].error = "none"
  BY <1>2, <1>3, ActiveRequest
<1>5. CountsOK(i)
  BY DEF IInv
<1>6. events[i].ran = 1
  BY <1>1, <1>3, <1>5 DEF CountsOK
<1>7. s \in {"succeeded", "failed"}
  OBVIOUS
<1> HIDE DEF s
<1> DEFINE r == [record[i] EXCEPT !.status = s, !.error = error]
<1>8. r \in Records /\ r.status = s /\ r.error = error
  BY <1>4, <1>7 DEF Records, Statuses, Errors, Outcomes
<1>9. record' = [record EXCEPT ![i] = r]
  <2>1. record \in [Ids -> Records \cup {NoRecord}]
    BY DEF IInv, TypeOK
  <2> QED BY <1>1, <1>3, <1>4, <2>1
<1> HIDE DEF r
<1>10. /\ record' \in [Ids -> Records \cup {NoRecord}]
       /\ record'[i] = r
       /\ \A j \in Ids \ {i} : record'[j] = record[j]
       /\ Retained' = Retained
       /\ OrderOK'
  BY <1>1, <1>4, <1>8, <1>9, UpdateRecord
<1>11. TypeOK'
  BY <1>1, <1>10 DEF IInv, TypeOK, SchedNames
<1>12. FlightOK'
  BY <1>1, <1>3, <1>4, <1>7, <1>8, <1>10 DEF IInv, FlightOK, Working
<1>13. CacheOK'
  BY <1>1 DEF IInv, CacheOK
<1>14. ASSUME NEW j \in Ids PROVE CountsOK(j)' /\ ToldOK(j)'
  <2>1. CountsOK(j) /\ ToldOK(j)
    BY DEF IInv
  <2>2. CountsOK(j)'
    BY <1>1, <1>4, <2>1 DEF CountsOK
  <2>3. ToldOK(j)'
    BY <1>1, <1>6, <1>7, <1>8, <1>10, <2>1 DEF ToldOK
  <2> QED BY <2>2, <2>3
<1>15. Lifecycle!Finish(i, s)
  <2>1. [j \in Ids |-> record'[j].status]
          = [[j \in Ids |-> record[j].status] EXCEPT ![i] = s]
    BY <1>8, <1>10
  <2>2. {j \in Retained' : events'[j].ran > 0} = {j \in Retained : events[j].ran > 0}
    BY <1>1, <1>10
  <2>3. i \in {j \in Retained : events[j].ran > 0}
    BY <1>4, <1>6
  <2> QED BY <1>4, <2>1, <2>2, <2>3 DEF Lifecycle!Finish
<1>16. Lifecycle!RNext
  BY <1>7, <1>15 DEF Lifecycle!RNext, Lifecycle!Ended, s
<1> QED BY <1>10, <1>11, <1>12, <1>13, <1>14, <1>16 DEF StepOK, IInv

-----------------------------------------------------------------------------
(***************************************************************************)
(* Submission, and a new process.                                          *)
(***************************************************************************)

(* Eviction drops the oldest record, and leaves room for one more. *)
LEMMA Room ==
  ASSUME IInv
  PROVE  /\ Shortened \in Seq(Ids)
         /\ Len(Shortened) < HistoryLimit
         /\ Evicted \subseteq Retained
         /\ \A j \in Ids : (\E n \in 1 .. Len(Shortened) : Shortened[n] = j)
                             <=> j \in Retained \ Evicted
         /\ \A m, n \in 1 .. Len(Shortened) : Shortened[m] = Shortened[n] => m = n
<1> USE LimitsAssumption
<1>1. order \in Seq(Ids) /\ Len(order) \in Nat /\ OrderOK
  BY DEF IInv, TypeOK
<1>2. CASE Len(order) < HistoryLimit
  <2>1. Shortened = order /\ Evicted = {}
    BY <1>1, <1>2 DEF Shortened, Evicted
  <2> QED BY <1>1, <1>2, <2>1 DEF OrderOK
<1>3. CASE Len(order) >= HistoryLimit
  <2>1. /\ order # <<>> /\ Head(order) = order[1] /\ order[1] \in Ids
        /\ Tail(order) \in Seq(Ids) /\ Len(Tail(order)) = Len(order) - 1
        /\ \A n \in 1 .. Len(order) - 1 : Tail(order)[n] = order[n + 1]
    BY <1>1, <1>3
  <2>2. Shortened = Tail(order) /\ Evicted = {order[1]}
    BY <1>3, <2>1 DEF Shortened, Evicted
  <2>3. \A m, n \in 1 .. Len(order) : order[m] = order[n] => m = n
    BY <1>1 DEF OrderOK
  <2>4. \A j \in Ids : j \in Retained <=> \E n \in 1 .. Len(order) : order[n] = j
    BY <1>1 DEF OrderOK
  <2>5. 1 \in 1 .. Len(order) /\ Len(order) <= HistoryLimit
    BY <1>1, <1>3 DEF OrderOK
  <2>6. ASSUME NEW j \in Ids
        PROVE  (\E n \in 1 .. Len(order) - 1 : Tail(order)[n] = j)
                 <=> j \in Retained \ {order[1]}
    <3>1. ASSUME NEW n \in 1 .. Len(order) - 1, Tail(order)[n] = j
          PROVE  j \in Retained \ {order[1]}
      <4>1. n + 1 \in 1 .. Len(order) /\ order[n + 1] = j /\ n + 1 # 1
        BY <1>1, <2>1, <3>1
      <4>2. j # order[1]
        BY <2>3, <2>5, <4>1
      <4> QED BY <2>4, <4>1, <4>2
    <3>2. ASSUME j \in Retained, j # order[1]
          PROVE  \E n \in 1 .. Len(order) - 1 : Tail(order)[n] = j
      <4>1. PICK n \in 1 .. Len(order) : order[n] = j
        BY <2>4, <3>2
      <4>2. n - 1 \in 1 .. Len(order) - 1 /\ n = (n - 1) + 1
        BY <1>1, <3>2, <4>1
      <4> QED BY <2>1, <4>1, <4>2
    <3> QED BY <3>1, <3>2
  <2>7. ASSUME NEW m \in 1 .. Len(order) - 1, NEW n \in 1 .. Len(order) - 1,
               Tail(order)[m] = Tail(order)[n]
        PROVE  m = n
    <3>1. m + 1 \in 1 .. Len(order) /\ n + 1 \in 1 .. Len(order)
      BY <1>1
    <3>2. order[m + 1] = order[n + 1]
      BY <2>1, <2>7
    <3>3. m + 1 = n + 1
      BY <2>3, <3>1, <3>2
    <3> QED BY <3>3
  <2>8. order[1] \in Retained
    BY <2>1, <2>4, <2>5
  <2> QED BY <1>1, <2>1, <2>2, <2>5, <2>6, <2>7, <2>8
<1> QED BY <1>1, <1>2, <1>3

(* submit queues a request. *)
LEMMA AcceptInv ==
  ASSUME IInv, NEW c \in Clients, NEW i \in Ids, NEW t \in Targets, Accept(c, i, t)
  PROVE  StepOK
<1> USE NoneAssumption
<1> DEFINE r == [status |-> "queued", target |-> t, error |-> "none"]
           e == [events[i] EXCEPT !.queued = @ + 1, !.ran = 0]
<1>1. /\ i \notin Retained /\ pending = None /\ active = None
      /\ order' = Append(Shortened, i)
      /\ record' = [j \in Ids |-> CASE j = i -> r
                                    [] j # i /\ j \in Evicted -> NoRecord
                                    [] OTHER -> record[j]]
      /\ pending' = i /\ waited' = 0
      /\ reading' = [reading EXCEPT ![c] = None]
      /\ events' = [events EXCEPT ![i].queued = @ + 1, ![i].ran = 0]
      /\ UNCHANGED <<active, age, cycleOk, admits, sched, stop, behind>>
  BY DEF Accept, Acceptable, cache
<1>2. r \in Records /\ r.status = "queued" /\ r.error = "none" /\ r # NoRecord
  BY DEF Records, Statuses, Errors, NoRecord
<1>3. Evicted \subseteq Retained
  BY Room
<1>4. record \in [Ids -> Records \cup {NoRecord}]
  BY DEF IInv, TypeOK
<1> HIDE DEF r
<1>5. /\ record'[i] = r
      /\ \A j \in Ids \ {i} : record'[j] = IF j \in Evicted THEN NoRecord ELSE record[j]
  BY <1>1
<1>6. record' \in [Ids -> Records \cup {NoRecord}]
  BY <1>1, <1>2, <1>4
<1>7. Retained' = (Retained \ Evicted) \cup {i}
  BY <1>2, <1>5 DEF Retained
<1>8. events \in [Ids -> [queued : Nat, started : Nat, attempts : Nat, ran : Nat]]
  BY DEF IInv, TypeOK
<1>9. events[i] \in [queued : Nat, started : Nat, attempts : Nat, ran : Nat]
  BY <1>8
<1>10. /\ e \in [queued : Nat, started : Nat, attempts : Nat, ran : Nat]
       /\ e.queued = events[i].queued + 1 /\ e.started = events[i].started
       /\ e.attempts = events[i].attempts /\ e.ran = 0
  <2>1. events[i].queued + 1 \in Nat
    BY <1>9
  <2>2. e = [events[i] EXCEPT !.queued = events[i].queued + 1, !.ran = 0]
    OBVIOUS
  <2> HIDE DEF e
  <2> QED BY <1>9, <2>1, <2>2
<1>11. events' = [events EXCEPT ![i] = e]
  BY <1>1, <1>8
<1> HIDE DEF e
<1>12. events'[i] = e /\ \A j \in Ids \ {i} : events'[j] = events[j]
  BY <1>8, <1>11
<1>13. OrderOK'
  <2> DEFINE len == Len(Shortened)
  <2>1. /\ Shortened \in Seq(Ids) /\ len \in Nat /\ len < HistoryLimit
        /\ \A j \in Ids : (\E n \in 1 .. len : Shortened[n] = j)
                            <=> j \in Retained \ Evicted
        /\ \A m, n \in 1 .. len : Shortened[m] = Shortened[n] => m = n
    BY Room
  <2>2. /\ Len(order') = len + 1 /\ order'[len + 1] = i
        /\ \A n \in 1 .. len : order'[n] = Shortened[n]
    BY <1>1, <2>1
  <2>3. \A n \in 1 .. len : Shortened[n] \in Ids /\ Shortened[n] # i
    BY <1>1, <2>1
  <2> HIDE DEF len
  <2>4. 1 .. Len(order') = (1 .. len) \cup {len + 1}
    BY <2>1, <2>2
  <2>5. \A m, n \in 1 .. Len(order') : order'[m] = order'[n] => m = n
    BY <2>1, <2>2, <2>3, <2>4
  <2>6. \A j \in Ids : j \in Retained' <=> \E n \in 1 .. Len(order') : order'[n] = j
    BY <1>7, <2>1, <2>2, <2>4
  <2>7. Len(order') <= HistoryLimit
    BY <2>1, <2>2, LimitsAssumption
  <2> QED BY <2>5, <2>6, <2>7 DEF OrderOK
<1>14. TypeOK'
  <2>1. order' \in Seq(Ids)
    BY <1>1, Room
  <2>2. events' \in [Ids -> [queued : Nat, started : Nat, attempts : Nat, ran : Nat]]
    BY <1>8, <1>10, <1>11
  <2>3. waited' \in Ages(QueueTimeout)
    BY <1>1, LimitsAssumption DEF Ages
  <2> QED BY <1>1, <1>6, <2>1, <2>2, <2>3 DEF IInv, TypeOK
<1>15. \A j \in Ids : record[j].status \notin {"queued", "running"}
  BY <1>1 DEF IInv, FlightOK
<1>16. \A j \in Ids \ {i} : record'[j].status \notin {"queued", "running"}
  BY <1>5, <1>15 DEF NoRecord
<1>17. FlightOK'
  <2>1. /\ \A j \in Ids : record'[j].status = "queued" <=> j = i
        /\ \A j \in Ids : record'[j].status # "running"
    BY <1>2, <1>5, <1>16
  <2> QED BY <1>1, <2>1 DEF IInv, FlightOK, Working
<1>18. CacheOK'
  BY <1>1 DEF IInv, CacheOK
<1>19. ASSUME NEW j \in Ids PROVE CountsOK(j)' /\ ToldOK(j)'
  <2>1. CountsOK(j) /\ ToldOK(j) /\ j # pending
    BY <1>1 DEF IInv
  <2>2. CASE j = i
    <3>1. CountsOK(i)'
      BY <1>1, <1>9, <1>10, <1>12, <2>1, <2>2 DEF CountsOK
    <3>2. ToldOK(i)'
      BY <1>2, <1>5 DEF ToldOK
    <3> QED BY <2>2, <3>1, <3>2
  <2>3. CASE j # i
    <3>1. CountsOK(j)'
      BY <1>1, <1>12, <2>1, <2>3 DEF CountsOK
    <3>2. ToldOK(j)'
      BY <1>5, <1>12, <2>1, <2>3 DEF ToldOK, NoRecord
    <3> QED BY <3>1, <3>2
  <2> QED BY <2>2, <2>3
<1>20. \E dropped \in SUBSET Ids : Lifecycle!Accept(i, dropped)
  <2>1. PICK dropped \in SUBSET Ids : dropped = Evicted
    BY <1>3 DEF Retained
  <2>2. \A j \in Ids : j \in Retained => record[j].status \in Lifecycle!Ended
    BY <1>4, <1>15 DEF Retained, Records, Statuses, Lifecycle!Ended
  <2>3. record[i].status = "absent"
    BY <1>1 DEF Retained, NoRecord
  <2>4. [j \in Ids |-> record'[j].status]
          = [j \in Ids |-> IF j = i THEN "queued"
               ELSE IF j \in dropped THEN "absent" ELSE record[j].status]
    BY <1>2, <1>5, <2>1 DEF NoRecord
  <2>5. {j \in Retained' : events'[j].ran > 0}
          = {j \in Retained : events[j].ran > 0} \ dropped
    <3>1. Retained \subseteq Ids /\ events'[i].ran = 0
      BY <1>10, <1>12 DEF Retained
    <3>2. ASSUME NEW j \in Ids
          PROVE  j \in Retained' /\ events'[j].ran > 0
                   <=> j \in Retained \ dropped /\ events[j].ran > 0
      <4>1. CASE j = i
        BY <1>1, <3>1, <4>1
      <4>2. CASE j # i
        BY <1>7, <1>12, <2>1, <4>2
      <4> QED BY <4>1, <4>2
    <3>3. Retained' \subseteq Ids
      BY <1>3, <1>7, <3>1
    <3> QED BY <3>1, <3>2, <3>3
  <2>6. dropped \subseteq {j \in Ids : record[j].status \in Lifecycle!Ended}
    BY <1>3, <2>1, <2>2
  <2>7. Lifecycle!Accept(i, dropped)
    BY <1>15, <2>3, <2>4, <2>5, <2>6 DEF Lifecycle!Accept, Lifecycle!InFlight
  <2> QED BY <2>7
<1>21. Lifecycle!RNext
  BY <1>20 DEF Lifecycle!RNext
<1> QED BY <1>13, <1>14, <1>17, <1>18, <1>19, <1>21 DEF StepOK, IInv

(* A new process starts with nothing, and the journal as it is. *)
LEMMA RestartInv ==
  ASSUME IInv, Restart
  PROVE  StepOK
<1> USE NoneAssumption, LimitsAssumption
<1>1. /\ order' = <<>> /\ record' = [i \in Ids |-> NoRecord]
      /\ pending' = None /\ active' = None /\ waited' = 0
      /\ age' = None /\ cycleOk' = FALSE /\ admits' = {}
      /\ sched' = "outer" /\ stop' = FALSE
      /\ reading' = [c \in Clients |-> None]
      /\ UNCHANGED <<events, behind>>
  BY DEF Restart, NoRecords, NoReadings
<1>2. \A j \in Ids : record'[j] = NoRecord /\ record'[j].status = "absent"
  BY <1>1 DEF NoRecord
<1>3. TypeOK'
  <2>1. order' \in Seq(Ids) /\ waited' \in Ages(QueueTimeout)
    BY <1>1 DEF Ages
  <2>2. record' \in [Ids -> Records \cup {NoRecord}]
    BY <1>1
  <2>3. reading' \in [Clients -> (SUBSET Targets) \cup {None}]
    BY <1>1
  <2> QED BY <1>1, <2>1, <2>2, <2>3 DEF IInv, TypeOK, SchedNames
<1>4. FlightOK' /\ OrderOK' /\ CacheOK'
  BY <1>1, <1>2 DEF FlightOK, OrderOK, CacheOK, Retained, Working
<1>5. \A j \in Ids : CountsOK(j)' /\ ToldOK(j)'
  BY <1>1, <1>2 DEF IInv, CountsOK, ToldOK
<1>6. Lifecycle!ForgetAll
  <2>1. [j \in Ids |-> record'[j].status] = [j \in Ids |-> "absent"]
    BY <1>2
  <2>2. {j \in Retained' : events'[j].ran > 0} = {}
    BY <1>2 DEF Retained
  <2> QED BY <2>1, <2>2 DEF Lifecycle!ForgetAll
<1>7. Lifecycle!RNext
  BY <1>6 DEF Lifecycle!RNext
<1> QED BY <1>3, <1>4, <1>5, <1>7 DEF StepOK, IInv

-----------------------------------------------------------------------------
(* Every step, and a step that changes nothing. *)
LEMMA NextInv == ASSUME IInv, [Next]_vars PROVE StepOK
<1>1. CASE QuietAction
  BY <1>1, QuietInv
<1>2. ASSUME NEW c \in Clients, NEW i \in Ids, NEW t \in Targets, Accept(c, i, t)
      PROVE  StepOK
  BY <1>2, AcceptInv
<1>3. CASE TakeExpired \/ TakeUnaudited
  BY <1>3, GiveUpInv
<1>4. CASE Take \/ Invalidate \/ Attempt
  BY <1>4, TakeInv, InvalidateInv, AttemptInv
<1>5. ASSUME NEW error \in Outcomes, Complete(error) PROVE StepOK
  BY <1>5, CompleteInv
<1>6. CASE Restart
  BY <1>6, RestartInv
<1>7. CASE UNCHANGED vars
  <2>1. /\ UNCHANGED <<order, record, pending, active, waited, age, cycleOk, admits>>
        /\ UNCHANGED <<sched, stop, reading, events, behind>>
    BY <1>7 DEF vars, queue, cache
  <2>2. TypeOK' /\ CacheOK'
    BY <2>1 DEF IInv, TypeOK, CacheOK
  <2> QED BY <2>1, <2>2, QuietStep
<1> QED BY <1>1, <1>2, <1>3, <1>4, <1>5, <1>6, <1>7
        DEF Next, Submissions, Scheduler, QuietAction

(* Invariance: the inductive invariant holds in every state. *)
THEOREM Invariance == Spec => []IInv
<1>1. IInv /\ [Next]_vars => IInv'
  BY NextInv DEF StepOK
<1> QED BY <1>1, InitInv, PTL DEF Spec

-----------------------------------------------------------------------------
(***************************************************************************)
(* The results.                                                            *)
(***************************************************************************)

(* TypeCorrect: every variable keeps its type. *)
THEOREM TypeCorrect == Spec => []TypeOK
<1>1. IInv => TypeOK
  BY DEF IInv
<1> QED BY <1>1, Invariance, PTL

(* FlightRetained: at most one request is in flight, its record is never   *)
(* evicted, and its record and no other says so, for any history length    *)
(* (ManualActions.submit, take, complete).                                 *)
THEOREM FlightRetained == Spec => []InFlightRetained
<1>1. IInv => InFlightRetained
  BY DEF IInv, FlightOK, OrderOK, InFlightRetained
<1> QED BY <1>1, Invariance, PTL

(* TruthTold: the record a client polls tells whether the command was      *)
(* attempted (MonitorService.run_pending_action, ManualActions.take).      *)
THEOREM TruthTold == Spec => []OutcomeTruthful
<1>1. ASSUME IInv, NEW i \in Retained
      PROVE  /\ events[i].ran <= 1
             /\ record[i].status = "queued" => events[i].ran = 0
             /\ record[i].error \in {"expired", "audit_unavailable"} => events[i].ran = 0
             /\ record[i].status \in {"succeeded", "failed"}
                  /\ record[i].error \in Outcomes => events[i].ran = 1
  <2>1. i \in Ids /\ CountsOK(i) /\ ToldOK(i) /\ FlightOK
    BY <1>1 DEF IInv, Retained
  <2>2. record[i] \in Records
    BY <1>1, <2>1 DEF IInv, TypeOK, Retained
  <2>3. record[i].status \in Statuses
    BY <2>2 DEF Records
  <2>4. CASE record[i].status = "queued"
    BY <2>1, <2>4 DEF FlightOK, CountsOK, ToldOK
  <2>5. CASE record[i].status = "running"
    <3>1. i = active /\ sched \in Working
      BY <2>1, <2>5, NoneAssumption DEF FlightOK
    <3>2. events[i].ran \in {0, 1}
      BY <2>1, <3>1 DEF CountsOK, Working
    <3> QED BY <2>1, <2>5, <3>2 DEF ToldOK
  <2>6. CASE record[i].status \in {"succeeded", "failed"}
    BY <2>1, <2>6 DEF ToldOK, Outcomes
  <2> QED BY <2>3, <2>4, <2>5, <2>6 DEF Statuses
<1>2. IInv => OutcomeTruthful
  BY <1>1 DEF OutcomeTruthful
<1> QED BY <1>2, Invariance, PTL

(* JournalFirst: no command is attempted, in the life of the installation, *)
(* without a "queued" and a "started" event of its own before it           *)
(* (ManualActions._audit).                                                 *)
THEOREM JournalFirst == Spec => []AttemptsJournaled
<1>1. IInv => AttemptsJournaled
  BY DEF IInv, CountsOK, AttemptsJournaled
<1> QED BY <1>1, Invariance, PTL

(* ReadyIsCurrent: the service is ready only with measurements collected   *)
(* by a cycle that began after the last attempt (MonitorService.status).   *)
THEOREM ReadyIsCurrent == Spec => []ReadyMeansCollectedSince
<1>1. IInv => ReadyMeansCollectedSince
  BY DEF IInv, CacheOK, ReadyMeansCollectedSince, Ready
<1> QED BY <1>1, Invariance, PTL

(* LifecycleImplemented: the service behaves as RequestLifecycle promises  *)
(* for every identifier: deduplication, one request in flight, at most one *)
(* attempt per acceptance, ended records that do not change.               *)
THEOREM LifecycleImplemented == Spec => ImplementsLifecycle
<1>1. Init => Lifecycle!RInit
  BY InitInv
<1>2. IInv /\ [Next]_vars => [Lifecycle!RNext]_(Lifecycle!rvars)
  BY NextInv DEF StepOK
<1> QED BY <1>1, <1>2, Invariance, PTL DEF Spec, ImplementsLifecycle, Lifecycle!RSpec

=============================================================================
