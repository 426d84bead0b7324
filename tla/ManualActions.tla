---------------------------- MODULE ManualActions -----------------------------
(***************************************************************************)
(* The service "monit-docker serve" with manual actions enabled: HTTP      *)
(* threads that submit requests, the bounded in-memory queue and history   *)
(* (ManualActions), the cached measurements with their readiness           *)
(* (MonitorService), and the one scheduler thread that runs monitoring     *)
(* cycles and, between them, the queued request.                           *)
(*                                                                         *)
(* An HTTP thread reads the monitor's status first and submits afterwards, *)
(* under another lock: anything may happen in between.  Sources:           *)
(* manual_actions.py, service.py, adapters/http_routes.py.                 *)
(***************************************************************************)
EXTENDS Naturals, Sequences

CONSTANTS Ids,           \* request identifiers
          Targets,       \* pairs of a container and a command
          Clients,       \* HTTP threads that serve submissions
          None,
          HistoryLimit,  \* records kept (_HISTORY_LIMIT)
          QueueTimeout,  \* seconds after which a queued request has expired
          StaleAfter,    \* seconds after which measurements are stale
          MaxAccepted,   \* bound: acceptances of one identifier
          Faults         \* which of "audit", "cycle", "crash" occur

ASSUME NoneAssumption == None \notin Ids
ASSUME LimitsAssumption ==
  HistoryLimit \in Nat \ {0} /\ QueueTimeout \in Nat /\ StaleAfter \in Nat

VARIABLES order,      \* identifiers retained, oldest first (_requests)
          record,     \* their records
          pending,    \* _pending
          active,     \* _active
          waited,     \* seconds since _queued_at, up to QueueTimeout + 1
          age,        \* seconds since _last_success_tick, None when it is None
          cycleOk,    \* last_cycle_success
          admits,     \* targets that the cached measurements admit
          sched,      \* where the scheduler is
          stop,       \* the stop event
          reading,    \* reading[c]: targets admitted by the status c has read
          events,     \* history: what was journaled and attempted
          behind      \* history: are the cached measurements, or those being
                      \*   collected, older than the last attempt

queue == <<order, record, pending, active, waited>>
cache == <<age, cycleOk, admits>>
vars == <<queue, cache, sched, stop, reading, events, behind>>

Statuses == {"queued", "running", "succeeded", "failed"}
Errors == {"none", "rejected", "execution_failed", "expired",
           "audit_unavailable"}
NoRecord == [status |-> "absent", target |-> None, error |-> "none"]
Records == [status : Statuses, target : Targets, error : Errors]

SchedNames == {"outer", "collect", "inner", "poll", "taken", "invalid",
               "execute", "rest", "stopped"}
Ages(limit) == 0 .. limit + 1

(* `ran' counts the attempts since the identifier was last accepted, the   *)
(* other fields count events over the whole life of the installation.      *)
NoEvents == [queued |-> 0, started |-> 0, attempts |-> 0, ran |-> 0]
Retained == {i \in Ids : record[i] # NoRecord}

(***************************************************************************)
(* TypeOK: the variables keep their types.                                 *)
(***************************************************************************)
TypeOK ==
  /\ order \in Seq(Ids)
  /\ record \in [Ids -> Records \cup {NoRecord}]
  /\ pending \in Ids \cup {None}
  /\ active \in Ids \cup {None}
  /\ waited \in Ages(QueueTimeout)
  /\ age \in Ages(StaleAfter) \cup {None}
  /\ cycleOk \in BOOLEAN
  /\ admits \subseteq Targets
  /\ sched \in SchedNames
  /\ stop \in BOOLEAN
  /\ reading \in [Clients -> (SUBSET Targets) \cup {None}]
  /\ events \in [Ids -> [queued : Nat, started : Nat, attempts : Nat, ran : Nat]]
  /\ behind \in [cached : BOOLEAN, collected : BOOLEAN]

NoRecords == [i \in Ids |-> NoRecord]
NoReadings == [c \in Clients |-> None]

(* A new process: empty queue and history, no measurements. *)
Init ==
  /\ order = <<>> /\ record = NoRecords
  /\ pending = None /\ active = None /\ waited = 0
  /\ age = None /\ cycleOk = FALSE /\ admits = {}
  /\ sched = "outer" /\ stop = FALSE
  /\ reading = NoReadings
  /\ events = [i \in Ids |-> NoEvents]
  /\ behind = [cached |-> FALSE, collected |-> FALSE]

(* MonitorService.status: measurements are told only while they are ready. *)
Ready == cycleOk /\ age # None /\ age <= StaleAfter
Told == IF Ready THEN admits ELSE {}

-----------------------------------------------------------------------------
(***************************************************************************)
(* HTTP threads.                                                           *)
(***************************************************************************)
ReadStatus(c) ==
  /\ reading[c] = None
  /\ reading' = [reading EXCEPT ![c] = Told]
  /\ UNCHANGED <<queue, cache, sched, stop, events, behind>>

(* Mutants: only a pending request makes the queue busy; identifiers are   *)
(* not deduplicated.                                                       *)
BusyWhenPending(c, i, t) ==
  i \notin Retained /\ pending = None /\ t \in reading[c]
NotDeduplicated(c, i, t) ==
  pending = None /\ active = None /\ t \in reading[c]

(* Whether submit gets as far as the "queued" event of the journal. *)
Acceptable(c, i, t) ==
  /\ i \notin Retained
  /\ pending = None /\ active = None
  /\ t \in reading[c]

Evicted == IF Len(order) >= HistoryLimit THEN {Head(order)} ELSE {}
Shortened == IF Len(order) >= HistoryLimit THEN Tail(order) ELSE order

Accept(c, i, t) ==
  /\ reading[c] # None
  /\ Acceptable(c, i, t)
  /\ events[i].queued < MaxAccepted
  /\ order' = Append(Shortened, i)
  /\ record' = [j \in Ids |->
                  CASE j = i -> [status |-> "queued", target |-> t, error |-> "none"]
                    [] j # i /\ j \in Evicted -> NoRecord
                    [] OTHER -> record[j]]
  /\ pending' = i
  /\ waited' = 0
  /\ reading' = [reading EXCEPT ![c] = None]
  /\ events' = [events EXCEPT ![i].queued = @ + 1, ![i].ran = 0]
  /\ UNCHANGED <<active, cache, sched, stop, behind>>

(* A retained identifier (a duplicate or a conflict), a busy queue, a      *)
(* status that is not ready or does not admit the target, or a journal     *)
(* that cannot take the event: an answer, and no change.                   *)
Answer(c, i, t) ==
  /\ reading[c] # None
  /\ ~Acceptable(c, i, t) \/ "audit" \in Faults
  /\ reading' = [reading EXCEPT ![c] = None]
  /\ UNCHANGED <<queue, cache, sched, stop, events, behind>>

-----------------------------------------------------------------------------
(***************************************************************************)
(* The scheduler: MonitorService.run.                                      *)
(***************************************************************************)
Goto(place) == sched' = place

BeginCycle ==
  /\ sched = "outer" /\ ~stop
  /\ Goto("collect")
  /\ behind' = [behind EXCEPT !.collected = FALSE]
  /\ UNCHANGED <<queue, cache, stop, reading, events>>

CycleSucceeds(targets) ==
  /\ sched = "collect"
  /\ age' = 0
  /\ cycleOk' = TRUE
  /\ admits' = targets
  /\ behind' = [behind EXCEPT !.cached = behind.collected]
  /\ Goto("inner")
  /\ UNCHANGED <<queue, stop, reading, events>>

CycleFails ==
  /\ sched = "collect" /\ "cycle" \in Faults
  /\ cycleOk' = FALSE
  /\ Goto("inner")
  /\ UNCHANGED <<queue, age, admits, stop, reading, events, behind>>

(* The heads of both loops look at the stop event. *)
Poll ==
  /\ sched = "inner" /\ ~stop
  /\ Goto("poll")
  /\ UNCHANGED <<queue, cache, stop, reading, events, behind>>

Stopped ==
  /\ sched \in {"outer", "inner"} /\ stop
  /\ Goto("stopped")
  /\ UNCHANGED <<queue, cache, stop, reading, events, behind>>

(* ManualActions.take *)
TakeNothing ==
  /\ sched = "poll" /\ pending = None
  /\ Goto("rest")
  /\ UNCHANGED <<queue, cache, stop, reading, events, behind>>

(* Mutant: the record is left alone. *)
FailSilently(i, error) == UNCHANGED record

Fail(i, error) ==
  record' = [record EXCEPT ![i].status = "failed", ![i].error = error]

TakeExpired ==
  /\ sched = "poll" /\ pending # None
  /\ waited > QueueTimeout
  /\ Fail(pending, "expired")
  /\ pending' = None
  /\ Goto("rest")
  /\ UNCHANGED <<order, active, waited, cache, stop, reading, events, behind>>

(* Mutants: the request stays pending when its "started" event cannot be   *)
(* written; it is run all the same.                                        *)
TakeKeepsPending ==
  /\ sched = "poll" /\ pending # None
  /\ waited <= QueueTimeout
  /\ "audit" \in Faults
  /\ Fail(pending, "audit_unavailable")
  /\ Goto("outer")
  /\ UNCHANGED <<order, pending, active, waited, cache, stop, reading, events,
                 behind>>
TakeRegardless ==
  /\ sched = "poll" /\ pending # None
  /\ "audit" \in Faults
  /\ record' = [record EXCEPT ![pending].status = "running"]
  /\ active' = pending
  /\ pending' = None
  /\ Goto("taken")
  /\ UNCHANGED <<order, waited, cache, stop, reading, events, behind>>

(* run_pending_action returns True: the scheduler starts a new cycle. *)
TakeUnaudited ==
  /\ sched = "poll" /\ pending # None
  /\ waited <= QueueTimeout
  /\ "audit" \in Faults
  /\ Fail(pending, "audit_unavailable")
  /\ pending' = None
  /\ Goto("outer")
  /\ UNCHANGED <<order, active, waited, cache, stop, reading, events, behind>>

Take ==
  /\ sched = "poll" /\ pending # None
  /\ waited <= QueueTimeout
  /\ events' = [events EXCEPT ![pending].started = @ + 1]
  /\ record' = [record EXCEPT ![pending].status = "running"]
  /\ active' = pending
  /\ pending' = None
  /\ Goto("taken")
  /\ UNCHANGED <<order, waited, cache, stop, reading, behind>>

(* Mutant: the cache stays as it is. *)
KeepCache ==
  /\ sched = "taken"
  /\ Goto("invalid")
  /\ UNCHANGED <<queue, cache, stop, reading, events, behind>>

(* MonitorService.run_pending_action: the cached measurements are          *)
(* invalidated, then the command is attempted.                             *)
Invalidate ==
  /\ sched = "taken"
  /\ age' = None
  /\ Goto("invalid")
  /\ UNCHANGED <<queue, cycleOk, admits, stop, reading, events, behind>>

Attempt ==
  /\ sched = "invalid"
  /\ events' = [events EXCEPT ![active].attempts = @ + 1, ![active].ran = @ + 1]
  /\ behind' = [cached |-> TRUE, collected |-> TRUE]
  /\ Goto("execute")
  /\ UNCHANGED <<queue, cache, stop, reading>>

(* The attempt ends, and complete records how. *)
Complete(error) ==
  /\ sched = "execute"
  /\ record' = [record EXCEPT
       ![active].status = IF error = "none" THEN "succeeded" ELSE "failed",
       ![active].error = error]
  /\ active' = None
  /\ Goto("outer")
  /\ UNCHANGED <<order, pending, waited, cache, stop, reading, events, behind>>

(* Nothing was attempted: sleep a moment, or the interval is over. *)
Rest(place) ==
  /\ sched = "rest"
  /\ Goto(place)
  /\ UNCHANGED <<queue, cache, stop, reading, events, behind>>

-----------------------------------------------------------------------------
(***************************************************************************)
(* The environment: time, a signal, a crash followed by a new process.     *)
(***************************************************************************)
Older(a, limit) == IF a = limit + 1 THEN a ELSE a + 1

Tick ==
  /\ waited' = Older(waited, QueueTimeout)
  /\ age' = IF age = None THEN None ELSE Older(age, StaleAfter)
  /\ UNCHANGED <<order, record, pending, active, cycleOk, admits, sched, stop,
                 reading, events, behind>>

Stop ==
  /\ stop' = TRUE
  /\ UNCHANGED <<queue, cache, sched, reading, events, behind>>

Restart ==
  /\ sched = "stopped" \/ "crash" \in Faults
  /\ order' = <<>> /\ record' = NoRecords
  /\ pending' = None /\ active' = None /\ waited' = 0
  /\ age' = None /\ cycleOk' = FALSE /\ admits' = {}
  /\ sched' = "outer" /\ stop' = FALSE
  /\ reading' = NoReadings
  /\ UNCHANGED <<events, behind>>

Outcomes == {"none", "rejected", "execution_failed"}

Submissions ==
  \/ \E c \in Clients : ReadStatus(c)
  \/ \E c \in Clients, i \in Ids, t \in Targets : Accept(c, i, t)
  \/ \E c \in Clients, i \in Ids, t \in Targets : Answer(c, i, t)

Scheduler ==
  \/ BeginCycle
  \/ \E targets \in SUBSET Targets : CycleSucceeds(targets)
  \/ CycleFails
  \/ Poll
  \/ Stopped
  \/ TakeNothing
  \/ TakeExpired
  \/ TakeUnaudited
  \/ Take
  \/ Invalidate
  \/ Attempt
  \/ \E error \in Outcomes : Complete(error)
  \/ \E place \in {"inner", "outer"} : Rest(place)

Next == Submissions \/ Scheduler \/ Tick \/ Stop \/ Restart

Spec == Init /\ [][Next]_vars

(* The scheduler thread keeps running, and cycles and commands end.  HTTP  *)
(* clients, the clock and the operator owe nothing.                        *)
FairSpec == Spec /\ WF_vars(Scheduler)

-----------------------------------------------------------------------------
(***************************************************************************)
(* The requests in flight, pending or active, are retained: evicting the   *)
(* oldest record never takes one of them away from take or complete.  A    *)
(* record says "queued" or "running" exactly while its request is in       *)
(* flight, and there is at most one.                                       *)
(***************************************************************************)
InFlightRetained ==
  /\ \A i \in Ids : record[i].status = "queued" <=> i = pending
  /\ \A i \in Ids : record[i].status = "running" <=> i = active
  /\ pending = None \/ active = None
  /\ \A i \in Ids : i \in Retained <=> \E n \in 1 .. Len(order) : order[n] = i
  /\ \A m, n \in 1 .. Len(order) : order[m] = order[n] => m = n
  /\ Len(order) <= HistoryLimit

(***************************************************************************)
(* What a client polls is the truth about the attempt: a request shown as  *)
(* queued, or as failed because it expired or could not be journaled, was  *)
(* never attempted; one shown with any other end was attempted once.       *)
(***************************************************************************)
OutcomeTruthful ==
  \A i \in Retained :
    /\ events[i].ran <= 1
    /\ record[i].status = "queued" => events[i].ran = 0
    /\ record[i].error \in {"expired", "audit_unavailable"} => events[i].ran = 0
    /\ record[i].status \in {"succeeded", "failed"}
         /\ record[i].error \in Outcomes => events[i].ran = 1

(***************************************************************************)
(* Across crashes and restarts: every attempt was preceded by a "started"  *)
(* event of its own in the journal, and that by a "queued" event.          *)
(***************************************************************************)
AttemptsJournaled ==
  \A i \in Ids : /\ events[i].attempts <= events[i].started
                 /\ events[i].started <= events[i].queued

(***************************************************************************)
(* Measurements told as current were collected after the last attempt:     *)
(* from the attempt until the end of a cycle that began after it, and      *)
(* succeeded, the service is not ready.                                    *)
(***************************************************************************)
ReadyMeansCollectedSince == Ready => ~behind.cached

(***************************************************************************)
(* "Stale data fail closed": a request is queued only while the cached     *)
(* measurements have not been invalidated by an attempt.                   *)
(***************************************************************************)
QueuedOnValidMeasurements ==
  [][\A i \in Ids : record[i].status # "queued" /\ record'[i].status = "queued"
                     => age # None]_vars

(***************************************************************************)
(* The service keeps the promise of RequestLifecycle for every identifier. *)
(***************************************************************************)
Lifecycle == INSTANCE RequestLifecycle WITH
  state <- [i \in Ids |-> record[i].status],
  attempted <- {i \in Retained : events[i].ran > 0}

ImplementsLifecycle == Lifecycle!RSpec

(***************************************************************************)
(* A request that was accepted does not stay queued or running for ever,   *)
(* unless the process stops.                                               *)
(***************************************************************************)
RequestsSettle ==
  \A i \in Ids : record[i].status \in {"queued", "running"}
                   ~> (record[i].status \notin {"queued", "running"}
                       \/ sched = "stopped")
=============================================================================
