----------------------------- MODULE Collection ------------------------------
(***************************************************************************)
(* What one cycle learns about one container, and what its rules make of   *)
(* it.  The events are queried once, when the containers are selected;     *)
(* rules without measurements are evaluated on them at once, the others    *)
(* after the statistics have been read, if the container runs.  A value    *)
(* that is unavailable aborts the cycle, although rules that were          *)
(* evaluated before have already acted.                                    *)
(* Sources: core/engine.py (_run_cycle), core/rules.py, domain/rules.py,   *)
(* adapters/docker.py (begin_cycle, select, collect, end_cycle).           *)
(***************************************************************************)
EXTENDS EventHistory, StatsStream

CONSTANTS Self,       \* the container
          Rules,      \* in their order
          Conditions  \* of each rule: sequences of [resource, operator, value]

ASSUME RulesAssumption ==
  /\ Self \in Containers
  /\ Conditions \in [ToSet(Rules) ->
       Seq([resource : {"oom", "start", "measured"}, operator : {"==", ">="}, value : Nat])]

VARIABLES stage,    \* where the cycle is
          running,  \* whether the container runs or is paused
          todo,     \* places of the rules of the stage that are not yet evaluated
          verdict   \* of each rule in this cycle

cycleVars == <<stage, running, todo, verdict>>
vars == <<historyVars, streamVars, cycleVars>>

Verdicts == {"none", "matched", "unmatched", "error"}
NoVerdict == [r \in ToSet(Rules) |-> "none"]

(* Every variable has its type. *)
TypeOK ==
  /\ HistoryTypeOK
  /\ StreamTypeOK
  /\ stage \in {"idle", "select", "state", "sampling", "metrics"}
  /\ running \in BOOLEAN
  /\ todo \subseteq DOMAIN Rules
  /\ verdict \in [ToSet(Rules) -> Verdicts]

Init ==
  /\ HistoryInit /\ StreamInit
  /\ stage = "idle" /\ running = FALSE /\ todo = {} /\ verdict = NoVerdict

-----------------------------------------------------------------------------
NeedsMetrics(r) == \E n \in DOMAIN Conditions[r] : Conditions[r][n].resource = "measured"
MetricRules == {n \in DOMAIN Rules : NeedsMetrics(Rules[n])}
StateRules == DOMAIN Rules \ MetricRules

Compares(condition, actual) ==
  \/ condition.operator = "==" /\ actual = condition.value
  \/ condition.operator = ">=" /\ actual >= condition.value

CountOf(condition, c) ==
  IF condition.resource = "oom" THEN counts.oom[c] ELSE counts.start[c]

(* A count that is unavailable is an error, never a zero; what was         *)
(* measured may satisfy its condition, not satisfy it, or be missing.      *)
ConditionResult(condition, measured) ==
  CASE condition.resource = "measured" -> measured
    [] condition.resource # "measured" /\ ~counts.complete -> "error"
    [] OTHER -> IF Compares(condition, CountOf(condition, Self)) THEN "matched" ELSE "unmatched"

(* The first condition that is not satisfied decides. *)
Evaluate(r, measured) ==
  LET results == [n \in DOMAIN Conditions[r] |-> ConditionResult(Conditions[r][n], measured)]
      unsatisfied == {n \in DOMAIN results : results[n] # "matched"}
  IN IF unsatisfied = {} THEN "matched" ELSE results[Min(unsatisfied)]

-----------------------------------------------------------------------------
(* The end of a cycle, however it ends: nothing of it is kept. *)
Forget ==
  /\ stage' = "idle" /\ running' = FALSE /\ todo' = {} /\ verdict' = NoVerdict
  /\ counts' = None /\ hidden' = FALSE
  /\ reader' = "idle" /\ timer' = "none" /\ response' = "none" /\ transport' = "up"
  /\ wire' = <<>> /\ received' = 0 /\ lines' = <<>> /\ rest' = FALSE
  /\ samples' = NoSamples /\ count' = 0 /\ result' = "none"
  /\ UNCHANGED <<clock, happened>>

BeginCycle ==
  /\ stage = "idle"
  /\ stage' = "select"
  /\ UNCHANGED <<historyVars, streamVars, running, todo, verdict>>

Select ==
  /\ stage = "select" /\ counts = None
  /\ Query
  /\ running' \in BOOLEAN
  /\ stage' = "state" /\ todo' = StateRules
  /\ UNCHANGED <<streamVars, verdict>>

(* The query failed: the cycle fails with it. *)
SelectFails == stage = "state" /\ counts = None /\ Forget

Failed == \E r \in ToSet(Rules) : verdict[r] = "error"

Judge ==
  /\ stage \in {"state", "metrics"} /\ counts # None /\ ~Failed
  /\ \E n \in todo, measured \in {"matched", "unmatched", "error"} :
       /\ \A k \in todo : n <= k
       /\ verdict' = [verdict EXCEPT ![Rules[n]] = Evaluate(Rules[n], measured)]
       /\ todo' = todo \ {n}
  /\ UNCHANGED <<historyVars, streamVars, stage, running>>

Sampling == running /\ MetricRules # {} /\ ~Failed

StartSampling ==
  /\ stage = "state" /\ counts # None /\ todo = {} /\ Sampling
  /\ stage' = "sampling"
  /\ Request
  /\ UNCHANGED <<historyVars, running, todo, verdict>>

Sampled ==
  /\ stage = "sampling" /\ reader = "end" /\ result = "values"
  /\ stage' = "metrics" /\ todo' = MetricRules
  /\ UNCHANGED <<historyVars, streamVars, running, verdict>>

EndCycle ==
  /\ \/ stage \in {"state", "metrics"} /\ Failed
     \/ stage = "state" /\ counts # None /\ todo = {} /\ ~Sampling
     \/ stage = "sampling" /\ reader = "end" /\ result # "values"
     \/ stage = "metrics" /\ todo = {}
  /\ Forget

-----------------------------------------------------------------------------
(* What happens after the query is after its cutoff and makes no           *)
(* difference to this cycle, so it waits for the next one.                 *)
World ==
  /\ stage \in {"idle", "select"} /\ counts = None
  /\ Pass \/ \E h \in Happenings : Emit(h)
SamplingNext ==
  /\ stage = "sampling"
  /\ ReadStep \/ ReadIdle \/ WatchdogStep \/ Network
CycleNext ==
  \/ BeginCycle \/ Select \/ SelectFails \/ Judge
  \/ StartSampling \/ Sampled \/ EndCycle

Next ==
  \/ World /\ UNCHANGED <<streamVars, cycleVars>>
  \/ SamplingNext /\ UNCHANGED <<historyVars, cycleVars>>
  \/ CycleNext

Spec == Init /\ [][Next]_vars

(* The threads run; the network owes nothing, and a read may last as long  *)
(* as the watchdog lets it.                                                *)
FairSpec ==
  Spec /\ WF_vars(ReadStep /\ UNCHANGED <<historyVars, cycleVars>>)
       /\ WF_vars(WatchdogStep /\ UNCHANGED <<historyVars, cycleVars>>)

-----------------------------------------------------------------------------
(***************************************************************************)
(* Properties.                                                             *)
(***************************************************************************)
(* A rule that matched had reason to: a condition on measurements was      *)
(* evaluated on two samples of different times, of a response that is      *)
(* closed; at least as many events as a ">=" condition asks for did happen *)
(* in the window, whatever else filled the daemon's buffer and however     *)
(* often it tells of one; and as many as an "==" condition says, unless    *)
(* the buffer also held events after the cutoff (see PartialCountsFail).   *)
ConditionTrue(condition) ==
  IF condition.resource = "measured"
  THEN /\ result = "values" /\ response = "closed"
       /\ samples.current \notin {NoSample, samples.previous} /\ samples.previous # NoSample
  ELSE \/ Compares(condition, Truth(Self, condition.resource))
       \/ condition.operator = "==" /\ hidden
VerdictSound ==
  \A r \in ToSet(Rules) : verdict[r] = "matched" =>
    \A n \in DOMAIN Conditions[r] : ConditionTrue(Conditions[r][n])

(* A watchdog that may still shut something down has its response to do it *)
(* to: the socket is not yet closed, and its number not given to another   *)
(* connection (timer.join before response.close).                          *)
SocketOwned == timer \in {"armed", "expired"} => response = "open"

(* Reading statistics ends, although the daemon never ends the response    *)
(* and may say nothing, or keep a read alive with a few bytes.             *)
SamplingEnds == reader = "reading" ~> reader = "end"

(* docs/runtime-checks.md: a partial count is never acted on: reading the  *)
(* buffer without server-side filtering means that unrelated activity      *)
(* cannot hide retention overflow.                                         *)
PartialCountsFail ==
  (counts # None /\ counts.complete) =>
    /\ counts.oom[Self] = Truth(Self, "oom")
    /\ counts.start[Self] = Truth(Self, "start")
=============================================================================
