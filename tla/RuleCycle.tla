----------------------------- MODULE RuleCycle ------------------------------
(***************************************************************************)
(* Processes of monit-docker (a cron job, the scheduler of "serve", an     *)
(* operator's command line) that share one state file.  A session opens    *)
(* the file under a non-blocking lock and does one job:                    *)
(*                                                                         *)
(*   cycle   a monitoring cycle: expire maintenance, invalidate the        *)
(*           observations, evaluate every rule on every container and run  *)
(*           the actions that the policies let through                     *)
(*   dry     the same cycle with --dry-run: memory only, no Docker command *)
(*   manual  a manual action requested through the HTTP service            *)
(*   rearm   the offline command that resets a restart budget              *)
(*   maint   the offline command that sets or clears maintenance           *)
(*                                                                         *)
(* A session advances one step at a time, and may fail or be killed        *)
(* between any two.  Sources: application.py, application_state.py,        *)
(* core/engine.py, core/policy.py, adapters/state.py.                      *)
(***************************************************************************)
EXTENDS LocalState, Sequences, FiniteSets

CONSTANTS Procs,          \* processes that share the state file
          None,           \* nobody, or no container
          Jobs,           \* the jobs these processes run
          NumStateRules,  \* rules 1 .. NumStateRules need no measurement and
                          \*   are evaluated before the container is sampled
          Conditional,    \* Conditional[r]: rule r has at least one condition
          Acts,           \* Acts[r]: the commands of rule r, in order
          Cooldown,       \* seconds between attempts of one rule
          ActionCooldown, \* the same for the manual actions on a container
          TriggerAfter,   \* a condition must have been observed for so long
          MaxGap,         \* ... with no more than this between observations
          MaxRestarts,    \* automatic restarts per container until rearmed
          Durations,      \* maintenance durations asked for (0: leave it)
          MaxTime,        \* bound of the wall clock
          ClockStepsBack, \* whether the wall clock may be set back
          Faults          \* which of "save", "raise", "docker", "crash" occur

JobNames == {"cycle", "dry", "manual", "rearm", "maint"}
Commands == {"restart", "other"}

ASSUME ContainersAssumption == None \notin Containers /\ None \notin Procs
ASSUME JobsAssumption == Jobs \subseteq JobNames
ASSUME RulesAssumption ==
  /\ NumStateRules \in 0 .. NumRules
  /\ Conditional \in [Rules -> BOOLEAN]
  /\ \A r \in Rules : r > NumStateRules => Conditional[r]
  /\ Acts \in [Rules -> Seq(Commands)]
ASSUME OptionsAssumption ==
  /\ Cooldown \in Nat /\ ActionCooldown \in Nat \ {0}
  /\ TriggerAfter \in Nat /\ MaxGap \in Nat
  /\ MaxRestarts \in Nat \ {0}
  /\ Durations \subseteq Nat
  /\ MaxTime \in Nat \ {0}
  /\ ClockStepsBack \in BOOLEAN

VARIABLES lock,    \* the process whose descriptor holds the lock, or None
          disk,    \* the state file
          now,     \* wall clock
          pc,      \* where each session is
          job,     \* what it does
          mem,     \* its LocalState
          prev,    \* its TriggerPolicy.previous
          todo,    \* containers that its cycle has still to visit
          at,      \* container c, rule r and action i it is working on
          status,  \* what has been decided for that rule
          issued   \* automatic restarts sent to Docker since the last rearm

session == <<pc, job, mem, prev, todo, at, status>>
vars == <<lock, disk, now, session, issued>>

NoPlace == [c |-> None, r |-> 0, i |-> 0]

PcNames == {"idle", "load", "expire", "clear", "select", "next", "match",
            "observe", "decide", "claim", "act", "run", "manual", "operate",
            "offline", "exit"}
StatusNames == {"none", "unmatched", "masked", "matched", "ready", "pending",
                "maintenance", "restart-limit", "cooldown", "claim",
                "dry-run", "execute", "docker", "restart-reset"}

(***************************************************************************)
(* TypeOK: the variables keep their types.                                 *)
(***************************************************************************)
TypeOK ==
  /\ lock \in Procs \cup {None}
  /\ disk \in State
  /\ now \in 1 .. MaxTime
  /\ pc \in [Procs -> PcNames]
  /\ job \in [Procs -> JobNames \cup {"none"}]
  /\ mem \in [Procs -> State]
  /\ prev \in [Procs -> [Containers \X Rules -> Observation]]
  /\ todo \in [Procs -> SUBSET Containers]
  /\ at \in [Procs -> [c : Containers \cup {None}, r : Nat, i : Nat]]
  /\ status \in [Procs -> StatusNames]
  /\ issued \in [Containers -> Nat]

Init ==
  /\ lock = None
  /\ disk = NoFile
  /\ now = 1
  /\ pc = [p \in Procs |-> "idle"]
  /\ job = [p \in Procs |-> "none"]
  /\ mem = [p \in Procs |-> Fresh]
  /\ prev = [p \in Procs |-> NoObservations]
  /\ todo = [p \in Procs |-> {}]
  /\ at = [p \in Procs |-> NoPlace]
  /\ status = [p \in Procs |-> "none"]
  /\ issued = [c \in Containers |-> 0]

(***************************************************************************)
(* The wall clock, which an administrator or NTP may also set back.        *)
(***************************************************************************)
Tick ==
  \E t \in 1 .. MaxTime :
    /\ t = now + 1 \/ (ClockStepsBack /\ t = now - 1)
    /\ now' = t
    /\ UNCHANGED <<lock, disk, session, issued>>

-----------------------------------------------------------------------------
(***************************************************************************)
(* Sessions: opening, saving and closing the state.                        *)
(***************************************************************************)

(* Mutant: the lock is not taken. *)
Unlocked == TRUE

(* Any number of descriptors can be open; flock gives the lock to one. *)
LockFree == lock = None

FirstStep(j) == CASE j \in {"cycle", "dry"} -> "expire"
                  [] j = "manual" -> "manual"
                  [] OTHER -> "offline"

(* A session that finds the lock taken ends with error 117 and changes    *)
(* nothing, so only the one that gets it is a step.                       *)
Lock(p, j) ==
  /\ pc[p] = "idle"
  /\ LockFree
  /\ lock' = p
  /\ job' = [job EXCEPT ![p] = j]
  /\ pc' = [pc EXCEPT ![p] = "load"]
  /\ UNCHANGED <<disk, now, mem, prev, todo, at, status, issued>>

(* The file is read after the lock has been obtained. *)
Load(p) ==
  /\ pc[p] = "load"
  /\ mem' = [mem EXCEPT ![p] = Loaded(disk)]
  /\ pc' = [pc EXCEPT ![p] = FirstStep(job[p])]
  /\ UNCHANGED <<lock, disk, now, job, prev, todo, at, status, issued>>

ReadOnly(p) == job[p] = "dry"

(***************************************************************************)
(* An operation that takes mem[p] to s and, unless it is read-only or      *)
(* changes nothing, saves s first.  The save replaces the file by a        *)
(* rename, so it may fail before the rename, with the old file in place,   *)
(* or after it, while the directory is synced, with the new one; both      *)
(* raise and leave the memory alone.                                       *)
(***************************************************************************)
Saves(p, s) == ~ReadOnly(p) /\ s # mem[p]

Save(p, s, then) ==
  \/ /\ disk' = IF Saves(p, s) THEN Saved(s) ELSE disk
     /\ mem' = [mem EXCEPT ![p] = s]
     /\ pc' = [pc EXCEPT ![p] = then]
  \/ /\ "save" \in Faults
     /\ Saves(p, s)
     /\ disk' \in {disk, Saved(s)}
     /\ pc' = [pc EXCEPT ![p] = "exit"]
     /\ UNCHANGED mem

(* The session is over: its memory is gone and its descriptor is closed. *)
Close(p) ==
  /\ lock' = None
  /\ pc' = [pc EXCEPT ![p] = "idle"]
  /\ job' = [job EXCEPT ![p] = "none"]
  /\ mem' = [mem EXCEPT ![p] = Fresh]
  /\ prev' = [prev EXCEPT ![p] = NoObservations]
  /\ todo' = [todo EXCEPT ![p] = {}]
  /\ at' = [at EXCEPT ![p] = NoPlace]
  /\ status' = [status EXCEPT ![p] = "none"]
  /\ UNCHANGED <<disk, now, issued>>

Exit(p) == pc[p] = "exit" /\ Close(p)

(* Killed: the kernel closes the descriptor. *)
Crash(p) == "crash" \in Faults /\ pc[p] # "idle" /\ Close(p)

(***************************************************************************)
(* An exception: an unreadable file, an audit journal that refuses the     *)
(* "started" or "skipped" record, Docker failing to list, describe or      *)
(* sample containers, no container selected, a reporting callback.  It     *)
(* unwinds the session; nothing is rolled back.                            *)
(***************************************************************************)
Raise(p) ==
  /\ "raise" \in Faults
  /\ pc[p] \in {"load", "expire", "select", "next", "match", "run",
                "manual", "operate", "offline"}
  /\ pc' = [pc EXCEPT ![p] = "exit"]
  /\ UNCHANGED <<lock, disk, now, job, mem, prev, todo, at, status, issued>>

-----------------------------------------------------------------------------
(***************************************************************************)
(* A monitoring cycle.                                                     *)
(***************************************************************************)
Expire(p) ==
  /\ pc[p] = "expire"
  /\ Save(p, ExpireMaintenance(mem[p], now), "clear")
  /\ UNCHANGED <<lock, now, job, prev, todo, at, status, issued>>

(* TriggerPolicy.__init__ *)
Clear(p) ==
  /\ pc[p] = "clear"
  /\ prev' = [prev EXCEPT ![p] = mem[p].observations]
  /\ Save(p, ReplaceObservations(mem[p], NoObservations), "select")
  /\ UNCHANGED <<lock, now, job, todo, at, status, issued>>

Select(p) ==
  /\ pc[p] = "select"
  /\ \E selected \in SUBSET Containers \ {{}} :
       todo' = [todo EXCEPT ![p] = selected]
  /\ pc' = [pc EXCEPT ![p] = "next"]
  /\ UNCHANGED <<lock, disk, now, job, mem, prev, at, status, issued>>

NextContainer(p, c) ==
  /\ pc[p] = "next"
  /\ c \in todo[p]
  /\ todo' = [todo EXCEPT ![p] = @ \ {c}]
  /\ at' = [at EXCEPT ![p] = [c |-> c, r |-> 1, i |-> 0]]
  /\ pc' = [pc EXCEPT ![p] = "match"]
  /\ UNCHANGED <<lock, disk, now, job, mem, prev, status, issued>>

EndCycle(p) ==
  /\ pc[p] = "next"
  /\ todo[p] = {}
  /\ pc' = [pc EXCEPT ![p] = "exit"]
  /\ UNCHANGED <<lock, disk, now, job, mem, prev, todo, at, status, issued>>

(* All rules done, or a container that is not running when the rules that *)
(* need measurements come: those are left out.                            *)
ContainerDone(p) ==
  /\ pc[p] = "match"
  /\ \/ at[p].r > NumRules
     \/ at[p].r = NumStateRules + 1
  /\ pc' = [pc EXCEPT ![p] = "next"]
  /\ UNCHANGED <<lock, disk, now, job, mem, prev, todo, at, status, issued>>

(* Mutant: the rule is evaluated again. *)
SameRule(p) ==
  /\ at' = [at EXCEPT ![p] = [c |-> @.c, r |-> @.r, i |-> 0]]
  /\ status' = [status EXCEPT ![p] = "none"]

NextRule(p) ==
  /\ at' = [at EXCEPT ![p] = [c |-> @.c, r |-> @.r + 1, i |-> 0]]
  /\ status' = [status EXCEPT ![p] = "none"]

(* The condition of the rule, and the start of observe(): maintenance     *)
(* masks a match.                                                         *)
Match(p, matched) ==
  /\ pc[p] = "match"
  /\ at[p].r <= NumRules
  /\ matched \/ Conditional[at[p].r]
  /\ status' = [status EXCEPT ![p] =
       IF ~matched THEN "unmatched"
       ELSE IF InMaintenance(mem[p], at[p].c, now) THEN "masked" ELSE "matched"]
  /\ pc' = [pc EXCEPT ![p] = "observe"]
  /\ UNCHANGED <<lock, disk, now, job, mem, prev, todo, at, issued>>

(* Only a rule with conditions is delayed, and only when a delay is set. *)
Tracked(r) == TriggerAfter > 0 /\ Conditional[r]

(* Mutant: the gap between observations is not limited. *)
UnlimitedStreak(old, t) ==
  IF old = NoObs \/ t < old.last
    THEN [since |-> t, last |-> t]
    ELSE [since |-> old.since, last |-> t]

(* The streak that an observation at time t continues or starts. *)
Streak(old, t) ==
  IF old = NoObs \/ t < old.last \/ t - old.last > MaxGap
    THEN [since |-> t, last |-> t]
    ELSE [since |-> old.since, last |-> t]

(* Mutant: off by one. *)
LongerThan(obs) == obs.last - obs.since > TriggerAfter

LongEnough(obs) == obs.last - obs.since >= TriggerAfter

ObserveUntracked(p) ==
  /\ pc[p] = "observe"
  /\ ~Tracked(at[p].r)
  /\ status[p] # "unmatched"
  /\ status' = [status EXCEPT ![p] = "ready"]
  /\ pc' = [pc EXCEPT ![p] = "decide"]
  /\ UNCHANGED <<lock, disk, now, job, mem, prev, todo, at, issued>>

(* matched is false: forget the streak. *)
Forget(p, then) ==
  LET k == <<at[p].c, at[p].r>> IN
  /\ prev' = [prev EXCEPT ![p][k] = NoObs]
  /\ Save(p, ReplaceObservations(mem[p],
                [mem[p].observations EXCEPT ![k] = NoObs]), then)

ObserveUnmatched(p) ==
  /\ pc[p] = "observe"
  /\ status[p] = "unmatched"
  /\ IF Tracked(at[p].r)
       THEN Forget(p, "match")
       ELSE pc' = [pc EXCEPT ![p] = "match"] /\ UNCHANGED <<disk, mem, prev>>
  /\ NextRule(p)
  /\ UNCHANGED <<lock, now, job, todo, issued>>

ObserveMasked(p) ==
  /\ pc[p] = "observe"
  /\ Tracked(at[p].r)
  /\ status[p] = "masked"
  /\ Forget(p, "decide")
  /\ status' = [status EXCEPT ![p] = "pending"]
  /\ UNCHANGED <<lock, now, job, todo, at, issued>>

ObserveMatched(p) ==
  LET k == <<at[p].c, at[p].r>>
      obs == Streak(prev[p][k], now)
  IN
  /\ pc[p] = "observe"
  /\ Tracked(at[p].r)
  /\ status[p] = "matched"
  /\ prev' = [prev EXCEPT ![p][k] = obs]
  /\ Save(p, ReplaceObservations(mem[p],
                [mem[p].observations EXCEPT ![k] = obs]), "decide")
  /\ status' = [status EXCEPT ![p] =
                  IF LongEnough(obs) THEN "ready" ELSE "pending"]
  /\ UNCHANGED <<lock, now, job, todo, at, issued>>

(***************************************************************************)
(* The decision: maintenance, the trigger delay, the restart budget of the *)
(* whole sequence, then the cooldown.                                      *)
(***************************************************************************)
Restarts(r) == {i \in DOMAIN Acts[r] : Acts[r][i] = "restart"}

(* Mutant: one restart left is enough for any sequence. *)
PermitsOne(s, c, r) ==
  \/ Restarts(r) = {}
  \/ s.restarts[c] < MaxRestarts

Permits(s, c, r) ==
  \/ Restarts(r) = {}
  \/ s.restarts[c] + Cardinality(Restarts(r)) <= MaxRestarts

Decide(p) ==
  LET c == at[p].c
      decision == IF InMaintenance(mem[p], c, now) THEN "maintenance"
                  ELSE IF status[p] # "ready" THEN "pending"
                  ELSE IF ~Permits(mem[p], c, at[p].r) THEN "restart-limit"
                  ELSE "claim"
  IN
  /\ pc[p] = "decide"
  /\ status' = [status EXCEPT ![p] = decision]
  /\ pc' = [pc EXCEPT ![p] = IF decision = "claim" THEN "claim" ELSE "act"]
  /\ at' = [at EXCEPT ![p].i = 1]
  /\ UNCHANGED <<lock, disk, now, job, mem, prev, todo, issued>>

ClaimRefused(p) ==
  /\ pc[p] = "claim"
  /\ OnCooldown(mem[p], at[p].c, at[p].r, now)
  /\ status' = [status EXCEPT ![p] = "cooldown"]
  /\ pc' = [pc EXCEPT ![p] = "act"]
  /\ UNCHANGED <<lock, disk, now, job, mem, prev, todo, at, issued>>

Claim(p) ==
  /\ pc[p] = "claim"
  /\ ~OnCooldown(mem[p], at[p].c, at[p].r, now)
  /\ Save(p, Reserve(mem[p], at[p].c, at[p].r, now, Cooldown), "act")
  /\ status' = [status EXCEPT ![p] = IF ReadOnly(p) THEN "dry-run" ELSE "execute"]
  /\ UNCHANGED <<lock, now, job, prev, todo, at, issued>>

(***************************************************************************)
(* The actions of the rule, each reserved, recorded and executed.          *)
(***************************************************************************)
Proceeding(p) == status[p] \in {"execute", "dry-run"}
AtRestart(p) == at[p].i \in Restarts(at[p].r)

(* claim_action: without budget left, the rest of the rule is skipped. *)
ReserveAttempt(p) ==
  /\ pc[p] = "act"
  /\ Proceeding(p) /\ AtRestart(p)
  /\ IF CanReserveRestart(mem[p], at[p].c, MaxRestarts)
       THEN /\ Save(p, ReserveRestart(mem[p], at[p].c), "run")
            /\ UNCHANGED status
       ELSE /\ status' = [status EXCEPT ![p] = "restart-limit"]
            /\ pc' = [pc EXCEPT ![p] = "run"]
            /\ UNCHANGED <<disk, mem>>
  /\ UNCHANGED <<lock, now, job, prev, todo, at, issued>>

NoReservation(p) ==
  /\ pc[p] = "act"
  /\ at[p].i <= Len(Acts[at[p].r])
  /\ ~(Proceeding(p) /\ AtRestart(p))
  /\ pc' = [pc EXCEPT ![p] = "run"]
  /\ UNCHANGED <<lock, disk, now, job, mem, prev, todo, at, status, issued>>

SkipAction(p) ==
  /\ pc[p] = "run"
  /\ status[p] # "execute"
  /\ at' = [at EXCEPT ![p].i = @ + 1]
  /\ pc' = [pc EXCEPT ![p] = "act"]
  /\ UNCHANGED <<lock, disk, now, job, mem, prev, todo, status, issued>>

(* The command is sent; a failed or unknown outcome aborts the cycle. *)
Execute(p) ==
  /\ pc[p] = "run"
  /\ status[p] = "execute"
  /\ issued' = IF AtRestart(p) THEN [issued EXCEPT ![at[p].c] = @ + 1] ELSE issued
  /\ at' = [at EXCEPT ![p].i = @ + 1]
  /\ \/ pc' = [pc EXCEPT ![p] = "act"]
     \/ "docker" \in Faults /\ pc' = [pc EXCEPT ![p] = "exit"]
  /\ UNCHANGED <<lock, disk, now, job, mem, prev, todo, status>>

RuleDone(p) ==
  /\ pc[p] = "act"
  /\ at[p].i > Len(Acts[at[p].r])
  /\ NextRule(p)
  /\ pc' = [pc EXCEPT ![p] = "match"]
  /\ UNCHANGED <<lock, disk, now, job, mem, prev, todo, issued>>

CycleStep(p) ==
  \/ Expire(p) \/ Clear(p) \/ Select(p)
  \/ \E c \in Containers : NextContainer(p, c)
  \/ EndCycle(p) \/ ContainerDone(p)
  \/ \E matched \in BOOLEAN : Match(p, matched)
  \/ ObserveUntracked(p) \/ ObserveUnmatched(p)
  \/ ObserveMasked(p) \/ ObserveMatched(p)
  \/ Decide(p) \/ ClaimRefused(p) \/ Claim(p)
  \/ ReserveAttempt(p) \/ NoReservation(p)
  \/ SkipAction(p) \/ Execute(p) \/ RuleDone(p)

-----------------------------------------------------------------------------
(***************************************************************************)
(* Manual actions and offline state operations.                            *)
(***************************************************************************)

(* Forget the attempts on c: the budget starts again. *)
Rearm(p, c) ==
  /\ mem[p].restarts[c] > 0
  /\ Save(p, ResetRestarts(mem[p], c), "exit")
  /\ issued' = [issued EXCEPT ![c] = IF disk'.restarts[c] = 0 THEN 0 ELSE @]

Maintain(p, c) ==
  /\ \E seconds \in Durations :
       Save(p, SetMaintenance(mem[p], c, seconds, now), "exit")
  /\ UNCHANGED issued

(* The request names a container and one of three kinds of operation: a   *)
(* Docker command, a rearm, a maintenance change.                         *)
ManualOperations == {"docker", "restart-reset", "maintenance"}

(* Checked against a new selection, then claimed. *)
ManualClaim(p, c, operation) ==
  /\ pc[p] = "manual"
  /\ operation = "restart-reset" => mem[p].restarts[c] > 0
  /\ ~OnCooldown(mem[p], c, Manual, now)
  /\ Save(p, Reserve(mem[p], c, Manual, now, ActionCooldown), "operate")
  /\ at' = [at EXCEPT ![p].c = c]
  /\ status' = [status EXCEPT ![p] = operation]
  /\ UNCHANGED <<lock, now, job, prev, todo, issued>>

(* Not selected, protected, in another state, without attempts to reset,  *)
(* or still cooling down.                                                 *)
ManualRejected(p) ==
  /\ pc[p] = "manual"
  /\ pc' = [pc EXCEPT ![p] = "exit"]
  /\ UNCHANGED <<lock, disk, now, job, mem, prev, todo, at, status, issued>>

(* A manual Docker command succeeds or fails; it has no budget. *)
ManualDocker(p) ==
  /\ pc[p] = "operate"
  /\ status[p] = "docker"
  /\ pc' = [pc EXCEPT ![p] = "exit"]
  /\ UNCHANGED <<lock, disk, now, job, mem, prev, todo, at, status, issued>>

ManualRearm(p) ==
  /\ pc[p] = "operate"
  /\ status[p] = "restart-reset"
  /\ Rearm(p, at[p].c)
  /\ UNCHANGED <<lock, now, job, prev, todo, at, status>>

ManualMaintenance(p) ==
  /\ pc[p] = "operate"
  /\ status[p] = "maintenance"
  /\ Maintain(p, at[p].c)
  /\ UNCHANGED <<lock, now, job, prev, todo, at, status>>

OfflineRearm(p, c) ==
  /\ pc[p] = "offline"
  /\ job[p] = "rearm"
  /\ Rearm(p, c)
  /\ UNCHANGED <<lock, now, job, prev, todo, at, status>>

(* Nothing to rearm: error 110. *)
OfflineNothing(p) ==
  /\ pc[p] = "offline"
  /\ job[p] = "rearm"
  /\ \E c \in Containers : mem[p].restarts[c] = 0
  /\ pc' = [pc EXCEPT ![p] = "exit"]
  /\ UNCHANGED <<lock, disk, now, job, mem, prev, todo, at, status, issued>>

OfflineMaintenance(p, c) ==
  /\ pc[p] = "offline"
  /\ job[p] = "maint"
  /\ Maintain(p, c)
  /\ UNCHANGED <<lock, now, job, prev, todo, at, status>>

OperatorStep(p) ==
  \/ \E c \in Containers : \/ \E op \in ManualOperations : ManualClaim(p, c, op)
                           \/ OfflineRearm(p, c)
                           \/ OfflineMaintenance(p, c)
  \/ ManualRejected(p) \/ ManualDocker(p) \/ ManualRearm(p)
  \/ ManualMaintenance(p) \/ OfflineNothing(p)

-----------------------------------------------------------------------------
(* What a session does by itself once it has the lock. *)
Step(p) == Load(p) \/ CycleStep(p) \/ OperatorStep(p) \/ Raise(p) \/ Exit(p)

Next ==
  \/ Tick
  \/ \E p \in Procs : \/ \E j \in Jobs : Lock(p, j)
                      \/ Step(p)
                      \/ Crash(p)

Spec == Init /\ [][Next]_vars

(***************************************************************************)
(* A running session is not suspended for ever: its Docker calls and its   *)
(* file operations have deadlines or return.  Nothing is assumed of the    *)
(* clock, of crashes, or of when sessions start.                           *)
(***************************************************************************)
Fairness == \A p \in Procs : WF_vars(Step(p))
FairSpec == Spec /\ Fairness

-----------------------------------------------------------------------------
(***************************************************************************)
(* Properties.                                                             *)
(***************************************************************************)

(* A session between its load and its end, that is not a dry run. *)
Writing(p) == pc[p] \notin {"idle", "load", "exit"} /\ ~ReadOnly(p)

(***************************************************************************)
(* MemMatchesDisk: what a session holds in memory is what the file says,   *)
(* from its load until it ends or a save fails, whatever other processes,  *)
(* crashes and failed saves do.  All decisions are taken on the memory.    *)
(***************************************************************************)
MemMatchesDisk == \A p \in Procs : Writing(p) => mem[p] = Loaded(disk)

(***************************************************************************)
(* FileCarriesItsData: the next process can load the file, and loses       *)
(* nothing that the memory of a session holds: the schema version is       *)
(* raised before a map that needs it is filled, and no streak ends before  *)
(* it starts, whatever the clock does.  A version raised too late would    *)
(* drop budgets or maintenance in the next load; a streak out of order     *)
(* would end every later session with error 118.                           *)
(***************************************************************************)
FileCarriesItsData == Loadable(disk) /\ \A p \in Procs : Loadable(mem[p])

(***************************************************************************)
(* BudgetRespected: between two rearms no container is sent more automatic *)
(* restarts than MaxRestarts, and every one sent has already been counted  *)
(* in the file, so no crash and no failed save can make a later process    *)
(* send it again for free.                                                 *)
(***************************************************************************)
BudgetRespected ==
  \A c \in Containers : /\ issued[c] <= disk.restarts[c]
                        /\ disk.restarts[c] <= MaxRestarts

(***************************************************************************)
(* ImplementsBudget: whatever sessions are interleaved, killed or failed,  *)
(* the file and the commands sent behave as the restart budget promises.   *)
(***************************************************************************)
Budget == INSTANCE RestartBudget WITH Limit    <- MaxRestarts,
                                      reserved <- disk.restarts,
                                      sent     <- issued
ImplementsBudget == Budget!Spec

(***************************************************************************)
(* DecisionStands: what was decided when a rule was let through still      *)
(* holds while its actions run.  No maintenance is in force for the        *)
(* container in the file, whoever set it and whenever (for a clock that is *)
(* not set back), and the restarts still to be reserved fit the budget, so *)
(* that no sequence meets the limit half way.                              *)
(***************************************************************************)
NotSuspended ==
  \A p \in Procs : pc[p] = "run" /\ status[p] = "execute"
                     => ~InMaintenance(disk, at[p].c, now)

ToReserve(p) ==
  {i \in Restarts(at[p].r) : i > at[p].i \/ (i = at[p].i /\ pc[p] = "act")}
SequenceFits ==
  \A p \in Procs :
    pc[p] \in {"claim", "act", "run"} /\ status[p] \in {"claim", "execute", "dry-run"}
      => ToReserve(p) = {}
         \/ mem[p].restarts[at[p].c] + Cardinality(ToReserve(p)) <= MaxRestarts

DecisionStands == NotSuspended /\ SequenceFits

(***************************************************************************)
(* NoLostUpdate: no step undoes what another session has written: a        *)
(* cooldown in force stays, attempts are forgotten only by a rearm, and    *)
(* maintenance in force is changed only by an operator.                    *)
(***************************************************************************)
Operating(js) ==
  \E p \in Procs : lock = p /\ job[p] \in js /\ pc[p] \in {"operate", "offline"}

NoLostUpdate ==
  [][\A c \in Containers :
       /\ \A k \in Keys : OnCooldown(disk, c, k, now)
                           => disk'.cooldowns[c, k] = disk.cooldowns[c, k]
       /\ disk'.restarts[c] < disk.restarts[c] => Operating({"manual", "rearm"})
       /\ InMaintenance(disk, c, now) /\ disk'.maintenance[c] # disk.maintenance[c]
            => Operating({"manual", "maint"})]_vars

(***************************************************************************)
(* SessionsEnd: every session ends, so the lock is never kept for ever.    *)
(***************************************************************************)
SessionsEnd == \A p \in Procs : pc[p] # "idle" ~> pc[p] = "idle"
=============================================================================
