-------------------------- MODULE RuleCycleHistory --------------------------
(***************************************************************************)
(* RuleCycle with a history of what monitoring passes really observed and  *)
(* of when rules were started, independent of what the program stores.     *)
(* The trigger delay and the cooldown are stated against that history.     *)
(***************************************************************************)
EXTENDS RuleCycle

CONSTANT MaxPasses    \* bound on the length of the history

VARIABLES passes,     \* one entry per pass: when each rule's condition was
                      \*   observed true on each container, 0 if it was not
          started     \* when each rule was last let through on a container,
                      \*   0 if it was not since the clock was last set back

hvars == <<vars, passes, started>>

Tracks == Containers \X Rules
Nothing == [k \in Tracks |-> 0]

HInit ==
  /\ Init
  /\ passes = << >>
  /\ started = Nothing

(***************************************************************************)
(* A new pass: a cycle that has invalidated the observations, an entry     *)
(* into, an end of or an expiry of maintenance.  Until a condition is      *)
(* observed it counts as not observed.                                     *)
(***************************************************************************)
NewPass(p) ==
  /\ \/ Clear(p) /\ ~ReadOnly(p)
     \/ Expire(p) /\ ~ReadOnly(p) /\ disk' # disk
     \/ ManualMaintenance(p)
     \/ \E c \in Containers : OfflineMaintenance(p, c)
  /\ passes' = IF disk'.observations = NoObservations
                 THEN Append(passes, Nothing)
                 ELSE passes
  /\ UNCHANGED started

(* An observation that cannot be saved ends the pass as if not made. *)
Seen(p) ==
  /\ ObserveMatched(p) /\ ~ReadOnly(p)
  /\ passes' = IF pc'[p] = "exit" /\ UNCHANGED disk
                 THEN passes
                 ELSE [passes EXCEPT ![Len(passes)][<<at[p].c, at[p].r>>] = now]
  /\ UNCHANGED started

Started(p) ==
  /\ Claim(p)
  /\ started' = IF pc'[p] = "act" /\ status'[p] = "execute"
                  THEN [started EXCEPT ![<<at[p].c, at[p].r>>] = now]
                  ELSE started
  /\ UNCHANGED passes

Unrecorded(p) ==
  /\ \/ Load(p) \/ Raise(p) \/ Exit(p) \/ Crash(p)
     \/ (Clear(p) \/ ObserveMatched(p)) /\ ReadOnly(p)
     \/ Expire(p) /\ (ReadOnly(p) \/ disk' = disk)
     \/ Select(p) \/ EndCycle(p) \/ ContainerDone(p)
     \/ \E c \in Containers : NextContainer(p, c)
     \/ \E matched \in BOOLEAN : Match(p, matched)
     \/ ObserveUntracked(p) \/ ObserveUnmatched(p) \/ ObserveMasked(p)
     \/ Decide(p) \/ ClaimRefused(p) \/ ReserveAttempt(p) \/ NoReservation(p)
     \/ SkipAction(p) \/ Execute(p) \/ RuleDone(p)
     \/ ManualRejected(p) \/ ManualDocker(p) \/ ManualRearm(p)
     \/ OfflineNothing(p)
     \/ \E c \in Containers : \/ OfflineRearm(p, c)
                              \/ \E op \in ManualOperations : ManualClaim(p, c, op)
  /\ UNCHANGED <<passes, started>>

HNext ==
  \/ /\ Tick
     /\ started' = IF now' < now THEN Nothing ELSE started
     /\ UNCHANGED passes
  \/ \E p \in Procs :
       \/ /\ Len(passes) < MaxPasses
          /\ \E j \in Jobs : Lock(p, j)
          /\ UNCHANGED <<passes, started>>
       \/ NewPass(p) \/ Seen(p) \/ Started(p) \/ Unrecorded(p)

HSpec == HInit /\ [][HNext]_hvars

-----------------------------------------------------------------------------
(***************************************************************************)
(* k was observed true in every pass from the n-th to the last, never more *)
(* than MaxGap apart and never with the clock going back.                  *)
(***************************************************************************)
Unbroken(k, n) ==
  /\ \A m \in n .. Len(passes) : passes[m][k] > 0
  /\ \A m \in n + 1 .. Len(passes) :
       passes[m][k] - passes[m - 1][k] \in 0 .. MaxGap

Sustained(k) ==
  \E n \in 1 .. Len(passes) :
    /\ Unbroken(k, n)
    /\ passes[Len(passes)][k] - passes[n][k] >= TriggerAfter

Judged(p, verdict) ==
  pc[p] = "decide" /\ ~ReadOnly(p) /\ Tracked(at[p].r) /\ status[p] = verdict

(***************************************************************************)
(* TriggerSound: a delayed rule becomes ready only if its condition was    *)
(* really observed, in every pass of the last TriggerAfter seconds; no     *)
(* crash, missed container, maintenance, clock change or failed save       *)
(* bridges a pass that did not observe it.                                 *)
(***************************************************************************)
TriggerSound ==
  \A p \in Procs : Judged(p, "ready") => Sustained(<<at[p].c, at[p].r>>)

(***************************************************************************)
(* TriggerComplete: a rule whose condition has just been observed is not   *)
(* held back once it was sustained: no process exchange, manual action,    *)
(* failed save or other rule loses its streak.                             *)
(***************************************************************************)
TriggerComplete ==
  \A p \in Procs :
    Judged(p, "pending") /\ passes[Len(passes)][at[p].c, at[p].r] > 0
      => ~Sustained(<<at[p].c, at[p].r>>)

(***************************************************************************)
(* CooldownSpacing: two starts of one rule on one container are at least   *)
(* Cooldown apart, across processes, crashes, failed saves and expired     *)
(* entries of other rules, as long as the clock is not set back in between.  *)
(***************************************************************************)
CooldownSpacing ==
  [][\A p \in Procs :
       pc[p] = "claim" /\ pc'[p] = "act" /\ status'[p] = "execute"
         => LET last == started[at[p].c, at[p].r]
            IN  last = 0 \/ now >= last + Cooldown]_hvars
=============================================================================
