----------------------------- MODULE LocalState -----------------------------
(***************************************************************************)
(* The rule state that monit-docker keeps in one JSON file                 *)
(* (adapters/state.py): cooldowns, condition observations, automatic       *)
(* restart attempts and maintenance deadlines.  Every operation of         *)
(* LocalState is an operator from a state to the next one; RuleCycle       *)
(* decides when it runs and what a failed save leaves on the disk.         *)
(*                                                                         *)
(* A key the file does not hold reads as 0 in the code, so each map is a   *)
(* total function in which 0 (or NoObs) stands for an absent key.  Times   *)
(* are positive.                                                           *)
(***************************************************************************)
EXTENDS Integers

CONSTANTS Containers,   \* identifiers of the monitored containers
          NumRules      \* number of rules of the job

ASSUME NumRulesAssumption == NumRules \in Nat \ {0}

Rules == 1 .. NumRules

(***************************************************************************)
(* Cooldown keys of a container: one per rule, and one, Manual, shared by  *)
(* all its manual actions.                                                 *)
(***************************************************************************)
Manual == 0
Keys == Rules \cup {Manual}

NoObs == [since |-> 0, last |-> 0]
Observation == [since : Nat, last : Nat]
NoObservations == [k \in Containers \X Rules |-> NoObs]

State == [version      : 0 .. 4,
          cooldowns    : [Containers \X Keys -> Nat],
          observations : [Containers \X Rules -> Observation],
          restarts     : [Containers -> Nat],
          maintenance  : [Containers -> Nat]]

(***************************************************************************)
(* A LocalState object before it has read the file.  Version 0 stands for  *)
(* a file that does not exist yet.                                         *)
(***************************************************************************)
Fresh == [version      |-> 1,
          cooldowns    |-> [k \in Containers \X Keys |-> 0],
          observations |-> NoObservations,
          restarts     |-> [c \in Containers |-> 0],
          maintenance  |-> [c \in Containers |-> 0]]

NoFile == [Fresh EXCEPT !.version = 0]

Loaded(file) == IF file.version = 0 THEN Fresh ELSE file

(***************************************************************************)
(* What _save writes: the fields that the schema version carries, and no   *)
(* other.                                                                  *)
(***************************************************************************)
Saved(s) ==
  [s EXCEPT !.observations = IF s.version >= 2 THEN @ ELSE NoObservations,
            !.restarts     = IF s.version >= 3 THEN @ ELSE Fresh.restarts,
            !.maintenance  = IF s.version >= 4 THEN @ ELSE Fresh.maintenance]

(***************************************************************************)
(* What a load accepts: no file, or the fields of the schema version and   *)
(* no other, without a streak that ends before it starts.  Times and       *)
(* counts are valid by their types.  Load assumes it; that no save ever    *)
(* breaks it is a property (FileCarriesItsData).                           *)
(***************************************************************************)
Ordered(observations) ==
  \A k \in Containers \X Rules : observations[k].since <= observations[k].last

Loadable(file) ==
  \/ file = NoFile
  \/ /\ file.version # 0
     /\ file = Saved(file)
     /\ Ordered(file.observations)

AtLeast(version, v) == IF version < v THEN v ELSE version

(***************************************************************************)
(* Observations.                                                           *)
(***************************************************************************)
ReplaceObservations(s, observations) ==
  IF observations = s.observations
    THEN s
    ELSE [s EXCEPT !.observations = observations,
                   !.version = AtLeast(@, 2)]

(***************************************************************************)
(* Restart budget.                                                         *)
(***************************************************************************)
CanReserveRestart(s, c, limit) == s.restarts[c] < limit

(* Mutants: the schema version is not raised; the attempt is not counted. *)
ReserveUnversioned(s, c) == [s EXCEPT !.restarts[c] = @ + 1]
ReserveUncounted(s, c) == [s EXCEPT !.version = AtLeast(@, 3)]

ReserveRestart(s, c) ==
  [s EXCEPT !.restarts[c] = @ + 1, !.version = AtLeast(@, 3)]

ResetRestarts(s, c) ==
  [s EXCEPT !.restarts[c] = 0, !.version = AtLeast(@, 3)]

(***************************************************************************)
(* Cooldowns.  A reservation drops every entry that has expired.           *)
(***************************************************************************)
OnCooldown(s, c, k, now) == s.cooldowns[c, k] > now

(* Mutant: entries are dropped one second early. *)
CoolingBarely(until, now) == until > now + 1

StillCooling(until, now) == until > now

Reserve(s, c, k, now, seconds) ==
  [s EXCEPT !.cooldowns =
     [x \in Containers \X Keys |->
        IF x = <<c, k>> THEN now + seconds
        ELSE IF StillCooling(s.cooldowns[x], now) THEN s.cooldowns[x] ELSE 0]]

(***************************************************************************)
(* Maintenance.  Entering, leaving and expiry clear every observation.     *)
(***************************************************************************)
InMaintenance(s, c, now) == s.maintenance[c] > now

SetMaintenance(s, c, seconds, now) ==
  [s EXCEPT !.maintenance[c] = IF seconds = 0 THEN 0 ELSE now + seconds,
            !.observations = NoObservations,
            !.version = 4]

(* Mutant: the deadline is not compared with the clock. *)
AnyMaintenance(s, now) == {c \in Containers : s.maintenance[c] # 0}

ExpiredMaintenance(s, now) ==
  {c \in Containers : s.maintenance[c] # 0 /\ s.maintenance[c] <= now}

ExpireMaintenance(s, now) ==
  IF ExpiredMaintenance(s, now) = {}
    THEN s
    ELSE [s EXCEPT !.maintenance = [c \in Containers |->
                       IF c \in ExpiredMaintenance(s, now) THEN 0 ELSE @[c]],
                   !.observations = NoObservations]
=============================================================================
