--------------------------- MODULE RuleCycle_proofs -------------------------
(***************************************************************************)
(* Proofs about RuleCycle and RuleCycleHistory, for any containers, rules, *)
(* processes and options, and whatever faults occur.                       *)
(***************************************************************************)
EXTENDS RuleCycleHistory, FiniteSetTheorems, TLAPS

-----------------------------------------------------------------------------
(***************************************************************************)
(* The operations of the local state: they return a state, and a state     *)
(* that its own schema version can carry stays so.                         *)
(***************************************************************************)

(***************************************************************************)
(* A save loses nothing of s: the version of s allows all its maps.        *)
(***************************************************************************)
FitsVersion(s) ==
  /\ s.version < 2 => s.observations = NoObservations
  /\ s.version < 3 => s.restarts = Fresh.restarts
  /\ s.version < 4 => s.maintenance = Fresh.maintenance

(* A new object and an absent file are states; neither holds anything.     *)
LEMMA FreshState ==
  /\ Fresh \in State /\ NoFile \in State
  /\ FitsVersion(Fresh) /\ FitsVersion(NoFile)
  /\ NoObservations \in [Containers \X Rules -> Observation]
  /\ NoFile.restarts = [c \in Containers |-> 0]
<1>1. NoObservations \in [Containers \X Rules -> Observation]
  <2>1. NoObs \in Observation
    BY DEF NoObs, Observation
  <2> QED BY <2>1 DEF NoObservations
<1>2. Fresh \in State /\ FitsVersion(Fresh)
  BY <1>1 DEF Fresh, State, FitsVersion
<1>3. NoFile \in State /\ FitsVersion(NoFile) /\ NoFile.restarts = Fresh.restarts
  <2>1. NoFile \in State
    BY <1>2 DEF NoFile, State
  <2>2. /\ NoFile.restarts = Fresh.restarts
        /\ NoFile.observations = Fresh.observations
        /\ NoFile.maintenance = Fresh.maintenance
    BY <1>2 DEF NoFile, State
  <2>3. Fresh.observations = NoObservations
    BY DEF Fresh
  <2> QED BY <2>1, <2>2, <2>3 DEF FitsVersion
<1>4. NoFile.restarts = [c \in Containers |-> 0]
  BY <1>3 DEF Fresh
<1> QED BY <1>1, <1>2, <1>3, <1>4

(* Reading a file gives a state that keeps all it held.                    *)
LEMMA LoadedState ==
  ASSUME NEW f \in State, FitsVersion(f)
  PROVE  /\ Loaded(f) \in State
         /\ FitsVersion(Loaded(f))
         /\ Loaded(f).restarts = f.restarts
         /\ Loaded(f).version >= 1
<1>1. CASE f.version = 0
  BY <1>1, FreshState DEF Loaded, FitsVersion, State, Fresh
<1>2. CASE f.version # 0
  BY <1>2 DEF Loaded, State
<1> QED BY <1>1, <1>2

(* What a save writes is a state, and it is s itself if s is carried.      *)
LEMMA SavedState ==
  ASSUME NEW s \in State
  PROVE  Saved(s) \in State /\ (FitsVersion(s) => Saved(s) = s)
<1>1. Saved(s) \in State
  BY FreshState DEF Saved, State
<1>2. ASSUME FitsVersion(s) PROVE Saved(s) = s
  <2>1. Saved(s) = [s EXCEPT !.observations = s.observations,
                             !.restarts = s.restarts,
                             !.maintenance = s.maintenance]
    <3> DEFINE o == IF s.version >= 2 THEN s.observations ELSE NoObservations
               r == IF s.version >= 3 THEN s.restarts ELSE Fresh.restarts
               m == IF s.version >= 4 THEN s.maintenance ELSE Fresh.maintenance
    <3>1. o = s.observations /\ r = s.restarts /\ m = s.maintenance
      BY <1>2 DEF FitsVersion, State
    <3>2. Saved(s) = [s EXCEPT !.observations = o, !.restarts = r, !.maintenance = m]
      BY DEF Saved
    <3> HIDE DEF o, r, m
    <3> QED BY <3>1, <3>2
  <2> QED BY <2>1, Zenon DEF State
<1> QED BY <1>1, <1>2

(* Versions only grow, and stay within the schema.                         *)
LEMMA AtLeastVersion ==
  ASSUME NEW version \in 0 .. 4, NEW v \in 0 .. 4
  PROVE  AtLeast(version, v) \in 0 .. 4
         /\ AtLeast(version, v) >= version /\ AtLeast(version, v) >= v
BY DEF AtLeast

(* The five operations that a session saves.                               *)
LEMMA ReplaceObservationsState ==
  ASSUME NEW s \in State, FitsVersion(s),
         NEW o \in [Containers \X Rules -> Observation]
  PROVE  LET t == ReplaceObservations(s, o)
         IN  t \in State /\ FitsVersion(t) /\ t.restarts = s.restarts
             /\ t.version >= s.version
<1> DEFINE v == AtLeast(s.version, 2)
<1>1. v \in 0 .. 4 /\ v >= s.version /\ v >= 2
  BY AtLeastVersion DEF State
<1>2. CASE o = s.observations
  BY <1>2 DEF ReplaceObservations, State
<1>3. CASE o # s.observations
  <2> DEFINE t == ReplaceObservations(s, o)
  <2>1. t = [s EXCEPT !.observations = o, !.version = v]
    BY <1>3 DEF ReplaceObservations
  <2> HIDE DEF v, t
  <2>2. t \in State
    BY <1>1, <2>1 DEF State
  <2>3. /\ t.version = v /\ t.restarts = s.restarts
        /\ t.observations = o /\ t.maintenance = s.maintenance
    BY <2>1 DEF State
  <2>4. FitsVersion(t)
    BY <1>1, <2>3 DEF FitsVersion, State
  <2> QED BY <1>1, <2>2, <2>3, <2>4 DEF t
<1> QED BY <1>2, <1>3

(* A counted restart raises its count by one and nothing else. *)
LEMMA ReserveRestartState ==
  ASSUME NEW s \in State, FitsVersion(s), NEW c \in Containers
  PROVE  LET t == ReserveRestart(s, c)
         IN  t \in State /\ FitsVersion(t) /\ t.version >= s.version
             /\ t.restarts = [s.restarts EXCEPT ![c] = @ + 1]
<1> DEFINE v == AtLeast(s.version, 3)
           m == [s.restarts EXCEPT ![c] = @ + 1]
<1>1. v \in 0 .. 4 /\ v >= s.version /\ v >= 3
  BY AtLeastVersion DEF State
<1>2. m \in [Containers -> Nat]
  BY DEF State
<1>3. ReserveRestart(s, c) = [s EXCEPT !.restarts = m, !.version = v]
  BY DEF ReserveRestart, State
<1> HIDE DEF v, m
<1> DEFINE t == ReserveRestart(s, c)
<1>4. t \in State
  BY <1>1, <1>2, <1>3 DEF State
<1>5. /\ t.version = v /\ t.restarts = m
      /\ t.observations = s.observations /\ t.maintenance = s.maintenance
  BY <1>3 DEF State
<1> HIDE DEF t
<1>6. FitsVersion(t)
  BY <1>1, <1>5 DEF FitsVersion, State
<1>7. t.version >= s.version /\ t.restarts = [s.restarts EXCEPT ![c] = @ + 1]
  BY <1>1, <1>5 DEF m
<1> QED BY <1>4, <1>6, <1>7 DEF t

(* A rearm sets the count of its container to zero and no other. *)
LEMMA ResetRestartsState ==
  ASSUME NEW s \in State, FitsVersion(s), NEW c \in Containers
  PROVE  LET t == ResetRestarts(s, c)
         IN  t \in State /\ FitsVersion(t) /\ t.version >= s.version
             /\ t.restarts = [s.restarts EXCEPT ![c] = 0]
<1> DEFINE v == AtLeast(s.version, 3)
           m == [s.restarts EXCEPT ![c] = 0]
<1>1. v \in 0 .. 4 /\ v >= s.version /\ v >= 3
  BY AtLeastVersion DEF State
<1>2. m \in [Containers -> Nat]
  BY DEF State
<1>3. ResetRestarts(s, c) = [s EXCEPT !.restarts = m, !.version = v]
  BY DEF ResetRestarts, State
<1> HIDE DEF v, m
<1> DEFINE t == ResetRestarts(s, c)
<1>4. t \in State
  BY <1>1, <1>2, <1>3 DEF State
<1>5. /\ t.version = v /\ t.restarts = m
      /\ t.observations = s.observations /\ t.maintenance = s.maintenance
  BY <1>3 DEF State
<1> HIDE DEF t
<1>6. FitsVersion(t)
  BY <1>1, <1>5 DEF FitsVersion, State
<1>7. t.version >= s.version /\ t.restarts = [s.restarts EXCEPT ![c] = 0]
  BY <1>1, <1>5 DEF m
<1> QED BY <1>4, <1>6, <1>7 DEF t

(* A cooldown leaves every other kind of datum alone. *)
LEMMA ReserveState ==
  ASSUME NEW s \in State, FitsVersion(s), NEW c \in Containers, NEW k \in Keys,
         NEW moment \in Nat, NEW seconds \in Nat
  PROVE  LET t == Reserve(s, c, k, moment, seconds)
         IN  t \in State /\ FitsVersion(t) /\ t.restarts = s.restarts
             /\ t.version = s.version
<1> DEFINE cooldowns ==
      [x \in Containers \X Keys |->
         IF x = <<c, k>> THEN moment + seconds
         ELSE IF StillCooling(s.cooldowns[x], moment) THEN s.cooldowns[x] ELSE 0]
<1>1. cooldowns \in [Containers \X Keys -> Nat]
  BY DEF State
<1>2. Reserve(s, c, k, moment, seconds) = [s EXCEPT !.cooldowns = cooldowns]
  BY DEF Reserve
<1> HIDE DEF cooldowns
<1> QED BY <1>1, <1>2 DEF State, FitsVersion

(* A maintenance change keeps the restart counts. *)
LEMMA SetMaintenanceState ==
  ASSUME NEW s \in State, FitsVersion(s), NEW c \in Containers,
         NEW moment \in Nat, NEW seconds \in Nat
  PROVE  LET t == SetMaintenance(s, c, seconds, moment)
         IN  t \in State /\ FitsVersion(t) /\ t.restarts = s.restarts
             /\ t.version >= s.version
<1> DEFINE m == [s.maintenance EXCEPT ![c] = IF seconds = 0 THEN 0 ELSE moment + seconds]
<1>1. m \in [Containers -> Nat]
  BY DEF State
<1>2. SetMaintenance(s, c, seconds, moment)
        = [s EXCEPT !.maintenance = m, !.observations = NoObservations, !.version = 4]
  BY DEF SetMaintenance, State
<1> DEFINE t == SetMaintenance(s, c, seconds, moment)
<1> HIDE DEF m, t
<1>3. t = [s EXCEPT !.maintenance = m, !.observations = NoObservations, !.version = 4]
  BY <1>2 DEF t
<1>4. t \in State
  <2>1. \A v \in 0 .. 4 :
          [s EXCEPT !.maintenance = m, !.observations = NoObservations, !.version = v]
            \in State
    BY <1>1, FreshState DEF State
  <2> QED BY <1>3, <2>1
<1>5. t.version = 4 /\ t.restarts = s.restarts
  BY <1>3 DEF State
<1>6. FitsVersion(t) /\ t.version >= s.version
  BY <1>5 DEF FitsVersion, State
<1> QED BY <1>4, <1>5, <1>6 DEF t

(* So does the expiry of maintenance. *)
LEMMA ExpireMaintenanceState ==
  ASSUME NEW s \in State, FitsVersion(s), NEW moment \in Nat
  PROVE  LET t == ExpireMaintenance(s, moment)
         IN  t \in State /\ FitsVersion(t) /\ t.restarts = s.restarts
             /\ t.version = s.version
<1>1. CASE ExpiredMaintenance(s, moment) = {}
  BY <1>1 DEF ExpireMaintenance
<1>2. CASE ExpiredMaintenance(s, moment) # {}
  <2>1. s.version >= 4
    BY <1>2 DEF ExpiredMaintenance, FitsVersion, Fresh, State
  <2> DEFINE m == [c \in Containers |->
                     IF c \in ExpiredMaintenance(s, moment) THEN 0 ELSE s.maintenance[c]]
  <2>2. m \in [Containers -> Nat]
    BY DEF State
  <2>3. ExpireMaintenance(s, moment)
          = [s EXCEPT !.maintenance = m, !.observations = NoObservations]
    BY <1>2 DEF ExpireMaintenance
  <2> DEFINE t == ExpireMaintenance(s, moment)
  <2> HIDE DEF m, t
  <2>4. t = [s EXCEPT !.maintenance = m, !.observations = NoObservations]
    BY <2>3 DEF t
  <2>5. t \in State
    BY <2>2, <2>4, FreshState DEF State
  <2>6. t.version = s.version /\ t.restarts = s.restarts
    BY <2>4 DEF State
  <2>7. FitsVersion(t)
    BY <2>1, <2>6 DEF FitsVersion, State
  <2> QED BY <2>5, <2>6, <2>7 DEF t
<1> QED BY <1>1, <1>2

-----------------------------------------------------------------------------
(***************************************************************************)
(* The inductive invariant.  Everything that it says of a session is said  *)
(* of one process at a time, because a process without the lock is idle.   *)
(***************************************************************************)
HolderOK(p) == pc[p] # "idle" => lock = p

(* The container and the rule a session works on exist. *)
PlaceOK(p) ==
  /\ pc[p] \in {"match", "observe", "decide", "claim", "act", "run", "operate"}
       => at[p].c \in Containers
  /\ pc[p] = "match" => at[p].r >= 1
  /\ pc[p] \in {"observe", "decide", "claim", "act", "run"} => at[p].r \in Rules

(* A dry run neither executes nor does an operator's job. *)
JobOK(p) ==
  /\ pc[p] \in {"act", "run"} /\ status[p] = "execute" => ~ReadOnly(p)
  /\ pc[p] \in {"manual", "operate", "offline"} => ~ReadOnly(p)

MemOK(p) ==
  /\ FitsVersion(mem[p])
  /\ mem[p].version >= 1
  /\ Writing(p) => mem[p] = Loaded(disk)

(* A restart about to be sent has been reserved in the file. *)
AheadOK(p) ==
  pc[p] = "run" /\ status[p] = "execute" /\ AtRestart(p)
    => issued[at[p].c] < disk.restarts[at[p].c]

LocalInv(p) == HolderOK(p) /\ PlaceOK(p) /\ JobOK(p) /\ MemOK(p) /\ AheadOK(p)

IInv ==
  /\ TypeOK
  /\ FitsVersion(disk)
  /\ BudgetRespected
  /\ \A p \in Procs : LocalInv(p)

-----------------------------------------------------------------------------
(***************************************************************************)
(* A step of the holder of the lock preserves the invariant if it does so  *)
(* for the holder and for the shared state.                                *)
(***************************************************************************)
LEMMA HolderStep ==
  ASSUME IInv, NEW p \in Procs, pc[p] # "idle",
         TypeOK', FitsVersion(disk)', BudgetRespected', LocalInv(p)',
         lock' = lock,
         \A q \in Procs \ {p} : pc'[q] = pc[q] /\ mem'[q] = mem[q]
  PROVE  IInv'
<1>1. ASSUME NEW q \in Procs, q # p PROVE LocalInv(q)'
  <2>1. lock = p
    BY DEF IInv, LocalInv, HolderOK
  <2>2. pc[q] = "idle"
    BY <1>1, <2>1 DEF IInv, LocalInv, HolderOK
  <2>3. pc'[q] = "idle" /\ mem'[q] = mem[q]
    BY <1>1, <2>2
  <2>4. FitsVersion(mem[q]) /\ mem[q].version >= 1
    BY DEF IInv, LocalInv, MemOK
  <2> QED
    BY <2>3, <2>4
    DEF LocalInv, HolderOK, PlaceOK, JobOK, MemOK, Writing, AheadOK, FitsVersion
<1> QED BY <1>1 DEF IInv

(***************************************************************************)
(* What a save of s by the holder can leave behind.                        *)
(***************************************************************************)
LEMMA SaveStep ==
  ASSUME IInv, NEW p \in Procs, NEW s \in State, FitsVersion(s), s.version >= 1,
         NEW then \in PcNames, pc[p] \notin {"idle", "load", "exit"},
         Save(p, s, then), UNCHANGED job
  PROVE  /\ disk' \in State /\ FitsVersion(disk') /\ disk' \in {disk, s}
         /\ ReadOnly(p) => disk' = disk
         /\ mem' \in [Procs -> State] /\ pc' \in [Procs -> PcNames]
         /\ pc'[p] \in {then, "exit"}
         /\ mem'[p] \in {mem[p], s}
         /\ pc'[p] # "exit" => mem'[p] = s
         /\ \A q \in Procs \ {p} : pc'[q] = pc[q] /\ mem'[q] = mem[q]
         /\ then # "idle" => MemOK(p)' /\ pc'[p] # "idle"
<1>1. /\ disk \in State /\ FitsVersion(disk) /\ mem[p] \in State
      /\ mem \in [Procs -> State] /\ pc \in [Procs -> PcNames]
      /\ FitsVersion(mem[p]) /\ mem[p].version >= 1
  BY DEF IInv, TypeOK, LocalInv, MemOK
<1>2. Saved(s) = s
  BY SavedState
<1>3. Loaded(s) = s
  BY DEF Loaded
<1>4. ~ReadOnly(p) => mem[p] = Loaded(disk)
  BY DEF IInv, LocalInv, MemOK, Writing
<1>5. CASE /\ disk' = IF Saves(p, s) THEN Saved(s) ELSE disk
           /\ mem' = [mem EXCEPT ![p] = s]
           /\ pc' = [pc EXCEPT ![p] = then]
  <2>1. ~ReadOnly(p) => Loaded(disk') = s
    BY <1>2, <1>3, <1>4, <1>5 DEF Saves
  <2>2. mem'[p] = s /\ pc'[p] = then
    BY <1>1, <1>5
  <2>3. ReadOnly(p)' = ReadOnly(p)
    BY DEF ReadOnly
  <2>4. MemOK(p)'
    BY <2>1, <2>2, <2>3 DEF MemOK, Writing, FitsVersion
  <2>5. disk' \in {disk, s} /\ (ReadOnly(p) => disk' = disk)
    BY <1>2, <1>5 DEF Saves
  <2> QED BY <1>1, <1>5, <2>2, <2>4, <2>5
<1>6. CASE /\ Saves(p, s)
           /\ disk' \in {disk, Saved(s)}
           /\ pc' = [pc EXCEPT ![p] = "exit"]
           /\ UNCHANGED mem
  <2>1. "exit" \in PcNames
    BY DEF PcNames
  <2>2. pc'[p] = "exit" /\ mem'[p] = mem[p]
    BY <1>1, <1>6
  <2>3. MemOK(p)'
    BY <1>1, <2>2 DEF MemOK, Writing, FitsVersion
  <2>4. ~ReadOnly(p)
    BY <1>6 DEF Saves
  <2> QED BY <1>1, <1>2, <1>6, <2>1, <2>2, <2>3, <2>4
<1> QED BY <1>5, <1>6 DEF Save

(***************************************************************************)
(* What every step is shown to do: preserve the invariant, and be a step   *)
(* of the restart budget or none.                                          *)
(***************************************************************************)
BudgetStep == [Budget!Next]_<<disk.restarts, issued>>
StepOK == IInv' /\ BudgetStep

(***************************************************************************)
(* A step that neither saves nor sends anything.                           *)
(***************************************************************************)
LEMMA QuietStep ==
  ASSUME IInv, NEW p \in Procs, pc[p] \notin {"idle", "exit"},
         UNCHANGED <<lock, disk, now, job, mem, issued>>,
         NEW to \in PcNames \ {"idle", "load"}, pc' = [pc EXCEPT ![p] = to],
         pc[p] = "load" => to = "exit",
         prev' \in [Procs -> [Containers \X Rules -> Observation]],
         todo' \in [Procs -> SUBSET Containers],
         at' \in [Procs -> [c : Containers \cup {None}, r : Nat, i : Nat]],
         status' \in [Procs -> StatusNames],
         PlaceOK(p)', JobOK(p)', AheadOK(p)'
  PROVE  StepOK
<1>1. pc' \in [Procs -> PcNames] /\ pc'[p] = to
  BY DEF IInv, TypeOK
<1>2. TypeOK'
  BY <1>1 DEF IInv, TypeOK
<1>3. FitsVersion(disk)' /\ BudgetRespected'
  BY DEF IInv, FitsVersion, BudgetRespected
<1>4. HolderOK(p)' /\ MemOK(p)'
  BY <1>1 DEF IInv, LocalInv, HolderOK, MemOK, Writing, ReadOnly, FitsVersion
<1>5. \A q \in Procs \ {p} : pc'[q] = pc[q] /\ mem'[q] = mem[q]
  BY DEF IInv, TypeOK
<1>6. BudgetStep
  BY DEF BudgetStep
<1> QED BY <1>2, <1>3, <1>4, <1>5, <1>6, HolderStep DEF LocalInv, StepOK

(***************************************************************************)
(* A step that saves s and sends nothing.                                  *)
(***************************************************************************)
LEMMA SavingStep ==
  ASSUME IInv, NEW p \in Procs, pc[p] \notin {"idle", "load", "exit"},
         NEW s \in State, FitsVersion(s), s.version >= 1,
         NEW then \in PcNames \ {"idle", "load"}, Save(p, s, then),
         UNCHANGED <<lock, now, job>>,
         prev' \in [Procs -> [Containers \X Rules -> Observation]],
         todo' \in [Procs -> SUBSET Containers],
         at' \in [Procs -> [c : Containers \cup {None}, r : Nat, i : Nat]],
         status' \in [Procs -> StatusNames],
         issued' \in [Containers -> Nat],
         BudgetRespected', PlaceOK(p)', JobOK(p)', AheadOK(p)'
  PROVE  IInv'
<1>1. /\ disk' \in State /\ FitsVersion(disk')
      /\ mem' \in [Procs -> State] /\ pc' \in [Procs -> PcNames]
      /\ MemOK(p)' /\ pc'[p] # "idle"
      /\ \A q \in Procs \ {p} : pc'[q] = pc[q] /\ mem'[q] = mem[q]
  BY SaveStep
<1>2. TypeOK'
  BY <1>1 DEF IInv, TypeOK
<1>3. HolderOK(p)'
  BY DEF IInv, LocalInv, HolderOK
<1>4. FitsVersion(disk)' /\ LocalInv(p)'
  BY <1>1, <1>3 DEF LocalInv, FitsVersion
<1> QED BY <1>1, <1>2, <1>4, HolderStep

(***************************************************************************)
(* Opening and closing a session.                                          *)
(***************************************************************************)
LEMMA InitInv == Init => IInv
<1> SUFFICES ASSUME Init PROVE IInv
  OBVIOUS
<1>1. TypeOK
  <2>1. Fresh \in State /\ NoFile \in State
        /\ NoObservations \in [Containers \X Rules -> Observation]
    BY FreshState
  <2>2. now \in 1 .. MaxTime
    BY OptionsAssumption DEF Init
  <2>3. /\ lock \in Procs \cup {None} /\ disk \in State
        /\ mem \in [Procs -> State]
        /\ prev \in [Procs -> [Containers \X Rules -> Observation]]
    BY <2>1 DEF Init
  <2>4. /\ pc \in [Procs -> PcNames] /\ job \in [Procs -> JobNames \cup {"none"}]
        /\ status \in [Procs -> StatusNames]
    BY DEF Init, PcNames, StatusNames
  <2>5. /\ todo \in [Procs -> SUBSET Containers] /\ issued \in [Containers -> Nat]
        /\ at \in [Procs -> [c : Containers \cup {None}, r : Nat, i : Nat]]
    <3>1. NoPlace \in [c : Containers \cup {None}, r : Nat, i : Nat]
      BY DEF NoPlace
    <3> QED BY <3>1 DEF Init
  <2> QED BY <2>2, <2>3, <2>4, <2>5 DEF TypeOK
<1>2. FitsVersion(disk)
  BY FreshState DEF Init
<1>3. BudgetRespected
  <2>1. disk.restarts = issued
    BY FreshState DEF Init
  <2>2. \A c \in Containers : issued[c] = 0
    BY DEF Init
  <2>3. MaxRestarts \in Nat
    BY OptionsAssumption
  <2>4. \A c \in Containers : disk.restarts[c] = 0
    BY <2>1, <2>2
  <2>5. 0 <= 0 /\ 0 <= MaxRestarts
    BY <2>3
  <2> QED BY <2>2, <2>4, <2>5, Zenon DEF BudgetRespected
<1>4. ASSUME NEW p \in Procs PROVE LocalInv(p)
  <2>1. pc[p] = "idle" /\ mem[p] = Fresh /\ Fresh.version = 1
    BY DEF Init, Fresh
  <2> QED BY <2>1, FreshState
    DEF LocalInv, HolderOK, PlaceOK, JobOK, MemOK, Writing, AheadOK
<1> QED BY <1>1, <1>2, <1>3, <1>4 DEF IInv

(* A session begins (LocalState.__enter__). *)
LEMMA LockInv ==
  ASSUME IInv, NEW p \in Procs, NEW j \in Jobs, Lock(p, j)
  PROVE  StepOK
<1>1. TypeOK'
  BY JobsAssumption DEF IInv, TypeOK, Lock, PcNames
<1>2. FitsVersion(disk)' /\ BudgetRespected'
  BY DEF Lock, IInv, FitsVersion, BudgetRespected
<1>3. ASSUME NEW q \in Procs PROVE LocalInv(q)'
  <2>1. CASE q = p
    <3>1. pc'[q] = "load" /\ mem'[q] = mem[q] /\ lock' = p
      BY <2>1 DEF Lock, IInv, TypeOK
    <3> QED BY <2>1, <3>1
      DEF IInv, LocalInv, HolderOK, PlaceOK, JobOK, MemOK, Writing, AheadOK, FitsVersion
  <2>2. CASE q # p
    <3>1. pc[q] = "idle"
      BY ContainersAssumption DEF Lock, LockFree, IInv, LocalInv, HolderOK
    <3>2. pc'[q] = "idle" /\ mem'[q] = mem[q]
      BY <2>2, <3>1 DEF Lock, IInv, TypeOK
    <3> QED BY <3>2
      DEF IInv, LocalInv, HolderOK, PlaceOK, JobOK, MemOK, Writing, AheadOK, FitsVersion
  <2> QED BY <2>1, <2>2
<1>4. BudgetStep
  BY DEF Lock, BudgetStep
<1> QED BY <1>1, <1>2, <1>3, <1>4 DEF IInv, StepOK

(* It reads the file under the lock. *)
LEMMA LoadInv ==
  ASSUME IInv, NEW p \in Procs, Load(p)
  PROVE  StepOK
<1> DEFINE to == FirstStep(job[p])
<1>1. /\ pc[p] = "load" /\ pc' = [pc EXCEPT ![p] = to]
      /\ mem' = [mem EXCEPT ![p] = Loaded(disk)]
      /\ UNCHANGED <<lock, disk, now, job, prev, todo, at, status, issued>>
  BY DEF Load
<1>2. /\ to \in {"expire", "manual", "offline"}
      /\ to \in {"manual", "offline"} => ~ReadOnly(p)
  BY DEF FirstStep, ReadOnly
<1>3. Loaded(disk) \in State /\ FitsVersion(Loaded(disk)) /\ Loaded(disk).version >= 1
  BY LoadedState DEF IInv, TypeOK
<1> HIDE DEF to
<1>4. pc'[p] = to /\ mem'[p] = Loaded(disk)
  BY <1>1 DEF IInv, TypeOK
<1>5. TypeOK'
  BY <1>1, <1>2, <1>3 DEF IInv, TypeOK, PcNames
<1>6. FitsVersion(disk)' /\ BudgetRespected'
  BY <1>1 DEF IInv, FitsVersion, BudgetRespected
<1>7. LocalInv(p)'
  BY <1>1, <1>2, <1>3, <1>4
  DEF IInv, LocalInv, HolderOK, PlaceOK, JobOK, MemOK, Writing, AheadOK, FitsVersion, ReadOnly
<1>8. \A q \in Procs \ {p} : pc'[q] = pc[q] /\ mem'[q] = mem[q]
  BY <1>1 DEF IInv, TypeOK
<1>9. BudgetStep
  BY <1>1 DEF BudgetStep
<1>10. pc[p] # "idle" /\ lock' = lock
  BY <1>1
<1> QED BY <1>5, <1>6, <1>7, <1>8, <1>9, <1>10, HolderStep DEF StepOK

(* It ends, or its process is killed. *)
LEMMA CloseInv ==
  ASSUME IInv, NEW p \in Procs, pc[p] # "idle", Close(p)
  PROVE  StepOK
<1>1. TypeOK'
  <2>1. Fresh \in State /\ NoObservations \in [Containers \X Rules -> Observation]
    BY FreshState
  <2> QED BY <2>1 DEF IInv, TypeOK, Close, PcNames, StatusNames, NoPlace
<1>2. FitsVersion(disk)' /\ BudgetRespected'
  BY DEF Close, IInv, FitsVersion, BudgetRespected
<1>3. ASSUME NEW q \in Procs PROVE LocalInv(q)'
  <2>1. pc'[q] = "idle"
    BY DEF Close, IInv, TypeOK, LocalInv, HolderOK
  <2>2. FitsVersion(mem[q])' /\ mem'[q].version >= 1
    <3>1. Fresh.version = 1
      BY DEF Fresh
    <3>2. mem'[q] \in {mem[q], Fresh}
      BY DEF Close, IInv, TypeOK
    <3> QED BY <3>1, <3>2, FreshState DEF IInv, LocalInv, MemOK, FitsVersion
  <2> QED BY <2>1, <2>2
    DEF LocalInv, HolderOK, PlaceOK, JobOK, MemOK, Writing, AheadOK
<1>4. BudgetStep
  BY DEF Close, BudgetStep
<1> QED BY <1>1, <1>2, <1>3, <1>4 DEF IInv, StepOK

(***************************************************************************)
(* The saves that leave the restart attempts alone.                        *)
(***************************************************************************)
LEMMA HolderState ==
  ASSUME IInv, NEW p \in Procs, pc[p] \notin {"idle", "load", "exit"}
  PROVE  /\ mem[p] \in State /\ FitsVersion(mem[p]) /\ mem[p].version >= 1
         /\ mem[p].version \in 0 .. 4
         /\ disk \in State /\ disk.restarts \in [Containers -> Nat]
         /\ issued \in [Containers -> Nat] /\ now \in Nat
         /\ ~ReadOnly(p) => mem[p].restarts = disk.restarts
         /\ at[p].r \in Nat /\ at[p].i \in Nat
         /\ at[p].c \in Containers \cup {None}
<1>1. ~ReadOnly(p) => mem[p] = Loaded(disk)
  BY DEF IInv, LocalInv, MemOK, Writing
<1>2. disk \in State /\ FitsVersion(disk)
  BY DEF IInv, TypeOK
<1>3. Loaded(disk).restarts = disk.restarts
  BY <1>2, LoadedState
<1>4. mem[p] \in State /\ FitsVersion(mem[p]) /\ mem[p].version >= 1
  BY DEF IInv, TypeOK, LocalInv, MemOK
<1>5. mem[p].version \in 0 .. 4 /\ disk.restarts \in [Containers -> Nat]
  BY <1>2, <1>4 DEF State
<1>6. /\ issued \in [Containers -> Nat] /\ now \in Nat
      /\ at[p].r \in Nat /\ at[p].i \in Nat /\ at[p].c \in Containers \cup {None}
  BY OptionsAssumption DEF IInv, TypeOK
<1> QED BY <1>1, <1>2, <1>3, <1>4, <1>5, <1>6

(* A save that leaves the restart counts as they are. *)
LEMMA PlainSave ==
  ASSUME IInv, NEW p \in Procs, pc[p] \notin {"idle", "load", "exit"},
         NEW s \in State, FitsVersion(s), s.version >= mem[p].version,
         s.restarts = mem[p].restarts,
         NEW then \in PcNames \ {"idle", "load", "run"}, Save(p, s, then),
         UNCHANGED <<lock, now, job, issued>>,
         prev' \in [Procs -> [Containers \X Rules -> Observation]],
         todo' \in [Procs -> SUBSET Containers],
         at' \in [Procs -> [c : Containers \cup {None}, r : Nat, i : Nat]],
         status' \in [Procs -> StatusNames],
         then # "exit" => PlaceOK(p)' /\ JobOK(p)'
  PROVE  StepOK
<1>1. /\ disk' \in {disk, s} /\ (ReadOnly(p) => disk' = disk)
      /\ pc'[p] \in {then, "exit"}
  <2>1. s.version >= 1 /\ s.version \in 0 .. 4
    <3>1. mem[p].version >= 1 /\ mem[p].version \in 0 .. 4
      BY HolderState
    <3>2. s.version \in 0 .. 4
      BY DEF State
    <3> QED BY <3>1, <3>2
  <2>2. then \in PcNames
    OBVIOUS
  <2> QED BY <2>1, <2>2, SaveStep
<1>2. disk'.restarts = disk.restarts
  BY <1>1, HolderState
<1>3. BudgetRespected'
  BY <1>2 DEF IInv, BudgetRespected
<1>4. PlaceOK(p)' /\ JobOK(p)'
  BY <1>1 DEF PlaceOK, JobOK
<1>5. AheadOK(p)'
  BY <1>1 DEF AheadOK
<1>6. s.version >= 1
  <2>1. mem[p].version >= 1 /\ mem[p].version \in 0 .. 4
    BY HolderState
  <2>2. s.version \in 0 .. 4
    BY DEF State
  <2> QED BY <2>1, <2>2
<1>7. issued' \in [Containers -> Nat]
  BY DEF IInv, TypeOK
<1>8. BudgetStep
  BY <1>2 DEF BudgetStep
<1> QED BY <1>3, <1>4, <1>5, <1>6, <1>7, <1>8, SavingStep DEF StepOK

(***************************************************************************)
(* Moving on to another action or another rule.                            *)
(***************************************************************************)
LEMMA PlaceUpdate ==
  ASSUME NEW p \in Procs, NEW r \in Nat, NEW i \in Nat,
         at \in [Procs -> [c : Containers \cup {None}, r : Nat, i : Nat]],
         at' = [at EXCEPT ![p] = [c |-> at[p].c, r |-> r, i |-> i]]
  PROVE  /\ at' \in [Procs -> [c : Containers \cup {None}, r : Nat, i : Nat]]
         /\ at'[p].c = at[p].c /\ at'[p].r = r /\ at'[p].i = i
<1>1. [c |-> at[p].c, r |-> r, i |-> i] \in [c : Containers \cup {None}, r : Nat, i : Nat]
  OBVIOUS
<1> QED BY <1>1

(* The place of a session that goes on to the next action. *)
LEMMA NextAction ==
  ASSUME NEW p \in Procs,
         at \in [Procs -> [c : Containers \cup {None}, r : Nat, i : Nat]],
         at' = [at EXCEPT ![p].i = @ + 1]
  PROVE  /\ at' \in [Procs -> [c : Containers \cup {None}, r : Nat, i : Nat]]
         /\ at'[p].c = at[p].c /\ at'[p].r = at[p].r
<1>1. at[p].i + 1 \in Nat /\ at[p].r \in Nat
  OBVIOUS
<1>2. at' = [at EXCEPT ![p] = [c |-> at[p].c, r |-> at[p].r, i |-> at[p].i + 1]]
  <2>1. [at[p] EXCEPT !.i = at[p].i + 1]
          = [c |-> at[p].c, r |-> at[p].r, i |-> at[p].i + 1]
    OBVIOUS
  <2> QED BY <2>1
<1> QED BY <1>1, <1>2, PlaceUpdate

(* The place of a session that goes on to the next rule. *)
LEMMA NextRulePlace ==
  ASSUME NEW p \in Procs, NextRule(p),
         at \in [Procs -> [c : Containers \cup {None}, r : Nat, i : Nat]],
         status \in [Procs -> StatusNames]
  PROVE  /\ at' \in [Procs -> [c : Containers \cup {None}, r : Nat, i : Nat]]
         /\ at'[p].c = at[p].c /\ at'[p].r = at[p].r + 1
         /\ at[p].r \in Nat
         /\ status' \in [Procs -> StatusNames]
<1>1. at[p].r + 1 \in Nat /\ 0 \in Nat /\ at[p].r \in Nat
  OBVIOUS
<1>2. at' = [at EXCEPT ![p] = [c |-> at[p].c, r |-> at[p].r + 1, i |-> 0]]
  BY DEF NextRule
<1>3. status' \in [Procs -> StatusNames]
  BY DEF NextRule, StatusNames
<1> QED BY <1>1, <1>2, <1>3, PlaceUpdate

(***************************************************************************)
(* Steps of a cycle that neither save nor send anything.                   *)
(***************************************************************************)
QuietCycleStep(p) ==
  \/ Raise(p) \/ Select(p)
  \/ \E c \in Containers : NextContainer(p, c)
  \/ EndCycle(p) \/ ContainerDone(p)
  \/ \E matched \in BOOLEAN : Match(p, matched)
  \/ ObserveUntracked(p)
  \/ Decide(p) \/ ClaimRefused(p) \/ NoReservation(p)
  \/ SkipAction(p) \/ RuleDone(p)

QuietOperatorStep(p) == ManualRejected(p) \/ ManualDocker(p) \/ OfflineNothing(p)

(* None of them makes a session execute or act on a rule that is not there. *)
LEMMA QuietCycleInv ==
  ASSUME IInv, NEW p \in Procs, QuietCycleStep(p)
  PROVE  StepOK
<1> USE DEF PcNames, StatusNames
<1>0. /\ pc \in [Procs -> PcNames] /\ status \in [Procs -> StatusNames]
      /\ prev \in [Procs -> [Containers \X Rules -> Observation]]
      /\ todo \in [Procs -> SUBSET Containers]
      /\ at \in [Procs -> [c : Containers \cup {None}, r : Nat, i : Nat]]
      /\ PlaceOK(p) /\ JobOK(p) /\ AheadOK(p)
  BY DEF IInv, TypeOK, LocalInv
<1>1. ASSUME Raise(p) PROVE StepOK
  <2>1. pc'[p] = "exit" /\ pc[p] \notin {"idle", "exit"}
    BY <1>0, <1>1 DEF Raise
  <2>2. PlaceOK(p)' /\ JobOK(p)' /\ AheadOK(p)'
    BY <2>1 DEF PlaceOK, JobOK, AheadOK
  <2> QED BY <1>0, <1>1, <2>1, <2>2, QuietStep DEF Raise
<1>2. ASSUME Select(p) PROVE StepOK
  <2>1. pc'[p] = "next" /\ pc[p] = "select"
    BY <1>0, <1>2 DEF Select
  <2>2. PlaceOK(p)' /\ JobOK(p)' /\ AheadOK(p)'
    BY <2>1 DEF PlaceOK, JobOK, AheadOK
  <2>3. todo' \in [Procs -> SUBSET Containers]
    BY <1>0, <1>2 DEF Select
  <2> QED BY <1>0, <1>2, <2>1, <2>2, <2>3, QuietStep DEF Select
<1>3. ASSUME NEW c \in Containers, NextContainer(p, c) PROVE StepOK
  <2>1. pc'[p] = "match" /\ pc[p] = "next" /\ at'[p] = [c |-> c, r |-> 1, i |-> 0]
    BY <1>0, <1>3 DEF NextContainer
  <2>2. PlaceOK(p)' /\ JobOK(p)' /\ AheadOK(p)'
    BY <2>1 DEF PlaceOK, JobOK, AheadOK
  <2>3. /\ todo' \in [Procs -> SUBSET Containers]
        /\ at' \in [Procs -> [c : Containers \cup {None}, r : Nat, i : Nat]]
    BY <1>0, <1>3 DEF NextContainer
  <2> QED BY <1>0, <1>3, <2>1, <2>2, <2>3, QuietStep DEF NextContainer
<1>4. ASSUME EndCycle(p) PROVE StepOK
  <2>1. pc'[p] = "exit" /\ pc[p] = "next"
    BY <1>0, <1>4 DEF EndCycle
  <2>2. PlaceOK(p)' /\ JobOK(p)' /\ AheadOK(p)'
    BY <2>1 DEF PlaceOK, JobOK, AheadOK
  <2> QED BY <1>0, <1>4, <2>1, <2>2, QuietStep DEF EndCycle
<1>5. ASSUME ContainerDone(p) PROVE StepOK
  <2>1. pc'[p] = "next" /\ pc[p] = "match"
    BY <1>0, <1>5 DEF ContainerDone
  <2>2. PlaceOK(p)' /\ JobOK(p)' /\ AheadOK(p)'
    BY <2>1 DEF PlaceOK, JobOK, AheadOK
  <2> QED BY <1>0, <1>5, <2>1, <2>2, QuietStep DEF ContainerDone
<1>6. ASSUME NEW matched \in BOOLEAN, Match(p, matched) PROVE StepOK
  <2>1. pc'[p] = "observe" /\ pc[p] = "match" /\ at' = at
    BY <1>0, <1>6 DEF Match
  <2>2. at[p].r \in Rules
    BY <1>0, <1>6, <2>1, NumRulesAssumption DEF Match, PlaceOK, Rules
  <2>3. PlaceOK(p)' /\ JobOK(p)' /\ AheadOK(p)'
    BY <1>0, <2>1, <2>2 DEF PlaceOK, JobOK, AheadOK
  <2>4. status' \in [Procs -> StatusNames]
    BY <1>0, <1>6 DEF Match
  <2>5. /\ pc' = [pc EXCEPT ![p] = "observe"]
        /\ UNCHANGED <<lock, disk, now, job, mem, prev, todo, at, issued>>
    BY <1>6 DEF Match
  <2> QED BY <1>0, <2>1, <2>3, <2>4, <2>5, QuietStep
<1>7. ASSUME ObserveUntracked(p) PROVE StepOK
  <2>1. pc'[p] = "decide" /\ pc[p] = "observe" /\ at' = at
    BY <1>0, <1>7 DEF ObserveUntracked
  <2>2. PlaceOK(p)' /\ JobOK(p)' /\ AheadOK(p)'
    BY <1>0, <2>1 DEF PlaceOK, JobOK, AheadOK
  <2>3. status' \in [Procs -> StatusNames]
    BY <1>0, <1>7 DEF ObserveUntracked
  <2> QED BY <1>0, <1>7, <2>1, <2>2, <2>3, QuietStep DEF ObserveUntracked
<1>8. ASSUME Decide(p) PROVE StepOK
  <2>1. /\ pc[p] = "decide" /\ status'[p] # "execute"
        /\ at' = [at EXCEPT ![p].i = 1]
        /\ status' \in [Procs -> StatusNames]
        /\ UNCHANGED <<lock, disk, now, job, mem, prev, todo, issued>>
    BY <1>0, <1>8 DEF Decide
  <2>2. PICK to \in {"claim", "act"} : pc' = [pc EXCEPT ![p] = to]
    BY <1>8 DEF Decide
  <2>3. /\ at'[p].c = at[p].c /\ at'[p].r = at[p].r
        /\ at' \in [Procs -> [c : Containers \cup {None}, r : Nat, i : Nat]]
    BY <1>0, <2>1
  <2>4. pc'[p] = to
    BY <1>0, <2>2
  <2>5. PlaceOK(p)' /\ JobOK(p)' /\ AheadOK(p)'
    BY <1>0, <2>1, <2>3, <2>4 DEF PlaceOK, JobOK, AheadOK
  <2> QED BY <1>0, <2>1, <2>2, <2>3, <2>5, QuietStep
<1>9. ASSUME ClaimRefused(p) PROVE StepOK
  <2>1. /\ pc'[p] = "act" /\ pc[p] = "claim" /\ status'[p] = "cooldown"
        /\ at' = at /\ status' \in [Procs -> StatusNames]
    BY <1>0, <1>9 DEF ClaimRefused
  <2>2. PlaceOK(p)' /\ JobOK(p)' /\ AheadOK(p)'
    BY <1>0, <2>1 DEF PlaceOK, JobOK, AheadOK
  <2> QED BY <1>0, <1>9, <2>1, <2>2, QuietStep DEF ClaimRefused
<1>10. ASSUME NoReservation(p) PROVE StepOK
  <2>1. /\ pc'[p] = "run" /\ pc[p] = "act" /\ status' = status
        /\ at' = at /\ job' = job
    BY <1>0, <1>10 DEF NoReservation
  <2>2. ~(status[p] = "execute" /\ AtRestart(p))
    BY <1>10 DEF NoReservation, Proceeding
  <2>3. PlaceOK(p)' /\ JobOK(p)'
    BY <1>0, <2>1 DEF PlaceOK, JobOK, ReadOnly
  <2>4. AheadOK(p)'
    BY <2>1, <2>2 DEF AheadOK, AtRestart
  <2> QED BY <1>0, <1>10, <2>1, <2>3, <2>4, QuietStep DEF NoReservation
<1>11. ASSUME SkipAction(p) PROVE StepOK
  <2>1. /\ pc'[p] = "act" /\ pc[p] = "run" /\ status' = status
        /\ status[p] # "execute" /\ at' = [at EXCEPT ![p].i = @ + 1]
    BY <1>0, <1>11 DEF SkipAction
  <2>2. /\ at'[p].c = at[p].c /\ at'[p].r = at[p].r
        /\ at' \in [Procs -> [c : Containers \cup {None}, r : Nat, i : Nat]]
    BY <1>0, <2>1, NextAction
  <2>3. PlaceOK(p)' /\ JobOK(p)' /\ AheadOK(p)'
    BY <1>0, <2>1, <2>2 DEF PlaceOK, JobOK, AheadOK
  <2> QED BY <1>0, <1>11, <2>1, <2>2, <2>3, QuietStep DEF SkipAction
<1>12. ASSUME RuleDone(p) PROVE StepOK
  <2>1. /\ pc'[p] = "match" /\ pc[p] = "act"
        /\ NextRule(p)
    BY <1>0, <1>12 DEF RuleDone
  <2>2. /\ at'[p].c = at[p].c /\ at'[p].r = at[p].r + 1 /\ at[p].r \in Nat
        /\ at' \in [Procs -> [c : Containers \cup {None}, r : Nat, i : Nat]]
        /\ status' \in [Procs -> StatusNames]
    BY <1>0, <2>1, NextRulePlace
  <2>3. PlaceOK(p)' /\ JobOK(p)' /\ AheadOK(p)'
    BY <1>0, <2>1, <2>2 DEF PlaceOK, JobOK, AheadOK, Rules
  <2> QED BY <1>0, <1>12, <2>1, <2>2, <2>3, QuietStep DEF RuleDone
<1> QED
  BY <1>1, <1>2, <1>3, <1>4, <1>5, <1>6, <1>7, <1>8, <1>9, <1>10, <1>11, <1>12
  DEF QuietCycleStep

(***************************************************************************)
(* Steps of a cycle that save maintenance, observations or a cooldown.     *)
(***************************************************************************)
LEMMA Streaks ==
  ASSUME NEW old \in Observation, NEW t \in Nat
  PROVE  Streak(old, t) \in Observation
BY DEF Streak, Observation

(* Replacing one observation keeps the type of the map. *)
LEMMA OneObservation ==
  ASSUME NEW f \in [Containers \X Rules -> Observation],
         NEW k \in Containers \X Rules, NEW o \in Observation
  PROVE  [f EXCEPT ![k] = o] \in [Containers \X Rules -> Observation]
OBVIOUS

(* A cycle expires maintenance. *)
LEMMA ExpireInv ==
  ASSUME IInv, NEW p \in Procs, Expire(p)
  PROVE  StepOK
<1> DEFINE s == ExpireMaintenance(mem[p], now)
<1>1. pc[p] = "expire" /\ Save(p, s, "clear")
      /\ UNCHANGED <<lock, now, job, prev, todo, at, status, issued>>
  BY DEF Expire
<1>2. mem[p] \in State /\ FitsVersion(mem[p]) /\ now \in Nat
      /\ mem[p].version \in 0 .. 4
  BY <1>1, HolderState
<1>3. /\ s \in State /\ FitsVersion(s) /\ s.version >= mem[p].version
      /\ s.restarts = mem[p].restarts
  <2>1. /\ s \in State /\ FitsVersion(s) /\ s.version = mem[p].version
        /\ s.restarts = mem[p].restarts
    BY <1>2, ExpireMaintenanceState
  <2> QED BY <1>2, <2>1
<1> HIDE DEF s
<1>4. pc'[p] \in {"clear", "exit"}
  BY <1>1 DEF Save, IInv, TypeOK
<1>5. PlaceOK(p)' /\ JobOK(p)'
  BY <1>4 DEF PlaceOK, JobOK
<1>6. "clear" \in PcNames \ {"idle", "load", "run"}
  BY DEF PcNames
<1> QED BY <1>1, <1>3, <1>5, <1>6, PlainSave DEF IInv, TypeOK

(* A cycle invalidates the observations (TriggerPolicy.__init__). *)
LEMMA ClearInv ==
  ASSUME IInv, NEW p \in Procs, Clear(p)
  PROVE  StepOK
<1> DEFINE s == ReplaceObservations(mem[p], NoObservations)
<1>1. pc[p] = "clear" /\ Save(p, s, "select")
      /\ prev' = [prev EXCEPT ![p] = mem[p].observations]
      /\ UNCHANGED <<lock, now, job, todo, at, status, issued>>
  BY DEF Clear
<1>2. mem[p] \in State /\ FitsVersion(mem[p])
  BY <1>1, HolderState
<1>3. /\ s \in State /\ FitsVersion(s) /\ s.version >= mem[p].version
      /\ s.restarts = mem[p].restarts
  BY <1>2, ReplaceObservationsState, FreshState
<1>4. prev' \in [Procs -> [Containers \X Rules -> Observation]]
  BY <1>1, <1>2 DEF State, IInv, TypeOK
<1> HIDE DEF s
<1>5. pc'[p] \in {"select", "exit"}
  BY <1>1 DEF Save, IInv, TypeOK
<1>6. PlaceOK(p)' /\ JobOK(p)'
  BY <1>5 DEF PlaceOK, JobOK
<1>7. "select" \in PcNames \ {"idle", "load", "run"}
  BY DEF PcNames
<1> QED BY <1>1, <1>3, <1>4, <1>6, <1>7, PlainSave DEF IInv, TypeOK

(* Replacing the observation of the rule at hand, in memory and in the     *)
(* file.                                                                   *)
LEMMA ObserveInv ==
  ASSUME IInv, NEW p \in Procs, pc[p] = "observe", NEW o \in Observation,
         NEW then \in {"match", "decide"},
         prev' = [prev EXCEPT ![p][<<at[p].c, at[p].r>>] = o],
         Save(p, ReplaceObservations(mem[p],
                [mem[p].observations EXCEPT ![<<at[p].c, at[p].r>>] = o]), then),
         UNCHANGED <<lock, now, job, todo, issued>>,
         at' \in [Procs -> [c : Containers \cup {None}, r : Nat, i : Nat]],
         at'[p].c = at[p].c,
         at'[p].r = at[p].r \/ (then = "match" /\ at'[p].r = at[p].r + 1),
         status' \in [Procs -> StatusNames]
  PROVE  StepOK
<1> DEFINE k == <<at[p].c, at[p].r>>
           f == [mem[p].observations EXCEPT ![k] = o]
           s == ReplaceObservations(mem[p], f)
<1>1. at[p].c \in Containers /\ at[p].r \in Rules
  BY DEF IInv, LocalInv, PlaceOK
<1>2. mem[p] \in State /\ FitsVersion(mem[p])
  BY HolderState
<1>3. mem[p].observations \in [Containers \X Rules -> Observation]
  BY <1>2 DEF State
<1>4. f \in [Containers \X Rules -> Observation]
  BY <1>1, <1>3, OneObservation
<1>5. prev' \in [Procs -> [Containers \X Rules -> Observation]]
  <2>1. prev \in [Procs -> [Containers \X Rules -> Observation]]
    BY DEF IInv, TypeOK
  <2>2. [prev[p] EXCEPT ![k] = o] \in [Containers \X Rules -> Observation]
    BY <1>1, <2>1, OneObservation
  <2>3. prev' = [prev EXCEPT ![p] = [prev[p] EXCEPT ![k] = o]]
    OBVIOUS
  <2> HIDE DEF k
  <2> QED BY <2>1, <2>2, <2>3
<1>6. Save(p, s, then)
  OBVIOUS
<1> HIDE DEF k, f
<1>7. /\ s \in State /\ FitsVersion(s) /\ s.version >= mem[p].version
      /\ s.restarts = mem[p].restarts
  BY <1>2, <1>4, ReplaceObservationsState
<1> HIDE DEF s
<1>8. pc'[p] \in {then, "exit"}
  BY <1>6 DEF Save, IInv, TypeOK
<1>9. PlaceOK(p)' /\ JobOK(p)'
  <2>1. at[p].r \in Nat /\ at[p].r >= 1
    BY <1>1, NumRulesAssumption DEF Rules
  <2> QED BY <1>1, <1>8, <2>1 DEF PlaceOK, JobOK
<1>10. then \in PcNames \ {"idle", "load", "run"}
  BY DEF PcNames
<1>11. todo' \in [Procs -> SUBSET Containers]
  BY DEF IInv, TypeOK
<1> QED BY <1>5, <1>6, <1>7, <1>9, <1>10, <1>11, PlainSave

(* An unmatched condition is forgotten. *)
LEMMA ObserveUnmatchedInv ==
  ASSUME IInv, NEW p \in Procs, ObserveUnmatched(p)
  PROVE  StepOK
<1>1. /\ pc[p] = "observe" /\ NextRule(p) /\ UNCHANGED <<lock, now, job, todo, issued>>
  BY DEF ObserveUnmatched
<1>2. /\ at' \in [Procs -> [c : Containers \cup {None}, r : Nat, i : Nat]]
      /\ at'[p].c = at[p].c /\ at'[p].r = at[p].r + 1 /\ at[p].r \in Nat
      /\ status' \in [Procs -> StatusNames]
  BY <1>1, NextRulePlace DEF IInv, TypeOK
<1>3. CASE Tracked(at[p].r)
  <2>1. NoObs \in Observation
    BY DEF NoObs, Observation
  <2>2. /\ prev' = [prev EXCEPT ![p][<<at[p].c, at[p].r>>] = NoObs]
        /\ Save(p, ReplaceObservations(mem[p],
              [mem[p].observations EXCEPT ![<<at[p].c, at[p].r>>] = NoObs]), "match")
    BY <1>3 DEF ObserveUnmatched, Forget
  <2> QED BY <1>1, <1>2, <2>1, <2>2, ObserveInv
<1>4. CASE ~Tracked(at[p].r)
  <2>1. pc' = [pc EXCEPT ![p] = "match"] /\ UNCHANGED <<disk, mem, prev>>
    BY <1>4 DEF ObserveUnmatched
  <2>2. pc'[p] = "match" /\ at[p].c \in Containers /\ at[p].r \in Nat
    BY <1>1, <1>2, <2>1 DEF IInv, TypeOK, LocalInv, PlaceOK
  <2>3. PlaceOK(p)' /\ JobOK(p)' /\ AheadOK(p)'
    BY <1>2, <2>2 DEF PlaceOK, JobOK, AheadOK
  <2>4. "match" \in PcNames \ {"idle", "load"}
    BY DEF PcNames
  <2> QED BY <1>1, <1>2, <2>1, <2>3, <2>4, QuietStep DEF IInv, TypeOK
<1> QED BY <1>3, <1>4

(* A condition masked by maintenance is forgotten. *)
LEMMA ObserveMaskedInv ==
  ASSUME IInv, NEW p \in Procs, ObserveMasked(p)
  PROVE  StepOK
<1>1. /\ pc[p] = "observe"
      /\ status' = [status EXCEPT ![p] = "pending"]
      /\ UNCHANGED <<lock, now, job, todo, at, issued>>
      /\ prev' = [prev EXCEPT ![p][<<at[p].c, at[p].r>>] = NoObs]
      /\ Save(p, ReplaceObservations(mem[p],
            [mem[p].observations EXCEPT ![<<at[p].c, at[p].r>>] = NoObs]), "decide")
  BY DEF ObserveMasked, Forget
<1>2. NoObs \in Observation
  BY DEF NoObs, Observation
<1>3. at' \in [Procs -> [c : Containers \cup {None}, r : Nat, i : Nat]]
      /\ status' \in [Procs -> StatusNames]
  BY <1>1 DEF IInv, TypeOK, StatusNames
<1> QED BY <1>1, <1>2, <1>3, ObserveInv

(* A matched condition is recorded. *)
LEMMA ObserveMatchedInv ==
  ASSUME IInv, NEW p \in Procs, ObserveMatched(p)
  PROVE  StepOK
<1> DEFINE o == Streak(prev[p][<<at[p].c, at[p].r>>], now)
<1>1. /\ pc[p] = "observe"
      /\ UNCHANGED <<lock, now, job, todo, at, issued>>
      /\ prev' = [prev EXCEPT ![p][<<at[p].c, at[p].r>>] = o]
      /\ Save(p, ReplaceObservations(mem[p],
            [mem[p].observations EXCEPT ![<<at[p].c, at[p].r>>] = o]), "decide")
  BY DEF ObserveMatched
<1>2. at' \in [Procs -> [c : Containers \cup {None}, r : Nat, i : Nat]]
      /\ status' \in [Procs -> StatusNames]
  BY <1>1 DEF IInv, TypeOK, StatusNames, ObserveMatched
<1>3. o \in Observation
  <2>1. at[p].c \in Containers /\ at[p].r \in Rules
    BY <1>1 DEF IInv, LocalInv, PlaceOK
  <2>2. prev[p][<<at[p].c, at[p].r>>] \in Observation
    BY <2>1 DEF IInv, TypeOK
  <2>3. now \in Nat
    BY <1>1, HolderState
  <2> QED BY <2>2, <2>3, Streaks
<1> HIDE DEF o
<1> QED BY <1>1, <1>2, <1>3, ObserveInv

(* A rule is let through, its cooldown saved. *)
LEMMA ClaimInv ==
  ASSUME IInv, NEW p \in Procs, Claim(p)
  PROVE  StepOK
<1> DEFINE s == Reserve(mem[p], at[p].c, at[p].r, now, Cooldown)
           verdict == IF ReadOnly(p) THEN "dry-run" ELSE "execute"
<1>1. /\ pc[p] = "claim" /\ Save(p, s, "act")
      /\ status' = [status EXCEPT ![p] = verdict]
      /\ UNCHANGED <<lock, now, job, prev, todo, at, issued>>
  BY DEF Claim
<1>2. at[p].c \in Containers /\ at[p].r \in Rules
  BY <1>1 DEF IInv, LocalInv, PlaceOK
<1>3. mem[p] \in State /\ FitsVersion(mem[p]) /\ now \in Nat
      /\ mem[p].version \in 0 .. 4
  BY <1>1, HolderState
<1>4. /\ s \in State /\ FitsVersion(s) /\ s.version >= mem[p].version
      /\ s.restarts = mem[p].restarts
  <2>1. at[p].r \in Keys /\ Cooldown \in Nat
    BY <1>2, OptionsAssumption DEF Keys
  <2>2. /\ s \in State /\ FitsVersion(s) /\ s.version = mem[p].version
        /\ s.restarts = mem[p].restarts
    BY <1>2, <1>3, <2>1, ReserveState
  <2> QED BY <1>3, <2>2
<1> HIDE DEF s
<1>5. pc'[p] \in {"act", "exit"}
  BY <1>1 DEF Save, IInv, TypeOK
<1>6. status' \in [Procs -> StatusNames] /\ status'[p] = verdict
  BY <1>1 DEF IInv, TypeOK, StatusNames
<1>7. PlaceOK(p)' /\ JobOK(p)'
  BY <1>1, <1>2, <1>5, <1>6 DEF PlaceOK, JobOK, ReadOnly
<1>8. "act" \in PcNames \ {"idle", "load", "run"}
  BY DEF PcNames
<1> QED BY <1>1, <1>4, <1>6, <1>7, <1>8, PlainSave DEF IInv, TypeOK

(***************************************************************************)
(* The steps that count or send restarts.                                  *)
(***************************************************************************)
LEMMA ReserveAttemptInv ==
  ASSUME IInv, NEW p \in Procs, ReserveAttempt(p)
  PROVE  StepOK
<1> DEFINE c == at[p].c
           s == ReserveRestart(mem[p], c)
<1>1. /\ pc[p] = "act" /\ AtRestart(p) /\ at[p].c \in Containers /\ at[p].r \in Rules
      /\ UNCHANGED <<lock, now, job, prev, todo, at, issued>>
  BY DEF ReserveAttempt, IInv, LocalInv, PlaceOK
<1>2. /\ mem[p] \in State /\ FitsVersion(mem[p]) /\ mem[p].version >= 1
      /\ mem[p].version \in 0 .. 4
      /\ disk.restarts \in [Containers -> Nat] /\ issued \in [Containers -> Nat]
      /\ ~ReadOnly(p) => mem[p].restarts = disk.restarts
  BY <1>1, HolderState
<1>3. CASE CanReserveRestart(mem[p], c, MaxRestarts)
  <2>1. Save(p, s, "run") /\ status' = status
    BY <1>3 DEF ReserveAttempt
  <2>2. /\ s \in State /\ FitsVersion(s) /\ s.version >= mem[p].version
        /\ s.restarts = [mem[p].restarts EXCEPT ![c] = @ + 1]
    BY <1>1, <1>2, ReserveRestartState
  <2> HIDE DEF s
  <2>3. s.version >= 1
    <3>1. s.version \in 0 .. 4
      BY <2>2 DEF State
    <3> QED BY <1>2, <2>2, <3>1
  <2>4. /\ disk' \in {disk, s} /\ (ReadOnly(p) => disk' = disk)
        /\ pc'[p] \in {"run", "exit"}
        /\ MemOK(p)' /\ (pc'[p] # "exit" => mem'[p] = s)
        /\ disk' \in State /\ FitsVersion(disk')
    <3>1. "run" \in PcNames
      BY DEF PcNames
    <3> QED BY <1>1, <2>1, <2>2, <2>3, <3>1, SaveStep
  <2>5. mem[p].restarts[c] < MaxRestarts /\ MaxRestarts \in Nat
    BY <1>3, OptionsAssumption DEF CanReserveRestart
  <2>6. BudgetRespected'
    <3>1. CASE disk' = disk
      BY <1>1, <3>1 DEF IInv, BudgetRespected
    <3>2. CASE disk' = s /\ ~ReadOnly(p)
      <4>1. disk'.restarts = [disk.restarts EXCEPT ![c] = @ + 1]
        BY <1>2, <2>2, <3>2
      <4>2. disk.restarts[c] < MaxRestarts
        BY <1>2, <2>5, <3>2
      <4>3. ASSUME NEW d \in Containers
            PROVE  issued'[d] <= disk'.restarts[d] /\ disk'.restarts[d] <= MaxRestarts
        <5>1. /\ issued[d] \in Nat /\ disk.restarts[d] \in Nat
              /\ issued[d] <= disk.restarts[d] /\ disk.restarts[d] <= MaxRestarts
              /\ issued'[d] = issued[d]
          BY <1>1, <1>2 DEF IInv, BudgetRespected
        <5>2. disk'.restarts[d] = IF d = c THEN disk.restarts[d] + 1 ELSE disk.restarts[d]
          BY <1>1, <1>2, <4>1
        <5> QED BY <2>5, <4>2, <5>1, <5>2
      <4> QED BY <4>3 DEF BudgetRespected
    <3> QED BY <2>4, <3>1, <3>2
  <2>7. PlaceOK(p)' /\ JobOK(p)'
    BY <1>1, <2>1, <2>4 DEF PlaceOK, JobOK, ReadOnly, IInv, LocalInv
  <2>8. AheadOK(p)'
    <3> SUFFICES ASSUME pc'[p] = "run", status'[p] = "execute"
                 PROVE  issued'[c] < disk'.restarts[c]
      BY <1>1 DEF AheadOK
    <3>1. ~ReadOnly(p) /\ ~ReadOnly(p)'
      BY <1>1, <2>1 DEF IInv, LocalInv, JobOK, ReadOnly
    <3>2. disk'.restarts = s.restarts
      <4>1. s = Loaded(disk')
        BY <2>4, <3>1 DEF MemOK, Writing
      <4> QED BY <2>4, <4>1, LoadedState
    <3>3. issued[c] \in Nat /\ disk.restarts[c] \in Nat /\ issued[c] <= disk.restarts[c]
      BY <1>1, <1>2 DEF IInv, BudgetRespected
    <3>4. disk'.restarts[c] = disk.restarts[c] + 1
      BY <1>1, <1>2, <2>2, <3>1, <3>2
    <3> QED BY <1>1, <3>3, <3>4
  <2>9. "run" \in PcNames \ {"idle", "load"}
    BY DEF PcNames
  <2>10. IInv'
    BY <1>1, <2>1, <2>2, <2>3, <2>6, <2>7, <2>8, <2>9, SavingStep DEF IInv, TypeOK
  <2>11. BudgetStep
    <3>1. CASE disk' = disk
      BY <1>1, <3>1 DEF BudgetStep
    <3>2. CASE disk' = s /\ ~ReadOnly(p)
      <4>1. disk'.restarts = [disk.restarts EXCEPT ![c] = @ + 1]
        BY <1>2, <2>2, <3>2
      <4>2. disk.restarts[c] < MaxRestarts
        BY <1>2, <2>5, <3>2
      <4>3. Budget!Reserve(c)
        BY <1>1, <4>1, <4>2 DEF Budget!Reserve
      <4> QED BY <1>1, <4>3 DEF BudgetStep, Budget!Next
    <3> QED BY <2>4, <3>1, <3>2
  <2> QED BY <2>10, <2>11 DEF StepOK
<1>4. CASE ~CanReserveRestart(mem[p], c, MaxRestarts)
  <2>1. /\ status' = [status EXCEPT ![p] = "restart-limit"]
        /\ pc' = [pc EXCEPT ![p] = "run"] /\ UNCHANGED <<disk, mem>>
    BY <1>4 DEF ReserveAttempt
  <2>2. status' \in [Procs -> StatusNames] /\ status'[p] = "restart-limit" /\ pc'[p] = "run"
    BY <2>1 DEF IInv, TypeOK, StatusNames
  <2>3. PlaceOK(p)' /\ JobOK(p)' /\ AheadOK(p)'
    BY <1>1, <2>2 DEF PlaceOK, JobOK, AheadOK
  <2>4. "run" \in PcNames \ {"idle", "load"}
    BY DEF PcNames
  <2> QED BY <1>1, <2>1, <2>2, <2>3, <2>4, QuietStep DEF IInv, TypeOK
<1> QED BY <1>3, <1>4

(* A command is sent: it has been counted before. *)
LEMMA ExecuteInv ==
  ASSUME IInv, NEW p \in Procs, Execute(p)
  PROVE  StepOK
<1> DEFINE c == at[p].c
<1>1. /\ pc[p] = "run" /\ status[p] = "execute" /\ c \in Containers
      /\ at[p].r \in Rules
      /\ at' = [at EXCEPT ![p].i = @ + 1]
      /\ issued' = IF AtRestart(p) THEN [issued EXCEPT ![c] = @ + 1] ELSE issued
      /\ UNCHANGED <<lock, disk, now, job, mem, prev, todo, status>>
  BY DEF Execute, IInv, LocalInv, PlaceOK
<1>2. PICK to \in {"act", "exit"} : pc' = [pc EXCEPT ![p] = to]
  BY DEF Execute
<1>3. /\ disk.restarts \in [Containers -> Nat] /\ issued \in [Containers -> Nat]
  BY <1>1, HolderState
<1>4. pc'[p] = to /\ pc' \in [Procs -> PcNames]
  BY <1>2 DEF IInv, TypeOK, PcNames
<1>5. /\ at' \in [Procs -> [c : Containers \cup {None}, r : Nat, i : Nat]]
      /\ at'[p].c = at[p].c /\ at'[p].r = at[p].r
  BY <1>1, NextAction DEF IInv, TypeOK
<1>6. issued' \in [Containers -> Nat]
  BY <1>1, <1>3
<1>7. TypeOK'
  BY <1>1, <1>4, <1>5, <1>6 DEF IInv, TypeOK
<1>8. BudgetRespected'
  <2>1. AtRestart(p) => issued[c] < disk.restarts[c]
    BY <1>1 DEF IInv, LocalInv, AheadOK
  <2>2. ASSUME NEW d \in Containers
        PROVE  issued'[d] <= disk.restarts[d]
    <3>1. issued[d] \in Nat /\ disk.restarts[d] \in Nat /\ issued[d] <= disk.restarts[d]
      BY <1>3 DEF IInv, BudgetRespected
    <3>2. issued'[d] = IF AtRestart(p) /\ d = c THEN issued[d] + 1 ELSE issued[d]
      BY <1>1, <1>3
    <3> QED BY <2>1, <3>1, <3>2
  <2> QED BY <1>1, <2>2 DEF IInv, BudgetRespected
<1>9. LocalInv(p)'
  <2>1. PlaceOK(p)' /\ JobOK(p)' /\ AheadOK(p)'
    BY <1>1, <1>4, <1>5 DEF PlaceOK, JobOK, AheadOK, IInv, LocalInv, ReadOnly
  <2>2. HolderOK(p)' /\ MemOK(p)'
    BY <1>1, <1>4 DEF IInv, LocalInv, HolderOK, MemOK, Writing, ReadOnly, FitsVersion
  <2> QED BY <2>1, <2>2 DEF LocalInv
<1>10. FitsVersion(disk)'
  BY <1>1 DEF IInv, FitsVersion
<1>11. \A q \in Procs \ {p} : pc'[q] = pc[q] /\ mem'[q] = mem[q]
  BY <1>1, <1>2 DEF IInv, TypeOK
<1>12. IInv'
  BY <1>1, <1>7, <1>8, <1>9, <1>10, <1>11, HolderStep
<1>13. BudgetStep
  <2>1. CASE AtRestart(p)
    <3>1. issued[c] < disk.restarts[c]
      BY <1>1, <2>1 DEF IInv, LocalInv, AheadOK
    <3>2. Budget!Send(c)
      BY <1>1, <2>1, <3>1 DEF Budget!Send
    <3> QED BY <1>1, <3>2 DEF BudgetStep, Budget!Next
  <2>2. CASE ~AtRestart(p)
    BY <1>1, <2>2 DEF BudgetStep
  <2> QED BY <2>1, <2>2
<1> QED BY <1>12, <1>13 DEF StepOK

(* A budget is reset, by the service or by the offline command. *)
LEMMA RearmInv ==
  ASSUME IInv, NEW p \in Procs, pc[p] \in {"operate", "offline"},
         NEW c \in Containers, Rearm(p, c),
         UNCHANGED <<lock, now, job, prev, todo, at, status>>
  PROVE  StepOK
<1> DEFINE s == ResetRestarts(mem[p], c)
<1>1. /\ Save(p, s, "exit")
      /\ issued' = [issued EXCEPT ![c] = IF disk'.restarts[c] = 0 THEN 0 ELSE @]
  BY DEF Rearm
<1>2. /\ mem[p] \in State /\ FitsVersion(mem[p]) /\ mem[p].version >= 1
      /\ mem[p].version \in 0 .. 4
      /\ disk.restarts \in [Containers -> Nat] /\ issued \in [Containers -> Nat]
      /\ mem[p].restarts = disk.restarts
  BY HolderState DEF IInv, LocalInv, JobOK
<1>3. /\ s \in State /\ FitsVersion(s) /\ s.version >= mem[p].version
      /\ s.restarts = [mem[p].restarts EXCEPT ![c] = 0]
  BY <1>2, ResetRestartsState
<1> HIDE DEF s
<1>4. s.version >= 1
  <2>1. s.version \in 0 .. 4
    BY <1>3 DEF State
  <2> QED BY <1>2, <1>3, <2>1
<1>5. "exit" \in PcNames \ {"idle", "load"} /\ "exit" \in PcNames
  BY DEF PcNames
<1>6. disk' \in {disk, s} /\ pc'[p] = "exit"
  BY <1>1, <1>3, <1>4, <1>5, SaveStep
<1>7. issued' \in [Containers -> Nat]
  BY <1>1, <1>2
<1>8. BudgetRespected'
  <2>1. ASSUME NEW d \in Containers
        PROVE  issued'[d] <= disk'.restarts[d] /\ disk'.restarts[d] <= MaxRestarts
    <3>1. /\ issued[d] \in Nat /\ disk.restarts[d] \in Nat /\ MaxRestarts \in Nat
          /\ issued[d] <= disk.restarts[d] /\ disk.restarts[d] <= MaxRestarts
      BY <1>2, OptionsAssumption DEF IInv, BudgetRespected
    <3>2. disk'.restarts[d] = disk.restarts[d] \/ (d = c /\ disk'.restarts[d] = 0)
      BY <1>2, <1>3, <1>6
    <3>3. issued'[d] = IF d = c /\ disk'.restarts[d] = 0 THEN 0 ELSE issued[d]
      BY <1>1, <1>2
    <3> QED BY <3>1, <3>2, <3>3
  <2> QED BY <2>1 DEF BudgetRespected
<1>9. PlaceOK(p)' /\ JobOK(p)' /\ AheadOK(p)'
  BY <1>6 DEF PlaceOK, JobOK, AheadOK
<1>10. IInv'
  BY <1>1, <1>3, <1>4, <1>5, <1>7, <1>8, <1>9, SavingStep DEF IInv, TypeOK
<1>11. BudgetStep
  <2>1. disk.restarts[c] > 0
    BY <1>2 DEF Rearm
  <2>2. CASE disk' = disk
    <3>1. disk'.restarts[c] # 0
      BY <1>2, <2>1, <2>2
    <3>2. issued' = issued
      BY <1>1, <1>2, <3>1
    <3> QED BY <2>2, <3>2 DEF BudgetStep
  <2>3. CASE disk' = s
    <3>1. disk'.restarts = [disk.restarts EXCEPT ![c] = 0] /\ disk'.restarts[c] = 0
      BY <1>2, <1>3, <2>3
    <3>2. issued' = [issued EXCEPT ![c] = 0]
      BY <1>1, <3>1
    <3>3. Budget!Rearm(c)
      BY <2>1, <3>1, <3>2 DEF Budget!Rearm
    <3> QED BY <3>3 DEF BudgetStep, Budget!Next
  <2> QED BY <1>6, <2>2, <2>3
<1> QED BY <1>10, <1>11 DEF StepOK

(* Maintenance is set or cleared, by either. *)
LEMMA MaintainInv ==
  ASSUME IInv, NEW p \in Procs, pc[p] \in {"operate", "offline"},
         NEW c \in Containers, Maintain(p, c),
         UNCHANGED <<lock, now, job, prev, todo, at, status>>
  PROVE  StepOK
<1>1. PICK seconds \in Durations : Save(p, SetMaintenance(mem[p], c, seconds, now), "exit")
  BY DEF Maintain
<1> DEFINE s == SetMaintenance(mem[p], c, seconds, now)
<1>2. mem[p] \in State /\ FitsVersion(mem[p]) /\ now \in Nat /\ seconds \in Nat
  BY HolderState, OptionsAssumption
<1>3. /\ s \in State /\ FitsVersion(s) /\ s.version >= mem[p].version
      /\ s.restarts = mem[p].restarts
  BY <1>2, SetMaintenanceState
<1>4. Save(p, s, "exit") /\ UNCHANGED issued
  BY <1>1 DEF Maintain
<1> HIDE DEF s
<1>5. "exit" \in PcNames \ {"idle", "load", "run"}
  BY DEF PcNames
<1> QED BY <1>3, <1>4, <1>5, PlainSave DEF IInv, TypeOK

(* A manual action is claimed, its cooldown saved. *)
LEMMA ManualClaimInv ==
  ASSUME IInv, NEW p \in Procs, NEW c \in Containers, NEW op \in ManualOperations,
         ManualClaim(p, c, op)
  PROVE  StepOK
<1> DEFINE s == Reserve(mem[p], c, Manual, now, ActionCooldown)
<1>1. /\ pc[p] = "manual" /\ Save(p, s, "operate")
      /\ at' = [at EXCEPT ![p].c = c]
      /\ status' = [status EXCEPT ![p] = op]
      /\ UNCHANGED <<lock, now, job, prev, todo, issued>>
  BY DEF ManualClaim
<1>2. mem[p] \in State /\ FitsVersion(mem[p]) /\ now \in Nat
      /\ mem[p].version \in 0 .. 4
  BY <1>1, HolderState
<1>3. Manual \in Keys /\ ActionCooldown \in Nat
  BY OptionsAssumption DEF Keys
<1>4. /\ s \in State /\ FitsVersion(s) /\ s.version >= mem[p].version
      /\ s.restarts = mem[p].restarts
  <2>1. /\ s \in State /\ FitsVersion(s) /\ s.version = mem[p].version
        /\ s.restarts = mem[p].restarts
    BY <1>2, <1>3, ReserveState
  <2> QED BY <1>2, <2>1
<1> HIDE DEF s
<1>5. /\ at' \in [Procs -> [c : Containers \cup {None}, r : Nat, i : Nat]]
      /\ at'[p].c = c
  BY <1>1 DEF IInv, TypeOK
<1>6. status' \in [Procs -> StatusNames]
  BY <1>1 DEF IInv, TypeOK, StatusNames, ManualOperations
<1>7. pc'[p] \in {"operate", "exit"}
  BY <1>1 DEF Save, IInv, TypeOK
<1>8. PlaceOK(p)' /\ JobOK(p)'
  BY <1>1, <1>5, <1>7 DEF PlaceOK, JobOK, ReadOnly, IInv, LocalInv
<1>9. "operate" \in PcNames \ {"idle", "load", "run"}
  BY DEF PcNames
<1> QED BY <1>1, <1>4, <1>5, <1>6, <1>8, <1>9, PlainSave DEF IInv, TypeOK

(* The other steps of manual and offline sessions. *)
LEMMA QuietOperatorInv ==
  ASSUME IInv, NEW p \in Procs, QuietOperatorStep(p)
  PROVE  StepOK
<1>1. /\ pc[p] \in {"manual", "operate", "offline"} /\ pc' = [pc EXCEPT ![p] = "exit"]
      /\ UNCHANGED <<lock, disk, now, job, mem, prev, todo, at, status, issued>>
  BY DEF QuietOperatorStep, ManualRejected, ManualDocker, OfflineNothing
<1>2. pc'[p] = "exit"
  BY <1>1 DEF IInv, TypeOK
<1>3. PlaceOK(p)' /\ JobOK(p)' /\ AheadOK(p)'
  BY <1>2 DEF PlaceOK, JobOK, AheadOK
<1>4. "exit" \in PcNames \ {"idle", "load"}
  BY DEF PcNames
<1> QED BY <1>1, <1>3, <1>4, QuietStep DEF IInv, TypeOK

(* The clock moves, or nothing does.                                       *)
LEMMA ClockInv ==
  ASSUME IInv, UNCHANGED <<lock, disk, session, issued>>, now' \in 1 .. MaxTime
  PROVE  StepOK
<1>1. TypeOK'
  BY DEF IInv, TypeOK, session
<1>2. FitsVersion(disk)' /\ BudgetRespected'
  BY DEF IInv, FitsVersion, BudgetRespected
<1>3. \A p \in Procs : LocalInv(p)'
  <2> SUFFICES ASSUME NEW p \in Procs PROVE LocalInv(p)'
    OBVIOUS
  <2>1. UNCHANGED <<pc, job, mem, prev, todo, at, status>>
    BY DEF session
  <2>2. HolderOK(p)' /\ PlaceOK(p)' /\ JobOK(p)'
    BY <2>1 DEF IInv, LocalInv, HolderOK, PlaceOK, JobOK, ReadOnly
  <2>3. MemOK(p)'
    BY <2>1 DEF IInv, LocalInv, MemOK, Writing, ReadOnly, FitsVersion
  <2>4. AheadOK(p)'
    BY <2>1 DEF IInv, LocalInv, AheadOK, AtRestart
  <2> QED BY <2>2, <2>3, <2>4 DEF LocalInv
<1>4. BudgetStep
  BY DEF BudgetStep
<1> QED BY <1>1, <1>2, <1>3, <1>4 DEF IInv, StepOK

-----------------------------------------------------------------------------
(***************************************************************************)
(* The invariant is inductive.                                             *)
(***************************************************************************)
LEMMA NextInv == IInv /\ [Next]_vars => StepOK
<1> SUFFICES ASSUME IInv, [Next]_vars PROVE StepOK
  OBVIOUS
<1>1. CASE UNCHANGED vars
  <2>1. now' \in 1 .. MaxTime
    BY <1>1 DEF vars, IInv, TypeOK
  <2> QED BY <1>1, <2>1, ClockInv DEF vars
<1>2. CASE Tick
  <2>1. now' \in 1 .. MaxTime
    BY <1>2 DEF Tick
  <2> QED BY <1>2, <2>1, ClockInv DEF Tick
<1>3. ASSUME NEW p \in Procs, NEW j \in Jobs, Lock(p, j) PROVE StepOK
  BY <1>3, LockInv
<1>4. ASSUME NEW p \in Procs, Load(p) PROVE StepOK
  BY <1>4, LoadInv
<1>5. ASSUME NEW p \in Procs, CycleStep(p) \/ Raise(p) PROVE StepOK
  BY <1>5, QuietCycleInv, ExpireInv, ClearInv, ObserveUnmatchedInv, ObserveMaskedInv,
     ObserveMatchedInv, ClaimInv, ReserveAttemptInv, ExecuteInv
  DEF CycleStep, QuietCycleStep
<1>6. ASSUME NEW p \in Procs, OperatorStep(p) PROVE StepOK
  <2>1. ASSUME NEW c \in Containers, OfflineRearm(p, c) PROVE StepOK
    BY <2>1, RearmInv DEF OfflineRearm
  <2>2. ASSUME NEW c \in Containers, OfflineMaintenance(p, c) PROVE StepOK
    BY <2>2, MaintainInv DEF OfflineMaintenance
  <2>3. ASSUME ManualRearm(p) PROVE StepOK
    <3>1. at[p].c \in Containers
      BY <2>3 DEF ManualRearm, IInv, LocalInv, PlaceOK
    <3> QED BY <2>3, <3>1, RearmInv DEF ManualRearm
  <2>4. ASSUME ManualMaintenance(p) PROVE StepOK
    <3>1. at[p].c \in Containers
      BY <2>4 DEF ManualMaintenance, IInv, LocalInv, PlaceOK
    <3> QED BY <2>4, <3>1, MaintainInv DEF ManualMaintenance
  <2> QED BY <1>6, <2>1, <2>2, <2>3, <2>4, ManualClaimInv, QuietOperatorInv
      DEF OperatorStep, QuietOperatorStep
<1>7. ASSUME NEW p \in Procs, Exit(p) \/ Crash(p) PROVE StepOK
  BY <1>7, CloseInv DEF Exit, Crash
<1> QED BY <1>1, <1>2, <1>3, <1>4, <1>5, <1>6, <1>7 DEF Next, Step

(* Invariance: the inductive invariant holds in every state. *)
THEOREM Invariance == Spec => []IInv
<1>1. IInv /\ [Next]_vars => IInv'
  BY NextInv DEF StepOK
<1> QED BY <1>1, InitInv, PTL DEF Spec

-----------------------------------------------------------------------------
(***************************************************************************)
(* The results.                                                            *)
(***************************************************************************)

(* TypeCorrect: every variable keeps its type: times, counts and versions  *)
(* of the file and of every session stay in their ranges.                  *)
THEOREM TypeCorrect == Spec => []TypeOK
<1>1. IInv => TypeOK
  BY DEF IInv
<1> QED BY <1>1, Invariance, PTL

(* MemoryIsFile: a session decides on what the file says, for any number   *)
(* of processes, whatever fails (LocalState.__enter__ locks, then loads).  *)
THEOREM MemoryIsFile == Spec => []MemMatchesDisk
<1>1. IInv => MemMatchesDisk
  BY DEF IInv, LocalInv, MemOK, MemMatchesDisk
<1> QED BY <1>1, Invariance, PTL

(* BudgetHolds: no container is sent more automatic restarts than          *)
(* MaxRestarts without a rearm, and none that is not already counted in    *)
(* the file (RestartPolicy, LocalState.reserve_restart).                   *)
THEOREM BudgetHolds == Spec => []BudgetRespected
<1>1. IInv => BudgetRespected
  BY DEF IInv
<1> QED BY <1>1, Invariance, PTL

(* BudgetImplemented: the file and the commands sent behave as the         *)
(* abstract restart budget: whatever is interleaved, killed or fails,      *)
(* each step reserves, sends what was reserved, rearms, or does none.      *)
THEOREM BudgetImplemented == Spec => ImplementsBudget
<1>1. Init => Budget!Init
  BY FreshState DEF Init, Budget!Init
<1>2. IInv /\ [Next]_vars => [Budget!Next]_<<disk.restarts, issued>>
  BY NextInv DEF StepOK, BudgetStep
<1> QED BY <1>1, <1>2, Invariance, PTL DEF Spec, ImplementsBudget, Budget!Spec

-----------------------------------------------------------------------------
(***************************************************************************)
(* Every file that is written can be loaded.  IInv has the fields that a   *)
(* schema version carries; the order of the times needs an invariant of    *)
(* its own, because a streak goes from the file to the memory, from there  *)
(* to the policy, which extends it, and back into the file.                *)
(***************************************************************************)
OInv ==
  /\ disk = NoFile \/ (disk.version >= 1 /\ Ordered(disk.observations))
  /\ \A p \in Procs : Ordered(mem[p].observations) /\ Ordered(prev[p])

LEMMA OrderedNone ==
  Ordered(NoObservations) /\ Ordered(Fresh.observations) /\ Ordered(NoFile.observations)
<1>1. Ordered(NoObservations)
  BY DEF Ordered, NoObservations, NoObs
<1>2. Fresh.observations = NoObservations /\ NoFile.observations = Fresh.observations
  BY FreshState DEF Fresh, NoFile, State
<1> QED BY <1>1, <1>2

(* What a pass observes now is in order, wherever the clock stands.        *)
LEMMA OrderedStreak ==
  ASSUME NEW old \in Observation, old.since <= old.last, NEW t \in Nat
  PROVE  Streak(old, t).since <= Streak(old, t).last
<1>1. CASE old = NoObs \/ t < old.last \/ t - old.last > MaxGap
  BY <1>1 DEF Streak
<1>2. CASE ~(old = NoObs \/ t < old.last \/ t - old.last > MaxGap)
  <2>1. Streak(old, t) = [since |-> old.since, last |-> t]
    BY <1>2 DEF Streak
  <2>2. old.since <= t
    BY <1>2 DEF Observation
  <2> QED BY <2>1, <2>2
<1> QED BY <1>1, <1>2

LEMMA OrderedReplaced ==
  ASSUME NEW f \in [Containers \X Rules -> Observation], Ordered(f),
         NEW k \in Containers \X Rules, NEW o \in Observation, o.since <= o.last
  PROVE  Ordered([f EXCEPT ![k] = o])
BY DEF Ordered

(***************************************************************************)
(* A session that saves s, or fails to, leaves what can be loaded.         *)
(***************************************************************************)
LEMMA OrderedSave ==
  ASSUME IInv, OInv, NEW p \in Procs, pc[p] \notin {"idle", "load", "exit"},
         NEW s \in State, FitsVersion(s), s.version >= mem[p].version,
         Ordered(s.observations), NEW then \in PcNames, Save(p, s, then),
         UNCHANGED job, \A q \in Procs : Ordered(prev'[q])
  PROVE  OInv'
<1>1. s.version >= 1
  <2>1. mem[p].version >= 1 /\ mem[p].version \in 0 .. 4 /\ s.version \in 0 .. 4
    BY HolderState DEF State
  <2> QED BY <2>1
<1>2. /\ disk' \in {disk, s} /\ mem'[p] \in {mem[p], s}
      /\ \A q \in Procs \ {p} : mem'[q] = mem[q]
  BY <1>1, SaveStep
<1>3. \A q \in Procs : Ordered(mem'[q].observations)
  BY <1>2 DEF OInv
<1>4. disk' = NoFile \/ (disk'.version >= 1 /\ Ordered(disk'.observations))
  BY <1>1, <1>2 DEF OInv
<1> QED BY <1>3, <1>4 DEF OInv, Ordered

(* A save that leaves the observations alone.                              *)
LEMMA OrderedOther ==
  ASSUME IInv, OInv, NEW p \in Procs, pc[p] \notin {"idle", "load", "exit"},
         NEW s \in State, FitsVersion(s), s.version >= mem[p].version,
         s.observations \in {mem[p].observations, NoObservations},
         NEW then \in PcNames, Save(p, s, then), UNCHANGED <<job, prev>>
  PROVE  OInv'
<1>1. Ordered(s.observations) /\ \A q \in Procs : Ordered(prev'[q])
  BY OrderedNone DEF OInv
<1> QED BY <1>1, OrderedSave

(* Steps that touch neither the file, nor a memory, nor a policy.          *)
LEMMA OrderedQuiet ==
  ASSUME OInv, UNCHANGED <<disk, mem, prev>>
  PROVE  OInv'
BY DEF OInv, Ordered

LEMMA LoadOrdered ==
  ASSUME IInv, OInv, NEW p \in Procs, Load(p)
  PROVE  OInv'
<1>1. mem' = [mem EXCEPT ![p] = Loaded(disk)] /\ UNCHANGED <<disk, prev>>
  BY DEF Load
<1>2. Ordered(Loaded(disk).observations)
  BY OrderedNone DEF Loaded, OInv
<1>3. \A q \in Procs : Ordered(mem'[q].observations)
  BY <1>1, <1>2 DEF IInv, TypeOK, OInv
<1> QED BY <1>1, <1>3 DEF OInv, Ordered

LEMMA CloseOrdered ==
  ASSUME IInv, OInv, NEW p \in Procs, Close(p)
  PROVE  OInv'
<1>1. /\ mem' = [mem EXCEPT ![p] = Fresh] /\ prev' = [prev EXCEPT ![p] = NoObservations]
      /\ UNCHANGED disk
  BY DEF Close
<1>2. \A q \in Procs : Ordered(mem'[q].observations) /\ Ordered(prev'[q])
  BY <1>1, OrderedNone DEF IInv, TypeOK, OInv
<1> QED BY <1>1, <1>2 DEF OInv, Ordered

(* Expiry drops every streak or none.                                      *)
LEMMA ExpireOrdered ==
  ASSUME IInv, OInv, NEW p \in Procs, Expire(p)
  PROVE  OInv'
<1> DEFINE s == ExpireMaintenance(mem[p], now)
<1>1. pc[p] = "expire" /\ Save(p, s, "clear") /\ UNCHANGED <<job, prev>>
  BY DEF Expire
<1>2. mem[p] \in State /\ FitsVersion(mem[p]) /\ now \in Nat /\ mem[p].version \in 0 .. 4
  BY <1>1, HolderState
<1>3. s \in State /\ FitsVersion(s) /\ s.version = mem[p].version
  BY <1>2, ExpireMaintenanceState
<1>4. s.observations \in {mem[p].observations, NoObservations}
  BY <1>2 DEF ExpireMaintenance, State
<1> HIDE DEF s
<1>5. s.version >= mem[p].version /\ "clear" \in PcNames
  BY <1>2, <1>3 DEF PcNames
<1> QED BY <1>1, <1>3, <1>4, <1>5, OrderedOther

(* The policy takes the streaks of the file, and the file forgets them.    *)
LEMMA ClearOrdered ==
  ASSUME IInv, OInv, NEW p \in Procs, Clear(p)
  PROVE  OInv'
<1> DEFINE s == ReplaceObservations(mem[p], NoObservations)
<1>1. /\ pc[p] = "clear" /\ Save(p, s, "select") /\ UNCHANGED job
      /\ prev' = [prev EXCEPT ![p] = mem[p].observations]
  BY DEF Clear
<1>2. mem[p] \in State /\ FitsVersion(mem[p])
  BY <1>1, HolderState
<1>3. s \in State /\ FitsVersion(s) /\ s.version >= mem[p].version
  BY <1>2, ReplaceObservationsState, FreshState
<1>4. s.observations = NoObservations
  BY <1>2 DEF ReplaceObservations, State
<1>5. \A q \in Procs : Ordered(prev'[q])
  BY <1>1 DEF IInv, TypeOK, OInv
<1>6. Ordered(s.observations) /\ "select" \in PcNames
  BY <1>4, OrderedNone DEF PcNames
<1> HIDE DEF s
<1> QED BY <1>1, <1>3, <1>5, <1>6, OrderedSave

(* One streak is replaced, in the policy, the memory and the file.         *)
LEMMA ObserveOrdered ==
  ASSUME IInv, OInv, NEW p \in Procs, pc[p] = "observe",
         NEW o \in Observation, o.since <= o.last, NEW then \in {"match", "decide"},
         prev' = [prev EXCEPT ![p][<<at[p].c, at[p].r>>] = o],
         Save(p, ReplaceObservations(mem[p],
                [mem[p].observations EXCEPT ![<<at[p].c, at[p].r>>] = o]), then),
         UNCHANGED job
  PROVE  OInv'
<1> DEFINE k == <<at[p].c, at[p].r>>
           f == [mem[p].observations EXCEPT ![k] = o]
           s == ReplaceObservations(mem[p], f)
<1>1. k \in Containers \X Rules
  BY DEF IInv, LocalInv, PlaceOK
<1>2. mem[p] \in State /\ FitsVersion(mem[p])
  BY HolderState
<1>3. mem[p].observations \in [Containers \X Rules -> Observation]
  BY <1>2 DEF State
<1>4. Save(p, s, then) /\ prev' = [prev EXCEPT ![p] = [prev[p] EXCEPT ![k] = o]]
  OBVIOUS
<1> HIDE DEF k
<1>5. f \in [Containers \X Rules -> Observation] /\ Ordered(f)
  BY <1>1, <1>3, OneObservation, OrderedReplaced DEF OInv
<1>6. \A q \in Procs : Ordered(prev'[q])
  <2>1. prev \in [Procs -> [Containers \X Rules -> Observation]]
    BY DEF IInv, TypeOK
  <2>2. Ordered([prev[p] EXCEPT ![k] = o])
    BY <1>1, <2>1, OrderedReplaced DEF OInv
  <2> QED BY <1>4, <2>1, <2>2 DEF OInv
<1> HIDE DEF f
<1>7. s \in State /\ FitsVersion(s) /\ s.version >= mem[p].version
  BY <1>2, <1>5, ReplaceObservationsState
<1>8. s.observations = f
  BY <1>2 DEF ReplaceObservations, State
<1> HIDE DEF s
<1>9. then \in PcNames
  BY DEF PcNames
<1> QED BY <1>4, <1>5, <1>6, <1>7, <1>8, <1>9, OrderedSave

LEMMA ObservingOrdered ==
  ASSUME IInv, OInv, NEW p \in Procs,
         ObserveUnmatched(p) \/ ObserveMasked(p) \/ ObserveMatched(p)
  PROVE  OInv'
<1>0. NoObs \in Observation /\ NoObs.since <= NoObs.last
  BY DEF NoObs, Observation
<1>1. CASE ObserveUnmatched(p) /\ Tracked(at[p].r)
  BY <1>0, <1>1, ObserveOrdered DEF ObserveUnmatched, Forget
<1>2. CASE ObserveUnmatched(p) /\ ~Tracked(at[p].r)
  BY <1>2, OrderedQuiet DEF ObserveUnmatched
<1>3. CASE ObserveMasked(p)
  BY <1>0, <1>3, ObserveOrdered DEF ObserveMasked, Forget
<1>4. CASE ObserveMatched(p)
  <2> DEFINE old == prev[p][<<at[p].c, at[p].r>>]
             o == Streak(old, now)
  <2>1. /\ pc[p] = "observe" /\ UNCHANGED job
        /\ prev' = [prev EXCEPT ![p][<<at[p].c, at[p].r>>] = o]
        /\ Save(p, ReplaceObservations(mem[p],
              [mem[p].observations EXCEPT ![<<at[p].c, at[p].r>>] = o]), "decide")
    BY <1>4 DEF ObserveMatched
  <2>2. <<at[p].c, at[p].r>> \in Containers \X Rules /\ now \in Nat
    BY <2>1, HolderState DEF IInv, LocalInv, PlaceOK
  <2>3. old \in Observation /\ old.since <= old.last
    BY <2>2 DEF IInv, TypeOK, OInv, Ordered
  <2> HIDE DEF old
  <2>4. o \in Observation /\ o.since <= o.last
    BY <2>2, <2>3, Streaks, OrderedStreak
  <2> HIDE DEF o
  <2> QED BY <2>1, <2>4, ObserveOrdered
<1> QED BY <1>1, <1>2, <1>3, <1>4

(* Cooldowns, attempts and maintenance.                                    *)
LEMMA ReservingOrdered ==
  ASSUME IInv, OInv, NEW p \in Procs, pc[p] \in {"claim", "manual"},
         NEW c \in Containers, NEW k \in Keys, NEW seconds \in Nat,
         NEW then \in PcNames,
         Save(p, Reserve(mem[p], c, k, now, seconds), then), UNCHANGED <<job, prev>>
  PROVE  OInv'
<1> DEFINE s == Reserve(mem[p], c, k, now, seconds)
<1>1. mem[p] \in State /\ FitsVersion(mem[p]) /\ now \in Nat /\ mem[p].version \in 0 .. 4
  BY HolderState
<1>2. s \in State /\ FitsVersion(s) /\ s.version = mem[p].version
  BY <1>1, ReserveState
<1>3. s.observations = mem[p].observations
  BY <1>1 DEF Reserve, State
<1>4. Save(p, s, then)
  OBVIOUS
<1> HIDE DEF s
<1>5. s.version >= mem[p].version
  BY <1>1, <1>2
<1> QED BY <1>2, <1>3, <1>4, <1>5, OrderedOther

LEMMA ClaimOrdered ==
  ASSUME IInv, OInv, NEW p \in Procs,
         \/ Claim(p)
         \/ \E c \in Containers : \E op \in ManualOperations : ManualClaim(p, c, op)
  PROVE  OInv'
<1>1. CASE Claim(p)
  <2>1. at[p].c \in Containers /\ at[p].r \in Keys /\ Cooldown \in Nat /\ "act" \in PcNames
    BY <1>1, OptionsAssumption DEF Claim, IInv, LocalInv, PlaceOK, Keys, PcNames
  <2> QED BY <1>1, <2>1, ReservingOrdered DEF Claim
<1>2. ASSUME NEW c \in Containers, NEW op \in ManualOperations, ManualClaim(p, c, op)
      PROVE  OInv'
  <2>1. Manual \in Keys /\ ActionCooldown \in Nat /\ "operate" \in PcNames
    BY OptionsAssumption DEF Keys, PcNames
  <2> QED BY <1>2, <2>1, ReservingOrdered DEF ManualClaim
<1> QED BY <1>1, <1>2

LEMMA ReserveAttemptOrdered ==
  ASSUME IInv, OInv, NEW p \in Procs, ReserveAttempt(p)
  PROVE  OInv'
<1> DEFINE s == ReserveRestart(mem[p], at[p].c)
<1>1. pc[p] = "act" /\ at[p].c \in Containers /\ UNCHANGED <<job, prev>>
  BY DEF ReserveAttempt, IInv, LocalInv, PlaceOK
<1>2. mem[p] \in State /\ FitsVersion(mem[p])
  BY <1>1, HolderState
<1>3. CASE CanReserveRestart(mem[p], at[p].c, MaxRestarts)
  <2>1. Save(p, s, "run")
    BY <1>3 DEF ReserveAttempt
  <2>2. s \in State /\ FitsVersion(s) /\ s.version >= mem[p].version
    BY <1>1, <1>2, ReserveRestartState
  <2>3. s.observations = mem[p].observations
    BY <1>2 DEF ReserveRestart, State
  <2> HIDE DEF s
  <2>4. "run" \in PcNames
    BY DEF PcNames
  <2> QED BY <1>1, <2>1, <2>2, <2>3, <2>4, OrderedOther
<1>4. CASE ~CanReserveRestart(mem[p], at[p].c, MaxRestarts)
  BY <1>1, <1>4, OrderedQuiet DEF ReserveAttempt
<1> QED BY <1>3, <1>4

LEMMA RearmOrdered ==
  ASSUME IInv, OInv, NEW p \in Procs, pc[p] \in {"operate", "offline"},
         NEW c \in Containers, Rearm(p, c), UNCHANGED <<job, prev>>
  PROVE  OInv'
<1> DEFINE s == ResetRestarts(mem[p], c)
<1>1. Save(p, s, "exit")
  BY DEF Rearm
<1>2. mem[p] \in State /\ FitsVersion(mem[p])
  BY HolderState
<1>3. s \in State /\ FitsVersion(s) /\ s.version >= mem[p].version
  BY <1>2, ResetRestartsState
<1>4. s.observations = mem[p].observations
  BY <1>2 DEF ResetRestarts, State
<1> HIDE DEF s
<1>5. "exit" \in PcNames
  BY DEF PcNames
<1> QED BY <1>1, <1>3, <1>4, <1>5, OrderedOther

LEMMA MaintainOrdered ==
  ASSUME IInv, OInv, NEW p \in Procs, pc[p] \in {"operate", "offline"},
         NEW c \in Containers, Maintain(p, c), UNCHANGED <<job, prev>>
  PROVE  OInv'
<1>1. PICK seconds \in Durations : Save(p, SetMaintenance(mem[p], c, seconds, now), "exit")
  BY DEF Maintain
<1> DEFINE s == SetMaintenance(mem[p], c, seconds, now)
<1>2. mem[p] \in State /\ FitsVersion(mem[p]) /\ now \in Nat /\ seconds \in Nat
  BY HolderState, OptionsAssumption
<1>3. s \in State /\ FitsVersion(s) /\ s.version >= mem[p].version
  BY <1>2, SetMaintenanceState
<1>4. s.observations = NoObservations
  BY <1>2 DEF SetMaintenance, State
<1>5. Save(p, s, "exit")
  BY <1>1
<1> HIDE DEF s
<1>6. "exit" \in PcNames
  BY DEF PcNames
<1> QED BY <1>3, <1>4, <1>5, <1>6, OrderedOther

LEMMA OperatorOrdered ==
  ASSUME IInv, OInv, NEW p \in Procs, OperatorStep(p)
  PROVE  OInv'
<1>1. ASSUME NEW c \in Containers, OfflineRearm(p, c) PROVE OInv'
  BY <1>1, RearmOrdered DEF OfflineRearm
<1>2. ASSUME NEW c \in Containers, OfflineMaintenance(p, c) PROVE OInv'
  BY <1>2, MaintainOrdered DEF OfflineMaintenance
<1>3. pc[p] = "operate" => at[p].c \in Containers
  BY DEF IInv, LocalInv, PlaceOK
<1>4. ASSUME ManualRearm(p) PROVE OInv'
  BY <1>3, <1>4, RearmOrdered DEF ManualRearm
<1>5. ASSUME ManualMaintenance(p) PROVE OInv'
  BY <1>3, <1>5, MaintainOrdered DEF ManualMaintenance
<1>6. ASSUME ManualRejected(p) \/ ManualDocker(p) \/ OfflineNothing(p) PROVE OInv'
  BY <1>6, OrderedQuiet DEF ManualRejected, ManualDocker, OfflineNothing
<1> QED BY <1>1, <1>2, <1>4, <1>5, <1>6, ClaimOrdered DEF OperatorStep

LEMMA NextOrdered == IInv /\ OInv /\ [Next]_vars => OInv'
<1> SUFFICES ASSUME IInv, OInv, [Next]_vars PROVE OInv'
  OBVIOUS
<1>1. CASE UNCHANGED vars \/ Tick
  BY <1>1, OrderedQuiet DEF vars, session, Tick
<1>2. ASSUME NEW p \in Procs, NEW j \in Jobs, Lock(p, j) PROVE OInv'
  BY <1>2, OrderedQuiet DEF Lock
<1>3. ASSUME NEW p \in Procs, QuietCycleStep(p) \/ Execute(p) PROVE OInv'
  BY <1>3, OrderedQuiet
  DEF QuietCycleStep, Execute, Raise, Select, NextContainer, EndCycle, ContainerDone, Match,
      ObserveUntracked, Decide, ClaimRefused, NoReservation, SkipAction, RuleDone
<1>4. ASSUME NEW p \in Procs, CycleStep(p) \/ Raise(p) PROVE OInv'
  BY <1>3, <1>4, ExpireOrdered, ClearOrdered, ObservingOrdered, ClaimOrdered,
     ReserveAttemptOrdered DEF CycleStep, QuietCycleStep
<1>5. ASSUME NEW p \in Procs, Exit(p) \/ Crash(p) PROVE OInv'
  BY <1>5, CloseOrdered DEF Exit, Crash
<1> QED BY <1>1, <1>2, <1>4, <1>5, LoadOrdered, OperatorOrdered DEF Next, Step

LEMMA InitOrdered == Init => OInv
BY OrderedNone DEF Init, OInv

(* FilesLoad: whatever fails, is killed or sets the clock back, the file   *)
(* is one that the next process can load: it has the fields of its schema  *)
(* version and no other, and no streak in it ends before it starts         *)
(* (LocalState._load, _validated_observations); and no session holds       *)
(* anything that its own save would drop or refuse.                        *)
THEOREM FilesLoad == Spec => []FileCarriesItsData
<1>1. IInv /\ OInv => FileCarriesItsData
  <2> SUFFICES ASSUME IInv, OInv PROVE FileCarriesItsData
    OBVIOUS
  <2>1. ASSUME NEW f \in State, FitsVersion(f), f.version >= 1, Ordered(f.observations)
        PROVE  Loadable(f)
    <3>1. Saved(f) = f
      BY <2>1, SavedState
    <3>2. f.version # 0
      BY <2>1
    <3> QED BY <2>1, <3>1, <3>2 DEF Loadable
  <2>2. Loadable(disk)
    BY <2>1 DEF IInv, TypeOK, OInv, Loadable
  <2>3. \A p \in Procs : Loadable(mem[p])
    BY <2>1 DEF IInv, TypeOK, LocalInv, MemOK, OInv
  <2> QED BY <2>2, <2>3 DEF FileCarriesItsData
<1>2. (IInv /\ OInv) /\ [Next]_vars => (IInv /\ OInv)'
  BY NextInv, NextOrdered DEF StepOK
<1> QED BY <1>1, <1>2, InitInv, InitOrdered, PTL DEF Spec

-----------------------------------------------------------------------------
(***************************************************************************)
(* What was decided, and what other sessions wrote.  A second invariant,   *)
(* on top of the first: the decision is about the memory of the session,   *)
(* which is the file as long as it matters.                                *)
(***************************************************************************)
Suspended(p) == ~ClockStepsBack /\ InMaintenance(mem[p], at[p].c, now)

Fits(p) ==
  ToReserve(p) = {} \/ mem[p].restarts[at[p].c] + Cardinality(ToReserve(p)) <= MaxRestarts

DecisionOK(p) ==
  /\ pc[p] = "claim" => ~Suspended(p) /\ Permits(mem[p], at[p].c, at[p].r)
  /\ pc[p] \in {"act", "run"} => status[p] # "claim"
  /\ pc[p] \in {"act", "run"} /\ Proceeding(p) => ~Suspended(p) /\ Fits(p)

ManualOK(p) == pc[p] \in {"manual", "operate"} => job[p] = "manual"

FileOK == disk.version = 0 => disk.cooldowns = Fresh.cooldowns

DInv == FileOK /\ \A p \in Procs : DecisionOK(p) /\ ManualOK(p)

(* A file that is absent holds as little as a new object. *)
LEMMA LoadedData ==
  ASSUME IInv, FileOK
  PROVE  /\ Loaded(disk).cooldowns = disk.cooldowns
         /\ Loaded(disk).restarts = disk.restarts
         /\ Loaded(disk).maintenance = disk.maintenance
<1>1. disk \in State /\ FitsVersion(disk)
  BY DEF IInv, TypeOK
<1>2. CASE disk.version = 0
  BY <1>1, <1>2 DEF Loaded, FileOK, FitsVersion
<1>3. CASE disk.version # 0
  BY <1>3 DEF Loaded
<1> QED BY <1>2, <1>3

(* The restarts of a rule are finitely many. *)
LEMMA RestartsFinite ==
  ASSUME NEW r \in Rules
  PROVE  IsFiniteSet(Restarts(r)) /\ Restarts(r) \subseteq Nat
<1>1. Acts[r] \in Seq(Commands)
  BY RulesAssumption
<1>2. Len(Acts[r]) \in Nat /\ DOMAIN Acts[r] = 1 .. Len(Acts[r])
  BY <1>1
<1>3. Restarts(r) \subseteq 1 .. Len(Acts[r])
  BY <1>2 DEF Restarts
<1>4. IsFiniteSet(1 .. Len(Acts[r]))
  BY <1>2, FS_Interval
<1> QED BY <1>2, <1>3, <1>4, FS_Subset

(* A budget that admits some restarts admits a part of them. *)
LEMMA FewerFit ==
  ASSUME NEW S, NEW T, IsFiniteSet(S), T \subseteq S, NEW n \in Nat,
         S = {} \/ n + Cardinality(S) <= MaxRestarts
  PROVE  IsFiniteSet(T) /\ (T = {} \/ n + Cardinality(T) <= MaxRestarts)
<1>1. IsFiniteSet(T) /\ Cardinality(T) <= Cardinality(S)
  BY FS_Subset
<1>2. Cardinality(T) \in Nat /\ Cardinality(S) \in Nat /\ MaxRestarts \in Nat
  BY <1>1, FS_CardinalityType, OptionsAssumption
<1> QED BY <1>1, <1>2

(***************************************************************************)
(* NothingLost: the step that NoLostUpdate speaks of.  Harmless: the state *)
(* that a session saves keeps what others wrote.                           *)
(***************************************************************************)
NothingLost ==
  \A c \in Containers :
    /\ \A k \in Keys : OnCooldown(disk, c, k, now)
                        => disk'.cooldowns[c, k] = disk.cooldowns[c, k]
    /\ disk'.restarts[c] < disk.restarts[c] => Operating({"manual", "rearm"})
    /\ InMaintenance(disk, c, now) /\ disk'.maintenance[c] # disk.maintenance[c]
         => Operating({"manual", "maint"})

Harmless(p, s) ==
  \A c \in Containers :
    /\ \A k \in Keys : OnCooldown(mem[p], c, k, now)
                        => s.cooldowns[c, k] = mem[p].cooldowns[c, k]
    /\ s.restarts[c] < mem[p].restarts[c] => Operating({"manual", "rearm"})
    /\ InMaintenance(mem[p], c, now) /\ s.maintenance[c] # mem[p].maintenance[c]
         => Operating({"manual", "maint"})

LEMMA NothingWritten ==
  ASSUME IInv, UNCHANGED disk
  PROVE  NothingLost
<1>1. \A c \in Containers : disk.restarts[c] \in Nat
  BY DEF IInv, TypeOK, State
<1> QED BY <1>1 DEF NothingLost

LEMMA HarmlessSave ==
  ASSUME IInv, FileOK, NEW p \in Procs, pc[p] \notin {"idle", "load", "exit"},
         NEW s \in State, FitsVersion(s), s.version >= 1, NEW then \in PcNames, Save(p, s, then), UNCHANGED job, Harmless(p, s)
  PROVE  /\ FileOK' /\ NothingLost
         /\ pc'[p] \in {then, "exit"}
         /\ pc'[p] # "exit" => mem'[p] = s
<1>2. /\ disk' \in {disk, s} /\ (ReadOnly(p) => disk' = disk)
      /\ pc'[p] \in {then, "exit"} /\ (pc'[p] # "exit" => mem'[p] = s)
  BY SaveStep
<1>3. FileOK'
  BY <1>2 DEF FileOK, State
<1>4. CASE disk' = disk
  BY <1>2, <1>3, <1>4, NothingWritten
<1>5. CASE disk' # disk
  <2>1. disk' = s /\ ~ReadOnly(p)
    BY <1>2, <1>5
  <2>2. mem[p] = Loaded(disk)
    BY <2>1 DEF IInv, LocalInv, MemOK, Writing
  <2>3. /\ mem[p].cooldowns = disk.cooldowns /\ mem[p].restarts = disk.restarts
        /\ mem[p].maintenance = disk.maintenance
    BY <2>2, LoadedData
  <2>4. NothingLost
    BY <2>1, <2>3 DEF Harmless, NothingLost, OnCooldown, InMaintenance
  <2> QED BY <1>2, <1>3, <2>4
<1> QED BY <1>2, <1>3, <1>4, <1>5

(***************************************************************************)
(* What every step is shown to do: preserve the second invariant and lose  *)
(* nothing that was written.                                               *)
(***************************************************************************)
KeepsOK == DInv' /\ NothingLost

(* The steps of a session in which no decision stands. *)
Away == PcNames \ {"manual", "operate", "claim", "act", "run"}

LEMMA AwayOK ==
  ASSUME NEW q \in Procs, pc'[q] \in Away
  PROVE  DecisionOK(q)' /\ ManualOK(q)'
BY DEF Away, DecisionOK, ManualOK

(* The other sessions are idle. *)
LEMMA OneSession ==
  ASSUME IInv, NEW p \in Procs, pc[p] # "idle", \A q \in Procs \ {p} : pc'[q] = pc[q],
         FileOK', NothingLost, DecisionOK(p)', ManualOK(p)'
  PROVE  KeepsOK
<1>1. ASSUME NEW q \in Procs \ {p} PROVE DecisionOK(q)' /\ ManualOK(q)'
  <2>1. pc'[q] = "idle"
    BY DEF IInv, LocalInv, HolderOK
  <2> QED BY <2>1, AwayOK DEF Away, PcNames
<1> QED BY <1>1 DEF KeepsOK, DInv

(* A step that saves nothing. *)
LEMMA UnsavedKeeps ==
  ASSUME IInv, DInv, NEW p \in Procs, pc[p] # "idle", UNCHANGED disk,
         NEW to, pc' = [pc EXCEPT ![p] = to], to \in Away \/ (DecisionOK(p)' /\ ManualOK(p)')
  PROVE  KeepsOK
<1>1. pc'[p] = to /\ \A q \in Procs \ {p} : pc'[q] = pc[q]
  BY DEF IInv, TypeOK
<1>2. FileOK' /\ NothingLost
  BY NothingWritten DEF DInv, FileOK
<1>3. DecisionOK(p)' /\ ManualOK(p)'
  BY <1>1, AwayOK
<1> QED BY <1>1, <1>2, <1>3, OneSession

(* A step that saves s and after which no decision stands. *)
LEMMA SavedKeeps ==
  ASSUME IInv, DInv, NEW p \in Procs, pc[p] \notin {"idle", "load", "exit"},
         NEW s \in State, FitsVersion(s), s.version >= 1, NEW then \in PcNames,
         Save(p, s, then), UNCHANGED job, Harmless(p, s),
         then \in Away \/ (pc'[p] = then /\ mem'[p] = s => DecisionOK(p)' /\ ManualOK(p)')
  PROVE  KeepsOK
<1>1. /\ FileOK' /\ NothingLost /\ pc'[p] \in {then, "exit"}
      /\ pc'[p] # "exit" => mem'[p] = s
  BY HarmlessSave DEF DInv
<1>2. \A q \in Procs \ {p} : pc'[q] = pc[q]
  BY DEF Save, IInv, TypeOK
<1>3. DecisionOK(p)' /\ ManualOK(p)'
  <2>1. "exit" \in Away
    BY DEF Away, PcNames
  <2> QED BY <1>1, <2>1, AwayOK
<1> QED BY <1>1, <1>2, <1>3, OneSession

LEMMA SameRestarts ==
  ASSUME NEW s, NEW t \in State, s.restarts = t.restarts
  PROVE  \A c \in Containers : ~(s.restarts[c] < t.restarts[c])
<1>1. \A c \in Containers : t.restarts[c] \in Nat
  BY DEF State
<1>2. \A n \in Nat : ~(n < n)
  OBVIOUS
<1> QED BY <1>1, <1>2

(* The saves of a cycle before its decisions. *)
LEMMA ObservationsHarmless ==
  ASSUME IInv, NEW p \in Procs, pc[p] \notin {"idle", "load", "exit"},
         NEW o \in [Containers \X Rules -> Observation]
  PROVE  LET s == ReplaceObservations(mem[p], o) IN
         /\ s \in State /\ FitsVersion(s) /\ s.version >= 1 /\ Harmless(p, s)
<1> DEFINE s == ReplaceObservations(mem[p], o)
<1>1. mem[p] \in State /\ FitsVersion(mem[p]) /\ mem[p].version >= 1 /\ mem[p].version \in 0 .. 4
  BY HolderState
<1>2. s \in State /\ FitsVersion(s) /\ s.restarts = mem[p].restarts /\ s.version >= mem[p].version
  BY <1>1, ReplaceObservationsState
<1>3. s.version >= 1
  BY <1>1, <1>2 DEF State
<1>4. s.cooldowns = mem[p].cooldowns /\ s.maintenance = mem[p].maintenance
  BY <1>1 DEF ReplaceObservations, State
<1>5. \A c \in Containers : ~(s.restarts[c] < mem[p].restarts[c])
  BY <1>1, <1>2, SameRestarts
<1> HIDE DEF s
<1>6. Harmless(p, s)
  BY <1>4, <1>5 DEF Harmless
<1> QED BY <1>2, <1>3, <1>6 DEF s

LEMMA ExpireKeeps ==
  ASSUME IInv, DInv, NEW p \in Procs, Expire(p)
  PROVE  KeepsOK
<1> DEFINE s == ExpireMaintenance(mem[p], now)
<1>1. pc[p] = "expire" /\ Save(p, s, "clear") /\ UNCHANGED job
  BY DEF Expire
<1>2. /\ mem[p] \in State /\ FitsVersion(mem[p]) /\ now \in Nat
      /\ mem[p].version >= 1 /\ mem[p].version \in 0 .. 4
  BY <1>1, HolderState
<1>3. /\ s \in State /\ FitsVersion(s) /\ s.version >= 1 /\ s.restarts = mem[p].restarts
  BY <1>2, ExpireMaintenanceState
<1>4. /\ s.cooldowns = mem[p].cooldowns
      /\ \A c \in Containers : InMaintenance(mem[p], c, now) => s.maintenance[c] = mem[p].maintenance[c]
  <2>1. \A c \in Containers : InMaintenance(mem[p], c, now) => c \notin ExpiredMaintenance(mem[p], now)
    BY <1>2 DEF InMaintenance, ExpiredMaintenance, State
  <2>2. mem[p].maintenance \in [Containers -> Nat]
    BY <1>2 DEF State
  <2>3. CASE ExpiredMaintenance(mem[p], now) = {}
    BY <2>3 DEF ExpireMaintenance
  <2>4. CASE ExpiredMaintenance(mem[p], now) # {}
    <3>1. /\ s.cooldowns = mem[p].cooldowns
          /\ s.maintenance = [c \in Containers |-> IF c \in ExpiredMaintenance(mem[p], now) THEN 0
                                                   ELSE mem[p].maintenance[c]]
      BY <2>4, <1>2 DEF ExpireMaintenance, State
    <3> QED BY <2>1, <3>1
  <2> QED BY <2>3, <2>4
<1>5. \A c \in Containers : ~(s.restarts[c] < mem[p].restarts[c])
  BY <1>2, <1>3, SameRestarts
<1> HIDE DEF s
<1>6. Harmless(p, s)
  BY <1>4, <1>5 DEF Harmless
<1>7. "clear" \in Away /\ "clear" \in PcNames
  BY DEF Away, PcNames
<1> QED BY <1>1, <1>3, <1>6, <1>7, SavedKeeps

LEMMA ClearKeeps ==
  ASSUME IInv, DInv, NEW p \in Procs, Clear(p)
  PROVE  KeepsOK
<1> DEFINE s == ReplaceObservations(mem[p], NoObservations)
<1>1. pc[p] = "clear" /\ Save(p, s, "select") /\ UNCHANGED job
  BY DEF Clear
<1>2. s \in State /\ FitsVersion(s) /\ s.version >= 1 /\ Harmless(p, s)
  BY <1>1, FreshState, ObservationsHarmless
<1>3. "select" \in Away /\ "select" \in PcNames
  BY DEF Away, PcNames
<1> HIDE DEF s
<1> QED BY <1>1, <1>2, <1>3, SavedKeeps

(* One observation is replaced. *)
LEMMA ObserveKeeps ==
  ASSUME IInv, DInv, NEW p \in Procs, pc[p] = "observe", NEW o \in Observation,
         NEW then \in {"match", "decide"},
         Save(p, ReplaceObservations(mem[p],
                [mem[p].observations EXCEPT ![<<at[p].c, at[p].r>>] = o]), then),
         UNCHANGED job
  PROVE  KeepsOK
<1> DEFINE f == [mem[p].observations EXCEPT ![<<at[p].c, at[p].r>>] = o]
           s == ReplaceObservations(mem[p], f)
<1>1. at[p].c \in Containers /\ at[p].r \in Rules
  BY DEF IInv, LocalInv, PlaceOK
<1>2. mem[p].observations \in [Containers \X Rules -> Observation]
  BY HolderState DEF State
<1>3. f \in [Containers \X Rules -> Observation]
  BY <1>1, <1>2, OneObservation
<1>4. Save(p, s, then)
  OBVIOUS
<1> HIDE DEF f
<1>5. s \in State /\ FitsVersion(s) /\ s.version >= 1 /\ Harmless(p, s)
  BY <1>3, ObservationsHarmless
<1>6. then \in Away /\ then \in PcNames
  BY DEF Away, PcNames
<1> HIDE DEF s
<1> QED BY <1>4, <1>5, <1>6, SavedKeeps

LEMMA ObservingKeeps ==
  ASSUME IInv, DInv, NEW p \in Procs, ObserveUnmatched(p) \/ ObserveMasked(p) \/ ObserveMatched(p)
  PROVE  KeepsOK
<1>0. NoObs \in Observation
  BY DEF NoObs, Observation
<1>1. CASE ObserveUnmatched(p) /\ Tracked(at[p].r)
  BY <1>0, <1>1, ObserveKeeps DEF ObserveUnmatched, Forget
<1>2. CASE ObserveUnmatched(p) /\ ~Tracked(at[p].r)
  <2>1. pc[p] = "observe" /\ pc' = [pc EXCEPT ![p] = "match"] /\ UNCHANGED disk
    BY <1>2 DEF ObserveUnmatched
  <2> QED BY <2>1, UnsavedKeeps DEF Away, PcNames
<1>3. CASE ObserveMasked(p)
  BY <1>0, <1>3, ObserveKeeps DEF ObserveMasked, Forget
<1>4. CASE ObserveMatched(p)
  <2> DEFINE o == Streak(prev[p][<<at[p].c, at[p].r>>], now)
  <2>1. /\ pc[p] = "observe" /\ UNCHANGED job
        /\ Save(p, ReplaceObservations(mem[p],
              [mem[p].observations EXCEPT ![<<at[p].c, at[p].r>>] = o]), "decide")
    BY <1>4 DEF ObserveMatched
  <2>2. at[p].c \in Containers /\ at[p].r \in Rules /\ now \in Nat
    BY <2>1, HolderState DEF IInv, LocalInv, PlaceOK
  <2>3. o \in Observation
    BY <2>2, Streaks DEF IInv, TypeOK
  <2> HIDE DEF o
  <2> QED BY <2>1, <2>3, ObserveKeeps
<1> QED BY <1>1, <1>2, <1>3, <1>4

(* A reservation drops only what has expired, and its own key is free. *)
LEMMA ReserveHarmless ==
  ASSUME IInv, NEW p \in Procs, pc[p] \notin {"idle", "load", "exit"},
         NEW c \in Containers, NEW k \in Keys, ~OnCooldown(mem[p], c, k, now), NEW seconds \in Nat
  PROVE  LET s == Reserve(mem[p], c, k, now, seconds) IN
         /\ s \in State /\ FitsVersion(s) /\ s.version >= 1 /\ Harmless(p, s)
         /\ s.restarts = mem[p].restarts /\ s.maintenance = mem[p].maintenance
<1> DEFINE s == Reserve(mem[p], c, k, now, seconds)
<1>1. /\ mem[p] \in State /\ FitsVersion(mem[p]) /\ now \in Nat
      /\ mem[p].version >= 1 /\ mem[p].version \in 0 .. 4
  BY HolderState
<1>2. s \in State /\ FitsVersion(s) /\ s.restarts = mem[p].restarts /\ s.version = mem[p].version
  BY <1>1, ReserveState
<1>3. /\ s.maintenance = mem[p].maintenance
      /\ s.cooldowns = [x \in Containers \X Keys |->
                          IF x = <<c, k>> THEN now + seconds
                          ELSE IF StillCooling(mem[p].cooldowns[x], now) THEN mem[p].cooldowns[x] ELSE 0]
  BY <1>1 DEF Reserve, State
<1> HIDE DEF s
<1>4. ASSUME NEW d \in Containers, NEW j \in Keys, OnCooldown(mem[p], d, j, now)
      PROVE  s.cooldowns[d, j] = mem[p].cooldowns[d, j]
  <2>1. <<d, j>> # <<c, k>> /\ <<d, j>> \in Containers \X Keys
    BY <1>4
  <2>2. StillCooling(mem[p].cooldowns[d, j], now)
    BY <1>4 DEF OnCooldown, StillCooling
  <2> QED BY <2>1, <2>2, <1>3
<1>5. \A d \in Containers : ~(s.restarts[d] < mem[p].restarts[d])
  BY <1>1, <1>2, SameRestarts
<1>6. Harmless(p, s)
  BY <1>3, <1>4, <1>5 DEF Harmless
<1>7. s.version >= 1
  BY <1>1, <1>2
<1> QED BY <1>2, <1>3, <1>6, <1>7 DEF s

(* The restarts still to be counted are among those of the rule. *)
LEMMA ToReserveIs ==
  ASSUME IInv, NEW p \in Procs, pc[p] \in {"claim", "act", "run"}
  PROVE  /\ at[p].c \in Containers /\ at[p].r \in Rules /\ at[p].i \in Nat
         /\ IsFiniteSet(Restarts(at[p].r)) /\ Restarts(at[p].r) \subseteq Nat
         /\ ToReserve(p) \subseteq Restarts(at[p].r) /\ IsFiniteSet(ToReserve(p))
         /\ mem[p].restarts[at[p].c] \in Nat
<1>1. at[p].c \in Containers /\ at[p].r \in Rules /\ at[p].i \in Nat
  BY DEF IInv, LocalInv, PlaceOK, TypeOK
<1>2. IsFiniteSet(Restarts(at[p].r)) /\ Restarts(at[p].r) \subseteq Nat
  BY <1>1, RestartsFinite
<1>3. ToReserve(p) \subseteq Restarts(at[p].r)
  BY DEF ToReserve
<1>4. mem[p].restarts[at[p].c] \in Nat
  BY <1>1 DEF IInv, TypeOK, State
<1> QED BY <1>1, <1>2, <1>3, <1>4, FS_Subset

(* The cooldown of a rule is claimed: what was decided stands. *)
LEMMA ClaimKeeps ==
  ASSUME IInv, DInv, NEW p \in Procs, Claim(p)
  PROVE  KeepsOK
<1> DEFINE s == Reserve(mem[p], at[p].c, at[p].r, now, Cooldown)
           verdict == IF ReadOnly(p) THEN "dry-run" ELSE "execute"
<1>1. /\ pc[p] = "claim" /\ Save(p, s, "act") /\ ~OnCooldown(mem[p], at[p].c, at[p].r, now)
      /\ status' = [status EXCEPT ![p] = verdict]
      /\ UNCHANGED <<lock, now, job, prev, todo, at, issued>>
  BY DEF Claim
<1>2. /\ at[p].c \in Containers /\ at[p].r \in Rules /\ mem[p].restarts[at[p].c] \in Nat
      /\ IsFiniteSet(Restarts(at[p].r))
  BY <1>1, ToReserveIs
<1>3. at[p].r \in Keys /\ Cooldown \in Nat
  BY <1>2, OptionsAssumption DEF Keys
<1>4. /\ s \in State /\ FitsVersion(s) /\ s.version >= 1 /\ Harmless(p, s)
      /\ s.restarts = mem[p].restarts /\ s.maintenance = mem[p].maintenance
  BY <1>1, <1>2, <1>3, ReserveHarmless
<1> HIDE DEF s
<1>5. status'[p] \in {"dry-run", "execute"}
  BY <1>1 DEF IInv, TypeOK
<1>6. ASSUME pc'[p] = "act", mem'[p] = s
      PROVE  DecisionOK(p)' /\ ManualOK(p)'
  <2>1. ~Suspended(p) /\ Permits(mem[p], at[p].c, at[p].r)
    BY <1>1 DEF DInv, DecisionOK
  <2>2. ~Suspended(p)'
    BY <2>1, <1>1, <1>4, <1>6 DEF Suspended, InMaintenance
  <2>3. ToReserve(p)' \subseteq Restarts(at[p].r)
    BY <1>1 DEF ToReserve
  <2>4. Fits(p)'
    <3> DEFINE T == ToReserve(p)'
               n == mem[p].restarts[at[p].c]
    <3>1. Restarts(at[p].r) = {} \/ n + Cardinality(Restarts(at[p].r)) <= MaxRestarts
      BY <2>1 DEF Permits
    <3> HIDE DEF T, n
    <3>2. T = {} \/ n + Cardinality(T) <= MaxRestarts
      BY <3>1, <2>3, <1>2, FewerFit DEF T, n
    <3> QED BY <3>2, <1>1, <1>4, <1>6 DEF Fits, T, n
  <2> QED BY <2>2, <2>4, <1>5, <1>6 DEF DecisionOK, ManualOK
<1>7. "act" \in PcNames
  BY DEF PcNames
<1> QED BY <1>1, <1>4, <1>6, <1>7, SavedKeeps

(* A manual action is claimed. *)
LEMMA ManualClaimKeeps ==
  ASSUME IInv, DInv, NEW p \in Procs, NEW c \in Containers, NEW op \in ManualOperations,
         ManualClaim(p, c, op)
  PROVE  KeepsOK
<1> DEFINE s == Reserve(mem[p], c, Manual, now, ActionCooldown)
<1>1. /\ pc[p] = "manual" /\ Save(p, s, "operate") /\ ~OnCooldown(mem[p], c, Manual, now)
      /\ UNCHANGED job
  BY DEF ManualClaim
<1>2. Manual \in Keys /\ ActionCooldown \in Nat
  BY OptionsAssumption DEF Keys
<1>3. s \in State /\ FitsVersion(s) /\ s.version >= 1 /\ Harmless(p, s)
  BY <1>1, <1>2, ReserveHarmless
<1> HIDE DEF s
<1>4. ASSUME pc'[p] = "operate" PROVE DecisionOK(p)' /\ ManualOK(p)'
  BY <1>1, <1>4 DEF DInv, DecisionOK, ManualOK
<1>5. "operate" \in PcNames
  BY DEF PcNames
<1> QED BY <1>1, <1>3, <1>4, <1>5, SavedKeeps

(* An attempt is counted: one less is left to count. *)
LEMMA ReserveAttemptKeeps ==
  ASSUME IInv, DInv, NEW p \in Procs, ReserveAttempt(p)
  PROVE  KeepsOK
<1> DEFINE c == at[p].c
           s == ReserveRestart(mem[p], c)
<1>1. /\ pc[p] = "act" /\ Proceeding(p) /\ AtRestart(p)
      /\ UNCHANGED <<lock, now, job, prev, todo, at, issued>>
  BY DEF ReserveAttempt
<1>2. /\ at[p].c \in Containers /\ at[p].r \in Rules /\ at[p].i \in Nat
      /\ mem[p].restarts[at[p].c] \in Nat /\ Restarts(at[p].r) \subseteq Nat
      /\ IsFiniteSet(ToReserve(p))
  BY <1>1, ToReserveIs
<1>3. CASE CanReserveRestart(mem[p], c, MaxRestarts)
  <2>1. Save(p, s, "run") /\ status' = status
    BY <1>3 DEF ReserveAttempt
  <2>2. /\ mem[p] \in State /\ FitsVersion(mem[p]) /\ mem[p].version >= 1
        /\ mem[p].version \in 0 .. 4
    BY <1>1, HolderState
  <2>3. /\ s \in State /\ FitsVersion(s) /\ s.version >= mem[p].version
        /\ s.restarts = [mem[p].restarts EXCEPT ![c] = @ + 1]
    BY <1>2, <2>2, ReserveRestartState
  <2>4. s.version >= 1
    BY <2>2, <2>3 DEF State
  <2>5. s.cooldowns = mem[p].cooldowns /\ s.maintenance = mem[p].maintenance
    BY <2>2 DEF ReserveRestart, State
  <2> HIDE DEF s
  <2>6. \A d \in Containers : ~(s.restarts[d] < mem[p].restarts[d])
    <3> TAKE d \in Containers
    <3>1. mem[p].restarts \in [Containers -> Nat]
      BY <2>2 DEF State
    <3>2. s.restarts[d] = IF d = c THEN mem[p].restarts[d] + 1 ELSE mem[p].restarts[d]
      BY <2>3, <3>1
    <3> QED BY <3>1, <3>2
  <2>7. Harmless(p, s)
    BY <2>5, <2>6 DEF Harmless
  <2>8. ASSUME pc'[p] = "run", mem'[p] = s
        PROVE  DecisionOK(p)' /\ ManualOK(p)'
    <3>1. ~Suspended(p) /\ Fits(p) /\ status[p] # "claim"
      BY <1>1 DEF DInv, DecisionOK
    <3>2. ~Suspended(p)'
      BY <3>1, <1>1, <2>5, <2>8 DEF Suspended, InMaintenance
    <3>3. at[p].i \in ToReserve(p) /\ ToReserve(p)' = ToReserve(p) \ {at[p].i}
      BY <1>1, <1>2, <2>8 DEF AtRestart, ToReserve
    <3>4. Cardinality(ToReserve(p)') = Cardinality(ToReserve(p)) - 1 /\ Cardinality(ToReserve(p)) \in Nat
      <4> DEFINE S == ToReserve(p)
                 T == ToReserve(p)'
                 x == at[p].i
      <4>1. x \in S /\ T = S \ {x} /\ IsFiniteSet(S)
        BY <3>3, <1>2
      <4> HIDE DEF S, T, x
      <4>2. Cardinality(T) = Cardinality(S) - 1 /\ Cardinality(S) \in Nat
        BY <4>1, FS_RemoveElement, FS_CardinalityType
      <4> QED BY <4>2 DEF S, T
    <3>5. mem'[p].restarts[c] = mem[p].restarts[c] + 1
      BY <2>2, <2>3, <2>8, <1>2 DEF State
    <3>6. mem[p].restarts[c] + Cardinality(ToReserve(p)) <= MaxRestarts
      BY <3>1, <3>3 DEF Fits
    <3>7. mem'[p].restarts[c] + Cardinality(ToReserve(p)') <= MaxRestarts
      BY <3>4, <3>5, <3>6, <1>2, OptionsAssumption
    <3>8. Fits(p)'
      BY <3>7, <1>1 DEF Fits
    <3> QED BY <3>1, <3>2, <3>8, <2>1, <2>8 DEF DecisionOK, ManualOK
  <2>9. "run" \in PcNames
    BY DEF PcNames
  <2> QED BY <1>1, <2>1, <2>3, <2>4, <2>7, <2>8, <2>9, SavedKeeps
<1>4. CASE ~CanReserveRestart(mem[p], c, MaxRestarts)
  <2>1. /\ status' = [status EXCEPT ![p] = "restart-limit"] /\ pc' = [pc EXCEPT ![p] = "run"]
        /\ UNCHANGED disk
    BY <1>4 DEF ReserveAttempt
  <2>2. status'[p] = "restart-limit" /\ pc'[p] = "run"
    BY <2>1 DEF IInv, TypeOK
  <2>3. DecisionOK(p)' /\ ManualOK(p)'
    BY <2>2 DEF DecisionOK, ManualOK, Proceeding
  <2> QED BY <2>1, <2>3, <1>1, UnsavedKeeps
<1> QED BY <1>3, <1>4

(* An operator's change. *)
LEMMA RearmKeeps ==
  ASSUME IInv, DInv, NEW p \in Procs, pc[p] \in {"operate", "offline"},
         job[p] \in {"manual", "rearm"}, NEW c \in Containers, Rearm(p, c), UNCHANGED job
  PROVE  KeepsOK
<1> DEFINE s == ResetRestarts(mem[p], c)
<1>1. Save(p, s, "exit")
  BY DEF Rearm
<1>2. /\ mem[p] \in State /\ FitsVersion(mem[p]) /\ mem[p].version >= 1 /\ mem[p].version \in 0 .. 4
  BY HolderState
<1>3. s \in State /\ FitsVersion(s) /\ s.version >= mem[p].version
  BY <1>2, ResetRestartsState
<1>4. s.version >= 1
  BY <1>2, <1>3 DEF State
<1>5. s.cooldowns = mem[p].cooldowns /\ s.maintenance = mem[p].maintenance
  BY <1>2 DEF ResetRestarts, State
<1> HIDE DEF s
<1>6. Operating({"manual", "rearm"})
  BY DEF Operating, IInv, LocalInv, HolderOK
<1>7. Harmless(p, s)
  BY <1>5, <1>6 DEF Harmless
<1>8. "exit" \in Away /\ "exit" \in PcNames
  BY DEF Away, PcNames
<1> QED BY <1>1, <1>3, <1>4, <1>7, <1>8, SavedKeeps

LEMMA MaintainKeeps ==
  ASSUME IInv, DInv, NEW p \in Procs, pc[p] \in {"operate", "offline"},
         job[p] \in {"manual", "maint"}, NEW c \in Containers, Maintain(p, c), UNCHANGED job
  PROVE  KeepsOK
<1>1. PICK seconds \in Durations : Save(p, SetMaintenance(mem[p], c, seconds, now), "exit")
  BY DEF Maintain
<1> DEFINE s == SetMaintenance(mem[p], c, seconds, now)
<1>2. /\ mem[p] \in State /\ FitsVersion(mem[p]) /\ now \in Nat /\ seconds \in Nat
      /\ mem[p].version >= 1 /\ mem[p].version \in 0 .. 4
  BY HolderState, OptionsAssumption
<1>3. s \in State /\ FitsVersion(s) /\ s.version >= mem[p].version /\ s.restarts = mem[p].restarts
  BY <1>2, SetMaintenanceState
<1>4. s.version >= 1
  BY <1>2, <1>3 DEF State
<1>5. s.cooldowns = mem[p].cooldowns
  BY <1>2 DEF SetMaintenance, State
<1>6. Save(p, s, "exit")
  BY <1>1
<1> HIDE DEF s
<1>7. Operating({"manual", "maint"})
  BY DEF Operating, IInv, LocalInv, HolderOK
<1>8. \A d \in Containers : ~(s.restarts[d] < mem[p].restarts[d])
  BY <1>2, <1>3, SameRestarts
<1>9. Harmless(p, s)
  BY <1>5, <1>7, <1>8 DEF Harmless
<1>10. "exit" \in Away /\ "exit" \in PcNames
  BY DEF Away, PcNames
<1> QED BY <1>3, <1>4, <1>6, <1>9, <1>10, SavedKeeps

(***************************************************************************)
(* The steps that save nothing.                                            *)
(***************************************************************************)
LEMMA AwayKeeps ==
  ASSUME IInv, DInv, NEW p \in Procs,
         \/ Raise(p) \/ Select(p) \/ \E c \in Containers : NextContainer(p, c)
         \/ EndCycle(p) \/ ContainerDone(p) \/ \E matched \in BOOLEAN : Match(p, matched)
         \/ ObserveUntracked(p) \/ RuleDone(p)
         \/ ManualRejected(p) \/ ManualDocker(p) \/ OfflineNothing(p)
  PROVE  KeepsOK
<1>1. PICK to \in {"exit", "next", "match", "observe", "decide"} :
        pc' = [pc EXCEPT ![p] = to]
  BY DEF Raise, Select, NextContainer, EndCycle, ContainerDone, Match, ObserveUntracked,
         RuleDone, ManualRejected, ManualDocker, OfflineNothing
<1>2. pc[p] # "idle" /\ UNCHANGED disk
  BY DEF Raise, Select, NextContainer, EndCycle, ContainerDone, Match, ObserveUntracked,
         RuleDone, ManualRejected, ManualDocker, OfflineNothing
<1>3. to \in Away
  BY DEF Away, PcNames
<1> QED BY <1>1, <1>2, <1>3, UnsavedKeeps

(* A rule is let through only when nothing suspends its container and its  *)
(* restarts all fit.                                                       *)
LEMMA DecideKeeps ==
  ASSUME IInv, DInv, NEW p \in Procs, Decide(p)
  PROVE  KeepsOK
<1> DEFINE c == at[p].c
<1>1. /\ pc[p] = "decide"
      /\ at' = [at EXCEPT ![p].i = 1]
      /\ UNCHANGED <<lock, disk, now, job, mem, prev, todo, issued>>
  BY DEF Decide
<1>2. at'[p].c = c /\ at'[p].r = at[p].r
  BY <1>1, NextAction DEF IInv, TypeOK
<1>3. CASE /\ ~InMaintenance(mem[p], c, now) /\ Permits(mem[p], c, at[p].r)
           /\ pc' = [pc EXCEPT ![p] = "claim"]
  <2>1. pc'[p] = "claim"
    BY <1>3 DEF IInv, TypeOK
  <2>2. ~Suspended(p)' /\ Permits(mem[p], c, at[p].r)'
    BY <1>1, <1>2, <1>3 DEF Suspended, InMaintenance, Permits, Restarts
  <2>3. DecisionOK(p)' /\ ManualOK(p)'
    BY <1>1, <1>2, <2>1, <2>2 DEF DecisionOK, ManualOK, Permits
  <2> QED BY <1>1, <1>3, <2>3, UnsavedKeeps
<1>4. CASE \E no \in {"maintenance", "pending", "restart-limit"} :
             status' = [status EXCEPT ![p] = no] /\ pc' = [pc EXCEPT ![p] = "act"]
  <2>1. status'[p] \in {"maintenance", "pending", "restart-limit"} /\ pc'[p] = "act"
    BY <1>4 DEF IInv, TypeOK
  <2>2. DecisionOK(p)' /\ ManualOK(p)'
    BY <2>1 DEF DecisionOK, ManualOK, Proceeding
  <2> QED BY <1>1, <1>4, <2>2, UnsavedKeeps
<1> QED BY <1>3, <1>4 DEF Decide

LEMMA ClaimRefusedKeeps ==
  ASSUME IInv, DInv, NEW p \in Procs, ClaimRefused(p)
  PROVE  KeepsOK
<1>1. /\ pc[p] = "claim" /\ UNCHANGED disk
      /\ status' = [status EXCEPT ![p] = "cooldown"] /\ pc' = [pc EXCEPT ![p] = "act"]
  BY DEF ClaimRefused
<1>2. status'[p] = "cooldown" /\ pc'[p] = "act"
  BY <1>1 DEF IInv, TypeOK
<1>3. DecisionOK(p)' /\ ManualOK(p)'
  BY <1>2 DEF DecisionOK, ManualOK, Proceeding
<1> QED BY <1>1, <1>3, UnsavedKeeps

(***************************************************************************)
(* A step of a rule that is running, with nothing written and no more to   *)
(* reserve than before.                                                    *)
(***************************************************************************)
LEMMA RunningKeeps ==
  ASSUME IInv, DInv, NEW p \in Procs, pc[p] \in {"act", "run"},
         NEW to \in {"act", "run"}, pc' = [pc EXCEPT ![p] = to],
         UNCHANGED <<disk, now, mem, status>>, at'[p].c = at[p].c,
         Proceeding(p) => ToReserve(p)' \subseteq ToReserve(p)
  PROVE  KeepsOK
<1>1. pc'[p] = to
  BY DEF IInv, TypeOK
<1>2. ASSUME Proceeding(p) PROVE ~Suspended(p)' /\ Fits(p)'
  <2>1. ~Suspended(p) /\ Fits(p)
    BY <1>2 DEF DInv, DecisionOK
  <2>2. ~Suspended(p)'
    BY <2>1 DEF Suspended, InMaintenance
  <2>3. Fits(p)'
    <3> DEFINE S == ToReserve(p)
               T == ToReserve(p)'
               n == mem[p].restarts[at[p].c]
    <3>1. /\ T \subseteq S /\ IsFiniteSet(S) /\ n \in Nat
          /\ S = {} \/ n + Cardinality(S) <= MaxRestarts
      BY <1>2, <2>1, ToReserveIs DEF Fits
    <3> HIDE DEF S, T, n
    <3>2. T = {} \/ n + Cardinality(T) <= MaxRestarts
      BY <3>1, FewerFit
    <3> QED BY <3>2 DEF Fits, S, T, n
  <2> QED BY <2>2, <2>3
<1>3. status[p] # "claim" /\ status' = status
  BY DEF DInv, DecisionOK
<1>4. DecisionOK(p)' /\ ManualOK(p)'
  BY <1>1, <1>2, <1>3 DEF DecisionOK, ManualOK, Proceeding
<1> QED BY <1>4, UnsavedKeeps

LEMMA NoReservationKeeps ==
  ASSUME IInv, DInv, NEW p \in Procs, NoReservation(p)
  PROVE  KeepsOK
<1>1. /\ pc[p] = "act" /\ pc' = [pc EXCEPT ![p] = "run"]
      /\ UNCHANGED <<disk, now, mem, status, at>> /\ ~(Proceeding(p) /\ AtRestart(p))
  BY DEF NoReservation
<1>2. Proceeding(p) => ToReserve(p)' \subseteq ToReserve(p)
  BY <1>1 DEF ToReserve
<1> QED BY <1>1, <1>2, RunningKeeps

(* After an action comes the next one: what lies beyond it is the same.    *)
LEMMA Beyond ==
  ASSUME IInv, NEW p \in Procs, pc[p] = "run", at' = [at EXCEPT ![p].i = @ + 1]
  PROVE  at'[p].c = at[p].c /\ ToReserve(p)' \subseteq ToReserve(p)
<1>1. /\ at'[p].c = at[p].c /\ at'[p].r = at[p].r /\ at'[p].i = at[p].i + 1
  BY DEF IInv, TypeOK
<1>2. at[p].i \in Nat /\ Restarts(at[p].r) \subseteq Nat
  BY ToReserveIs
<1>3. ASSUME NEW i \in ToReserve(p)' PROVE i \in ToReserve(p)
  <2>1. i \in Restarts(at[p].r) /\ i \in Nat
    BY <1>1, <1>2, <1>3 DEF ToReserve
  <2>2. i > at[p].i + 1 \/ i = at[p].i + 1
    BY <1>1, <1>3 DEF ToReserve
  <2>3. i > at[p].i
    BY <1>2, <2>1, <2>2
  <2> QED BY <2>1, <2>3 DEF ToReserve
<1> QED BY <1>1, <1>3

LEMMA ActionDoneKeeps ==
  ASSUME IInv, DInv, NEW p \in Procs, SkipAction(p) \/ Execute(p)
  PROVE  KeepsOK
<1>1. /\ pc[p] = "run" /\ UNCHANGED <<disk, now, mem, status>>
      /\ at' = [at EXCEPT ![p].i = @ + 1]
  BY DEF SkipAction, Execute
<1>2. at'[p].c = at[p].c /\ ToReserve(p)' \subseteq ToReserve(p)
  BY <1>1, Beyond
<1>3. CASE pc' = [pc EXCEPT ![p] = "act"]
  BY <1>1, <1>2, <1>3, RunningKeeps
<1>4. CASE pc' = [pc EXCEPT ![p] = "exit"]
  BY <1>1, <1>4, UnsavedKeeps DEF Away, PcNames
<1> QED BY <1>3, <1>4 DEF SkipAction, Execute

(* Sessions begin and end. *)
LEMMA SessionKeeps ==
  ASSUME IInv, DInv, NEW p \in Procs,
         (\E j \in Jobs : Lock(p, j)) \/ Load(p) \/ Exit(p) \/ Crash(p)
  PROVE  KeepsOK
<1>1. CASE \E j \in Jobs : Lock(p, j)
  <2>1. /\ lock = None /\ pc' = [pc EXCEPT ![p] = "load"] /\ UNCHANGED disk
    BY <1>1 DEF Lock, LockFree
  <2>2. \A q \in Procs : pc[q] = "idle"
    BY <2>1, ContainersAssumption DEF IInv, LocalInv, HolderOK
  <2>3. \A q \in Procs : pc'[q] \in {"idle", "load"}
    BY <2>1, <2>2 DEF IInv, TypeOK
  <2>4. \A q \in Procs : DecisionOK(q)' /\ ManualOK(q)'
    BY <2>3, AwayOK DEF Away, PcNames
  <2>5. FileOK' /\ NothingLost
    BY <2>1, NothingWritten DEF DInv, FileOK
  <2> QED BY <2>4, <2>5 DEF KeepsOK, DInv
<1>2. CASE Load(p)
  <2>1. /\ pc[p] = "load" /\ UNCHANGED <<disk, job>>
        /\ pc' = [pc EXCEPT ![p] = FirstStep(job[p])]
    BY <1>2 DEF Load
  <2>2. /\ FirstStep(job[p]) \in {"expire", "manual", "offline"}
        /\ FirstStep(job[p]) = "manual" => job[p] = "manual"
    BY DEF FirstStep
  <2>3. CASE FirstStep(job[p]) = "manual"
    <3>1. pc'[p] = "manual" /\ job'[p] = "manual"
      BY <2>1, <2>2, <2>3 DEF IInv, TypeOK
    <3>2. DecisionOK(p)' /\ ManualOK(p)'
      BY <3>1 DEF DecisionOK, ManualOK
    <3> QED BY <2>1, <3>2, UnsavedKeeps
  <2>4. CASE FirstStep(job[p]) # "manual"
    <3>1. FirstStep(job[p]) \in Away
      BY <2>2, <2>4 DEF Away, PcNames
    <3> QED BY <2>1, <3>1, UnsavedKeeps
  <2> QED BY <2>3, <2>4
<1>3. CASE Exit(p) \/ Crash(p)
  <2>1. pc[p] # "idle" /\ pc' = [pc EXCEPT ![p] = "idle"] /\ UNCHANGED disk
    BY <1>3 DEF Exit, Crash, Close
  <2> QED BY <2>1, UnsavedKeeps DEF Away, PcNames
<1> QED BY <1>1, <1>2, <1>3

(* Time passes: maintenance that is over stays over, unless the clock is   *)
(* set back.                                                               *)
LEMMA TimeKeeps ==
  ASSUME IInv, DInv, UNCHANGED <<lock, disk, session, issued>>,
         now' \in 1 .. MaxTime, now' >= now \/ ClockStepsBack
  PROVE  KeepsOK
<1>1. UNCHANGED <<pc, job, mem, at, status>>
  BY DEF session
<1>2. ASSUME NEW p \in Procs PROVE DecisionOK(p)' /\ ManualOK(p)'
  <2>1. ASSUME pc[p] \in {"claim", "act", "run"}, ~Suspended(p) PROVE ~Suspended(p)'
    <3>1. at[p].c \in Containers
      BY <2>1, ToReserveIs
    <3>2. mem[p].maintenance[at[p].c] \in Nat /\ now \in Nat /\ now' \in Nat
      BY <3>1, OptionsAssumption DEF IInv, TypeOK, State
    <3> QED BY <1>1, <2>1, <3>2 DEF Suspended, InMaintenance
  <2>2. Fits(p) => Fits(p)'
    BY <1>1 DEF Fits, ToReserve
  <2> QED BY <1>1, <2>1, <2>2 DEF DInv, DecisionOK, ManualOK, Proceeding, Permits
<1>3. FileOK' /\ NothingLost
  BY NothingWritten DEF DInv, FileOK
<1> QED BY <1>2, <1>3 DEF KeepsOK, DInv

-----------------------------------------------------------------------------
(* Both invariants are inductive, and no step loses what was written.      *)
LEMMA NextKeeps == IInv /\ DInv /\ [Next]_vars => KeepsOK
<1> SUFFICES ASSUME IInv, DInv, [Next]_vars PROVE KeepsOK
  OBVIOUS
<1>1. CASE UNCHANGED vars
  <2>1. now' \in 1 .. MaxTime /\ now' >= now
    BY <1>1, OptionsAssumption DEF vars, IInv, TypeOK
  <2> QED BY <1>1, <2>1, TimeKeeps DEF vars
<1>2. CASE Tick
  <2>1. now' \in 1 .. MaxTime /\ (now' >= now \/ ClockStepsBack)
    BY <1>2, OptionsAssumption DEF Tick, IInv, TypeOK
  <2> QED BY <1>2, <2>1, TimeKeeps DEF Tick
<1>3. ASSUME NEW p \in Procs, CycleStep(p) PROVE KeepsOK
  BY <1>3, AwayKeeps, ExpireKeeps, ClearKeeps, ObservingKeeps, DecideKeeps, ClaimRefusedKeeps,
     ClaimKeeps, ReserveAttemptKeeps, NoReservationKeeps, ActionDoneKeeps DEF CycleStep
<1>4. ASSUME NEW p \in Procs, OperatorStep(p) PROVE KeepsOK
  <2>1. ASSUME NEW c \in Containers, OfflineRearm(p, c) PROVE KeepsOK
    BY <2>1, RearmKeeps DEF OfflineRearm
  <2>2. ASSUME NEW c \in Containers, OfflineMaintenance(p, c) PROVE KeepsOK
    BY <2>2, MaintainKeeps DEF OfflineMaintenance
  <2>3. pc[p] = "operate" => at[p].c \in Containers /\ job[p] = "manual"
    BY DEF IInv, LocalInv, PlaceOK, DInv, ManualOK
  <2>4. ASSUME ManualRearm(p) PROVE KeepsOK
    BY <2>3, <2>4, RearmKeeps DEF ManualRearm
  <2>5. ASSUME ManualMaintenance(p) PROVE KeepsOK
    BY <2>3, <2>5, MaintainKeeps DEF ManualMaintenance
  <2> QED BY <1>4, <2>1, <2>2, <2>4, <2>5, ManualClaimKeeps, AwayKeeps DEF OperatorStep
<1> QED BY <1>1, <1>2, <1>3, <1>4, SessionKeeps, AwayKeeps DEF Next, Step

LEMMA InitDInv == Init => DInv
<1> SUFFICES ASSUME Init PROVE DInv
  OBVIOUS
<1>1. \A p \in Procs : pc[p] = "idle"
  BY DEF Init
<1>2. disk.cooldowns = Fresh.cooldowns
  BY DEF Init, NoFile, Fresh
<1> QED BY <1>1, <1>2 DEF DInv, FileOK, DecisionOK, ManualOK

LEMMA Decisions == Spec => [](IInv /\ DInv)
<1>1. (IInv /\ DInv) /\ [Next]_vars => (IInv /\ DInv)'
  BY NextInv, NextKeeps DEF StepOK, KeepsOK
<1> QED BY <1>1, InitInv, InitDInv, PTL DEF Spec

(* SequencesFit: a rule that has been let through never meets the restart  *)
(* limit half way: what it still has to reserve fits the budget, on any    *)
(* clock (RestartPolicy.permits counts the whole sequence).                *)
THEOREM SequencesFit == Spec => []SequenceFits
<1>1. IInv /\ DInv => SequenceFits
  <2> SUFFICES ASSUME IInv, DInv, NEW p \in Procs, pc[p] \in {"claim", "act", "run"},
                      status[p] \in {"claim", "execute", "dry-run"}
               PROVE  Fits(p)
    BY DEF SequenceFits, Fits
  <2>1. CASE pc[p] = "claim"
    <3> DEFINE S == Restarts(at[p].r)
               T == ToReserve(p)
               n == mem[p].restarts[at[p].c]
    <3>1. T \subseteq S /\ IsFiniteSet(S) /\ n \in Nat /\ (S = {} \/ n + Cardinality(S) <= MaxRestarts)
      BY <2>1, ToReserveIs DEF DInv, DecisionOK, Permits
    <3> HIDE DEF S, T, n
    <3>2. T = {} \/ n + Cardinality(T) <= MaxRestarts
      BY <3>1, FewerFit
    <3> QED BY <3>2 DEF Fits, T, n
  <2>2. CASE pc[p] \in {"act", "run"}
    BY <2>2 DEF DInv, DecisionOK, Proceeding
  <2> QED BY <2>1, <2>2
<1> QED BY <1>1, Decisions, PTL

(* DecisionHolds: while the actions of a rule run, no maintenance is in    *)
(* force for the container in the file and the rest of the sequence fits   *)
(* the budget, provided that the wall clock is not set back (engine.py     *)
(* decides once, before the first action).                                 *)
THEOREM DecisionHolds ==
  ASSUME ~ClockStepsBack
  PROVE  Spec => []DecisionStands
<1>1. IInv /\ DInv => NotSuspended
  <2> SUFFICES ASSUME IInv, DInv, NEW p \in Procs, pc[p] = "run", status[p] = "execute"
               PROVE  ~InMaintenance(disk, at[p].c, now)
    BY DEF NotSuspended
  <2>1. ~InMaintenance(mem[p], at[p].c, now)
    BY DEF DInv, DecisionOK, Proceeding, Suspended
  <2>2. mem[p] = Loaded(disk)
    BY DEF IInv, LocalInv, JobOK, MemOK, Writing
  <2>3. mem[p].maintenance = disk.maintenance
    BY <2>2, LoadedData DEF DInv
  <2> QED BY <2>1, <2>3 DEF InMaintenance
<1> QED BY <1>1, Decisions, SequencesFit, PTL DEF DecisionStands

(* NothingIsLost: no step of any session undoes what another one wrote: a  *)
(* cooldown in force, an attempt that was counted, a maintenance window    *)
(* (LocalState._save replaces the whole file).                             *)
THEOREM NothingIsLost == Spec => NoLostUpdate
<1>1. IInv /\ DInv /\ [Next]_vars => [NothingLost]_vars
  BY NextKeeps DEF KeepsOK
<1> QED BY <1>1, Decisions, PTL DEF Spec, NoLostUpdate, NothingLost

-----------------------------------------------------------------------------
(***************************************************************************)
(* The history of what was observed and started.  Recording it does not    *)
(* change what the sessions do, so both invariants hold of HSpec too.      *)
(***************************************************************************)
LEMMA HistoryStep == HNext => Next
<1> SUFFICES ASSUME HNext, ~Tick PROVE Next
  BY DEF Next
<1>1. PICK p \in Procs : (\E j \in Jobs : Lock(p, j)) \/ NewPass(p) \/ Seen(p) \/ Started(p) \/ Unrecorded(p)
  BY DEF HNext
<1>2. NewPass(p) \/ Seen(p) \/ Started(p) => CycleStep(p) \/ OperatorStep(p)
  BY DEF NewPass, Seen, Started, CycleStep, OperatorStep
<1>3. Unrecorded(p) => Load(p) \/ CycleStep(p) \/ OperatorStep(p) \/ Raise(p) \/ Exit(p) \/ Crash(p)
  BY DEF Unrecorded, CycleStep, OperatorStep
<1> QED BY <1>1, <1>2, <1>3 DEF Next, Step

LEMMA HistoryDecisions == HSpec => [](IInv /\ DInv) /\ [][Next]_vars
<1>1. HInit => Init
  BY DEF HInit
<1>2. [HNext]_hvars => [Next]_vars
  BY HistoryStep DEF hvars
<1> QED BY <1>1, <1>2, Decisions, PTL DEF Spec, HSpec

(***************************************************************************)
(* obs is the streak of k in the first n passes of q: it ends with the     *)
(* n-th pass and cannot be extended backwards; there is none if that pass  *)
(* did not observe k.                                                      *)
(***************************************************************************)
Exact(q, k, n, obs) ==
  IF n = 0 \/ q[n][k] = 0
    THEN obs = NoObs
    ELSE \E m \in 1 .. n :
           /\ obs = [since |-> q[m][k], last |-> q[n][k]]
           /\ \A i \in m .. n : q[i][k] > 0 /\ q[i][k] >= q[m][k]
           /\ \A i \in m + 1 .. n : q[i][k] - q[i - 1][k] \in 0 .. MaxGap
           /\ m > 1 => q[m - 1][k] = 0 \/ q[m][k] - q[m - 1][k] \notin 0 .. MaxGap

(* The rules that the cycle of p has still to observe. *)
InCycle == {"select", "next", "match", "observe", "decide", "claim", "act", "run"}

Ahead(p) ==
  {k \in Tracks :
     \/ pc[p] = "select"
     \/ k[1] \in todo[p]
     \/ /\ k[1] = at[p].c
        /\ \/ pc[p] \in {"match", "observe"} /\ k[2] >= at[p].r
           \/ pc[p] \in {"decide", "claim", "act", "run"} /\ k[2] > at[p].r}

(***************************************************************************)
(* The invariant of the history.  FileExact: the file holds exactly the    *)
(* streaks of the history.  Spaced: a start is remembered by the file      *)
(* until its cooldown is over.  CycleOK: a rule the cycle has still to     *)
(* observe is unobserved in this pass, and the policy remembers its streak *)
(* up to the pass before.  Judging: the verdict of the trigger delay.      *)
(***************************************************************************)
HType == passes \in Seq([Tracks -> Nat]) /\ started \in [Tracks -> Nat]

FileExact == \A k \in Tracks : Exact(passes, k, Len(passes), disk.observations[k])

Spaced ==
  \A k \in Tracks : \/ started[k] = 0
                    \/ disk.cooldowns[k] = started[k] + Cooldown
                    \/ now >= started[k] + Cooldown

CycleOK(p) ==
  pc[p] \in InCycle /\ ~ReadOnly(p) =>
    /\ Len(passes) >= 1
    /\ pc[p] \notin {"select", "next"} => at[p].c \notin todo[p]
    /\ \A k \in Ahead(p) : /\ passes[Len(passes)][k] = 0
                           /\ Exact(passes, k, Len(passes) - 1, prev[p][k])

Judging(p) ==
  pc[p] = "decide" /\ ~ReadOnly(p) /\ Tracked(at[p].r) =>
    LET k == <<at[p].c, at[p].r>>
        long == LongEnough(disk.observations[k])
    IN  /\ status[p] = "ready" => passes[Len(passes)][k] > 0 /\ long
        /\ status[p] = "pending" /\ passes[Len(passes)][k] > 0 => ~long

HInv == HType /\ FileExact /\ Spaced /\ \A p \in Procs : CycleOK(p) /\ Judging(p)

-----------------------------------------------------------------------------
(***************************************************************************)
(* Streaks.  What was passed does not change a streak that ended before;   *)
(* a new observation continues the streak or starts one as Streak says;    *)
(* and a streak is long enough just when the condition was sustained.      *)
(***************************************************************************)
LEMMA ExactSame ==
  ASSUME NEW q, NEW r, NEW k, NEW n \in Nat, NEW obs,
         \A i \in 1 .. n : r[i][k] = q[i][k], Exact(q, k, n, obs)
  PROVE  Exact(r, k, n, obs)
<1>1. CASE n = 0 \/ q[n][k] = 0
  BY <1>1 DEF Exact
<1>2. CASE ~(n = 0 \/ q[n][k] = 0)
  <2>1. PICK m \in 1 .. n :
           /\ obs = [since |-> q[m][k], last |-> q[n][k]]
           /\ \A i \in m .. n : q[i][k] > 0 /\ q[i][k] >= q[m][k]
           /\ \A i \in m + 1 .. n : q[i][k] - q[i - 1][k] \in 0 .. MaxGap
           /\ m > 1 => q[m - 1][k] = 0 \/ q[m][k] - q[m - 1][k] \notin 0 .. MaxGap
    BY <1>2 DEF Exact
  <2>2. obs = [since |-> r[m][k], last |-> r[n][k]]
    BY <2>1
  <2>3. \A i \in m .. n : r[i][k] > 0 /\ r[i][k] >= r[m][k]
    BY <2>1
  <2>4. \A i \in m + 1 .. n : r[i][k] - r[i - 1][k] \in 0 .. MaxGap
    <3> TAKE i \in m + 1 .. n
    <3>1. i \in 1 .. n /\ i - 1 \in 1 .. n
      OBVIOUS
    <3> QED BY <2>1, <3>1
  <2>5. m > 1 => r[m - 1][k] = 0 \/ r[m][k] - r[m - 1][k] \notin 0 .. MaxGap
    BY <2>1
  <2>6. r[n][k] = q[n][k]
    BY <1>2
  <2> QED BY <1>2, <2>2, <2>3, <2>4, <2>5, <2>6 DEF Exact
<1> QED BY <1>1, <1>2

LEMMA ExactExtended ==
  ASSUME NEW n \in Nat \ {0}, NEW q, NEW k, NEW old, NEW t \in Nat \ {0},
         \A i \in 1 .. n : q[i][k] \in Nat, q[n][k] = t, Exact(q, k, n - 1, old)
  PROVE  Exact(q, k, n, Streak(old, t))
<1> DEFINE fresh == [since |-> t, last |-> t]
<1>0. MaxGap \in Nat
  BY OptionsAssumption
<1>1. ASSUME n > 1 => q[n - 1][k] = 0 \/ t - q[n - 1][k] \notin 0 .. MaxGap
      PROVE  Exact(q, k, n, fresh)
  <2>1. \A i \in n .. n : q[i][k] > 0 /\ q[i][k] >= q[n][k]
    OBVIOUS
  <2>2. \A i \in n + 1 .. n : q[i][k] - q[i - 1][k] \in 0 .. MaxGap
    OBVIOUS
  <2> QED BY <1>1, <2>1, <2>2 DEF Exact
<1>2. CASE n = 1 \/ q[n - 1][k] = 0
  <2>1. old = NoObs
    BY <1>2 DEF Exact
  <2> QED BY <1>1, <1>2, <2>1 DEF Streak
<1>3. CASE ~(n = 1 \/ q[n - 1][k] = 0)
  <2> DEFINE u == q[n - 1][k]
  <2>0. n - 1 \in Nat /\ u \in Nat \ {0}
    BY <1>3
  <2>1. PICK m \in 1 .. n - 1 :
           /\ old = [since |-> q[m][k], last |-> u]
           /\ \A i \in m .. n - 1 : q[i][k] > 0 /\ q[i][k] >= q[m][k]
           /\ \A i \in m + 1 .. n - 1 : q[i][k] - q[i - 1][k] \in 0 .. MaxGap
           /\ m > 1 => q[m - 1][k] = 0 \/ q[m][k] - q[m - 1][k] \notin 0 .. MaxGap
    BY <1>3 DEF Exact
  <2>2. old.last = u /\ old.since = q[m][k] /\ old # NoObs
    <3>1. old.last = u /\ old.since = q[m][k]
      BY <2>1
    <3>2. NoObs.last = 0
      BY DEF NoObs
    <3> QED BY <2>0, <3>1, <3>2
  <2>3. CASE t < u \/ t - u > MaxGap
    <3>1. t - u \notin 0 .. MaxGap
      BY <2>0, <2>3, <1>0
    <3>2. Streak(old, t) = fresh
      BY <2>2, <2>3 DEF Streak
    <3> QED BY <1>1, <3>1, <3>2
  <2>4. CASE ~(t < u \/ t - u > MaxGap)
    <3>1. t - u \in 0 .. MaxGap /\ t >= u
      BY <2>0, <2>4, <1>0
    <3>2. Streak(old, t) = [since |-> q[m][k], last |-> t]
      BY <2>2, <2>4 DEF Streak
    <3>3. \A i \in m .. n : q[i][k] > 0 /\ q[i][k] >= q[m][k]
      <4> TAKE i \in m .. n
      <4>1. CASE i \in m .. n - 1
        BY <4>1, <2>1
      <4>2. CASE i = n
        <5>1. u >= q[m][k] /\ q[m][k] \in Nat
          BY <2>1
        <5> QED BY <4>2, <5>1, <3>1, <2>0
      <4> QED BY <4>1, <4>2
    <3>4. \A i \in m + 1 .. n : q[i][k] - q[i - 1][k] \in 0 .. MaxGap
      <4> TAKE i \in m + 1 .. n
      <4>1. CASE i \in m + 1 .. n - 1
        BY <4>1, <2>1
      <4>2. CASE i = n
        BY <4>2, <3>1
      <4> QED BY <4>1, <4>2
    <3>5. m \in 1 .. n /\ (m > 1 => q[m - 1][k] = 0 \/ q[m][k] - q[m - 1][k] \notin 0 .. MaxGap)
      BY <2>1
    <3>6. ~(n = 0 \/ q[n][k] = 0)
      OBVIOUS
    <3> HIDE DEF u
    <3> QED BY <3>2, <3>3, <3>4, <3>5, <3>6 DEF Exact
  <2> QED BY <2>3, <2>4
<1> QED BY <1>2, <1>3

LEMMA LongIsSustained ==
  ASSUME HType, NEW k \in Tracks, NEW obs, Len(passes) >= 1,
         passes[Len(passes)][k] > 0, Exact(passes, k, Len(passes), obs)
  PROVE  LongEnough(obs) <=> Sustained(k)
<1> DEFINE n == Len(passes)
<1>1. n \in Nat \ {0} /\ \A i \in 1 .. n : passes[i][k] \in Nat
  <2>1. n \in Nat \ {0} /\ \A i \in 1 .. n : passes[i] \in [Tracks -> Nat]
    BY DEF HType
  <2> QED BY <2>1
<1>2. TriggerAfter \in Nat /\ MaxGap \in Nat
  BY OptionsAssumption
<1>a. Exact(passes, k, n, obs) /\ ~(n = 0 \/ passes[n][k] = 0)
  BY <1>1
<1> HIDE DEF n
<1>3. PICK m \in 1 .. n :
           /\ obs = [since |-> passes[m][k], last |-> passes[n][k]]
           /\ \A i \in m .. n : passes[i][k] > 0 /\ passes[i][k] >= passes[m][k]
           /\ \A i \in m + 1 .. n : passes[i][k] - passes[i - 1][k] \in 0 .. MaxGap
           /\ m > 1 => \/ passes[m - 1][k] = 0
                       \/ passes[m][k] - passes[m - 1][k] \notin 0 .. MaxGap
  BY <1>a DEF Exact
<1>4. LongEnough(obs) <=> passes[n][k] - passes[m][k] >= TriggerAfter
  BY <1>3 DEF LongEnough
<1>5. Unbroken(k, m)
  BY <1>3 DEF Unbroken, n
<1>6. ASSUME NEW j \in 1 .. n, Unbroken(k, j), passes[n][k] - passes[j][k] >= TriggerAfter
      PROVE  passes[n][k] - passes[m][k] >= TriggerAfter
  <2>1. ~(j < m)
    <3> SUFFICES ASSUME j < m PROVE FALSE
      OBVIOUS
    <3>1. m - 1 \in j .. n /\ m \in j + 1 .. n /\ m > 1
      BY <1>1
    <3>2. passes[m - 1][k] > 0 /\ passes[m][k] - passes[m - 1][k] \in 0 .. MaxGap
      BY <1>6, <3>1 DEF Unbroken, n
    <3>3. passes[m - 1][k] \in Nat
      BY <1>1, <3>1
    <3> QED BY <1>3, <3>1, <3>2, <3>3
  <2>2. passes[j][k] >= passes[m][k]
    BY <1>1, <1>3, <2>1
  <2>3. passes[j][k] \in Nat /\ passes[m][k] \in Nat /\ passes[n][k] \in Nat
    BY <1>1
  <2> QED BY <1>2, <1>6, <2>2, <2>3
<1>7. Sustained(k) <=> \E j \in 1 .. n : Unbroken(k, j) /\ passes[n][k] - passes[j][k] >= TriggerAfter
  BY DEF Sustained, n
<1> QED BY <1>4, <1>5, <1>6, <1>7

-----------------------------------------------------------------------------
(***************************************************************************)
(* A step of the session that holds the lock.                              *)
(***************************************************************************)
SessionStep(p) ==
  Load(p) \/ CycleStep(p) \/ OperatorStep(p) \/ Raise(p) \/ Exit(p) \/ Crash(p)

LEMMA OnlyHolder ==
  ASSUME NEW p \in Procs, SessionStep(p)
  PROVE  /\ pc[p] # "idle" /\ now' = now
         /\ \E to \in PcNames : pc' = [pc EXCEPT ![p] = to]
<1>1. CASE Load(p) \/ Raise(p) \/ Exit(p) \/ Crash(p)
  BY <1>1 DEF Load, FirstStep, Raise, Exit, Crash, Close, PcNames
<1>2. CASE OperatorStep(p)
  BY <1>2 DEF OperatorStep, ManualClaim, OfflineRearm, OfflineMaintenance, ManualRejected,
         ManualDocker, ManualRearm, ManualMaintenance, OfflineNothing, Rearm, Maintain, Save, PcNames
<1>3. CASE Expire(p) \/ Clear(p) \/ ObserveUnmatched(p) \/ ObserveMasked(p) \/ ObserveMatched(p)
  BY <1>3 DEF Expire, Clear, ObserveUnmatched, ObserveMasked, ObserveMatched, Forget, Save, PcNames
<1>4. CASE \/ Select(p) \/ EndCycle(p) \/ ContainerDone(p) \/ \E c \in Containers : NextContainer(p, c)
           \/ \E matched \in BOOLEAN : Match(p, matched)
           \/ ObserveUntracked(p) \/ Decide(p) \/ ClaimRefused(p)
  BY <1>4 DEF Select, EndCycle, ContainerDone, NextContainer, Match, ObserveUntracked, Decide,
         ClaimRefused, PcNames
<1>5. CASE \/ Claim(p) \/ ReserveAttempt(p) \/ NoReservation(p)
           \/ SkipAction(p) \/ Execute(p) \/ RuleDone(p)
  BY <1>5 DEF Claim, ReserveAttempt, NoReservation, SkipAction, Execute, RuleDone, Save, PcNames
<1> QED BY <1>1, <1>2, <1>3, <1>4, <1>5 DEF SessionStep, CycleStep

LEMMA HolderHistory ==
  ASSUME IInv, NEW p \in Procs, SessionStep(p),
         HType', FileExact', Spaced', CycleOK(p)', Judging(p)'
  PROVE  HInv'
<1>1. ASSUME NEW q \in Procs \ {p} PROVE CycleOK(q)' /\ Judging(q)'
  <2>1. pc[q] = "idle"
    BY OnlyHolder DEF IInv, LocalInv, HolderOK
  <2>2. pc'[q] = "idle"
    BY <2>1, OnlyHolder DEF IInv, TypeOK
  <2> QED BY <2>2 DEF CycleOK, InCycle, Judging
<1> QED BY <1>1 DEF HInv

(* What was started keeps its distance: no step drops a cooldown in force. *)
LEMMA StillSpaced ==
  ASSUME HType, NothingLost, UNCHANGED now,
         NEW k \in Tracks, started'[k] = started[k],
         \/ started[k] = 0 \/ disk.cooldowns[k] = started[k] + Cooldown
         \/ now >= started[k] + Cooldown, now \in Nat
  PROVE  \/ started'[k] = 0 \/ disk'.cooldowns[k] = started'[k] + Cooldown
         \/ now' >= started'[k] + Cooldown
<1>1. PICK c \in Containers, r \in Rules : k = <<c, r>>
  BY DEF Tracks
<1>2. started[k] \in Nat /\ Cooldown \in Nat /\ r \in Keys
  BY OptionsAssumption DEF HType, Keys
<1>3. OnCooldown(disk, c, r, now) => disk'.cooldowns[c, r] = disk.cooldowns[c, r]
  BY <1>2 DEF NothingLost
<1>4. CASE disk.cooldowns[k] = started[k] + Cooldown /\ ~(now >= started[k] + Cooldown)
  <2>1. disk.cooldowns[k] > now
    BY <1>2, <1>4
  <2>2. disk'.cooldowns[k] = disk.cooldowns[k]
    BY <1>1, <1>3, <2>1 DEF OnCooldown
  <2> QED BY <1>4, <2>2
<1> QED BY <1>4

(* A version that carries no observations has none. *)
LEMMA FileObservations ==
  ASSUME IInv
  PROVE  /\ Loaded(disk).observations = disk.observations
         /\ disk.observations \in [Tracks -> Observation]
<1>1. disk \in State /\ FitsVersion(disk)
  BY DEF IInv, TypeOK
<1>2. Loaded(disk).observations = disk.observations
  BY <1>1 DEF Loaded, FitsVersion, Fresh
<1> QED BY <1>1, <1>2 DEF State, Tracks

(* A session that is not a dry run writes what it decides to write. *)
LEMMA SavedData ==
  ASSUME IInv, FileOK, NEW p \in Procs, pc[p] \notin {"idle", "load", "exit"},
         NEW s \in State, FitsVersion(s), s.version >= 1, NEW then \in PcNames \ {"exit"},
         Save(p, s, then), ~ReadOnly(p), pc'[p] # "exit" \/ disk' # disk
  PROVE  disk'.cooldowns = s.cooldowns /\ disk'.observations = s.observations
<1>1. Saved(s) = s
  BY SavedState
<1>2. mem[p] = Loaded(disk)
  BY DEF IInv, LocalInv, MemOK, Writing
<1>3. CASE disk' = s
  BY <1>3
<1>4. CASE disk' # s
  <2>1. s = mem[p] /\ disk' = disk
    BY <1>1, <1>4 DEF Save, Saves, IInv, TypeOK, PcNames
  <2> QED BY <1>2, <2>1, LoadedData, FileObservations
<1> QED BY <1>3, <1>4

(***************************************************************************)
(* A step outside the cycle, and a step inside it that observes nothing.   *)
(***************************************************************************)
LEMMA Outside ==
  ASSUME IInv, NEW p \in Procs, pc'[p] \notin InCycle
  PROVE  CycleOK(p)' /\ Judging(p)'
BY DEF CycleOK, Judging, InCycle

LEMMA Inside ==
  ASSUME HInv, NEW p \in Procs, pc[p] \in InCycle, pc'[p] \in InCycle \ {"select"},
         Ahead(p)' \subseteq Ahead(p), pc'[p] # "next" => at'[p].c \notin todo'[p],
         UNCHANGED job, Len(passes') = Len(passes),
         \A i \in 1 .. Len(passes) : \A k \in Ahead(p)' : passes'[i][k] = passes[i][k],
         \A k \in Ahead(p)' : prev'[p][k] = prev[p][k]
  PROVE  CycleOK(p)'
<1> SUFFICES ASSUME ~ReadOnly(p) PROVE CycleOK(p)'
  BY DEF CycleOK, ReadOnly
<1> DEFINE n == Len(passes)
<1>1. n \in Nat /\ n >= 1
  BY DEF HInv, HType, CycleOK
<1>2. ASSUME NEW k \in Ahead(p)'
      PROVE  passes'[n][k] = 0 /\ Exact(passes', k, n - 1, prev'[p][k])
  <2>1. passes[n][k] = 0 /\ Exact(passes, k, n - 1, prev[p][k])
    BY DEF HInv, CycleOK
  <2>2. n \in 1 .. n /\ \A i \in 1 .. n - 1 : i \in 1 .. n
    BY <1>1
  <2>3. passes'[n][k] = passes[n][k] /\ \A i \in 1 .. n - 1 : passes'[i][k] = passes[i][k]
    BY <2>2
  <2>4. n - 1 \in Nat /\ prev'[p][k] = prev[p][k]
    BY <1>1
  <2> HIDE DEF n
  <2>5. Exact(passes', k, n - 1, prev[p][k])
    BY <2>1, <2>3, <2>4, ExactSame
  <2> QED BY <2>1, <2>3, <2>4, <2>5
<1>3. Len(passes)' = n
  OBVIOUS
<1> HIDE DEF n
<1> QED BY <1>1, <1>2, <1>3 DEF CycleOK

(***************************************************************************)
(* The steps that neither observe nor clear anything.                      *)
(***************************************************************************)
UnseenStep(p) ==
  \/ Select(p) \/ EndCycle(p) \/ ContainerDone(p)
  \/ \E c \in Containers : NextContainer(p, c)
  \/ \E matched \in BOOLEAN : Match(p, matched)
  \/ ObserveUntracked(p) \/ Decide(p) \/ ClaimRefused(p) \/ Claim(p)
  \/ ReserveAttempt(p) \/ NoReservation(p) \/ SkipAction(p) \/ Execute(p) \/ RuleDone(p)

(* Where they go, and what remains to be observed. *)
LEMMA UnseenPlace ==
  ASSUME IInv, HInv, NEW p \in Procs, UnseenStep(p), ~ReadOnly(p)
  PROVE  /\ pc[p] \in InCycle /\ pc'[p] \in (InCycle \ {"select"}) \cup {"exit"}
         /\ pc'[p] \in InCycle => /\ Ahead(p)' \subseteq Ahead(p)
                                  /\ pc'[p] # "next" => at'[p].c \notin todo'[p]
         /\ UNCHANGED <<job, prev>>
         /\ pc'[p] = "decide" => ~Tracked(at'[p].r)
<1>0. /\ at \in [Procs -> [c : Containers \cup {None}, r : Nat, i : Nat]]
      /\ pc \in [Procs -> PcNames] /\ todo \in [Procs -> SUBSET Containers]
      /\ status \in [Procs -> StatusNames] /\ at[p].r \in Nat
  BY DEF IInv, TypeOK
<1>1. CASE Select(p)
  <2>1. pc[p] = "select" /\ pc'[p] = "next" /\ UNCHANGED <<job, prev, at>>
    BY <1>0, <1>1 DEF Select
  <2> QED BY <2>1 DEF InCycle, Ahead
<1>2. CASE EndCycle(p) \/ ContainerDone(p)
  <2>1. pc[p] \in {"next", "match"} /\ pc'[p] \in {"exit", "next"} /\ UNCHANGED <<job, prev, at, todo>>
    BY <1>0, <1>2 DEF EndCycle, ContainerDone
  <2> QED BY <2>1 DEF InCycle, Ahead
<1>3. CASE \E c \in Containers : NextContainer(p, c)
  <2>1. PICK c \in Containers : NextContainer(p, c)
    BY <1>3
  <2>2. /\ pc[p] = "next" /\ pc'[p] = "match" /\ c \in todo[p] /\ UNCHANGED <<job, prev>>
        /\ todo'[p] = todo[p] \ {c} /\ at'[p].c = c
    BY <1>0, <2>1 DEF NextContainer
  <2> QED BY <2>2 DEF InCycle, Ahead
<1>4. CASE (\E matched \in BOOLEAN : Match(p, matched)) \/ ObserveUntracked(p)
  <2>1. /\ \/ pc[p] = "match" /\ pc'[p] = "observe"
           \/ pc[p] = "observe" /\ pc'[p] = "decide" /\ ~Tracked(at[p].r)
        /\ UNCHANGED <<job, prev, at, todo>>
    BY <1>0, <1>4 DEF Match, ObserveUntracked
  <2>2. at[p].c \notin todo[p]
    BY <2>1 DEF HInv, CycleOK, InCycle
  <2>3. Ahead(p)' \subseteq Ahead(p)
    <3>1. \A r \in Rules : r > at[p].r => r >= at[p].r
      BY <1>0 DEF Rules
    <3> QED BY <2>1, <3>1 DEF Ahead, Tracks
  <2> QED BY <2>1, <2>2, <2>3 DEF InCycle
<1>5. CASE \/ Decide(p) \/ ClaimRefused(p) \/ Claim(p) \/ ReserveAttempt(p) \/ NoReservation(p)
           \/ SkipAction(p) \/ Execute(p)
  <2>1. /\ pc[p] \in {"decide", "claim", "act", "run"}
        /\ pc'[p] \in {"claim", "act", "run", "exit"}
        /\ UNCHANGED <<job, prev, todo>>
    BY <1>0, <1>5 DEF Decide, ClaimRefused, Claim, ReserveAttempt, NoReservation, SkipAction,
                       Execute, Save
  <2>2. at'[p].c = at[p].c /\ at'[p].r = at[p].r
    BY <1>0, <1>5 DEF Decide, ClaimRefused, Claim, ReserveAttempt, NoReservation, SkipAction, Execute
  <2>3. at[p].c \notin todo[p]
    BY <2>1 DEF HInv, CycleOK, InCycle
  <2>4. Ahead(p)' \subseteq Ahead(p)
    BY <2>1, <2>2 DEF Ahead
  <2> QED BY <2>1, <2>2, <2>3, <2>4 DEF InCycle
<1>6. CASE RuleDone(p)
  <2>1. pc[p] = "act" /\ pc'[p] = "match" /\ UNCHANGED <<job, prev, todo>>
    BY <1>0, <1>6 DEF RuleDone
  <2>2. at'[p].c = at[p].c /\ at'[p].r = at[p].r + 1
    BY <1>0, <1>6, NextRulePlace DEF RuleDone
  <2>3. at[p].c \notin todo[p]
    BY <2>1 DEF HInv, CycleOK, InCycle
  <2>4. Ahead(p)' \subseteq Ahead(p)
    <3>1. \A r \in Rules : r >= at[p].r + 1 => r > at[p].r
      BY <1>0 DEF Rules
    <3> QED BY <2>1, <2>2, <3>1 DEF Ahead, Tracks
  <2> QED BY <2>1, <2>2, <2>3, <2>4 DEF InCycle
<1> QED BY <1>1, <1>2, <1>3, <1>4, <1>5, <1>6 DEF UnseenStep

(* A save that is not about observations leaves them in the file. *)
LEMMA ObservationsStay ==
  ASSUME IInv, NEW p \in Procs, pc[p] \notin {"idle", "load", "exit"},
         NEW s \in State, FitsVersion(s), s.version >= 1, NEW then \in PcNames,
         Save(p, s, then), UNCHANGED job, ~ReadOnly(p) => s.observations = disk.observations
  PROVE  disk'.observations = disk.observations
BY SaveStep

LEMMA HeldObservations ==
  ASSUME IInv, NEW p \in Procs, Writing(p)
  PROVE  mem[p].observations = disk.observations
BY FileObservations DEF IInv, LocalInv, MemOK

LEMMA UnseenFile ==
  ASSUME IInv, NEW p \in Procs,
         \/ UnseenStep(p)
         \/ \E c \in Containers : \E op \in ManualOperations : ManualClaim(p, c, op)
         \/ ManualRearm(p) \/ \E c \in Containers : OfflineRearm(p, c)
  PROVE  disk'.observations = disk.observations
<1>1. CASE \/ Select(p) \/ EndCycle(p) \/ ContainerDone(p)
           \/ \E c \in Containers : NextContainer(p, c)
           \/ \E matched \in BOOLEAN : Match(p, matched)
           \/ ObserveUntracked(p) \/ Decide(p) \/ ClaimRefused(p)
           \/ NoReservation(p) \/ SkipAction(p) \/ Execute(p) \/ RuleDone(p)
  BY <1>1 DEF Select, EndCycle, ContainerDone, NextContainer, Match, ObserveUntracked, Decide,
         ClaimRefused, NoReservation, SkipAction, Execute, RuleDone
<1>2. ASSUME NEW c \in Containers, NEW k \in Keys, NEW seconds \in Nat, NEW then \in PcNames,
             pc[p] \notin {"idle", "load", "exit"}, UNCHANGED job,
             Save(p, Reserve(mem[p], c, k, now, seconds), then)
      PROVE  disk'.observations = disk.observations
  <2> DEFINE s == Reserve(mem[p], c, k, now, seconds)
  <2>1. mem[p] \in State /\ FitsVersion(mem[p]) /\ now \in Nat /\ mem[p].version >= 1
    BY <1>2, HolderState
  <2>a. s \in State /\ FitsVersion(s) /\ s.version = mem[p].version
    <3>1. c \in Containers /\ k \in Keys /\ seconds \in Nat
      BY <1>2
    <3> DEFINE m == mem[p]
               t == Reserve(m, c, k, now, seconds)
    <3>2. m \in State /\ FitsVersion(m) /\ now \in Nat
      BY <2>1
    <3> HIDE DEF m
    <3>3. t \in State /\ FitsVersion(t) /\ t.version = m.version
      BY <3>1, <3>2, ReserveState
    <3> QED BY <3>3 DEF m
  <2>2. s \in State /\ FitsVersion(s) /\ s.version >= 1
    BY <2>1, <2>a
  <2>3. s.observations = mem[p].observations
    BY <2>1 DEF Reserve, State
  <2>4. ~ReadOnly(p) => s.observations = disk.observations
    BY <1>2, <2>3, HeldObservations DEF Writing
  <2>5. Save(p, s, then)
    BY <1>2
  <2> HIDE DEF s
  <2> QED BY <1>2, <2>2, <2>4, <2>5, ObservationsStay
<1>3. CASE Claim(p)
  <2>1. pc[p] = "claim" /\ UNCHANGED job /\ Save(p, Reserve(mem[p], at[p].c, at[p].r, now, Cooldown), "act")
    BY <1>3 DEF Claim
  <2>2. at[p].c \in Containers /\ at[p].r \in Keys /\ Cooldown \in Nat /\ "act" \in PcNames
    BY <2>1, OptionsAssumption DEF IInv, LocalInv, PlaceOK, Keys, PcNames
  <2> QED BY <1>2, <2>1, <2>2
<1>4. CASE \E c \in Containers : \E op \in ManualOperations : ManualClaim(p, c, op)
  <2>1. Manual \in Keys /\ ActionCooldown \in Nat /\ "operate" \in PcNames
    BY OptionsAssumption DEF Keys, PcNames
  <2> QED BY <1>2, <1>4, <2>1 DEF ManualClaim
<1>5. ASSUME NEW c \in Containers, pc[p] \in {"operate", "offline"}, UNCHANGED job, Rearm(p, c)
      PROVE  disk'.observations = disk.observations
  <2> DEFINE s == ResetRestarts(mem[p], c)
  <2>1. mem[p] \in State /\ FitsVersion(mem[p]) /\ mem[p].version >= 1 /\ mem[p].version \in 0 .. 4
    BY <1>5, HolderState
  <2>2. s \in State /\ FitsVersion(s) /\ s.version >= mem[p].version
    BY <2>1, ResetRestartsState
  <2>3. s.version >= 1
    BY <2>1, <2>2 DEF State
  <2>4. s.observations = mem[p].observations
    BY <2>1 DEF ResetRestarts, State
  <2>5. ~ReadOnly(p) => s.observations = disk.observations
    BY <1>5, <2>4, HeldObservations DEF Writing
  <2>6. Save(p, s, "exit") /\ "exit" \in PcNames
    BY <1>5 DEF Rearm, PcNames
  <2> HIDE DEF s
  <2> QED BY <1>5, <2>2, <2>3, <2>5, <2>6, ObservationsStay
<1>6. CASE ReserveAttempt(p)
  <2> DEFINE s == ReserveRestart(mem[p], at[p].c)
  <2>1. pc[p] = "act" /\ UNCHANGED job /\ (Save(p, s, "run") \/ UNCHANGED disk)
    BY <1>6 DEF ReserveAttempt
  <2>2. /\ mem[p] \in State /\ FitsVersion(mem[p]) /\ mem[p].version >= 1
        /\ mem[p].version \in 0 .. 4 /\ at[p].c \in Containers
    BY <2>1, HolderState DEF IInv, LocalInv, PlaceOK
  <2>3. s \in State /\ FitsVersion(s) /\ s.version >= mem[p].version
    BY <2>2, ReserveRestartState
  <2>4. s.version >= 1
    BY <2>2, <2>3 DEF State
  <2>5. s.observations = mem[p].observations
    BY <2>2 DEF ReserveRestart, State
  <2>6. ~ReadOnly(p) => s.observations = disk.observations
    BY <2>1, <2>5, HeldObservations DEF Writing
  <2>7. "run" \in PcNames
    BY DEF PcNames
  <2> HIDE DEF s
  <2> QED BY <2>1, <2>3, <2>4, <2>6, <2>7, ObservationsStay
<1>7. CASE ManualRearm(p)
  BY <1>5, <1>7 DEF ManualRearm, IInv, LocalInv, PlaceOK
<1>8. CASE \E c \in Containers : OfflineRearm(p, c)
  BY <1>5, <1>8 DEF OfflineRearm
<1> QED BY <1>1, <1>3, <1>4, <1>6, <1>7, <1>8 DEF UnseenStep

(***************************************************************************)
(* A step that leaves the history and the observations as they are.        *)
(***************************************************************************)
LEMMA QuietHistory ==
  ASSUME IInv, HInv, NothingLost, NEW p \in Procs, SessionStep(p), UNCHANGED <<passes, started>>,
         disk'.observations = disk.observations, CycleOK(p)', Judging(p)'
  PROVE  HInv'
<1>1. HType' /\ FileExact'
  BY DEF HInv, HType, FileExact
<1>2. UNCHANGED now /\ now \in Nat
  BY OnlyHolder, OptionsAssumption DEF IInv, TypeOK
<1>3. Spaced'
  BY <1>2, StillSpaced DEF HInv, Spaced
<1> QED BY <1>1, <1>3, HolderHistory

LEMMA UnseenHistory ==
  ASSUME IInv, HInv, NothingLost, NEW p \in Procs, UnseenStep(p), UNCHANGED passes
  PROVE  CycleOK(p)' /\ Judging(p)' /\ SessionStep(p) /\ disk'.observations = disk.observations
<1>1. SessionStep(p)
  BY DEF UnseenStep, SessionStep, CycleStep
<1>2. disk'.observations = disk.observations
  BY UnseenFile
<1>3. CASE ReadOnly(p)
  <2>1. UNCHANGED job
    BY DEF UnseenStep, Select, EndCycle, ContainerDone, NextContainer, Match, ObserveUntracked,
           Decide, ClaimRefused, Claim, ReserveAttempt, NoReservation, SkipAction, Execute, RuleDone
  <2>2. CycleOK(p)' /\ Judging(p)'
    BY <1>3, <2>1 DEF CycleOK, Judging, ReadOnly
  <2> QED BY <1>1, <1>2, <2>2
<1>4. CASE ~ReadOnly(p) /\ pc'[p] \in InCycle
  <2>1. CycleOK(p)'
    <3>1. /\ pc[p] \in InCycle /\ pc'[p] \in InCycle \ {"select"} /\ UNCHANGED <<job, prev>>
          /\ Ahead(p)' \subseteq Ahead(p) /\ (pc'[p] # "next" => at'[p].c \notin todo'[p])
      BY <1>4, UnseenPlace DEF InCycle
    <3> QED BY <3>1, Inside
  <2>2. Judging(p)'
    BY <1>4, UnseenPlace DEF Judging
  <2> QED BY <1>1, <1>2, <2>1, <2>2
<1>5. CASE pc'[p] \notin InCycle
  BY <1>1, <1>2, <1>5, Outside
<1> QED BY <1>3, <1>4, <1>5

(***************************************************************************)
(* A rule is started: it was not on cooldown, and now it is.               *)
(***************************************************************************)
LEMMA ClaimSpaced ==
  ASSUME IInv, DInv, HInv, NEW p \in Procs, Claim(p), pc'[p] = "act", status'[p] = "execute"
  PROVE  LET k == <<at[p].c, at[p].r>> IN
         /\ k \in Tracks /\ disk.cooldowns[k] <= now
         /\ disk'.cooldowns[k] = now + Cooldown
<1> DEFINE c == at[p].c
           r == at[p].r
           s == Reserve(mem[p], c, r, now, Cooldown)
<1>1. /\ pc[p] = "claim" /\ Save(p, s, "act") /\ ~OnCooldown(mem[p], c, r, now)
      /\ status' = [status EXCEPT ![p] = IF ReadOnly(p) THEN "dry-run" ELSE "execute"]
  BY DEF Claim
<1>2. ~ReadOnly(p)
  BY <1>1 DEF IInv, TypeOK
<1>3. c \in Containers /\ r \in Rules /\ r \in Keys /\ Cooldown \in Nat
  BY <1>1, OptionsAssumption DEF IInv, LocalInv, PlaceOK, Keys
<1>4. /\ mem[p] \in State /\ FitsVersion(mem[p]) /\ now \in Nat
      /\ mem[p].version >= 1 /\ mem[p].version \in 0 .. 4
  BY <1>1, HolderState
<1>5. s \in State /\ FitsVersion(s) /\ s.version = mem[p].version
  BY <1>3, <1>4, ReserveState
<1>6. s.cooldowns[c, r] = now + Cooldown
  BY <1>3, <1>4 DEF Reserve, State
<1>7. mem[p].cooldowns = disk.cooldowns
  BY <1>1, <1>2, LoadedData DEF IInv, LocalInv, MemOK, Writing, DInv
<1>8. disk.cooldowns[c, r] \in Nat
  <2>1. disk.cooldowns \in [Containers \X Keys -> Nat]
    BY DEF IInv, TypeOK, State
  <2> HIDE DEF c, r
  <2>2. <<c, r>> \in Containers \X Keys
    BY <1>3
  <2> QED BY <2>1, <2>2
<1>a. ~OnCooldown(mem[p], c, r, now)
  BY <1>1
<1>9. disk.cooldowns[c, r] <= now
  <2>1. ~(disk.cooldowns[c, r] > now)
    BY <1>7, <1>a DEF OnCooldown
  <2>2. \A x, y \in Nat : ~(x > y) => x <= y
    OBVIOUS
  <2> QED BY <1>4, <1>8, <2>1, <2>2
<1>10. s.version >= 1 /\ "act" \in PcNames \ {"exit"}
  BY <1>4, <1>5 DEF PcNames
<1> HIDE DEF s
<1>11. disk'.cooldowns = s.cooldowns
  BY <1>1, <1>2, <1>5, <1>10, SavedData DEF DInv
<1> QED BY <1>3, <1>6, <1>9, <1>11 DEF Tracks

LEMMA StartedHistory ==
  ASSUME IInv, DInv, HInv, NothingLost, NEW p \in Procs, Started(p)
  PROVE  HInv'
<1> DEFINE k == <<at[p].c, at[p].r>>
<1>1. Claim(p) /\ UNCHANGED <<passes, now>>
  BY DEF Started, Claim
<1>2. /\ CycleOK(p)' /\ Judging(p)' /\ SessionStep(p)
      /\ disk'.observations = disk.observations
  BY <1>1, UnseenHistory DEF UnseenStep
<1>3. now \in Nat /\ started \in [Tracks -> Nat]
  BY OptionsAssumption DEF IInv, TypeOK, HInv, HType
<1>4. CASE pc'[p] = "act" /\ status'[p] = "execute"
  <2>1. k \in Tracks /\ disk'.cooldowns[k] = now + Cooldown
    BY <1>1, <1>4, ClaimSpaced
  <2>2. started' = [started EXCEPT ![k] = now]
    BY <1>4 DEF Started
  <2> HIDE DEF k
  <2>3. started' \in [Tracks -> Nat] /\ started'[k] = now
    BY <1>3, <2>1, <2>2
  <2>4. \A j \in Tracks : j # k => started'[j] = started[j]
    BY <1>3, <2>2
  <2>5. Spaced'
    BY <1>1, <1>3, <2>1, <2>3, <2>4, StillSpaced DEF HInv, Spaced
  <2>6. HType' /\ FileExact'
    BY <1>1, <1>2, <2>3 DEF HInv, HType, FileExact
  <2> QED BY <1>2, <2>5, <2>6, HolderHistory
<1>5. CASE ~(pc'[p] = "act" /\ status'[p] = "execute")
  BY <1>1, <1>2, <1>5, QuietHistory DEF Started
<1> QED BY <1>4, <1>5

(***************************************************************************)
(* A new pass: what was observed before it stays as it was.                *)
(***************************************************************************)
LEMMA PassAdded ==
  ASSUME HType, passes' = Append(passes, Nothing)
  PROVE  /\ passes' \in Seq([Tracks -> Nat]) /\ Len(passes') = Len(passes) + 1
         /\ Len(passes) \in Nat
         /\ \A k \in Tracks : passes'[Len(passes) + 1][k] = 0
         /\ \A k \in Tracks : \A obs : Exact(passes, k, Len(passes), obs)
                                         => Exact(passes', k, Len(passes), obs)
<1>1. Nothing \in [Tracks -> Nat] /\ \A k \in Tracks : Nothing[k] = 0
  BY DEF Nothing
<1>2. /\ passes \in Seq([Tracks -> Nat]) /\ Len(passes) \in Nat
      /\ passes' \in Seq([Tracks -> Nat]) /\ Len(passes') = Len(passes) + 1
      /\ passes'[Len(passes) + 1] = Nothing
      /\ \A i \in 1 .. Len(passes) : passes'[i] = passes[i]
  BY <1>1 DEF HType
<1>3. ASSUME NEW k \in Tracks, NEW obs, Exact(passes, k, Len(passes), obs)
      PROVE  Exact(passes', k, Len(passes), obs)
  BY <1>2, <1>3, ExactSame
<1> QED BY <1>1, <1>2, <1>3

LEMMA PassHistory ==
  ASSUME IInv, HInv, NothingLost, NEW p \in Procs, SessionStep(p), UNCHANGED started,
         passes' = IF disk'.observations = NoObservations THEN Append(passes, Nothing) ELSE passes,
         disk'.observations \in {disk.observations, NoObservations}, CycleOK(p)', Judging(p)'
  PROVE  HInv'
<1>1. CASE disk'.observations = NoObservations
  <2>1. HType' /\ FileExact'
    <3>1. /\ passes' \in Seq([Tracks -> Nat]) /\ Len(passes') = Len(passes) + 1
          /\ Len(passes) \in Nat /\ \A k \in Tracks : passes'[Len(passes) + 1][k] = 0
      BY <1>1, PassAdded DEF HInv
    <3>2. \A k \in Tracks : disk'.observations[k] = NoObs
      BY <1>1 DEF NoObservations, Tracks
    <3>3. \A k \in Tracks : Exact(passes', k, Len(passes'), disk'.observations[k])
      BY <3>1, <3>2 DEF Exact
    <3> QED BY <3>1, <3>3 DEF HInv, HType, FileExact
  <2>2. UNCHANGED now /\ now \in Nat
    BY OnlyHolder, OptionsAssumption DEF IInv, TypeOK
  <2>3. Spaced'
    BY <2>2, StillSpaced DEF HInv, Spaced
  <2> QED BY <2>1, <2>3, HolderHistory
<1>2. CASE disk'.observations # NoObservations
  BY <1>2, QuietHistory
<1> QED BY <1>1, <1>2

LEMMA ClearHistory ==
  ASSUME IInv, DInv, HInv, NothingLost, NEW p \in Procs, Clear(p), ~ReadOnly(p), UNCHANGED started,
         passes' = IF disk'.observations = NoObservations THEN Append(passes, Nothing) ELSE passes
  PROVE  HInv'
<1> DEFINE s == ReplaceObservations(mem[p], NoObservations)
<1>1. /\ pc[p] = "clear" /\ prev' = [prev EXCEPT ![p] = mem[p].observations]
      /\ Save(p, s, "select") /\ UNCHANGED job
  BY DEF Clear
<1>2. mem[p] \in State /\ mem[p].observations = disk.observations
  BY <1>1, HolderState, HeldObservations DEF Writing
<1>3. s \in State /\ FitsVersion(s) /\ s.version >= 1
  BY <1>1, FreshState, ObservationsHarmless
<1>4. s.observations = NoObservations
  BY <1>2 DEF ReplaceObservations, State
<1>5. SessionStep(p)
  BY DEF SessionStep, CycleStep
<1>6. "select" \in PcNames \ {"exit"}
  BY DEF PcNames
<1> HIDE DEF s
<1>7. disk'.observations \in {disk.observations, NoObservations} /\ pc'[p] \in {"select", "exit"}
  BY <1>1, <1>3, <1>4, <1>6, SaveStep
<1>8. CASE pc'[p] = "select"
  <2>1. disk'.observations = NoObservations
    BY <1>1, <1>3, <1>4, <1>6, <1>8, SavedData DEF DInv
  <2>2. prev'[p] = disk.observations
    BY <1>1, <1>2 DEF IInv, TypeOK
  <2>3. /\ Len(passes') = Len(passes) + 1 /\ Len(passes) \in Nat
        /\ \A k \in Tracks : passes'[Len(passes) + 1][k] = 0
        /\ \A k \in Tracks : Exact(passes', k, Len(passes), disk.observations[k])
    BY <2>1, PassAdded DEF HInv, FileExact
  <2>4. Len(passes') - 1 = Len(passes) /\ Len(passes') >= 1
    BY <2>3
  <2>5. Ahead(p)' \subseteq Tracks
    BY DEF Ahead
  <2>6. CycleOK(p)'
    BY <1>8, <2>2, <2>3, <2>4, <2>5 DEF CycleOK
  <2>7. Judging(p)'
    BY <1>8 DEF Judging
  <2> QED BY <1>5, <1>7, <2>6, <2>7, PassHistory
<1>9. CASE pc'[p] = "exit"
  <2>1. CycleOK(p)' /\ Judging(p)'
    BY <1>9, Outside DEF InCycle
  <2> QED BY <1>5, <1>7, <2>1, PassHistory
<1> QED BY <1>7, <1>8, <1>9

LEMMA NewPassHistory ==
  ASSUME IInv, DInv, HInv, NothingLost, NEW p \in Procs, NewPass(p)
  PROVE  HInv'
<1>1. /\ UNCHANGED started
      /\ passes' = IF disk'.observations = NoObservations THEN Append(passes, Nothing) ELSE passes
  BY DEF NewPass
<1>2. CASE Clear(p) /\ ~ReadOnly(p)
  BY <1>1, <1>2, ClearHistory
<1>3. CASE Expire(p) /\ ~ReadOnly(p) /\ disk' # disk
  <2> DEFINE s == ExpireMaintenance(mem[p], now)
  <2>1. pc[p] = "expire" /\ Save(p, s, "clear") /\ UNCHANGED job
    BY <1>3 DEF Expire
  <2>2. mem[p] \in State /\ FitsVersion(mem[p]) /\ now \in Nat /\ mem[p].version >= 1
    BY <2>1, HolderState
  <2>3. s \in State /\ FitsVersion(s) /\ s.version = mem[p].version
    BY <2>2, ExpireMaintenanceState
  <2>4. s # mem[p]
    <3> HIDE DEF s
    <3> QED BY <1>3, <2>1 DEF Save, Saves
  <2>5. s.observations = NoObservations
    BY <2>2, <2>4 DEF ExpireMaintenance, State
  <2>6. s.version >= 1 /\ "clear" \in PcNames
    BY <2>2, <2>3 DEF PcNames
  <2> HIDE DEF s
  <2>7. disk' \in {disk, s} /\ pc'[p] \in {"clear", "exit"}
    BY <2>1, <2>3, <2>6, SaveStep
  <2>8. CycleOK(p)' /\ Judging(p)'
    BY <2>7, Outside DEF InCycle
  <2>9. SessionStep(p)
    BY <1>3 DEF SessionStep, CycleStep
  <2> QED BY <1>1, <2>5, <2>7, <2>8, <2>9, PassHistory
<1>4. ASSUME NEW c \in Containers, pc[p] \in {"operate", "offline"}, UNCHANGED job, Maintain(p, c),
             SessionStep(p)
      PROVE  HInv'
  <2>1. PICK seconds \in Durations : Save(p, SetMaintenance(mem[p], c, seconds, now), "exit")
    BY <1>4 DEF Maintain
  <2> DEFINE s == SetMaintenance(mem[p], c, seconds, now)
  <2>2. /\ mem[p] \in State /\ FitsVersion(mem[p]) /\ now \in Nat /\ seconds \in Nat
        /\ mem[p].version >= 1 /\ mem[p].version \in 0 .. 4
    BY <1>4, HolderState, OptionsAssumption
  <2>3. s \in State /\ FitsVersion(s) /\ s.version >= mem[p].version
    BY <2>2, SetMaintenanceState
  <2>4. s.version >= 1
    BY <2>2, <2>3 DEF State
  <2>5. s.observations = NoObservations
    BY <2>2 DEF SetMaintenance, State
  <2>6. Save(p, s, "exit") /\ "exit" \in PcNames
    BY <2>1 DEF PcNames
  <2> HIDE DEF s
  <2>7. disk' \in {disk, s} /\ pc'[p] = "exit"
    BY <1>4, <2>3, <2>4, <2>6, SaveStep
  <2>8. CycleOK(p)' /\ Judging(p)'
    BY <2>7, Outside DEF InCycle
  <2> QED BY <1>1, <1>4, <2>5, <2>7, <2>8, PassHistory
<1>5. CASE ManualMaintenance(p)
  <2>1. /\ pc[p] = "operate" /\ UNCHANGED job /\ Maintain(p, at[p].c) /\ at[p].c \in Containers
        /\ SessionStep(p)
    BY <1>5 DEF ManualMaintenance, IInv, LocalInv, PlaceOK, SessionStep, OperatorStep
  <2> QED BY <2>1, <1>4
<1>6. CASE \E c \in Containers : OfflineMaintenance(p, c)
  <2>1. PICK c \in Containers : OfflineMaintenance(p, c)
    BY <1>6
  <2>2. pc[p] = "offline" /\ UNCHANGED job /\ Maintain(p, c) /\ SessionStep(p)
    BY <2>1 DEF OfflineMaintenance, SessionStep, OperatorStep
  <2> QED BY <2>2, <1>4
<1> QED BY <1>2, <1>3, <1>5, <1>6 DEF NewPass

(***************************************************************************)
(* The rule at hand has not been observed in this pass.                    *)
(***************************************************************************)
LEMMA ToObserve ==
  ASSUME IInv, HInv, NEW p \in Procs, pc[p] = "observe", ~ReadOnly(p)
  PROVE  LET k == <<at[p].c, at[p].r>>
             n == Len(passes)
         IN  /\ k \in Tracks /\ k \in Ahead(p) /\ n \in Nat \ {0} /\ at[p].c \notin todo[p]
             /\ passes[n][k] = 0 /\ Exact(passes, k, n - 1, prev[p][k])
             /\ disk.observations[k] = NoObs
             /\ mem[p].observations = disk.observations
             /\ mem[p] \in State
<1> DEFINE k == <<at[p].c, at[p].r>>
           n == Len(passes)
<1>1. k \in Tracks /\ at[p].r \in Nat
  BY DEF IInv, LocalInv, PlaceOK, TypeOK, Tracks
<1>2. k \in Ahead(p)
  <2>1. k[1] = at[p].c /\ k[2] = at[p].r
    OBVIOUS
  <2> HIDE DEF k
  <2> QED BY <1>1, <2>1 DEF Ahead
<1>3. n \in Nat \ {0} /\ at[p].c \notin todo[p]
  <2>1. Len(passes) >= 1 /\ at[p].c \notin todo[p]
    BY DEF HInv, CycleOK, InCycle
  <2>2. Len(passes) \in Nat
    BY DEF HInv, HType
  <2> QED BY <2>1, <2>2
<1>4. passes[n][k] = 0 /\ Exact(passes, k, n - 1, prev[p][k])
  BY <1>2 DEF HInv, CycleOK, InCycle
<1>5. disk.observations[k] = NoObs
  <2>1. Exact(passes, k, n, disk.observations[k])
    BY <1>1 DEF HInv, FileExact
  <2> HIDE DEF k, n
  <2> QED BY <1>4, <2>1 DEF Exact
<1>6. mem[p].observations = disk.observations /\ mem[p] \in State
  BY HeldObservations, HolderState DEF Writing
<1> QED BY <1>1, <1>2, <1>3, <1>4, <1>5, <1>6

(* Once observed, it is no longer ahead. *)
LEMMA ObservedBehind ==
  ASSUME IInv, NEW p \in Procs, pc[p] = "observe", at[p].c \notin todo[p], UNCHANGED todo,
         at'[p].c = at[p].c,
         \/ pc'[p] = "decide" /\ at'[p].r = at[p].r
         \/ pc'[p] = "match" /\ at'[p].r = at[p].r + 1
  PROVE  /\ Ahead(p)' \subseteq Ahead(p) /\ <<at[p].c, at[p].r>> \notin Ahead(p)'
         /\ Ahead(p)' \subseteq Tracks
<1>1. at[p].r \in Nat
  BY DEF IInv, TypeOK
<1>2. ASSUME NEW j \in Ahead(p)' PROVE j \in Ahead(p) /\ j # <<at[p].c, at[p].r>>
  <2>1. PICK c \in Containers, r \in Rules : j = <<c, r>>
    BY DEF Ahead, Tracks
  <2>2. j[1] = c /\ j[2] = r /\ j \in Tracks /\ r \in Nat
    BY <2>1 DEF Tracks, Rules
  <2>3. c \in todo[p] \/ (c = at[p].c /\ r > at[p].r)
    BY <1>1, <1>2, <2>2 DEF Ahead
  <2>4. j \in Ahead(p)
    BY <1>1, <2>2, <2>3 DEF Ahead
  <2>5. j # <<at[p].c, at[p].r>>
    BY <1>1, <2>1, <2>2, <2>3
  <2> QED BY <2>4, <2>5
<1>3. Ahead(p)' \subseteq Tracks
  BY DEF Ahead
<1> QED BY <1>2, <1>3

(* A condition that is not observed: there is nothing to forget. *)
LEMMA ForgetHistory ==
  ASSUME IInv, HInv, NEW p \in Procs, pc[p] = "observe", ~ReadOnly(p),
         NEW then \in {"match", "decide"}, Forget(p, then), at[p].r \in Rules
  PROVE  /\ UNCHANGED disk /\ pc' = [pc EXCEPT ![p] = then]
         /\ \A k \in Tracks : k # <<at[p].c, at[p].r>> => prev'[p][k] = prev[p][k]
<1> DEFINE k == <<at[p].c, at[p].r>>
           f == [mem[p].observations EXCEPT ![k] = NoObs]
<1>1. /\ k \in Tracks /\ mem[p].observations[k] = NoObs /\ mem[p] \in State
  BY ToObserve
<1>2. f = mem[p].observations
  <2>1. mem[p].observations \in [Tracks -> Observation]
    BY <1>1 DEF State, Tracks
  <2> HIDE DEF k
  <2> QED BY <1>1, <2>1
<1>3. ReplaceObservations(mem[p], f) = mem[p]
  BY <1>2 DEF ReplaceObservations
<1>4. Save(p, ReplaceObservations(mem[p], f), then) /\ prev' = [prev EXCEPT ![p][k] = NoObs]
  BY DEF Forget
<1> HIDE DEF f
<1>5. UNCHANGED disk /\ pc' = [pc EXCEPT ![p] = then]
  BY <1>3, <1>4 DEF Save, Saves
<1>6. \A j \in Tracks : j # k => prev'[p][j] = prev[p][j]
  <2>1. prev[p] \in [Tracks -> Observation] /\ p \in DOMAIN prev
    BY DEF IInv, TypeOK, Tracks
  <2> HIDE DEF k
  <2> QED BY <1>1, <1>4, <2>1
<1> QED BY <1>5, <1>6

LEMMA UnobservedHistory ==
  ASSUME IInv, HInv, NothingLost, NEW p \in Procs, ObserveUnmatched(p) \/ ObserveMasked(p),
         UNCHANGED <<passes, started>>
  PROVE  HInv'
<1>1. pc[p] = "observe" /\ UNCHANGED <<job, todo>> /\ SessionStep(p)
  BY DEF ObserveUnmatched, ObserveMasked, SessionStep, CycleStep
<1>2. CASE ReadOnly(p)
  <2>1. CycleOK(p)' /\ Judging(p)'
    BY <1>1, <1>2 DEF CycleOK, Judging, ReadOnly
  <2>2. UNCHANGED disk
    BY <1>2 DEF ObserveUnmatched, ObserveMasked, Forget, Save, Saves
  <2> QED BY <1>1, <2>1, <2>2, QuietHistory
<1>3. CASE ~ReadOnly(p)
  <2> DEFINE k == <<at[p].c, at[p].r>>
             n == Len(passes)
  <2>1. /\ k \in Tracks /\ at[p].c \notin todo[p] /\ passes[n][k] = 0
        /\ at[p].r \in Rules
    BY <1>1, <1>3, ToObserve DEF Tracks
  <2>2. /\ UNCHANGED disk /\ \A j \in Tracks : j # k => prev'[p][j] = prev[p][j]
        /\ pc' = [pc EXCEPT ![p] = IF status[p] = "unmatched" THEN "match" ELSE "decide"]
        /\ status[p] \in {"unmatched", "masked"}
    <3>1. CASE ObserveUnmatched(p) /\ ~Tracked(at[p].r)
      BY <3>1 DEF ObserveUnmatched
    <3>2. CASE ObserveUnmatched(p) /\ Tracked(at[p].r)
      BY <3>2, <1>1, <1>3, <2>1, ForgetHistory DEF ObserveUnmatched
    <3>3. CASE ObserveMasked(p)
      BY <3>3, <1>1, <1>3, <2>1, ForgetHistory DEF ObserveMasked
    <3> QED BY <3>1, <3>2, <3>3
  <2>3. /\ at'[p].c = at[p].c
        /\ \/ pc'[p] = "decide" /\ at' = at /\ at'[p].r = at[p].r
              /\ status' = [status EXCEPT ![p] = "pending"]
           \/ pc'[p] = "match" /\ at'[p].r = at[p].r + 1
    <3>1. CASE ObserveUnmatched(p)
      <4>1. at'[p].c = at[p].c /\ at'[p].r = at[p].r + 1
        BY <3>1, NextRulePlace DEF ObserveUnmatched, IInv, TypeOK
      <4> QED BY <2>2, <3>1, <4>1 DEF ObserveUnmatched, IInv, TypeOK
    <3>2. CASE ObserveMasked(p)
      BY <2>2, <3>2 DEF ObserveMasked, IInv, TypeOK
    <3> QED BY <3>1, <3>2
  <2>4. Ahead(p)' \subseteq Ahead(p) /\ k \notin Ahead(p)' /\ Ahead(p)' \subseteq Tracks
    BY <1>1, <2>1, <2>3, ObservedBehind
  <2>5. CycleOK(p)'
    <3>1. /\ pc[p] \in InCycle /\ pc'[p] \in InCycle \ {"select"} /\ at'[p].c \notin todo'[p]
          /\ \A j \in Ahead(p)' : prev'[p][j] = prev[p][j]
      BY <1>1, <2>1, <2>2, <2>3, <2>4 DEF InCycle
    <3> QED BY <1>1, <2>4, <3>1, Inside
  <2>6. Judging(p)'
    <3>1. CASE pc'[p] = "decide"
      <4>1. status'[p] = "pending" /\ at' = at
        BY <2>3, <3>1 DEF IInv, TypeOK
      <4> QED BY <2>1, <4>1 DEF Judging
    <3>2. CASE pc'[p] # "decide"
      BY <3>2 DEF Judging
    <3> QED BY <3>1, <3>2
  <2> QED BY <1>1, <2>2, <2>5, <2>6, QuietHistory
<1> QED BY <1>2, <1>3

(* A condition that is observed. *)
LEMMA SeenHistory ==
  ASSUME IInv, DInv, HInv, NothingLost, NEW p \in Procs, Seen(p)
  PROVE  HInv'
<1> DEFINE k == <<at[p].c, at[p].r>>
           n == Len(passes)
           obs == Streak(prev[p][k], now)
           s == ReplaceObservations(mem[p], [mem[p].observations EXCEPT ![k] = obs])
<1>1. /\ pc[p] = "observe" /\ ~ReadOnly(p) /\ UNCHANGED <<job, todo, at, started, now>>
      /\ prev' = [prev EXCEPT ![p][k] = obs] /\ Save(p, s, "decide")
      /\ status' = [status EXCEPT ![p] = IF LongEnough(obs) THEN "ready" ELSE "pending"]
      /\ SessionStep(p)
  BY DEF Seen, ObserveMatched, SessionStep, CycleStep
<1>2. /\ k \in Tracks /\ n \in Nat \ {0} /\ at[p].c \notin todo[p]
      /\ Exact(passes, k, n - 1, prev[p][k])
      /\ mem[p].observations = disk.observations /\ mem[p] \in State
  BY <1>1, ToObserve
<1>3. now \in Nat \ {0} /\ prev[p] \in [Tracks -> Observation] /\ p \in DOMAIN prev
      /\ disk.observations \in [Tracks -> Observation]
  <2>1. now \in Nat \ {0}
    BY OptionsAssumption DEF IInv, TypeOK
  <2>2. prev[p] \in [Tracks -> Observation] /\ p \in DOMAIN prev
    BY DEF IInv, TypeOK, Tracks
  <2> QED BY <2>1, <2>2, FileObservations
<1>4. obs \in Observation
  BY <1>2, <1>3, Streaks
<1> DEFINE f == [disk.observations EXCEPT ![k] = obs]
<1>5. f \in [Containers \X Rules -> Observation] /\ s = ReplaceObservations(mem[p], f)
  <2> HIDE DEF k, obs
  <2> QED BY <1>2, <1>3, <1>4 DEF Tracks
<1>6. s.observations = f
  <2> HIDE DEF f
  <2> QED BY <1>2, <1>5 DEF ReplaceObservations, State
<1>7. s \in State /\ FitsVersion(s) /\ s.version >= 1
  <2> HIDE DEF f
  <2> QED BY <1>1, <1>5, ObservationsHarmless
<1>8. "decide" \in PcNames \ {"exit"}
  BY DEF PcNames
<1>9. passes' = IF pc'[p] = "exit" /\ UNCHANGED disk THEN passes
                ELSE [passes EXCEPT ![n][k] = now]
  BY DEF Seen
<1> HIDE DEF s
<1>10. pc'[p] \in {"decide", "exit"}
  BY <1>1, <1>7, <1>8, SaveStep
<1>11. CASE pc'[p] = "exit" /\ UNCHANGED disk
  <2>1. CycleOK(p)' /\ Judging(p)' /\ UNCHANGED passes
    BY <1>9, <1>11, Outside DEF InCycle
  <2> QED BY <1>1, <1>11, <2>1, QuietHistory
<1>12. CASE ~(pc'[p] = "exit" /\ UNCHANGED disk)
  <2>1. disk'.observations = f
    BY <1>1, <1>6, <1>7, <1>8, <1>12, SavedData DEF DInv
  <2>2. passes' = [passes EXCEPT ![n][k] = now]
    BY <1>9, <1>12
  <2> HIDE DEF k, n, f, obs
  <2>3. /\ passes' \in Seq([Tracks -> Nat]) /\ Len(passes') = n
        /\ passes'[n][k] = now
        /\ \A i \in 1 .. n : i # n => passes'[i] = passes[i]
        /\ \A j \in Tracks : j # k => passes'[n][j] = passes[n][j]
    <3> DEFINE g == [passes[n] EXCEPT ![k] = now]
    <3>1. /\ passes \in Seq([Tracks -> Nat]) /\ n = Len(passes) /\ passes[n] \in [Tracks -> Nat]
      BY <1>2 DEF HInv, HType, n
    <3>2. g \in [Tracks -> Nat] /\ g[k] = now /\ \A j \in Tracks : j # k => g[j] = passes[n][j]
      BY <1>2, <1>3, <3>1
    <3>3. passes' = [passes EXCEPT ![n] = g]
      BY <2>2
    <3> HIDE DEF g
    <3>4. /\ passes' \in Seq([Tracks -> Nat]) /\ Len(passes') = n /\ passes'[n] = g
          /\ \A i \in 1 .. n : i # n => passes'[i] = passes[i]
      <4>1. \A T : \A q \in Seq(T) : \A i \in 1 .. Len(q) : \A e \in T :
              LET r == [q EXCEPT ![i] = e] IN
              /\ r \in Seq(T) /\ Len(r) = Len(q) /\ r[i] = e
              /\ \A j \in 1 .. Len(q) : j # i => r[j] = q[j]
        OBVIOUS
      <4> QED BY <1>2, <3>1, <3>2, <3>3, <4>1
    <3> QED BY <3>2, <3>4
  <2>4. \A j \in Tracks : j # k => \A i \in 1 .. n : passes'[i][j] = passes[i][j]
    BY <1>2, <2>3
  <2>5. Exact(passes', k, n, obs)
    <3>1. Exact(passes', k, n - 1, prev[p][k])
      <4>1. \A i \in 1 .. n - 1 : passes'[i][k] = passes[i][k]
        BY <1>2, <2>3
      <4>2. n - 1 \in Nat
        BY <1>2
      <4> QED BY <1>2, <4>1, <4>2, ExactSame
    <3>2. \A i \in 1 .. n : passes'[i][k] \in Nat
      <4>1. \A i \in 1 .. n : passes'[i] \in [Tracks -> Nat]
        BY <2>3
      <4> QED BY <1>2, <4>1
    <3> QED BY <1>2, <1>3, <2>3, <3>1, <3>2, ExactExtended DEF obs
  <2>6. FileExact'
    <3> SUFFICES ASSUME NEW j \in Tracks PROVE Exact(passes', j, n, disk'.observations[j])
      BY <2>3 DEF FileExact
    <3>1. CASE j = k
      BY <1>2, <1>3, <2>1, <2>5, <3>1 DEF f
    <3>2. CASE j # k
      <4>1. Exact(passes, j, n, disk.observations[j])
        BY DEF HInv, FileExact, n
      <4>2. disk'.observations[j] = disk.observations[j]
        BY <1>2, <1>3, <2>1, <3>2 DEF f
      <4>3. Exact(passes', j, n, disk.observations[j])
        BY <1>2, <2>4, <3>2, <4>1, ExactSame
      <4> QED BY <4>2, <4>3
    <3> QED BY <3>1, <3>2
  <2>7. HType' /\ Spaced'
    BY <1>1, <1>3, <2>3, StillSpaced DEF HInv, HType, Spaced
  <2>8. CycleOK(p)' /\ Judging(p)'
    <3>1. CASE pc'[p] = "exit"
      BY <3>1, Outside DEF InCycle
    <3>2. CASE pc'[p] = "decide"
      <4>1. Ahead(p)' \subseteq Ahead(p) /\ k \notin Ahead(p)' /\ Ahead(p)' \subseteq Tracks
        BY <1>1, <1>2, <3>2, ObservedBehind DEF k
      <4>2. \A j \in Ahead(p)' : prev'[p][j] = prev[p][j]
        BY <1>1, <1>2, <1>3, <4>1
      <4>3. \A i \in 1 .. Len(passes) : \A j \in Ahead(p)' : passes'[i][j] = passes[i][j]
        BY <2>4, <4>1 DEF n
      <4>4. /\ pc[p] \in InCycle /\ pc'[p] \in InCycle \ {"select"} /\ at'[p].c \notin todo'[p]
            /\ Len(passes') = Len(passes)
        BY <1>1, <1>2, <2>3, <3>2 DEF InCycle, n
      <4>5. CycleOK(p)'
        BY <1>1, <4>1, <4>2, <4>3, <4>4, Inside
      <4>6. disk'.observations[k] = obs
        BY <1>2, <1>3, <2>1 DEF f
      <4>7. passes'[n][k] > 0 /\ Len(passes') = n /\ k = <<at'[p].c, at'[p].r>>
        BY <1>1, <1>3, <2>3 DEF k
      <4>8. status'[p] = IF LongEnough(obs) THEN "ready" ELSE "pending"
        BY <1>1 DEF IInv, TypeOK
      <4>9. Judging(p)'
        BY <4>6, <4>7, <4>8 DEF Judging
      <4> QED BY <4>5, <4>9
    <3> QED BY <1>10, <3>1, <3>2
  <2> QED BY <1>1, <2>6, <2>7, <2>8, HolderHistory
<1> QED BY <1>11, <1>12

(***************************************************************************)
(* The steps that are not recorded, and those of the clock and the lock.   *)
(***************************************************************************)
LEMMA UnrecordedHistory ==
  ASSUME IInv, DInv, HInv, NothingLost, NEW p \in Procs, Unrecorded(p)
  PROVE  HInv'
<1>1. UNCHANGED <<passes, started>>
  BY DEF Unrecorded
<1>2. CASE UnseenStep(p)
  BY <1>1, <1>2, UnseenHistory, QuietHistory
<1>3. CASE ObserveUnmatched(p) \/ ObserveMasked(p)
  BY <1>1, <1>3, UnobservedHistory
<1>4. CASE (Clear(p) \/ ObserveMatched(p)) /\ ReadOnly(p)
  <2>1. SessionStep(p) /\ UNCHANGED <<job, disk>>
    BY <1>4 DEF SessionStep, CycleStep, Clear, ObserveMatched, Save, Saves
  <2>2. CycleOK(p)' /\ Judging(p)'
    BY <1>4, <2>1 DEF CycleOK, Judging, ReadOnly
  <2> QED BY <1>1, <2>1, <2>2, QuietHistory
<1>5. ASSUME SessionStep(p), pc'[p] \notin InCycle, disk'.observations = disk.observations
      PROVE  HInv'
  BY <1>1, <1>5, Outside, QuietHistory
<1>6. CASE Expire(p) /\ (ReadOnly(p) \/ disk' = disk)
  <2>1. SessionStep(p) /\ UNCHANGED disk /\ pc'[p] \notin InCycle
    BY <1>6 DEF SessionStep, CycleStep, Expire, Save, Saves, InCycle, IInv, TypeOK
  <2> QED BY <1>5, <2>1
<1>7. CASE Load(p) \/ Raise(p) \/ Exit(p) \/ Crash(p)
  <2>1. SessionStep(p) /\ UNCHANGED disk
    BY <1>7 DEF SessionStep, Load, Raise, Exit, Crash, Close
  <2>2. pc'[p] \notin InCycle
    BY <1>7 DEF Load, FirstStep, Raise, Exit, Crash, Close, InCycle, IInv, TypeOK
  <2> QED BY <1>5, <2>1, <2>2
<1>8. CASE ManualRejected(p) \/ ManualDocker(p) \/ OfflineNothing(p)
  <2>1. SessionStep(p) /\ UNCHANGED disk /\ pc'[p] \notin InCycle
    BY <1>8 DEF SessionStep, OperatorStep, ManualRejected, ManualDocker, OfflineNothing, InCycle,
           IInv, TypeOK
  <2> QED BY <1>5, <2>1
<1>9. CASE \/ ManualRearm(p)
           \/ \E c \in Containers : \/ OfflineRearm(p, c)
                                    \/ \E op \in ManualOperations : ManualClaim(p, c, op)
  <2>1. SessionStep(p) /\ disk'.observations = disk.observations
    BY <1>9, UnseenFile DEF SessionStep, OperatorStep
  <2>2. pc'[p] \notin InCycle
    BY <1>9 DEF ManualRearm, OfflineRearm, ManualClaim, Rearm, Save, InCycle, IInv, TypeOK
  <2> QED BY <1>5, <2>1, <2>2
<1> QED BY <1>2, <1>3, <1>4, <1>6, <1>7, <1>8, <1>9 DEF Unrecorded, UnseenStep

LEMMA LockHistory ==
  ASSUME IInv, HInv, NEW p \in Procs, NEW j \in Jobs, Lock(p, j), UNCHANGED <<passes, started>>
  PROVE  HInv'
<1>1. /\ lock = None /\ pc' = [pc EXCEPT ![p] = "load"] /\ UNCHANGED <<disk, now>>
  BY DEF Lock, LockFree
<1>2. \A q \in Procs : pc[q] = "idle"
  BY <1>1, ContainersAssumption DEF IInv, LocalInv, HolderOK
<1>3. \A q \in Procs : pc'[q] \in {"idle", "load"}
  BY <1>1, <1>2 DEF IInv, TypeOK
<1>4. \A q \in Procs : CycleOK(q)' /\ Judging(q)'
  BY <1>3, Outside DEF InCycle
<1>5. HType' /\ FileExact' /\ Spaced'
  BY <1>1 DEF HInv, HType, FileExact, Spaced
<1> QED BY <1>4, <1>5 DEF HInv

LEMMA TickHistory ==
  ASSUME IInv, HInv, Tick, UNCHANGED passes, started' = IF now' < now THEN Nothing ELSE started
  PROVE  HInv'
<1>1. now' \in Nat /\ now \in Nat /\ UNCHANGED <<disk, pc, job, prev, todo, at, status>>
  BY OptionsAssumption DEF Tick, session, IInv, TypeOK
<1>2. HType' /\ FileExact'
  BY <1>1 DEF HInv, HType, FileExact, Nothing
<1>3. Spaced'
  <2>1. CASE now' < now
    BY <2>1 DEF Spaced, Nothing
  <2>2. CASE ~(now' < now)
    <3>1. \A k \in Tracks : started[k] \in Nat
      BY DEF HInv, HType
    <3> QED BY <1>1, <2>2, <3>1, OptionsAssumption DEF HInv, Spaced
  <2> QED BY <2>1, <2>2
<1>4. \A p \in Procs : CycleOK(p)' /\ Judging(p)'
  BY <1>1 DEF HInv, CycleOK, Ahead, Judging, ReadOnly
<1> QED BY <1>2, <1>3, <1>4 DEF HInv

LEMMA HistoryKept == IInv /\ DInv /\ NothingLost /\ HInv /\ [HNext]_hvars => HInv'
<1> SUFFICES ASSUME IInv, DInv, NothingLost, HInv, [HNext]_hvars PROVE HInv'
  OBVIOUS
<1>1. CASE UNCHANGED hvars
  BY <1>1 DEF hvars, vars, session, HInv, HType, FileExact, Spaced, CycleOK, Ahead, Judging, ReadOnly
<1>2. CASE HNext
  BY <1>2, TickHistory, LockHistory, NewPassHistory, SeenHistory, StartedHistory, UnrecordedHistory
  DEF HNext
<1> QED BY <1>1, <1>2

LEMMA InitHistory == HInit => HInv
<1> SUFFICES ASSUME HInit PROVE HInv
  OBVIOUS
<1>1. passes = << >> /\ started = Nothing /\ Init
  BY DEF HInit
<1>2. HType /\ Spaced
  BY <1>1 DEF HType, Spaced, Nothing
<1>3. FileExact
  <2>1. Len(passes) = 0
    BY <1>1
  <2>2. \A k \in Tracks : disk.observations[k] = NoObs
    BY <1>1 DEF Init, NoFile, Fresh, NoObservations, Tracks
  <2> QED BY <2>1, <2>2 DEF FileExact, Exact
<1>4. \A p \in Procs : CycleOK(p) /\ Judging(p)
  BY <1>1 DEF Init, CycleOK, InCycle, Judging
<1> QED BY <1>2, <1>3, <1>4 DEF HInv

LEMMA Histories == HSpec => [](IInv /\ DInv /\ HInv)
<1>1. IInv /\ DInv /\ [Next]_vars => NothingLost
  BY NextKeeps DEF KeepsOK
<1>2. IInv /\ DInv /\ HInv /\ [HNext]_hvars => HInv'
  <2>1. [HNext]_hvars => [Next]_vars
    BY HistoryStep DEF hvars
  <2> QED BY <1>1, <2>1, HistoryKept
<1> QED BY <1>2, HistoryDecisions, InitHistory, PTL DEF HSpec

(* TriggersAreSound: a rule that waits for its delay is found ready only   *)
(* if its condition was observed true in every pass of the last            *)
(* TriggerAfter seconds, whatever is interleaved, killed or fails          *)
(* (TriggerPolicy.observe keeps the streak in the state file).             *)
THEOREM TriggersAreSound == HSpec => []TriggerSound
<1>1. IInv /\ HInv => TriggerSound
  <2> SUFFICES ASSUME IInv, HInv, NEW p \in Procs, Judged(p, "ready")
               PROVE  Sustained(<<at[p].c, at[p].r>>)
    BY DEF TriggerSound
  <2>1. PICK k \in Tracks : k = <<at[p].c, at[p].r>>
    BY DEF Judged, IInv, LocalInv, PlaceOK, Tracks
  <2>2. passes[Len(passes)][k] > 0 /\ LongEnough(disk.observations[k])
    BY <2>1 DEF Judged, HInv, Judging
  <2>3. Len(passes) >= 1 /\ Exact(passes, k, Len(passes), disk.observations[k]) /\ HType
    BY DEF Judged, HInv, CycleOK, InCycle, FileExact
  <2> QED BY <2>1, <2>2, <2>3, LongIsSustained
<1> QED BY <1>1, Histories, PTL

(* TriggersAreComplete: a rule whose condition has just been observed is   *)
(* not held back by its delay when the condition was observed all along:   *)
(* no exchange of processes, manual action or failed save loses a streak.  *)
THEOREM TriggersAreComplete == HSpec => []TriggerComplete
<1>1. IInv /\ HInv => TriggerComplete
  <2> SUFFICES ASSUME IInv, HInv, NEW p \in Procs, Judged(p, "pending"),
                      passes[Len(passes)][at[p].c, at[p].r] > 0
               PROVE  ~Sustained(<<at[p].c, at[p].r>>)
    BY DEF TriggerComplete
  <2>1. PICK k \in Tracks : k = <<at[p].c, at[p].r>>
    BY DEF Judged, IInv, LocalInv, PlaceOK, Tracks
  <2>2. Len(passes) >= 1 /\ Exact(passes, k, Len(passes), disk.observations[k]) /\ HType
    BY DEF Judged, HInv, CycleOK, InCycle, FileExact
  <2>3. passes[Len(passes)][k] > 0
    BY <2>1
  <2>4. ~LongEnough(disk.observations[k])
    BY <2>1, <2>3 DEF Judged, HInv, Judging
  <2> QED BY <2>1, <2>2, <2>3, <2>4, LongIsSustained
<1> QED BY <1>1, Histories, PTL

(* StartsAreSpaced: two starts of a rule on a container are at least       *)
(* Cooldown apart unless the clock was set back between them; a cooldown   *)
(* is dropped from the file only when it is over (LocalState.reserve).     *)
THEOREM StartsAreSpaced == HSpec => CooldownSpacing
<1> DEFINE Spacing ==
      \A p \in Procs :
        pc[p] = "claim" /\ pc'[p] = "act" /\ status'[p] = "execute"
          => LET last == started[at[p].c, at[p].r]
             IN  last = 0 \/ now >= last + Cooldown
<1>1. IInv /\ DInv /\ HInv /\ [HNext]_hvars => [Spacing]_hvars
  <2> SUFFICES ASSUME IInv, DInv, HInv, HNext, NEW p \in Procs,
                      pc[p] = "claim", pc'[p] = "act", status'[p] = "execute"
               PROVE  LET last == started[at[p].c, at[p].r]
                      IN  last = 0 \/ now >= last + Cooldown
    OBVIOUS
  <2>1. Claim(p)
    <3>1. pc[p] \in PcNames /\ lock = p /\ pc' # pc
      BY DEF IInv, TypeOK, LocalInv, HolderOK
    <3>2. ~Tick
      BY <3>1 DEF Tick, session
    <3>3. Next
      BY HistoryStep
    <3>4. PICK q \in Procs : (\E j \in Jobs : Lock(q, j)) \/ SessionStep(q)
      BY <3>2, <3>3 DEF Next, Step, SessionStep
    <3>5. q = p
      BY <3>1, <3>4, OnlyHolder, ContainersAssumption DEF Lock, LockFree, IInv, LocalInv, HolderOK
    <3>6. SessionStep(p)
      BY <3>4, <3>5 DEF Lock
    <3>7. CycleStep(p)
      BY <3>6 DEF SessionStep, Load, Raise, Exit, Crash, Close, OperatorStep, ManualClaim,
             OfflineRearm, OfflineMaintenance, ManualRejected, ManualDocker, ManualRearm,
             ManualMaintenance, OfflineNothing, IInv, TypeOK
    <3>8. Claim(p) \/ ClaimRefused(p)
      BY <3>7 DEF CycleStep, Expire, Clear, Select, NextContainer, EndCycle, ContainerDone, Match,
             ObserveUntracked, ObserveUnmatched, ObserveMasked, ObserveMatched, Decide,
             ReserveAttempt, NoReservation, SkipAction, Execute, RuleDone
    <3>9. ~ClaimRefused(p)
      BY DEF ClaimRefused, IInv, TypeOK
    <3> QED BY <3>8, <3>9
  <2>2. PICK k \in Tracks : /\ k = <<at[p].c, at[p].r>> /\ disk.cooldowns[k] <= now
    BY <2>1, ClaimSpaced
  <2>3. \/ started[k] = 0 \/ disk.cooldowns[k] = started[k] + Cooldown
        \/ now >= started[k] + Cooldown
    BY DEF HInv, Spaced
  <2>4. now \in Nat /\ started[k] \in Nat /\ Cooldown \in Nat
    BY OptionsAssumption DEF IInv, TypeOK, HInv, HType
  <2>5. started[k] = 0 \/ now >= started[k] + Cooldown
    BY <2>2, <2>3, <2>4
  <2> QED BY <2>2, <2>5
<1> QED BY <1>1, Histories, PTL DEF HSpec, CooldownSpacing
=============================================================================
