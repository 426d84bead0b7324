------------------------ MODULE AuditMigration_proofs -------------------------
(***************************************************************************)
(* Theorems about AuditMigration, for any number of operators, output      *)
(* directories and retained files, whatever calls fail and whenever the    *)
(* power does.                                                             *)
(*                                                                         *)
(* The invariant follows a run through its steps: what it knows of the     *)
(* journal while it holds the lock (InstantOK), and which copies in its    *)
(* directory are on the medium already (BundleOK).  What a power loss may  *)
(* leave is described for each of the survivors (SurvivorsOK), which are   *)
(* never ahead of the disk.                                                *)
(***************************************************************************)
EXTENDS AuditMigration, SequenceTheorems, WellFoundedInduction, TLAPS

Entries == Seq([id : Int, schema : {1, 2}])
Contents == Entries \cup {Absent, Invalid}
Inventories == [Slots -> Entries \cup {Absent}]
FileRecords == [data : Contents, synced : BOOLEAN]
Manifests == [name : {"none", "temporary", "final"}, data : Inventories \cup {Absent, Invalid},
              synced : BOOLEAN]
Bundles == [made : BOOLEAN, backup : [Slots -> FileRecords], converted : [Slots -> FileRecords],
            manifest : Manifests]

(* The steps between the creation of the directory and the report. *)
Copying == {"copy", "copying", "sync copies", "verify"}
Working == Copying \cup {"manifest", "sync manifest", "replace", "sync name"}

Runs == [at : {"idle", "lock"} \cup Holding, dir : Dirs \cup {Absent}, apply : BOOLEAN, number : Slots,
         inventory : Inventories, seen : Contents, intact : BOOLEAN, quiet : BOOLEAN]

TypeOK ==
  /\ source \in [Names -> Contents]
  /\ lock \in Operators \cup {Agent, Nobody}
  /\ run \in [Operators -> Runs]
  /\ disk \in [Dirs -> Bundles]
  /\ survivors \subseteq [Dirs -> Bundles]
  /\ reported \subseteq Dirs
  /\ events \in Int

(* What is in the directory of a run. *)
Done(b, inventory, n) ==
  IF inventory[n] = Absent THEN b.backup[n] = NoFile /\ b.converted[n] = NoFile
  ELSE Durable(b.backup[n], inventory[n]) /\ Durable(b.converted[n], Converted(inventory[n]))

BundleOK(m) ==
  LET b == here(m)
      r == run[m]
  IN /\ r.at \in Holding \cup {"lock"} => r.dir \in Dirs
     /\ r.at \in Working => b.made /\ r.dir \notin reported
     /\ r.at \in Copying =>
          /\ b.manifest.name = "none"
          /\ r.number \in Retained(m)
          /\ \A n \in Slots : n \notin Retained(m) \/ n > r.number => Done(b, r.inventory, n)
     /\ r.at = "verify" => b.backup[r.number].synced /\ b.converted[r.number].synced
     /\ r.at \in Working \ Copying => \A n \in Slots : Done(b, r.inventory, n)
     /\ r.at = "manifest" => b.manifest.name = "none"
     /\ r.at \in {"sync manifest", "replace"} =>
          b.manifest.name = "temporary" /\ b.manifest.data = r.inventory
     /\ r.at = "replace" => b.manifest.synced
     /\ r.at = "sync name" => b.manifest.name = "final"

(* What a run knows of the journal. *)
InstantOK(m) ==
  LET r == run[m] IN
  /\ r.at \in {"idle", "lock", "paths"} => r.inventory = [n \in Slots |-> Absent]
  /\ r.at \in {"open", "inspect"} => \A n \in Slots : n <= r.number => r.inventory[n] = Absent
  /\ r.at = "mkdir" => Retained(m) # {}
  /\ r.at \in Holding \ {"paths"} /\ r.quiet =>
       /\ source[Files] = Absent
       /\ \A n \in Slots : (r.at \in {"open", "inspect"} => n > r.number) => r.inventory[n] = source[n]
       /\ r.at = "inspect" => r.seen = source[r.number]

RunOK(m) == (run[m].at \in Holding => lock = m) /\ BundleOK(m) /\ InstantOK(m)
RunsOK == \A m \in Operators : RunOK(m)

(* What is on the medium, and what a power loss may make of it. *)
SurvivorsOK ==
  \A s \in survivors \cup {disk} : \A d \in Dirs :
    /\ s[d].manifest.name = "final" => Whole(s[d]) /\ s[d].made /\ disk[d].manifest.name = "final"
    /\ s[d].made => disk[d].made
    /\ d \in reported => s[d].manifest.name = "final"

IInv == TypeOK /\ RunsOK /\ SurvivorsOK

-----------------------------------------------------------------------------
(***************************************************************************)
(* Operators.                                                              *)
(***************************************************************************)
LEMMA SlotsAre == Slots \subseteq Names /\ 0 \in Slots /\ Files - 1 \in Slots /\ Files \in Names
                    /\ Slots \subseteq Int /\ Files \notin Slots
BY FilesAssumption DEF Slots, Names

LEMMA SlotOrder ==
  \A n, k \in Slots : /\ n <= k - 1 <=> n < k
                      /\ n > k - 1 <=> n >= k
                      /\ n <= k <=> n < k \/ n = k
                      /\ n >= k <=> n > k \/ n = k
                      /\ ~(n <= k) <=> n > k
                      /\ ~(n > n)
BY FilesAssumption DEF Slots

LEMMA ContentsAre ==
  /\ Absent \notin Entries /\ Invalid \notin Entries /\ Absent # Invalid
  /\ \A c \in Contents : Readable(c) <=> c \in Entries
BY ContentsAssumption DEF Contents, Entries, Readable

LEMMA ConvertedIn ==
  ASSUME NEW c \in Entries
  PROVE  Converted(c) \in Entries
<1> DEFINE E == [id : Int, schema : {1, 2}]
<1>1. PICK n \in Nat : c \in [1 .. n -> E]
  <2>1. c \in Seq(E)
    BY DEF Entries
  <2> HIDE DEF E
  <2>2. Len(c) \in Nat /\ c \in [1 .. Len(c) -> E]
    BY <2>1
  <2> QED BY <2>2
<1>2. \A k \in 1 .. n : [c[k] EXCEPT !.schema = 2] \in E
  <2> TAKE k \in 1 .. n
  <2>1. c[k] \in E
    BY <1>1
  <2> QED BY <2>1
<1>3. Converted(c) \in [1 .. n -> E]
  <2>1. DOMAIN c = 1 .. n
    BY <1>1
  <2> HIDE DEF E
  <2> QED BY <1>2, <2>1 DEF Converted
<1>4. Converted(c) \in Seq(E)
  <2> HIDE DEF E
  <2> QED BY <1>3, SeqDef
<1> QED BY <1>4 DEF Entries

(* A set of slots that is not empty has a highest one. *)
LEMMA HighestIs ==
  ASSUME NEW S, S \subseteq Slots, S # {}
  PROVE  Highest(S) \in S /\ \A k \in S : k <= Highest(S)
<1> DEFINE T == {Files - k : k \in S}
           R == {s \in Nat \X Nat : s[1] < s[2]}
<1>1. OpToRel(<, Nat) = R
  BY DEF OpToRel
<1>2. IsWellFoundedOn(R, Nat)
  BY <1>1, NatLessThanWellFounded
<1>3. T \subseteq Nat /\ T # {}
  <2>1. \A k \in S : Files - k \in Nat
    BY FilesAssumption DEF Slots
  <2>2. \E k \in S : Files - k \in T
    OBVIOUS
  <2>3. T \subseteq Nat
    BY <2>1
  <2> QED BY <2>2, <2>3
<1>4. PICK x \in T : \A y \in T : <<y, x>> \notin R
  <2> HIDE DEF T, R
  <2> QED BY <1>2, <1>3, WFMin
<1>5. PICK n \in S : x = Files - n
  OBVIOUS
<1>6. \A k \in S : k <= n
  <2> TAKE k \in S
  <2>1. Files - k \in T /\ Files - k \in Nat /\ x \in Nat
    BY <1>3
  <2>2. ~(Files - k < x)
    BY <2>1, <1>4
  <2> QED BY <2>2, <1>5, FilesAssumption DEF Slots
<1> QED BY <1>6 DEF Highest

(* What a power loss leaves of a file: all of it once it is synced. *)
LEMMA KeptIs ==
  ASSUME NEW f \in FileRecords, NEW data \in Lost(f)
  PROVE  Kept(f, data) \in FileRecords /\ (f.synced => Kept(f, data) = f)
<1>1. data \in Contents
  BY DEF Lost, FileRecords, Contents
<1>2. f.synced => data = f.data
  BY DEF Lost
<1> HIDE DEF Contents
<1>3. Kept(f, data) \in FileRecords
  BY <1>1 DEF Kept, FileRecords
<1>4. f.synced => Kept(f, data) = f
  BY <1>2 DEF Kept, FileRecords
<1> QED BY <1>3, <1>4

(* What a power loss leaves of a bundle. *)
LEMMA RemainsAre ==
  ASSUME NEW b \in Bundles, NEW r \in Remains(b)
  PROVE  /\ r \in Bundles /\ r.made = b.made /\ r.manifest.name = b.manifest.name
         /\ Whole(b) => r = b
<1>1. PICK left \in LostOf(b.backup) \X LostOf(b.converted) \X Lost(b.manifest) :
        r = [b EXCEPT !.backup = KeptOf(b.backup, left[1]), !.converted = KeptOf(b.converted, left[2]),
                      !.manifest = Kept(b.manifest, left[3])]
  BY DEF Remains
<1> DEFINE x == left[1]
           y == left[2]
           z == left[3]
<1>a. \A n \in Slots : x[n] \in Lost(b.backup[n]) /\ y[n] \in Lost(b.converted[n])
  <2>1. x \in LostOf(b.backup) /\ y \in LostOf(b.converted)
    OBVIOUS
  <2> HIDE DEF x, y
  <2> QED BY <2>1 DEF LostOf
<1>b. z \in Lost(b.manifest)
  OBVIOUS
<1>2. \A n \in Slots : Kept(b.backup[n], x[n]) \in FileRecords /\ Kept(b.converted[n], y[n]) \in FileRecords
  <2> HIDE DEF x, y
  <2>1. \A n \in Slots : b.backup[n] \in FileRecords /\ b.converted[n] \in FileRecords
    BY DEF Bundles
  <2> QED BY <1>a, <2>1, KeptIs
<1>c. KeptOf(b.backup, x) \in [Slots -> FileRecords] /\ KeptOf(b.converted, y) \in [Slots -> FileRecords]
  BY <1>2 DEF KeptOf
<1> HIDE DEF x, y, z
<1>3. Kept(b.manifest, z) \in Manifests /\ Kept(b.manifest, z).name = b.manifest.name
  BY <1>b DEF Bundles, Manifests, Kept, Lost
<1>4. r \in Bundles /\ r.made = b.made /\ r.manifest.name = b.manifest.name
  BY <1>1, <1>c, <1>3 DEF Bundles, x, y, z
<1>5. ASSUME Whole(b) PROVE r = b
  <2>1. \A n \in Slots : b.backup[n].synced /\ b.converted[n].synced
    BY <1>5 DEF Whole, NoFile, Durable
  <2>2. \A n \in Slots : Kept(b.backup[n], x[n]) = b.backup[n] /\ Kept(b.converted[n], y[n]) = b.converted[n]
    <3>1. \A n \in Slots : b.backup[n] \in FileRecords /\ b.converted[n] \in FileRecords
      BY DEF Bundles
    <3> QED BY <3>1, <2>1, <1>a, KeptIs
  <2>3. Kept(b.manifest, z) = b.manifest
    BY <1>b, <1>5 DEF Kept, Lost, Whole, Bundles, Manifests
  <2>4. b.backup = KeptOf(b.backup, x) /\ b.converted = KeptOf(b.converted, y)
    BY <2>2 DEF Bundles, KeptOf
  <2>5. r = [b EXCEPT !.backup = b.backup, !.converted = b.converted, !.manifest = b.manifest]
    BY <1>1, <2>3, <2>4 DEF x, y, z
  <2> QED BY <2>5 DEF Bundles
<1> QED BY <1>4, <1>5

LEMMA RecordsTyped ==
  /\ NoRun \in Runs /\ NoBundle \in Bundles /\ EmptyBundle \in Bundles
  /\ NoFile \in FileRecords
  /\ \A c \in Contents : File(c) \in FileRecords
<1>1. NoFile \in FileRecords /\ \A c \in Contents : File(c) \in FileRecords
  BY DEF NoFile, File, FileRecords, Contents
<1>2. NoManifest \in Manifests
  BY DEF NoManifest, Manifests
<1>3. NoBundle \in Bundles /\ EmptyBundle \in Bundles
  BY <1>1, <1>2 DEF NoBundle, EmptyBundle, Bundles
<1>4. NoRun \in Runs
  BY SlotsAre DEF NoRun, Runs, Inventories, Contents, Holding
<1> QED BY <1>1, <1>3, <1>4

(* One run is changed, one directory is. *)
LEMMA RunMoved ==
  ASSUME TypeOK, NEW m \in Operators, NEW r \in Runs, run' = [run EXCEPT ![m] = r]
  PROVE  /\ run' \in [Operators -> Runs] /\ run'[m] = r
         /\ \A k \in Operators : k # m => run'[k] = run[k]
BY DEF TypeOK

LEMMA DirectoryMoved ==
  ASSUME TypeOK, NEW d \in Dirs, NEW b \in Bundles, disk' = [disk EXCEPT ![d] = b]
  PROVE  /\ disk' \in [Dirs -> Bundles] /\ disk'[d] = b
         /\ \A e \in Dirs : e # d => disk'[e] = disk[e]
BY DEF TypeOK

LEMMA HereTyped ==
  ASSUME TypeOK, RunsOK, NEW m \in Operators, run[m].at \in Holding
  PROVE  run[m] \in Runs /\ run[m].dir \in Dirs /\ here(m) \in Bundles /\ lock = m
BY DEF TypeOK, RunsOK, RunOK, BundleOK, here

LEMMA EndTyped ==
  ASSUME TypeOK, NEW m \in Operators, End(m)
  PROVE  run' \in [Operators -> Runs] /\ lock' = Nobody /\ run'[m] = NoRun
BY RecordsTyped, RunMoved DEF End

LEMMA NextInventoryTyped ==
  ASSUME TypeOK, NEW m \in Operators, run[m].at \in Holding,
         NEW found \in Inventories, NextInventory(m, found)
  PROVE  run' \in [Operators -> Runs] /\ lock' \in {lock, Nobody}
<1>1. run[m] \in Runs
  BY DEF TypeOK
<1>2. CASE run[m].number > 0
  <2> DEFINE r == [run[m] EXCEPT !.at = "open", !.inventory = found, !.number = @ - 1, !.seen = Absent]
  <2>1. run[m].number - 1 \in Slots
    BY <1>1, <1>2, FilesAssumption DEF Runs, Slots
  <2>2. r \in Runs
    BY <1>1, <2>1 DEF Runs, Holding, Contents
  <2>3. run' = [run EXCEPT ![m] = r] /\ lock' = lock
    BY <1>2 DEF NextInventory, TypeOK
  <2> QED BY <2>2, <2>3, RunMoved
<1>3. CASE ~(run[m].number > 0) /\ run[m].apply /\ \E n \in Slots : found[n] # Absent
  <2> DEFINE r == [run[m] EXCEPT !.at = "mkdir", !.inventory = found, !.seen = Absent]
  <2>2. r \in Runs
    BY <1>1 DEF Runs, Holding, Contents
  <2>3. run' = [run EXCEPT ![m] = r] /\ lock' = lock
    BY <1>3 DEF NextInventory, TypeOK
  <2> QED BY <2>2, <2>3, RunMoved
<1>4. CASE ~(run[m].number > 0) /\ ~(run[m].apply /\ \E n \in Slots : found[n] # Absent)
  BY <1>4, EndTyped DEF NextInventory
<1> QED BY <1>2, <1>3, <1>4

(* Both copies of a file are synced. *)
LEMMA SyncedTyped ==
  ASSUME NEW b \in Bundles, NEW n \in Slots
  PROVE  LET c == [b EXCEPT !.converted[n].synced = TRUE, !.backup[n].synced = TRUE] IN
         /\ c \in Bundles /\ c.made = b.made /\ c.manifest = b.manifest
         /\ c.backup = [b.backup EXCEPT ![n].synced = TRUE]
         /\ c.converted = [b.converted EXCEPT ![n].synced = TRUE]
<1>1. \A f \in FileRecords : [f EXCEPT !.synced = TRUE] \in FileRecords
  BY DEF FileRecords
<1>2. b.backup \in [Slots -> FileRecords] /\ b.converted \in [Slots -> FileRecords]
  BY DEF Bundles
<1>3. /\ [b.backup EXCEPT ![n].synced = TRUE] \in [Slots -> FileRecords]
      /\ [b.converted EXCEPT ![n].synced = TRUE] \in [Slots -> FileRecords]
  BY <1>1, <1>2
<1> QED BY <1>3 DEF Bundles

(* A directory is changed, and the survivors with it. *)
LEMMA MediumTyped ==
  ASSUME TypeOK, NEW d \in Dirs, NEW b \in Bundles, disk' = [disk EXCEPT ![d] = b],
         survivors' \subseteq survivors \cup {disk, disk'}
  PROVE  disk' \in [Dirs -> Bundles] /\ survivors' \subseteq [Dirs -> Bundles]
BY DirectoryMoved DEF TypeOK

LEMMA AppendTyped ==
  ASSUME TypeOK, AgentAppend
  PROVE  source' \in [Names -> Contents]
<1>1. Event \in [id : Int, schema : {1, 2}]
  BY DEF Event, TypeOK
<1>2. <<Event>> \in Contents
  BY <1>1 DEF Contents, Entries
<1>3. source \in [Names -> Contents] /\ 0 \in Names
  BY SlotsAre DEF TypeOK
<1>4. CASE source[0] # Invalid
              /\ source' = [source EXCEPT ![0] = IF @ = Absent THEN <<Event>> ELSE Append(@, Event)]
  <2>1. source[0] # Absent => source[0] \in Entries
    BY <1>3, <1>4 DEF Contents
  <2>2. source[0] # Absent => Append(source[0], Event) \in Contents
    BY <2>1, <1>1 DEF Contents, Entries
  <2> HIDE DEF Contents
  <2> QED BY <1>2, <1>3, <1>4, <2>2
<1>5. CASE source' = [n \in Names |-> IF n = 0 THEN <<Event>>
                                      ELSE IF n < Files THEN source[n - 1] ELSE source[n]]
  <2>1. \A n \in Names : n # 0 => n - 1 \in Names
    BY FilesAssumption DEF Names
  <2> HIDE DEF Contents
  <2> QED BY <1>2, <1>3, <1>5, <2>1
<1> QED BY <1>3, <1>4, <1>5 DEF AgentAppend

LEMMA PowerTyped ==
  ASSUME TypeOK, PowerLoss
  PROVE  disk' \in [Dirs -> Bundles]
<1>1. PICK before \in survivors \cup {disk} : disk' \in [Dirs -> UNION {Remains(before[d]) : d \in Dirs}]
                                                /\ \A d \in Dirs : disk'[d] \in Remains(before[d])
  BY DEF PowerLoss
<1>2. \A d \in Dirs : before[d] \in Bundles
  BY DEF TypeOK
<1>3. \A d \in Dirs : disk'[d] \in Bundles
  BY <1>1, <1>2, RemainsAre
<1> QED BY <1>1, <1>3

-----------------------------------------------------------------------------
(***************************************************************************)
(* Types.                                                                  *)
(***************************************************************************)
LEMMA TypeStep ==
  ASSUME IInv, [MigrationNext]_migrationVars
  PROVE  TypeOK'
<1> USE DEF IInv
<1> DEFINE Typed == /\ run' \in [Operators -> Runs] /\ lock' \in Operators \cup {Agent, Nobody}
                    /\ disk' \in [Dirs -> Bundles] /\ survivors' \subseteq [Dirs -> Bundles]
<1>j. ASSUME Typed, source' = source, events' = events, reported' \subseteq Dirs
      PROVE  TypeOK'
  BY <1>j DEF TypeOK
<1>m. ASSUME NEW m \in Operators, NEW r \in Runs, run' = [run EXCEPT ![m] = r],
             lock' \in {lock, m, Nobody}, UNCHANGED medium
      PROVE  Typed
  BY <1>m, RunMoved DEF TypeOK, medium
<1>e. ASSUME NEW m \in Operators, End(m), UNCHANGED medium
      PROVE  Typed
  BY <1>e, EndTyped DEF TypeOK, medium
<1>w. ASSUME NEW m \in Operators, NEW r \in Runs, run' = [run EXCEPT ![m] = r], UNCHANGED lock,
             NEW d \in Dirs, NEW b \in Bundles, disk' = [disk EXCEPT ![d] = b],
             survivors' \subseteq survivors \cup {disk, disk'}
      PROVE  Typed
  <2>1. run' \in [Operators -> Runs]
    BY <1>w, RunMoved
  <2>2. disk' \in [Dirs -> Bundles] /\ survivors' \subseteq [Dirs -> Bundles]
    BY <1>w, MediumTyped
  <2> QED BY <2>1, <2>2, <1>w DEF TypeOK
<1>t. \A m \in Operators : run[m] \in Runs
  BY DEF TypeOK
<1>h. \A m \in Operators : run[m].at \in Holding => run[m].dir \in Dirs /\ here(m) \in Bundles
  BY HereTyped
<1> HIDE DEF Typed
<1>1. ASSUME NEW m \in Operators, NEW d \in Dirs, NEW apply \in BOOLEAN, Begin(m, d, apply)
      PROVE  TypeOK'
  <2> DEFINE r == [run[m] EXCEPT !.at = "lock", !.dir = d, !.apply = apply]
  <2>1. r \in Runs
    BY <1>t DEF Runs
  <2>2. run' = [run EXCEPT ![m] = r]
    BY <1>1 DEF Begin, TypeOK
  <2>3. Typed
    BY <2>1, <2>2, <1>m, <1>1 DEF Begin
  <2> QED BY <2>3, <1>j, <1>1 DEF Begin, TypeOK, bounds
<1>2. ASSUME NEW m \in Operators, TakeLock(m)
      PROVE  TypeOK'
  <2> DEFINE r == IF LockFree(m) THEN [run[m] EXCEPT !.at = "paths"] ELSE NoRun
  <2>1. r \in Runs
    BY <1>t, RecordsTyped DEF Runs, Holding
  <2>2. run' = [run EXCEPT ![m] = r]
    BY <1>2 DEF TakeLock, Goto, TypeOK
  <2>3. Typed
    BY <2>1, <2>2, <1>m, <1>2 DEF TakeLock
  <2> QED BY <2>3, <1>j, <1>2 DEF TakeLock, TypeOK, bounds
<1>3. ASSUME NEW m \in Operators, SourcePaths(m)
      PROVE  TypeOK'
  <2> DEFINE r == [run[m] EXCEPT !.at = "open", !.number = Files - 1]
  <2>1. r \in Runs
    BY <1>t, SlotsAre DEF Runs, Holding
  <2>2. End(m) \/ (run' = [run EXCEPT ![m] = r] /\ UNCHANGED lock)
    BY <1>3 DEF SourcePaths, TypeOK
  <2>3. Typed
    BY <2>1, <2>2, <1>m, <1>e, <1>3 DEF SourcePaths
  <2> QED BY <2>3, <1>j, <1>3 DEF SourcePaths, TypeOK, bounds
<1>4. ASSUME NEW m \in Operators, InventoryMissing(m)
      PROVE  TypeOK'
  <2>1. run[m].inventory \in Inventories /\ run[m].at \in Holding
    BY <1>t, <1>4 DEF InventoryMissing, Runs, Holding
  <2>2. Typed
    BY <2>1, NextInventoryTyped, <1>4 DEF InventoryMissing, TypeOK, medium, Typed
  <2> QED BY <2>2, <1>j, <1>4 DEF InventoryMissing, TypeOK, bounds
<1>5. ASSUME NEW m \in Operators, InventoryOpen(m)
      PROVE  TypeOK'
  <2> DEFINE r == [run[m] EXCEPT !.at = "inspect", !.intact = TRUE, !.seen = source[run[m].number]]
  <2>0. source[run[m].number] \in Contents
    BY <1>t, SlotsAre DEF Runs, TypeOK
  <2>1. r \in Runs
    BY <1>t, <2>0 DEF Runs, Holding
  <2>2. run' = [run EXCEPT ![m] = r]
    BY <1>5 DEF InventoryOpen, Opened, TypeOK
  <2>3. Typed
    BY <2>1, <2>2, <1>m, <1>5 DEF InventoryOpen
  <2> QED BY <2>3, <1>j, <1>5 DEF InventoryOpen, TypeOK, bounds
<1>6. ASSUME NEW m \in Operators, InventoryRead(m)
      PROVE  TypeOK'
  <2>1. CASE Readable(run[m].seen) /\ run[m].intact
    <3> DEFINE found == [run[m].inventory EXCEPT ![run[m].number] = run[m].seen]
    <3>1. run[m].seen \in Entries
      BY <2>1, <1>t, ContentsAre DEF Runs
    <3>2. found \in Inventories /\ run[m].at \in Holding
      BY <3>1, <1>t, <1>6 DEF InventoryRead, Runs, Inventories, Holding
    <3>3. NextInventory(m, found)
      BY <2>1, <1>6 DEF InventoryRead
    <3>4. Typed
      BY <3>2, <3>3, NextInventoryTyped, <1>6 DEF InventoryRead, TypeOK, medium, Typed
    <3> QED BY <3>4, <1>j, <1>6 DEF InventoryRead, TypeOK, bounds
  <2>2. CASE ~(Readable(run[m].seen) /\ run[m].intact)
    BY <2>2, <1>e, <1>j, <1>6 DEF InventoryRead, TypeOK, bounds
  <2> QED BY <2>1, <2>2
<1>7. ASSUME NEW m \in Operators, MakeDirs(m)
      PROVE  TypeOK'
  <2>1. run[m].dir \in Dirs
    BY <1>h, <1>7 DEF MakeDirs, Holding
  <2>2. CASE here(m).made
    BY <2>2, <1>e, <1>j, <1>7 DEF MakeDirs, TypeOK, bounds
  <2>3. CASE ~here(m).made
    <3> DEFINE r == [run[m] EXCEPT !.at = "copy", !.number = Highest(Retained(m))]
    <3>1. Retained(m) \subseteq Slots /\ Retained(m) # {}
      BY <1>7 DEF MakeDirs, RunsOK, RunOK, InstantOK, Retained
    <3>2. r \in Runs
      BY <1>t, <3>1, HighestIs, ZenonT(30) DEF Runs, Holding
    <3>3. run' = [run EXCEPT ![m] = r]
      BY <1>7, <2>3 DEF MakeDirs, TypeOK
    <3>4. Typed
      BY <3>2, <3>3, <2>1, <2>3, <1>w, RecordsTyped, <1>7 DEF MakeDirs, Rename
    <3> QED BY <3>4, <1>j, <1>7 DEF MakeDirs, TypeOK, bounds
  <2> QED BY <2>2, <2>3
<1>8. ASSUME NEW m \in Operators, CopyOpen(m)
      PROVE  TypeOK'
  <2> DEFINE r == [run[m] EXCEPT !.at = "copying", !.intact = TRUE, !.seen = source[run[m].number]]
             n == run[m].number
             b == [here(m) EXCEPT !.backup[n] = File(Invalid), !.converted[n] = File(Invalid)]
  <2>0. source[n] \in Contents
    BY <1>t, SlotsAre DEF Runs, TypeOK
  <2>1. r \in Runs
    BY <1>t, <2>0 DEF Runs, Holding
  <2>2. run' = [run EXCEPT ![m] = r] /\ disk' = [disk EXCEPT ![run[m].dir] = b]
    BY <1>8 DEF CopyOpen, Opened, Rename, TypeOK
  <2>3. run[m].dir \in Dirs /\ here(m) \in Bundles
    BY <1>h, <1>8 DEF CopyOpen, Holding
  <2>4. File(Invalid) \in FileRecords
    BY RecordsTyped DEF Contents
  <2>5. b \in Bundles
    BY <2>3, <2>4 DEF Bundles
  <2>6. Typed
    BY <2>1, <2>2, <2>3, <2>5, <1>w, <1>8 DEF CopyOpen, Rename
  <2> QED BY <2>6, <1>j, <1>8 DEF CopyOpen, TypeOK, bounds
<1>9. ASSUME NEW m \in Operators, CopyRead(m)
      PROVE  TypeOK'
  <2> DEFINE r == [run[m] EXCEPT !.at = "sync copies"]
             n == run[m].number
             b == [here(m) EXCEPT !.backup[n] = File(run[m].seen),
                                  !.converted[n] = File(Converted(run[m].seen))]
  <2>1. CASE Readable(run[m].seen) /\ run[m].intact
    <3>1. r \in Runs
      BY <1>t DEF Runs, Holding
    <3>2. run' = [run EXCEPT ![m] = r] /\ disk' = [disk EXCEPT ![run[m].dir] = b]
      BY <2>1, <1>9 DEF CopyRead, Goto, Write, TypeOK
    <3>3. run[m].dir \in Dirs /\ here(m) \in Bundles
      BY <1>h, <1>9 DEF CopyRead, Holding
    <3>4. run[m].seen \in Entries
      BY <2>1, <1>t, ContentsAre DEF Runs
    <3>5. File(run[m].seen) \in FileRecords /\ File(Converted(run[m].seen)) \in FileRecords
      BY <3>4, ConvertedIn, RecordsTyped DEF Contents
    <3>6. b \in Bundles
      BY <3>3, <3>5 DEF Bundles
    <3>7. Typed
      BY <3>1, <3>2, <3>3, <3>6, <2>1, <1>w, <1>9 DEF CopyRead, Write
    <3> QED BY <3>7, <1>j, <1>9 DEF CopyRead, TypeOK, bounds
  <2>2. CASE ~(Readable(run[m].seen) /\ run[m].intact)
    BY <2>2, <1>e, <1>j, <1>9 DEF CopyRead, TypeOK, bounds
  <2> QED BY <2>1, <2>2
<1>10. ASSUME NEW m \in Operators, SyncCopies(m)
      PROVE  TypeOK'
  <2> DEFINE r == [run[m] EXCEPT !.at = "verify"]
             n == run[m].number
             b == [here(m) EXCEPT !.converted[n].synced = TRUE, !.backup[n].synced = TRUE]
  <2>1. r \in Runs
    BY <1>t DEF Runs, Holding
  <2>2. run' = [run EXCEPT ![m] = r] /\ disk' = [disk EXCEPT ![run[m].dir] = b]
    BY <1>10 DEF SyncCopies, Goto, Sync, TypeOK
  <2>3. run[m].dir \in Dirs /\ here(m) \in Bundles
    BY <1>h, <1>10 DEF SyncCopies, Holding
  <2>4. n \in Slots
    BY <1>t DEF Runs
  <2>5. b \in Bundles
    BY <2>3, <2>4, SyncedTyped
  <2>6. Typed
    BY <2>1, <2>2, <2>3, <2>5, <1>w, <1>10 DEF SyncCopies, Sync
  <2> QED BY <2>6, <1>j, <1>10 DEF SyncCopies, TypeOK, bounds
<1>11. ASSUME NEW m \in Operators, Verify(m)
      PROVE  TypeOK'
  <2> DEFINE rest == {n \in Retained(m) : n < run[m].number}
             r == [run[m] EXCEPT !.at = IF rest = {} THEN "manifest" ELSE "copy",
                                 !.number = IF rest = {} THEN @ ELSE Highest(rest), !.seen = Absent]
  <2>1. CASE Verified(m)
    <3>1. rest \subseteq Slots
      BY DEF Retained
    <3> HIDE DEF rest
    <3>2. rest # {} => Highest(rest) \in Slots
      BY <3>1, HighestIs
    <3>3. r \in Runs
      BY <1>t, <3>2 DEF Runs, Holding, Contents
    <3>4. run' = [run EXCEPT ![m] = r]
      BY <2>1, <1>11 DEF Verify, TypeOK, rest
    <3>5. Typed
      BY <3>3, <3>4, <2>1, <1>m, <1>11 DEF Verify
    <3> QED BY <3>5, <1>j, <1>11 DEF Verify, TypeOK, bounds
  <2>2. CASE ~Verified(m)
    BY <2>2, <1>e, <1>j, <1>11 DEF Verify, TypeOK, bounds
  <2> QED BY <2>1, <2>2
<1>12. ASSUME NEW m \in Operators, WriteManifest(m)
      PROVE  TypeOK'
  <2> DEFINE r == [run[m] EXCEPT !.at = "sync manifest"]
             b == [here(m) EXCEPT !.manifest =
                     [name |-> "temporary", data |-> run[m].inventory, synced |-> FALSE]]
  <2>1. r \in Runs
    BY <1>t DEF Runs, Holding
  <2>2. run' = [run EXCEPT ![m] = r] /\ disk' = [disk EXCEPT ![run[m].dir] = b]
    BY <1>12 DEF WriteManifest, Goto, here, TypeOK
  <2>3. run[m].dir \in Dirs /\ here(m) \in Bundles
    BY <1>h, <1>12 DEF WriteManifest, Holding
  <2>4. run[m].inventory \in Inventories
    BY <1>t DEF Runs
  <2>5. b \in Bundles
    BY <2>3, <2>4 DEF Bundles, Manifests
  <2>6. Typed
    BY <2>1, <2>2, <2>3, <2>5, <1>w, <1>12 DEF WriteManifest
  <2> QED BY <2>6, <1>j, <1>12 DEF WriteManifest, TypeOK, bounds
<1>13. ASSUME NEW m \in Operators, SyncManifest(m)
      PROVE  TypeOK'
  <2> DEFINE r == [run[m] EXCEPT !.at = "replace"]
             b == [here(m) EXCEPT !.manifest.synced = TRUE]
  <2>1. r \in Runs
    BY <1>t DEF Runs, Holding
  <2>2. run' = [run EXCEPT ![m] = r] /\ disk' = [disk EXCEPT ![run[m].dir] = b]
    BY <1>13 DEF SyncManifest, FsyncManifest, Goto, Sync, TypeOK
  <2>3. run[m].dir \in Dirs /\ here(m) \in Bundles
    BY <1>h, <1>13 DEF SyncManifest, Holding
  <2>5. b \in Bundles
    BY <2>3 DEF Bundles, Manifests
  <2>6. Typed
    BY <2>1, <2>2, <2>3, <2>5, <1>w, <1>13 DEF SyncManifest, FsyncManifest, Sync
  <2> QED BY <2>6, <1>j, <1>13 DEF SyncManifest, TypeOK, bounds
<1>14. ASSUME NEW m \in Operators, Replace(m)
      PROVE  TypeOK'
  <2> DEFINE r == [run[m] EXCEPT !.at = "sync name"]
             b == [here(m) EXCEPT !.manifest.name = "final"]
  <2>1. r \in Runs
    BY <1>t DEF Runs, Holding
  <2>2. run' = [run EXCEPT ![m] = r] /\ disk' = [disk EXCEPT ![run[m].dir] = b]
    BY <1>14 DEF Replace, Goto, Rename, TypeOK
  <2>3. run[m].dir \in Dirs /\ here(m) \in Bundles
    BY <1>h, <1>14 DEF Replace, Holding
  <2>5. b \in Bundles
    BY <2>3 DEF Bundles, Manifests
  <2>6. Typed
    BY <2>1, <2>2, <2>3, <2>5, <1>w, <1>14 DEF Replace, Rename
  <2> QED BY <2>6, <1>j, <1>14 DEF Replace, TypeOK, bounds
<1>15. ASSUME NEW m \in Operators, Report(m)
      PROVE  TypeOK'
  <2>1. run[m].dir \in Dirs
    BY <1>h, <1>15 DEF Report, Holding
  <2>2. Typed
    BY EndTyped, <1>15 DEF Report, SyncedName, SyncDirectory, TypeOK, Typed
  <2> QED BY <2>1, <2>2, <1>j, <1>15 DEF Report, TypeOK, bounds
<1>16. ASSUME NEW m \in Operators, Fail(m)
      PROVE  TypeOK'
  BY <1>16, <1>e, <1>j DEF Fail, TypeOK, bounds
<1>17. CASE AgentLock
  BY <1>17 DEF AgentLock, TypeOK, medium
<1>18. CASE AgentAppend
  <2>1. source' \in [Names -> Contents]
    BY <1>18, AppendTyped
  <2> QED BY <2>1, <1>18 DEF AgentAppend, TypeOK, medium, bounds
<1>19. ASSUME NEW n \in Names, Edit(n)
      PROVE  TypeOK'
  <2>1. PICK content \in {Absent, Invalid, <<>>} : source' = [source EXCEPT ![n] = content]
    BY <1>19 DEF Edit
  <2>2. content \in Contents
    <3>1. <<>> \in Entries
      BY EmptySeq DEF Entries
    <3> QED BY <3>1 DEF Contents
  <2>3. source' \in [Names -> Contents]
    <3> HIDE DEF Contents
    <3> QED BY <2>1, <2>2 DEF TypeOK
  <2>4. \A m \in Operators :
          [run[m] EXCEPT !.quiet = @ /\ run[m].at \notin Holding, !.intact = @ /\ run[m].number # n] \in Runs
    <3> TAKE m \in Operators
    <3> DEFINE q == run[m].quiet /\ run[m].at \notin Holding
               i == run[m].intact /\ run[m].number # n
    <3>1. q \in BOOLEAN /\ i \in BOOLEAN
      BY <1>t DEF Runs
    <3> HIDE DEF q, i
    <3>2. [run[m] EXCEPT !.quiet = q, !.intact = i] \in Runs
      BY <3>1, <1>t DEF Runs
    <3> QED BY <3>2 DEF q, i
  <2>5. run' \in [Operators -> Runs]
    BY <2>4, <1>19 DEF Edit
  <2> QED BY <2>3, <2>5, <1>19 DEF Edit, TypeOK, medium
<1>20. CASE PowerLoss
  <2>1. disk' \in [Dirs -> Bundles]
    BY <1>20, PowerTyped
  <2>2. run' \in [Operators -> Runs]
    BY <1>20, RecordsTyped DEF PowerLoss
  <2> QED BY <2>1, <2>2, <1>20 DEF PowerLoss, TypeOK, bounds
<1>21. CASE UNCHANGED migrationVars
  BY <1>21 DEF migrationVars, TypeOK
<1> QED
  BY <1>1, <1>2, <1>3, <1>4, <1>5, <1>6, <1>7, <1>8, <1>9, <1>10, <1>11, <1>12, <1>13, <1>14, <1>15,
     <1>16, <1>17, <1>18, <1>19, <1>20, <1>21 DEF MigrationNext, Migrating

-----------------------------------------------------------------------------
(***************************************************************************)
(* What a power loss may leave.                                            *)
(***************************************************************************)
LEMMA SurvivorsGrow ==
  ASSUME IInv, NEW d \in Dirs, NEW b \in Bundles, disk' = [disk EXCEPT ![d] = b], b.made,
         b.manifest.name = "final" => Whole(b),
         disk[d].manifest.name = "final" => b.manifest.name = "final",
         survivors' \subseteq survivors \cup {disk, disk'}, UNCHANGED reported
  PROVE  SurvivorsOK'
<1>1. /\ disk' \in [Dirs -> Bundles] /\ disk'[d] = b
      /\ \A e \in Dirs : e # d => disk'[e] = disk[e]
  BY DirectoryMoved DEF IInv
<1> SUFFICES ASSUME NEW s \in survivors' \cup {disk'}, NEW e \in Dirs
             PROVE  /\ s[e].manifest.name = "final" =>
                          Whole(s[e]) /\ s[e].made /\ disk'[e].manifest.name = "final"
                    /\ s[e].made => disk'[e].made
                    /\ e \in reported' => s[e].manifest.name = "final"
  BY DEF SurvivorsOK, Whole, Durable
<1>2. CASE s \in survivors \cup {disk}
  <2>1. /\ s[e].manifest.name = "final" => Whole(s[e]) /\ s[e].made /\ disk[e].manifest.name = "final"
        /\ s[e].made => disk[e].made
        /\ e \in reported => s[e].manifest.name = "final"
    BY <1>2 DEF IInv, SurvivorsOK
  <2> QED BY <2>1, <1>1
<1>3. CASE s = disk'
  <2>1. /\ disk[e].manifest.name = "final" => Whole(disk[e]) /\ disk[e].made
        /\ e \in reported => disk[e].manifest.name = "final"
    BY DEF IInv, SurvivorsOK
  <2> QED BY <2>1, <1>1, <1>3
<1> QED BY <1>2, <1>3

LEMMA SurvivorsStand ==
  ASSUME IInv, UNCHANGED medium, UNCHANGED reported
  PROVE  SurvivorsOK'
BY DEF IInv, SurvivorsOK, medium, Whole, Durable

(* The rename of the manifest marks a directory that is whole. *)
LEMMA ReplacedWhole ==
  ASSUME IInv, NEW m \in Operators, Replace(m)
  PROVE  Whole([here(m) EXCEPT !.manifest.name = "final"])
<1> DEFINE b == [here(m) EXCEPT !.manifest.name = "final"]
<1>1. run[m].at = "replace" /\ run[m] \in Runs /\ here(m) \in Bundles /\ BundleOK(m)
  BY HereTyped DEF IInv, Replace, Holding, RunsOK, RunOK
<1>2. /\ here(m).manifest.data = run[m].inventory /\ here(m).manifest.synced
      /\ \A n \in Slots : Done(here(m), run[m].inventory, n)
  BY <1>1 DEF BundleOK, Working, Copying
<1>3. /\ b.manifest.data = run[m].inventory /\ b.manifest.synced
      /\ b.backup = here(m).backup /\ b.converted = here(m).converted
  BY <1>1, <1>2 DEF Bundles, Manifests
<1>4. b.manifest.data \in [Slots -> Seq([id : Int, schema : {1, 2}]) \cup {Absent}]
  BY <1>1, <1>3 DEF Runs, Inventories, Entries
<1> QED BY <1>2, <1>3, <1>4 DEF Whole, Done

LEMMA SurvivorsStep ==
  ASSUME IInv, [MigrationNext]_migrationVars
  PROVE  SurvivorsOK'
<1>b. \A m \in Operators : BundleOK(m)
  BY DEF IInv, RunsOK, RunOK
<1>h. \A m \in Operators : run[m].at \in Holding =>
        run[m] \in Runs /\ run[m].dir \in Dirs /\ here(m) \in Bundles
  BY HereTyped DEF IInv
<1>w. ASSUME NEW m \in Operators, run[m].at \in Working, NEW b \in Bundles,
             disk' = [disk EXCEPT ![run[m].dir] = b], b.made = here(m).made,
             here(m).manifest.name # "final", b.manifest.name = "final" => Whole(b),
             survivors' \subseteq survivors \cup {disk, disk'}, UNCHANGED reported
      PROVE  SurvivorsOK'
  <2>1. run[m].dir \in Dirs /\ here(m).made
    BY <1>b, <1>h, <1>w DEF BundleOK, Holding, Working, Copying
  <2> QED BY <2>1, <1>w, SurvivorsGrow DEF here
<1>1. ASSUME NEW m \in Operators, MakeDirs(m)
      PROVE  SurvivorsOK'
  <2>1. run[m].dir \in Dirs
    BY <1>h, <1>1 DEF MakeDirs, Holding
  <2>2. CASE here(m).made
    BY <2>2, <1>1, SurvivorsStand DEF MakeDirs
  <2>3. CASE ~here(m).made
    <3>1. disk[run[m].dir].manifest.name # "final"
      BY <2>1, <2>3 DEF IInv, SurvivorsOK, here
    <3>2. EmptyBundle.made /\ EmptyBundle.manifest.name # "final"
      BY DEF EmptyBundle, NoBundle, NoManifest
    <3> QED BY <2>1, <2>3, <3>1, <3>2, <1>1, RecordsTyped, SurvivorsGrow DEF MakeDirs, Rename
  <2> QED BY <2>2, <2>3
<1>2. ASSUME NEW m \in Operators, CopyOpen(m)
      PROVE  SurvivorsOK'
  <2> DEFINE n == run[m].number
             b == [here(m) EXCEPT !.backup[n] = File(Invalid), !.converted[n] = File(Invalid)]
  <2>1. here(m) \in Bundles /\ here(m).manifest.name = "none"
    BY <1>b, <1>h, <1>2 DEF CopyOpen, BundleOK, Holding, Copying
  <2>2. File(Invalid) \in FileRecords
    BY RecordsTyped DEF Contents
  <2>3. b \in Bundles /\ b.made = here(m).made /\ b.manifest.name = "none"
    BY <2>1, <2>2 DEF Bundles
  <2> QED BY <2>1, <2>3, <1>w, <1>2 DEF CopyOpen, Rename, Working, Copying
<1>3. ASSUME NEW m \in Operators, CopyRead(m)
      PROVE  SurvivorsOK'
  <2> DEFINE n == run[m].number
             b == [here(m) EXCEPT !.backup[n] = File(run[m].seen),
                                  !.converted[n] = File(Converted(run[m].seen))]
  <2>1. CASE Readable(run[m].seen) /\ run[m].intact
    <3>1. here(m) \in Bundles /\ here(m).manifest.name = "none"
      BY <1>b, <1>h, <1>3 DEF CopyRead, BundleOK, Holding, Copying
    <3>2. run[m].seen \in Entries
      BY <2>1, <1>h, <1>3, ContentsAre DEF CopyRead, Holding, Runs
    <3>3. File(run[m].seen) \in FileRecords /\ File(Converted(run[m].seen)) \in FileRecords
      BY <3>2, ConvertedIn, RecordsTyped DEF Contents
    <3>4. b \in Bundles /\ b.made = here(m).made /\ b.manifest.name = "none"
      BY <3>1, <3>3 DEF Bundles
    <3> QED BY <3>1, <3>4, <2>1, <1>w, <1>3 DEF CopyRead, Write, Working, Copying
  <2>2. CASE ~(Readable(run[m].seen) /\ run[m].intact)
    BY <2>2, <1>3, SurvivorsStand DEF CopyRead
  <2> QED BY <2>1, <2>2
<1>4. ASSUME NEW m \in Operators, SyncCopies(m)
      PROVE  SurvivorsOK'
  <2> DEFINE n == run[m].number
             b == [here(m) EXCEPT !.converted[n].synced = TRUE, !.backup[n].synced = TRUE]
  <2>1. here(m) \in Bundles /\ here(m).manifest.name = "none"
    BY <1>b, <1>h, <1>4 DEF SyncCopies, BundleOK, Holding, Copying
  <2>2. n \in Slots
    BY <1>h, <1>4 DEF SyncCopies, Holding, Runs
  <2>3. b \in Bundles /\ b.made = here(m).made /\ b.manifest.name = "none"
    BY <2>1, <2>2, SyncedTyped
  <2> QED BY <2>1, <2>3, <1>w, <1>4 DEF SyncCopies, Sync, Working, Copying
<1>5. ASSUME NEW m \in Operators, WriteManifest(m)
      PROVE  SurvivorsOK'
  <2> DEFINE b == [here(m) EXCEPT !.manifest =
                     [name |-> "temporary", data |-> run[m].inventory, synced |-> FALSE]]
  <2>1. here(m) \in Bundles /\ here(m).manifest.name = "none" /\ run[m].inventory \in Inventories
    BY <1>b, <1>h, <1>5 DEF WriteManifest, BundleOK, Holding, Runs
  <2>2. b \in Bundles /\ b.made = here(m).made /\ b.manifest.name = "temporary"
    BY <2>1 DEF Bundles, Manifests
  <2>3. disk' = [disk EXCEPT ![run[m].dir] = b]
    BY <1>5 DEF WriteManifest, here, IInv, TypeOK
  <2> QED BY <2>1, <2>2, <2>3, <1>w, <1>5 DEF WriteManifest, Working, Copying
<1>6. ASSUME NEW m \in Operators, SyncManifest(m)
      PROVE  SurvivorsOK'
  <2> DEFINE b == [here(m) EXCEPT !.manifest.synced = TRUE]
  <2>1. here(m) \in Bundles /\ here(m).manifest.name = "temporary"
    BY <1>b, <1>h, <1>6 DEF SyncManifest, BundleOK, Holding
  <2>2. b \in Bundles /\ b.made = here(m).made /\ b.manifest.name = "temporary"
    BY <2>1 DEF Bundles, Manifests
  <2> QED BY <2>1, <2>2, <1>w, <1>6 DEF SyncManifest, FsyncManifest, Sync, Working, Copying
<1>7. ASSUME NEW m \in Operators, Replace(m)
      PROVE  SurvivorsOK'
  <2> DEFINE b == [here(m) EXCEPT !.manifest.name = "final"]
  <2>1. here(m) \in Bundles /\ here(m).manifest.name = "temporary"
    BY <1>b, <1>h, <1>7 DEF Replace, BundleOK, Holding
  <2>2. b \in Bundles /\ b.made = here(m).made
    BY <2>1 DEF Bundles, Manifests
  <2>3. Whole(b)
    BY ReplacedWhole, <1>7
  <2> QED BY <2>1, <2>2, <2>3, <1>w, <1>7 DEF Replace, Rename, Working, Copying
<1>8. ASSUME NEW m \in Operators, Report(m)
      PROVE  SurvivorsOK'
  <2>1. disk[run[m].dir].manifest.name = "final" /\ run[m].dir \in Dirs
    BY <1>b, <1>h, <1>8 DEF Report, BundleOK, here, Holding
  <2>2. UNCHANGED disk /\ survivors' = {disk} /\ reported' = reported \cup {run[m].dir}
    BY <1>8 DEF Report, SyncedName, SyncDirectory
  <2>3. \A d \in Dirs :
          /\ disk[d].manifest.name = "final" => Whole(disk[d]) /\ disk[d].made
          /\ d \in reported' => disk[d].manifest.name = "final"
    BY <2>1, <2>2 DEF IInv, SurvivorsOK
  <2> QED BY <2>2, <2>3 DEF SurvivorsOK, Whole, Durable
<1>9. CASE PowerLoss
  <2>1. PICK before \in survivors \cup {disk} : \A d \in Dirs : disk'[d] \in Remains(before[d])
    BY <1>9 DEF PowerLoss
  <2>2. \A d \in Dirs : before[d] \in Bundles
    BY DEF IInv, TypeOK
  <2>3. \A d \in Dirs :
          /\ before[d].manifest.name = "final" => Whole(before[d]) /\ before[d].made
          /\ d \in reported => before[d].manifest.name = "final"
    BY DEF IInv, SurvivorsOK
  <2>4. \A d \in Dirs :
          /\ disk'[d].manifest.name = "final" => Whole(disk'[d]) /\ disk'[d].made
          /\ d \in reported => disk'[d].manifest.name = "final"
    BY <2>1, <2>2, <2>3, RemainsAre
  <2>5. survivors' = {disk'} /\ reported' = reported
    BY <1>9 DEF PowerLoss
  <2> QED BY <2>4, <2>5 DEF SurvivorsOK, Whole, Durable
<1>10. ASSUME UNCHANGED medium, UNCHANGED reported
       PROVE  SurvivorsOK'
  BY <1>10, SurvivorsStand
<1>11. CASE \E m \in Operators : \/ \E d \in Dirs, apply \in BOOLEAN : Begin(m, d, apply)
                               \/ TakeLock(m) \/ SourcePaths(m) \/ InventoryMissing(m)
                               \/ InventoryOpen(m) \/ InventoryRead(m) \/ Verify(m) \/ Fail(m)
  BY <1>10, <1>11 DEF Begin, TakeLock, SourcePaths, InventoryMissing, InventoryOpen, InventoryRead,
                      Verify, Fail
<1>12. CASE AgentLock \/ AgentAppend \/ (\E n \in Names : Edit(n)) \/ UNCHANGED migrationVars
  BY <1>10, <1>12 DEF AgentLock, AgentAppend, Edit, migrationVars, medium
<1> QED
  BY <1>1, <1>2, <1>3, <1>4, <1>5, <1>6, <1>7, <1>8, <1>9, <1>11, <1>12 DEF MigrationNext, Migrating

-----------------------------------------------------------------------------
(***************************************************************************)
(* The runs.                                                               *)
(***************************************************************************)
LEMMA IdleOK ==
  ASSUME NEW m \in Operators, run'[m] = NoRun
  PROVE  RunOK(m)'
BY DEF RunOK, BundleOK, InstantOK, NoRun, Holding, Working, Copying, Retained

(* A run that does not hold the lock depends on nothing else. *)
LEMMA OutsideOK ==
  ASSUME NEW m \in Operators, RunOK(m), run[m].at \notin Holding, run'[m] = run[m]
  PROVE  RunOK(m)'
<1>1. run[m].at \notin Working /\ run[m].at \notin {"verify", "manifest", "sync manifest", "replace",
         "sync name", "open", "inspect", "mkdir", "paths"} /\ run[m].at \notin Copying
  BY DEF Holding, Working, Copying
<1>2. BundleOK(m)'
  BY <1>1 DEF RunOK, BundleOK
<1>3. InstantOK(m)'
  BY <1>1 DEF RunOK, InstantOK
<1> QED BY <1>2, <1>3 DEF RunOK

LEMMA UntouchedOK ==
  ASSUME NEW m \in Operators, RunOK(m), run'[m] = run[m], UNCHANGED <<source, lock, disk, reported>>
  PROVE  RunOK(m)'
<1>1. here(m)' = here(m) /\ Retained(m)' = Retained(m)
  BY DEF here, Retained
<1>2. BundleOK(m)'
  BY <1>1, ZenonT(30) DEF RunOK, BundleOK, Done, Durable
<1>3. InstantOK(m)'
  BY <1>1 DEF RunOK, InstantOK
<1> QED BY <1>2, <1>3 DEF RunOK

(* The step of one run leaves the other runs correct, as they do not hold the lock. *)
LEMMA OneRunOK ==
  ASSUME IInv, NEW m \in Operators, lock \in {m, Nobody}, RunOK(m)',
         \A k \in Operators : k # m => run'[k] = run[k]
  PROVE  RunsOK'
<1>1. \A k \in Operators : k # m => run[k].at \notin Holding
  BY NamesAssumption DEF IInv, RunsOK, RunOK
<1>2. \A k \in Operators : k # m => RunOK(k)'
  BY <1>1, OutsideOK DEF IInv, RunsOK
<1> QED BY <1>2 DEF RunsOK

LEMMA EndOK ==
  ASSUME IInv, NEW m \in Operators, run[m].at \in Holding, End(m)
  PROVE  RunsOK'
<1>1. lock = m
  BY HereTyped DEF IInv
<1>2. run'[m] = NoRun /\ \A k \in Operators : k # m => run'[k] = run[k]
  BY RecordsTyped, RunMoved DEF IInv, End
<1> QED BY <1>1, <1>2, IdleOK, OneRunOK

(* Once the inventory is taken, what a run knows of the journal stays true. *)
LEMMA InstantKept ==
  ASSUME NEW m \in Operators, InstantOK(m), run[m].at \in {"mkdir"} \cup Working, run'[m].at \in Working,
         run'[m].inventory = run[m].inventory, run'[m].quiet = run[m].quiet, UNCHANGED source
  PROVE  InstantOK(m)'
<1>1. /\ run[m].at \in Holding \ {"paths", "open", "inspect"}
      /\ run'[m].at \in Holding \ {"paths", "open", "inspect", "mkdir"}
      /\ run'[m].at \notin {"idle", "lock"}
  BY DEF Holding, Working, Copying
<1> QED BY <1>1 DEF InstantOK

LEMMA NextInventoryOK ==
  ASSUME IInv, NEW m \in Operators, run[m].at \in {"open", "inspect"}, NEW found \in Inventories,
         \A n \in Slots : n < run[m].number => found[n] = Absent,
         run[m].quiet => /\ source[Files] = Absent
                         /\ \A n \in Slots : n >= run[m].number => found[n] = source[n],
         NextInventory(m, found), UNCHANGED <<source, disk, reported>>
  PROVE  RunsOK'
<1>1. run[m].at \in Holding
  BY DEF Holding
<1>2. run[m] \in Runs /\ lock = m /\ run[m].dir \in Dirs
  BY <1>1, HereTyped DEF IInv
<1>3. run[m].number \in Slots /\ run[m].quiet \in BOOLEAN
  BY <1>2 DEF Runs
<1>4. CASE run[m].number > 0
  <2> DEFINE r == [run[m] EXCEPT !.at = "open", !.inventory = found, !.number = @ - 1, !.seen = Absent]
  <2>1. run' = [run EXCEPT ![m] = r] /\ lock' = lock
    BY <1>4 DEF NextInventory, IInv, TypeOK
  <2>2. /\ run'[m] = r /\ \A k \in Operators : k # m => run'[k] = run[k]
    BY <2>1 DEF IInv, TypeOK
  <2>3. /\ run'[m].at = "open" /\ run'[m].inventory = found /\ run'[m].number = run[m].number - 1
        /\ run'[m].dir \in Dirs /\ run'[m].quiet = run[m].quiet
    BY <2>2, <1>2 DEF Runs
  <2>4. \A n \in Slots : /\ n <= run[m].number - 1 => n < run[m].number
                         /\ n > run[m].number - 1 => n >= run[m].number
    BY <1>3, SlotOrder
  <2>5. InstantOK(m)'
    BY <2>3, <2>4 DEF InstantOK
  <2>6. BundleOK(m)'
    BY <2>3 DEF BundleOK, Working, Copying
  <2> QED BY <2>1, <2>2, <2>3, <2>5, <2>6, <1>2, OneRunOK DEF RunOK
<1>5. CASE ~(run[m].number > 0) /\ run[m].apply /\ \E n \in Slots : found[n] # Absent
  <2> DEFINE r == [run[m] EXCEPT !.at = "mkdir", !.inventory = found, !.seen = Absent]
  <2>1. run' = [run EXCEPT ![m] = r] /\ lock' = lock
    BY <1>5 DEF NextInventory, IInv, TypeOK
  <2>2. /\ run'[m] = r /\ \A k \in Operators : k # m => run'[k] = run[k]
    BY <2>1 DEF IInv, TypeOK
  <2>3. /\ run'[m].at = "mkdir" /\ run'[m].inventory = found
        /\ run'[m].dir \in Dirs /\ run'[m].quiet = run[m].quiet
    BY <2>2, <1>2 DEF Runs
  <2>4. \A n \in Slots : n >= run[m].number
    BY <1>3, <1>5, FilesAssumption DEF Slots
  <2>5. run'[m].at \notin {"idle", "lock", "paths", "open", "inspect"}
    BY <2>3
  <2>6. Retained(m)' # {}
    BY <2>3, <1>5 DEF Retained
  <2>7. run'[m].quiet => /\ source'[Files] = Absent
                         /\ \A n \in Slots : run'[m].inventory[n] = source'[n]
    BY <2>3, <2>4
  <2>8. InstantOK(m)'
    BY <2>5, <2>6, <2>7 DEF InstantOK
  <2>9. BundleOK(m)'
    BY <2>3 DEF BundleOK, Working, Copying
  <2> QED BY <2>1, <2>2, <2>3, <2>8, <2>9, <1>2, OneRunOK DEF RunOK
<1>6. CASE ~(run[m].number > 0) /\ ~(run[m].apply /\ \E n \in Slots : found[n] # Absent)
  BY <1>6, <1>1, EndOK DEF NextInventory
<1> QED BY <1>4, <1>5, <1>6

LEMMA RunsStep ==
  ASSUME IInv, [MigrationNext]_migrationVars
  PROVE  RunsOK'
<1>t. \A m \in Operators : RunOK(m) /\ BundleOK(m) /\ InstantOK(m) /\ run[m] \in Runs
  BY DEF IInv, RunsOK, RunOK, TypeOK
<1>h. \A m \in Operators : run[m].at \in Holding => run[m].dir \in Dirs /\ here(m) \in Bundles /\ lock = m
  BY HereTyped DEF IInv
<1>w. Working \subseteq Holding
  BY DEF Working, Copying, Holding
(* A step of a run from the creation of its directory on. *)
<1>k. ASSUME NEW m \in Operators, run[m].at \in {"mkdir"} \cup Working, NEW r, r.at \in Working,
             run' = [run EXCEPT ![m] = r], UNCHANGED lock, UNCHANGED source, BundleOK(m)',
             r.inventory = run[m].inventory, r.quiet = run[m].quiet
      PROVE  RunsOK'
  <2>1. run'[m] = r /\ \A k \in Operators : k # m => run'[k] = run[k]
    BY <1>k DEF IInv, TypeOK
  <2>2. InstantOK(m)'
    BY <2>1, <1>k, <1>t, InstantKept
  <2>3. lock = m
    BY <1>h, <1>k, <1>w DEF Holding
  <2>4. RunOK(m)'
    BY <2>2, <2>3, <1>k DEF RunOK
  <2> QED BY <2>1, <2>3, <2>4, OneRunOK
<1>1. ASSUME NEW m \in Operators, NEW d \in Dirs, NEW apply \in BOOLEAN, Begin(m, d, apply)
      PROVE  RunsOK'
  <2>1. /\ run'[m].at = "lock" /\ run'[m].dir = d /\ run'[m].inventory = run[m].inventory
        /\ \A k \in Operators : k # m => run'[k] = run[k]
    BY <1>1, <1>t DEF Begin, Runs, IInv, TypeOK
  <2>2. BundleOK(m)'
    BY <2>1 DEF BundleOK, Working, Copying
  <2>3. InstantOK(m)'
    BY <2>1, <1>1, <1>t DEF Begin, InstantOK, Holding
  <2>4. RunOK(m)'
    BY <2>1, <2>2, <2>3 DEF RunOK, Holding
  <2>5. \A k \in Operators : k # m => RunOK(k)'
    BY <2>1, <1>1, <1>t, UntouchedOK DEF Begin, medium
  <2> QED BY <2>4, <2>5 DEF RunsOK
<1>2. ASSUME NEW m \in Operators, TakeLock(m)
      PROVE  RunsOK'
  <2>1. CASE LockFree(m)
    <3>1. lock' = m /\ lock = Nobody /\ run' = [run EXCEPT ![m].at = "paths"]
      BY <1>2, <2>1 DEF TakeLock, LockFree, Goto
    <3>2. /\ run'[m].at = "paths" /\ run'[m].dir = run[m].dir /\ run'[m].inventory = run[m].inventory
          /\ \A k \in Operators : k # m => run'[k] = run[k]
      BY <3>1, <1>t DEF Runs, IInv, TypeOK
    <3>3. BundleOK(m)'
      BY <3>2, <1>2, <1>t DEF TakeLock, BundleOK, Working, Copying
    <3>4. InstantOK(m)'
      BY <3>2, <1>2, <1>t DEF TakeLock, InstantOK
    <3> QED BY <3>1, <3>2, <3>3, <3>4, OneRunOK DEF RunOK
  <2>2. CASE ~LockFree(m)
    <3>1. run' = [run EXCEPT ![m] = NoRun] /\ UNCHANGED <<source, lock, disk, reported>>
      BY <1>2, <2>2 DEF TakeLock, medium
    <3>2. run'[m] = NoRun /\ \A k \in Operators : k # m => run'[k] = run[k]
      BY <3>1 DEF IInv, TypeOK
    <3>3. \A k \in Operators : k # m => RunOK(k)'
      BY <3>1, <3>2, <1>t, UntouchedOK
    <3> QED BY <3>2, <3>3, IdleOK DEF RunsOK
  <2> QED BY <2>1, <2>2
<1>3. ASSUME NEW m \in Operators, SourcePaths(m)
      PROVE  RunsOK'
  <2>1. run[m].at = "paths" /\ run[m].at \in Holding /\ lock = m /\ run[m].dir \in Dirs
    BY <1>3, <1>h DEF SourcePaths, Holding
  <2>2. CASE source[Files] # Absent
    BY <2>1, <2>2, <1>3, EndOK DEF SourcePaths
  <2>3. CASE source[Files] = Absent
    <3>1. /\ run' = [run EXCEPT ![m].at = "open", ![m].number = Files - 1]
          /\ UNCHANGED <<source, lock>>
      BY <1>3, <2>3 DEF SourcePaths
    <3>2. /\ run'[m].at = "open" /\ run'[m].dir = run[m].dir /\ run'[m].number = Files - 1
          /\ run'[m].inventory = run[m].inventory
          /\ \A k \in Operators : k # m => run'[k] = run[k]
      BY <3>1, <1>t DEF Runs, IInv, TypeOK
    <3>3. BundleOK(m)'
      BY <3>2, <2>1 DEF BundleOK, Working, Copying
    <3>4. \A n \in Slots : run[m].inventory[n] = Absent /\ ~(n > Files - 1)
      BY <2>1, <1>t, FilesAssumption DEF InstantOK, Slots
    <3>5. InstantOK(m)'
      BY <3>1, <3>2, <3>4, <2>3 DEF InstantOK
    <3> QED BY <3>1, <3>2, <3>3, <3>5, <2>1, OneRunOK DEF RunOK
  <2> QED BY <2>2, <2>3
<1>4. ASSUME NEW m \in Operators, InventoryMissing(m)
      PROVE  RunsOK'
  <2>1. /\ run[m].at = "open" /\ source[run[m].number] = Absent /\ NextInventory(m, run[m].inventory)
        /\ UNCHANGED <<source, disk, reported>>
    BY <1>4 DEF InventoryMissing, medium
  <2>2. run[m].inventory \in Inventories /\ run[m].number \in Slots
    BY <1>t DEF Runs
  <2>3. \A n \in Slots : n <= run[m].number => run[m].inventory[n] = Absent
    BY <2>1, <1>t DEF InstantOK
  <2>4. run[m].quiet => /\ source[Files] = Absent
                        /\ \A n \in Slots : n > run[m].number => run[m].inventory[n] = source[n]
    BY <2>1, <1>t DEF InstantOK, Holding
  <2>5. \A n \in Slots : /\ n < run[m].number => n <= run[m].number
                         /\ n >= run[m].number => n > run[m].number \/ n = run[m].number
    BY <2>2, SlotOrder
  <2> QED BY <2>1, <2>2, <2>3, <2>4, <2>5, NextInventoryOK
<1>5. ASSUME NEW m \in Operators, InventoryOpen(m)
      PROVE  RunsOK'
  <2> DEFINE r == [run[m] EXCEPT !.at = "inspect", !.intact = TRUE, !.seen = source[run[m].number]]
  <2>1. /\ run' = [run EXCEPT ![m] = r] /\ UNCHANGED <<source, lock>> /\ run[m].at = "open"
        /\ lock = m /\ run[m].dir \in Dirs
    BY <1>5, <1>h DEF InventoryOpen, Opened, IInv, TypeOK, Holding
  <2>2. /\ run'[m].at = "inspect" /\ run'[m].dir = run[m].dir /\ run'[m].number = run[m].number
        /\ run'[m].inventory = run[m].inventory /\ run'[m].quiet = run[m].quiet
        /\ run'[m].seen = source[run[m].number]
        /\ \A k \in Operators : k # m => run'[k] = run[k]
    BY <2>1, <1>t DEF Runs, IInv, TypeOK
  <2>3. BundleOK(m)'
    BY <2>1, <2>2 DEF BundleOK, Working, Copying
  <2>4. InstantOK(m)'
    <3>1. \A n \in Slots : n <= run[m].number => run[m].inventory[n] = Absent
      BY <2>1, <1>t DEF InstantOK
    <3>2. run[m].quiet => /\ source[Files] = Absent
                          /\ \A n \in Slots : n > run[m].number => run[m].inventory[n] = source[n]
      BY <2>1, <1>t DEF InstantOK, Holding
    <3> QED BY <3>1, <3>2, <2>1, <2>2 DEF InstantOK
  <2> QED BY <2>1, <2>2, <2>3, <2>4, OneRunOK DEF RunOK
<1>6. ASSUME NEW m \in Operators, InventoryRead(m)
      PROVE  RunsOK'
  <2> DEFINE found == [run[m].inventory EXCEPT ![run[m].number] = run[m].seen]
  <2>1. run[m].at = "inspect" /\ run[m].at \in Holding /\ UNCHANGED <<source, disk, reported>>
    BY <1>6 DEF InventoryRead, medium, Holding
  <2>2. CASE Readable(run[m].seen) /\ run[m].intact
    <3>1. run[m].seen \in Entries /\ run[m].number \in Slots /\ run[m].inventory \in Inventories
      BY <2>2, <1>t, ContentsAre DEF Runs
    <3>2. found \in Inventories /\ found[run[m].number] = run[m].seen
          /\ \A n \in Slots : n # run[m].number => found[n] = run[m].inventory[n]
      BY <3>1 DEF Inventories
    <3>3. \A n \in Slots : n <= run[m].number => run[m].inventory[n] = Absent
      BY <2>1, <1>t DEF InstantOK
    <3>4. run[m].quiet => /\ source[Files] = Absent /\ run[m].seen = source[run[m].number]
                          /\ \A n \in Slots : n > run[m].number => run[m].inventory[n] = source[n]
      BY <2>1, <1>t DEF InstantOK, Holding
    <3>5. \A n \in Slots : /\ n < run[m].number => n <= run[m].number /\ n # run[m].number
                           /\ n >= run[m].number => n > run[m].number \/ n = run[m].number
                           /\ n > run[m].number => n # run[m].number
      BY <3>1, SlotOrder
    <3>6. NextInventory(m, found)
      BY <1>6, <2>2 DEF InventoryRead
    <3> HIDE DEF found
    <3> QED BY <2>1, <3>2, <3>3, <3>4, <3>5, <3>6, NextInventoryOK
  <2>3. CASE ~(Readable(run[m].seen) /\ run[m].intact)
    BY <2>1, <2>3, <1>6, EndOK DEF InventoryRead
  <2> QED BY <2>2, <2>3
<1>7. ASSUME NEW m \in Operators, MakeDirs(m)
      PROVE  RunsOK'
  <2> DEFINE r == [run[m] EXCEPT !.at = "copy", !.number = Highest(Retained(m))]
  <2>1. run[m].at = "mkdir" /\ run[m].at \in Holding /\ run[m].dir \in Dirs
    BY <1>7, <1>h DEF MakeDirs, Holding
  <2>2. CASE here(m).made
    BY <2>1, <2>2, <1>7, EndOK DEF MakeDirs
  <2>3. CASE ~here(m).made
    <3>1. /\ run' = [run EXCEPT ![m] = r] /\ disk' = [disk EXCEPT ![run[m].dir] = EmptyBundle]
          /\ UNCHANGED <<source, lock, reported>>
      BY <1>7, <2>3 DEF MakeDirs, Rename, IInv, TypeOK
    <3>2. /\ r.at = "copy" /\ r.dir = run[m].dir /\ r.number = Highest(Retained(m))
          /\ r.inventory = run[m].inventory /\ r.quiet = run[m].quiet
      BY <1>t DEF Runs
    <3> HIDE DEF r
    <3>3. run'[m] = r /\ here(m)' = EmptyBundle /\ Retained(m)' = Retained(m)
      BY <3>1, <3>2, <2>1 DEF here, Retained, IInv, TypeOK
    <3>4. run[m].dir \notin reported
      BY <2>1, <2>3 DEF here, IInv, SurvivorsOK
    <3>5. Retained(m) \subseteq Slots /\ Retained(m) # {}
      BY <2>1, <1>t DEF InstantOK, Retained
    <3>6. r.number \in Retained(m) /\ \A n \in Retained(m) : n <= r.number
      BY <3>2, <3>5, HighestIs
    <3>7. \A n \in Slots : n \notin Retained(m) \/ n > r.number => r.inventory[n] = Absent
      <4> TAKE n \in Slots
      <4>1. r.number \in Slots
        BY <3>5, <3>6
      <4>2. n \in Retained(m) => ~(n > r.number)
        BY <4>1, <3>6, SlotOrder
      <4> QED BY <4>2, <3>2 DEF Retained
    <3>8. /\ EmptyBundle.made /\ EmptyBundle.manifest.name = "none"
          /\ \A n \in Slots : EmptyBundle.backup[n] = NoFile /\ EmptyBundle.converted[n] = NoFile
      BY DEF EmptyBundle, NoBundle, NoManifest
    <3>9. BundleOK(m)'
      <4>1. \A n \in Slots : n \notin Retained(m) \/ n > r.number => Done(EmptyBundle, r.inventory, n)
        BY <3>7, <3>8 DEF Done
      <4>2. r.at \in Copying /\ r.at \notin {"verify", "manifest", "sync manifest", "replace", "sync name"}
              /\ r.at \notin (Working \ Copying)
        BY <3>2 DEF Copying
      <4>3. reported' = reported /\ r.dir \in Dirs /\ r.dir \notin reported
        BY <3>1, <3>2, <3>4, <2>1
      <4>4. /\ run'[m].at \in Holding \cup {"lock"} => run'[m].dir \in Dirs
            /\ run'[m].at \in Working => here(m)'.made /\ run'[m].dir \notin reported'
        BY <4>3, <3>3, <3>8
      <4>5. /\ here(m)'.manifest.name = "none" /\ run'[m].number \in Retained(m)'
            /\ \A n \in Slots : n \notin Retained(m)' \/ n > run'[m].number => Done(here(m)', run'[m].inventory, n)
        BY <4>1, <3>3, <3>6, <3>8
      <4> HIDE DEF EmptyBundle
      <4> QED BY <4>2, <4>4, <4>5, <3>3 DEF BundleOK
    <3> QED BY <3>1, <3>2, <3>9, <2>1, <1>k DEF Working, Copying
  <2> QED BY <2>2, <2>3
(* The directory of a run that is copying: only the file at hand is written. *)
<1>c. ASSUME NEW m \in Operators, run[m].at \in Copying, NEW r, r.at \in Copying, NEW b \in Bundles,
             run' = [run EXCEPT ![m] = r], disk' = [disk EXCEPT ![run[m].dir] = b], UNCHANGED <<source, lock, reported>>,
             r.dir = run[m].dir, r.number = run[m].number, r.inventory = run[m].inventory, r.quiet = run[m].quiet,
             b.made = here(m).made, b.manifest = here(m).manifest,
             \A n \in Slots : n # run[m].number =>
               b.backup[n] = here(m).backup[n] /\ b.converted[n] = here(m).converted[n],
             r.at = "verify" => b.backup[r.number].synced /\ b.converted[r.number].synced
      PROVE  RunsOK'
  <2>1. run[m].at \in Working /\ run[m].at \in Holding /\ r.at \in Working
    BY <1>c DEF Working, Copying, Holding
  <2>2. run[m].dir \in Dirs /\ run[m].number \in Slots
    BY <2>1, <1>h, <1>t DEF Runs
  <2>3. run'[m] = r /\ here(m)' = b /\ Retained(m)' = Retained(m)
    BY <2>2, <1>c DEF here, Retained, IInv, TypeOK
  <2>4. /\ here(m).made /\ run[m].dir \notin reported
        /\ here(m).manifest.name = "none" /\ run[m].number \in Retained(m)
        /\ \A n \in Slots : n \notin Retained(m) \/ n > run[m].number => Done(here(m), run[m].inventory, n)
    BY <2>1, <1>c, <1>t DEF BundleOK
  <2>5. \A n \in Slots : n \notin Retained(m) \/ n > run[m].number => n # run[m].number
    BY <2>2, <2>4, SlotsAre
  <2>6. \A n \in Slots : n \notin Retained(m) \/ n > run[m].number => Done(b, run[m].inventory, n)
    BY <2>4, <2>5, <1>c DEF Done
  <2>7. r.at \notin {"manifest", "sync manifest", "replace", "sync name"} \cup (Working \ Copying)
    BY <1>c DEF Working, Copying
  <2>8. BundleOK(m)'
    BY <2>2, <2>3, <2>4, <2>6, <2>7, <1>c DEF BundleOK
  <2> QED BY <2>1, <2>8, <1>k, <1>c
<1>8. ASSUME NEW m \in Operators, CopyOpen(m)
      PROVE  RunsOK'
  <2> DEFINE r == [run[m] EXCEPT !.at = "copying", !.intact = TRUE, !.seen = source[run[m].number]]
             n == run[m].number
             b == [here(m) EXCEPT !.backup[n] = File(Invalid), !.converted[n] = File(Invalid)]
  <2>1. run[m].at = "copy" /\ run[m].dir \in Dirs /\ here(m) \in Bundles
    BY <1>8, <1>h DEF CopyOpen, Holding
  <2>2. /\ run' = [run EXCEPT ![m] = r] /\ disk' = [disk EXCEPT ![run[m].dir] = b]
        /\ UNCHANGED <<source, lock, reported>>
    BY <1>8 DEF CopyOpen, Opened, Rename, IInv, TypeOK
  <2>3. /\ r.at = "copying" /\ r.dir = run[m].dir /\ r.number = run[m].number
        /\ r.inventory = run[m].inventory /\ r.quiet = run[m].quiet
    BY <1>t DEF Runs
  <2>4. File(Invalid) \in FileRecords
    BY RecordsTyped DEF Contents
  <2>5. /\ b \in Bundles /\ b.made = here(m).made /\ b.manifest = here(m).manifest
        /\ \A k \in Slots : k # n => b.backup[k] = here(m).backup[k] /\ b.converted[k] = here(m).converted[k]
    BY <2>1, <2>4 DEF Bundles
  <2>6. run[m].at \in Copying /\ r.at \in Copying /\ r.at # "verify"
    BY <2>1, <2>3 DEF Copying
  <2> HIDE DEF r, b
  <2> QED BY <2>2, <2>3, <2>5, <2>6, <1>c
<1>9. ASSUME NEW m \in Operators, CopyRead(m)
      PROVE  RunsOK'
  <2> DEFINE r == [run[m] EXCEPT !.at = "sync copies"]
             n == run[m].number
             b == [here(m) EXCEPT !.backup[n] = File(run[m].seen),
                                  !.converted[n] = File(Converted(run[m].seen))]
  <2>1. run[m].at = "copying" /\ run[m].at \in Holding /\ run[m].dir \in Dirs /\ here(m) \in Bundles
    BY <1>9, <1>h DEF CopyRead, Holding
  <2>2. CASE Readable(run[m].seen) /\ run[m].intact
    <3>1. /\ run' = [run EXCEPT ![m] = r] /\ disk' = [disk EXCEPT ![run[m].dir] = b]
          /\ UNCHANGED <<source, lock, reported>>
      BY <1>9, <2>2 DEF CopyRead, Goto, Write, IInv, TypeOK
    <3>2. /\ r.at = "sync copies" /\ r.dir = run[m].dir /\ r.number = run[m].number
          /\ r.inventory = run[m].inventory /\ r.quiet = run[m].quiet
      BY <1>t DEF Runs
    <3>3. run[m].seen \in Entries
      BY <2>2, <1>t, ContentsAre DEF Runs
    <3>4. File(run[m].seen) \in FileRecords /\ File(Converted(run[m].seen)) \in FileRecords
      BY <3>3, ConvertedIn, RecordsTyped DEF Contents
    <3>5. /\ b \in Bundles /\ b.made = here(m).made /\ b.manifest = here(m).manifest
          /\ \A k \in Slots : k # n => b.backup[k] = here(m).backup[k] /\ b.converted[k] = here(m).converted[k]
      BY <2>1, <3>4 DEF Bundles
    <3>6. run[m].at \in Copying /\ r.at \in Copying /\ r.at # "verify"
      BY <2>1, <3>2 DEF Copying
    <3> HIDE DEF r, b
    <3> QED BY <3>1, <3>2, <3>5, <3>6, <1>c
  <2>3. CASE ~(Readable(run[m].seen) /\ run[m].intact)
    BY <2>1, <2>3, <1>9, EndOK DEF CopyRead
  <2> QED BY <2>2, <2>3
<1>10. ASSUME NEW m \in Operators, SyncCopies(m)
      PROVE  RunsOK'
  <2> DEFINE r == [run[m] EXCEPT !.at = "verify"]
             n == run[m].number
             b == [here(m) EXCEPT !.converted[n].synced = TRUE, !.backup[n].synced = TRUE]
  <2>1. run[m].at = "sync copies" /\ run[m].dir \in Dirs /\ here(m) \in Bundles
    BY <1>10, <1>h DEF SyncCopies, Holding
  <2>2. /\ run' = [run EXCEPT ![m] = r] /\ disk' = [disk EXCEPT ![run[m].dir] = b]
        /\ UNCHANGED <<source, lock, reported>>
    BY <1>10 DEF SyncCopies, Goto, Sync, IInv, TypeOK
  <2>3. /\ r.at = "verify" /\ r.dir = run[m].dir /\ r.number = run[m].number
        /\ r.inventory = run[m].inventory /\ r.quiet = run[m].quiet /\ n \in Slots
    BY <1>t DEF Runs
  <2>4. /\ b \in Bundles /\ b.made = here(m).made /\ b.manifest = here(m).manifest
        /\ b.backup = [here(m).backup EXCEPT ![n].synced = TRUE]
        /\ b.converted = [here(m).converted EXCEPT ![n].synced = TRUE]
    BY <2>1, <2>3, SyncedTyped
  <2>5. /\ here(m).backup \in [Slots -> FileRecords] /\ here(m).converted \in [Slots -> FileRecords]
    BY <2>1 DEF Bundles
  <2> HIDE DEF r, b
  <2>6. \A k \in Slots : k # n => b.backup[k] = here(m).backup[k] /\ b.converted[k] = here(m).converted[k]
    BY <2>3, <2>4, <2>5
  <2>7. b.backup[n].synced /\ b.converted[n].synced
    <3>1. /\ b.backup[n] = [here(m).backup[n] EXCEPT !.synced = TRUE]
          /\ b.converted[n] = [here(m).converted[n] EXCEPT !.synced = TRUE]
      BY <2>3, <2>4, <2>5
    <3>2. here(m).backup[n] \in FileRecords /\ here(m).converted[n] \in FileRecords
      BY <2>3, <2>5
    <3> QED BY <3>1, <3>2 DEF FileRecords
  <2>8. run[m].at \in Copying /\ r.at \in Copying
    BY <2>1, <2>3 DEF Copying
  <2>9. r.at = "verify" => b.backup[r.number].synced /\ b.converted[r.number].synced
    BY <2>3, <2>7
  <2>10. b \in Bundles /\ b.made = here(m).made /\ b.manifest = here(m).manifest
    BY <2>4
  <2>11. r.dir = run[m].dir /\ r.number = run[m].number /\ r.inventory = run[m].inventory /\ r.quiet = run[m].quiet
    BY <2>3
  <2> QED BY <2>2, <2>6, <2>8, <2>9, <2>10, <2>11, <1>c
<1>11. ASSUME NEW m \in Operators, Verify(m)
       PROVE  RunsOK'
  <2> DEFINE rest == {n \in Retained(m) : n < run[m].number}
             next == IF rest = {} THEN run[m].number ELSE Highest(rest)
             r == [run[m] EXCEPT !.at = IF rest = {} THEN "manifest" ELSE "copy",
                                 !.number = IF rest = {} THEN @ ELSE Highest(rest), !.seen = Absent]
  <2>1. run[m].at = "verify" /\ run[m].at \in Holding /\ run[m].at \in Copying /\ run[m].at \in Working
    BY <1>11 DEF Verify, Holding, Working, Copying
  <2>2. CASE Verified(m)
    <3>1. run' = [run EXCEPT ![m] = r] /\ UNCHANGED <<source, lock, disk, reported>>
      BY <1>11, <2>2 DEF Verify, medium, IInv, TypeOK
    <3>2. /\ r.at = (IF rest = {} THEN "manifest" ELSE "copy") /\ r.number = next /\ r.dir = run[m].dir
          /\ r.inventory = run[m].inventory /\ r.quiet = run[m].quiet /\ run[m].number \in Slots
      BY <1>t DEF Runs
    <3>3. rest \subseteq Slots /\ rest \subseteq Retained(m) /\ \A n \in rest : n < run[m].number
      BY DEF Retained
    <3>4. /\ here(m).made /\ run[m].dir \in Dirs /\ run[m].dir \notin reported
          /\ here(m).manifest.name = "none" /\ run[m].number \in Retained(m)
          /\ here(m).backup[run[m].number].synced /\ here(m).converted[run[m].number].synced
          /\ \A n \in Slots : n \notin Retained(m) \/ n > run[m].number => Done(here(m), run[m].inventory, n)
      BY <2>1, <1>t DEF BundleOK
    <3>5. Done(here(m), run[m].inventory, run[m].number)
      BY <2>2, <3>4 DEF Verified, Done, Durable, Retained
    <3>6. run'[m] = r /\ here(m)' = here(m) /\ Retained(m)' = Retained(m)
      BY <3>1, <3>2 DEF here, Retained, IInv, TypeOK
    <3>7. \A n \in Slots : n \in Retained(m) /\ n \notin rest => n >= run[m].number
      BY <3>2, FilesAssumption DEF Slots
    <3>8. \A n \in Slots : n \notin rest => Done(here(m), run[m].inventory, n)
      BY <3>2, <3>4, <3>5, <3>7, SlotOrder
    <3> HIDE DEF rest, r
    <3>9. CASE rest = {}
      <4>1. /\ run'[m].at = "manifest" /\ run'[m].dir = run[m].dir /\ run'[m].inventory = run[m].inventory
            /\ reported' = reported
        BY <3>1, <3>2, <3>6, <3>9
      <4>2. \A n \in Slots : Done(here(m), run[m].inventory, n)
        BY <3>8, <3>9
      <4>3. BundleOK(m)'
        BY <4>1, <4>2, <3>4, <3>6 DEF BundleOK, Copying
      <4>4. r.at \in Working
        BY <3>2, <3>9 DEF Working
      <4> QED BY <4>3, <4>4, <3>1, <3>2, <2>1, <1>k
    <3>10. CASE rest # {}
      <4>1. Highest(rest) \in rest /\ \A n \in rest : n <= Highest(rest)
        BY <3>3, <3>10, HighestIs
      <4>2. /\ run'[m].at = "copy" /\ run'[m].dir = run[m].dir /\ run'[m].inventory = run[m].inventory
            /\ run'[m].number = Highest(rest) /\ reported' = reported
        BY <3>1, <3>2, <3>6, <3>10
      <4>3. \A n \in Slots : n \notin Retained(m) \/ n > Highest(rest) => n \notin rest
        BY <3>3, <4>1, SlotOrder
      <4>4. \A n \in Slots : n \notin Retained(m)' \/ n > run'[m].number => Done(here(m)', run'[m].inventory, n)
        BY <4>2, <4>3, <3>6, <3>8
      <4>5. run'[m].number \in Retained(m)'
        BY <4>1, <4>2, <3>3, <3>6
      <4>6. run'[m].at \notin (Working \ Copying) /\ run'[m].at \in Copying
        BY <4>2 DEF Copying
      <4>7. BundleOK(m)'
        BY <4>2, <4>4, <4>5, <4>6, <3>4, <3>6 DEF BundleOK
      <4>8. r.at \in Working
        BY <3>2, <3>10 DEF Working, Copying
      <4> QED BY <4>7, <4>8, <3>1, <3>2, <2>1, <1>k
    <3> QED BY <3>9, <3>10
  <2>3. CASE ~Verified(m)
    BY <2>1, <2>3, <1>11, EndOK DEF Verify
  <2> QED BY <2>2, <2>3
(* The directory of a run that commits: only the manifest is written. *)
<1>f. ASSUME NEW m \in Operators, run[m].at \in Working \ Copying, NEW r, r.at \in Working \ Copying,
             NEW b \in Bundles, run' = [run EXCEPT ![m] = r], disk' = [disk EXCEPT ![run[m].dir] = b],
             UNCHANGED <<source, lock, reported>>,
             r.dir = run[m].dir, r.inventory = run[m].inventory, r.quiet = run[m].quiet,
             b.made = here(m).made, b.backup = here(m).backup, b.converted = here(m).converted,
             r.at # "manifest",
             r.at \in {"sync manifest", "replace"} => b.manifest.name = "temporary" /\ b.manifest.data = r.inventory,
             r.at = "replace" => b.manifest.synced,
             r.at = "sync name" => b.manifest.name = "final"
      PROVE  RunsOK'
  <2>1. /\ run[m].at \in Working /\ run[m].at \in Holding /\ r.at \in Working /\ r.at \notin Copying
        /\ r.at # "verify"
    BY <1>f, <1>w DEF Copying
  <2>2. run[m].dir \in Dirs
    BY <2>1, <1>h
  <2>3. run'[m] = r /\ here(m)' = b
    BY <2>2, <1>f DEF here, IInv, TypeOK
  <2>4. /\ here(m).made /\ run[m].dir \notin reported
        /\ \A n \in Slots : Done(here(m), run[m].inventory, n)
    BY <2>1, <1>f, <1>t DEF BundleOK
  <2>5. \A n \in Slots : Done(b, run[m].inventory, n)
    BY <2>4, <1>f DEF Done
  <2>6. BundleOK(m)'
    BY <2>1, <2>2, <2>3, <2>4, <2>5, <1>f DEF BundleOK
  <2> QED BY <2>1, <2>6, <1>k, <1>f
<1>12. ASSUME NEW m \in Operators, WriteManifest(m)
       PROVE  RunsOK'
  <2> DEFINE r == [run[m] EXCEPT !.at = "sync manifest"]
             b == [here(m) EXCEPT !.manifest =
                     [name |-> "temporary", data |-> run[m].inventory, synced |-> FALSE]]
  <2>1. run[m].at = "manifest" /\ here(m) \in Bundles
    BY <1>12, <1>h DEF WriteManifest, Holding
  <2>2. /\ run' = [run EXCEPT ![m] = r] /\ disk' = [disk EXCEPT ![run[m].dir] = b]
        /\ UNCHANGED <<source, lock, reported>>
    BY <1>12 DEF WriteManifest, Goto, here, IInv, TypeOK
  <2>3. /\ r.at = "sync manifest" /\ r.dir = run[m].dir /\ r.inventory = run[m].inventory
        /\ r.quiet = run[m].quiet /\ run[m].inventory \in Inventories
    BY <1>t DEF Runs
  <2>4. /\ b \in Bundles /\ b.made = here(m).made /\ b.backup = here(m).backup
        /\ b.converted = here(m).converted
        /\ b.manifest.name = "temporary" /\ b.manifest.data = run[m].inventory
    BY <2>1, <2>3 DEF Bundles, Manifests
  <2>5. run[m].at \in Working \ Copying /\ r.at \in Working \ Copying
    BY <2>1, <2>3 DEF Working, Copying
  <2> HIDE DEF r, b
  <2> QED BY <2>2, <2>3, <2>4, <2>5, <1>f
<1>13. ASSUME NEW m \in Operators, SyncManifest(m)
       PROVE  RunsOK'
  <2> DEFINE r == [run[m] EXCEPT !.at = "replace"]
             b == [here(m) EXCEPT !.manifest.synced = TRUE]
  <2>1. /\ run[m].at = "sync manifest" /\ here(m) \in Bundles
        /\ here(m).manifest.name = "temporary" /\ here(m).manifest.data = run[m].inventory
    BY <1>13, <1>h, <1>t DEF SyncManifest, Holding, BundleOK
  <2>2. /\ run' = [run EXCEPT ![m] = r] /\ disk' = [disk EXCEPT ![run[m].dir] = b]
        /\ UNCHANGED <<source, lock, reported>>
    BY <1>13 DEF SyncManifest, FsyncManifest, Goto, Sync, IInv, TypeOK
  <2>3. /\ r.at = "replace" /\ r.dir = run[m].dir /\ r.inventory = run[m].inventory
        /\ r.quiet = run[m].quiet
    BY <1>t DEF Runs
  <2>4. /\ b \in Bundles /\ b.made = here(m).made /\ b.backup = here(m).backup
        /\ b.converted = here(m).converted /\ b.manifest.synced
        /\ b.manifest.name = "temporary" /\ b.manifest.data = run[m].inventory
    BY <2>1 DEF Bundles, Manifests
  <2>5. run[m].at \in Working \ Copying /\ r.at \in Working \ Copying
    BY <2>1, <2>3 DEF Working, Copying
  <2> HIDE DEF r, b
  <2> QED BY <2>2, <2>3, <2>4, <2>5, <1>f
<1>14. ASSUME NEW m \in Operators, Replace(m)
       PROVE  RunsOK'
  <2> DEFINE r == [run[m] EXCEPT !.at = "sync name"]
             b == [here(m) EXCEPT !.manifest.name = "final"]
  <2>1. run[m].at = "replace" /\ here(m) \in Bundles
    BY <1>14, <1>h DEF Replace, Holding
  <2>2. /\ run' = [run EXCEPT ![m] = r] /\ disk' = [disk EXCEPT ![run[m].dir] = b]
        /\ UNCHANGED <<source, lock, reported>>
    BY <1>14 DEF Replace, Goto, Rename, IInv, TypeOK
  <2>3. /\ r.at = "sync name" /\ r.dir = run[m].dir /\ r.inventory = run[m].inventory
        /\ r.quiet = run[m].quiet
    BY <1>t DEF Runs
  <2>4. /\ b \in Bundles /\ b.made = here(m).made /\ b.backup = here(m).backup
        /\ b.converted = here(m).converted /\ b.manifest.name = "final"
    BY <2>1 DEF Bundles, Manifests
  <2>5. run[m].at \in Working \ Copying /\ r.at \in Working \ Copying
    BY <2>1, <2>3 DEF Working, Copying
  <2> HIDE DEF r, b
  <2> QED BY <2>2, <2>3, <2>4, <2>5, <1>f
<1>15. ASSUME NEW m \in Operators, Report(m) \/ Fail(m)
       PROVE  RunsOK'
  <2>1. run[m].at \in Holding /\ End(m)
    BY <1>15 DEF Report, Fail, Holding
  <2> QED BY <2>1, EndOK
<1>16. CASE AgentLock \/ AgentAppend
  <2>1. lock \in {Nobody, Agent} /\ run' = run
    BY <1>16 DEF AgentLock, AgentAppend
  <2>2. \A m \in Operators : run[m].at \notin Holding
    BY <2>1, <1>h, NamesAssumption
  <2> QED BY <2>1, <2>2, <1>t, OutsideOK DEF RunsOK
<1>17. ASSUME NEW n \in Names, Edit(n)
       PROVE  RunsOK'
  <2> SUFFICES ASSUME NEW m \in Operators PROVE RunOK(m)'
    BY DEF RunsOK
  <2>1. /\ run'[m] = [run[m] EXCEPT !.quiet = @ /\ run[m].at \notin Holding,
                                   !.intact = @ /\ run[m].number # n]
        /\ UNCHANGED <<lock, disk, reported>>
    BY <1>17 DEF Edit, medium
  <2>2. /\ run'[m].at = run[m].at /\ run'[m].dir = run[m].dir /\ run'[m].number = run[m].number
        /\ run'[m].inventory = run[m].inventory /\ run'[m].seen = run[m].seen
        /\ run'[m].quiet = (run[m].quiet /\ run[m].at \notin Holding)
    BY <2>1, <1>t DEF Runs
  <2>3. here(m)' = here(m) /\ Retained(m)' = Retained(m)
    BY <2>1, <2>2 DEF here, Retained
  <2>4. BundleOK(m)'
    <3>1. BundleOK(m) /\ reported' = reported
      BY <2>1, <1>t
    <3> QED BY <3>1, <2>2, <2>3 DEF BundleOK
  <2>5. InstantOK(m)'
    <3>1. run'[m].quiet => run'[m].at \notin Holding
      BY <2>2
    <3> QED BY <3>1, <2>2, <2>3, <1>t DEF InstantOK
  <2> QED BY <2>1, <2>2, <2>4, <2>5, <1>t DEF RunOK
<1>18. CASE PowerLoss
  <2>1. \A m \in Operators : run'[m] = NoRun
    BY <1>18 DEF PowerLoss
  <2> QED BY <2>1, IdleOK DEF RunsOK
<1>19. CASE UNCHANGED migrationVars
  BY <1>19, <1>t, UntouchedOK DEF migrationVars, RunsOK
<1> QED
  BY <1>1, <1>2, <1>3, <1>4, <1>5, <1>6, <1>7, <1>8, <1>9, <1>10, <1>11, <1>12, <1>13, <1>14, <1>15,
     <1>16, <1>17, <1>18, <1>19 DEF MigrationNext, Migrating

LEMMA InitInv ==
  ASSUME MigrationInit
  PROVE  IInv
<1>1. TypeOK
  <2>1. source \in [Names -> Contents]
    BY JournalsAssumption DEF MigrationInit, Contents, Entries
  <2> QED BY <2>1, RecordsTyped DEF MigrationInit, TypeOK
<1>2. RunsOK
  BY DEF MigrationInit, RunsOK, RunOK, BundleOK, InstantOK, NoRun, Holding, Working, Copying, Retained
<1>3. SurvivorsOK
  BY DEF MigrationInit, SurvivorsOK, NoBundle, NoManifest
<1> QED BY <1>1, <1>2, <1>3 DEF IInv

(* Invariance: whatever fails and whenever the power does, IInv holds.     *)
THEOREM Invariance == MigrationSpec => []IInv
<1>1. MigrationInit => IInv
  BY InitInv
<1>2. IInv /\ [MigrationNext]_migrationVars => IInv'
  BY TypeStep, RunsStep, SurvivorsStep DEF IInv
<1> QED BY <1>1, <1>2, PTL DEF MigrationSpec

(* CompleteIsWhole: a directory whose manifest has its final name holds,   *)
(* durably, every file of the manifest's inventory, backed up and          *)
(* converted (migrate_journal).                                            *)
THEOREM CompleteIsWhole == MigrationSpec => []MarkedIsComplete
<1>1. IInv => MarkedIsComplete
  BY DEF IInv, SurvivorsOK, MarkedIsComplete
<1> QED BY <1>1, Invariance, PTL

(* OneInstant: when the manifest takes its name, and nothing edited the    *)
(* journal behind the lock, the inventory is the whole journal             *)
(* (_source_lock, _source_paths).                                          *)
THEOREM OneInstant == MigrationSpec => CopiesOneInstant
<1>1. ASSUME IInv, NEW m \in Operators, Replace(m), run[m].quiet
      PROVE  \A n \in Names : source[n] = IF n \in Slots THEN run[m].inventory[n] ELSE Absent
  <2>1. run[m].at = "replace" /\ InstantOK(m)
    BY <1>1 DEF Replace, IInv, RunsOK, RunOK
  <2>2. source[Files] = Absent /\ \A n \in Slots : run[m].inventory[n] = source[n]
    BY <1>1, <2>1 DEF InstantOK, Holding
  <2>3. \A n \in Names : n \in Slots \/ n = Files
    BY FilesAssumption DEF Names, Slots
  <2> QED BY <2>2, <2>3
<1>2. IInv => [\A m \in Operators :
                Replace(m) /\ run[m].quiet =>
                  \A n \in Names : source[n] = IF n \in Slots THEN run[m].inventory[n] ELSE Absent]_migrationVars
  BY <1>1
<1> QED BY <1>2, Invariance, PTL DEF CopiesOneInstant

-----------------------------------------------------------------------------
(***************************************************************************)
(* The refinement.                                                         *)
(***************************************************************************)
Status == [d \in Dirs |-> Standing(disk[d])]

(* A directory that is marked is whole, so its standing is that of its marks. *)
LEMMA StandingIs ==
  ASSUME IInv, NEW d \in Dirs
  PROVE  /\ Status[d] = IF ~disk[d].made THEN "absent"
                        ELSE IF disk[d].manifest.name = "final" THEN "complete" ELSE "incomplete"
         /\ disk[d].manifest.name = "final" => disk[d].made
BY DEF IInv, SurvivorsOK, Status, Standing

LEMMA StandingNext ==
  ASSUME IInv', NEW d \in Dirs
  PROVE  /\ Status'[d] = IF ~disk'[d].made THEN "absent"
                         ELSE IF disk'[d].manifest.name = "final" THEN "complete" ELSE "incomplete"
         /\ disk'[d].manifest.name = "final" => disk'[d].made
BY DEF IInv, SurvivorsOK, Status, Standing

LEMMA ArchiveStep ==
  ASSUME IInv, IInv', [MigrationNext]_migrationVars
  PROVE  [Archives!Next]_<<Status, reported>>
<1> DEFINE Stutters == UNCHANGED <<Status, reported>>
<1>b. \A m \in Operators : BundleOK(m)
  BY DEF IInv, RunsOK, RunOK
<1>h. \A m \in Operators : run[m].at \in Holding => run[m].dir \in Dirs /\ here(m) \in Bundles
  BY HereTyped DEF IInv
<1>s. ASSUME UNCHANGED <<disk, reported>>
      PROVE  Stutters
  BY <1>s DEF Status, Standing, Whole, Durable
<1>d. ASSUME NEW d \in Dirs, NEW b \in Bundles, disk' = [disk EXCEPT ![d] = b]
      PROVE  disk'[d] = b /\ \A e \in Dirs : e # d => Status'[e] = Status[e]
  BY <1>d DEF IInv, TypeOK, Status, Standing, Whole, Durable
(* Files are written under a directory that is made, and its mark stays as it is. *)
<1>w. ASSUME NEW m \in Operators, run[m].at \in Working, NEW b \in Bundles,
             disk' = [disk EXCEPT ![run[m].dir] = b], b.made = here(m).made,
             here(m).manifest.name # "final", b.manifest.name # "final", UNCHANGED reported
      PROVE  Stutters
  <2>1. run[m].dir \in Dirs
    BY <1>w, <1>h DEF Working, Copying, Holding
  <2>2. disk'[run[m].dir] = b /\ \A e \in Dirs : e # run[m].dir => Status'[e] = Status[e]
    BY <2>1, <1>w, <1>d
  <2>3. Status'[run[m].dir] = Status[run[m].dir]
    BY <2>1, <2>2, <1>w, StandingIs, StandingNext DEF here
  <2>4. \A e \in Dirs : Status'[e] = Status[e]
    BY <2>2, <2>3
  <2>5. Status' = Status
    BY <2>4 DEF Status
  <2> QED BY <2>5, <1>w
<1> HIDE DEF Stutters
<1>1. ASSUME NEW m \in Operators, MakeDirs(m)
      PROVE  Archives!Create(run[m].dir) \/ Stutters
  <2>1. run[m].dir \in Dirs
    BY <1>1, <1>h DEF MakeDirs, Holding
  <2>2. CASE here(m).made
    BY <2>2, <1>1, <1>s DEF MakeDirs, medium
  <2>3. CASE ~here(m).made
    <3>1. disk' = [disk EXCEPT ![run[m].dir] = EmptyBundle] /\ UNCHANGED reported
      BY <1>1, <2>3 DEF MakeDirs, Rename
    <3>2. disk'[run[m].dir] = EmptyBundle /\ \A e \in Dirs : e # run[m].dir => Status'[e] = Status[e]
      BY <2>1, <3>1, <1>d, RecordsTyped
    <3>3. EmptyBundle.made /\ EmptyBundle.manifest.name # "final"
      BY DEF EmptyBundle, NoBundle, NoManifest
    <3>4. Status[run[m].dir] = "absent" /\ Status'[run[m].dir] = "incomplete"
      BY <2>1, <2>3, <3>2, <3>3, StandingIs, StandingNext DEF here
    <3>5. Status' = [Status EXCEPT ![run[m].dir] = "incomplete"]
      BY <3>2, <3>4 DEF Status
    <3> QED BY <3>1, <3>4, <3>5 DEF Archives!Create, Status
  <2> QED BY <2>2, <2>3
<1>2. ASSUME NEW m \in Operators, CopyOpen(m)
      PROVE  Stutters
  <2> DEFINE n == run[m].number
             b == [here(m) EXCEPT !.backup[n] = File(Invalid), !.converted[n] = File(Invalid)]
  <2>1. here(m) \in Bundles /\ here(m).manifest.name = "none" /\ run[m].at \in Working
    BY <1>b, <1>h, <1>2 DEF CopyOpen, BundleOK, Holding, Copying, Working
  <2>2. File(Invalid) \in FileRecords
    BY RecordsTyped DEF Contents
  <2>3. b \in Bundles /\ b.made = here(m).made /\ b.manifest.name = "none"
    BY <2>1, <2>2 DEF Bundles
  <2> QED BY <2>1, <2>3, <1>w, <1>2 DEF CopyOpen, Rename
<1>3. ASSUME NEW m \in Operators, CopyRead(m)
      PROVE  Stutters
  <2> DEFINE n == run[m].number
             b == [here(m) EXCEPT !.backup[n] = File(run[m].seen),
                                  !.converted[n] = File(Converted(run[m].seen))]
  <2>1. CASE Readable(run[m].seen) /\ run[m].intact
    <3>1. here(m) \in Bundles /\ here(m).manifest.name = "none" /\ run[m].at \in Working
      BY <1>b, <1>h, <1>3 DEF CopyRead, BundleOK, Holding, Copying, Working
    <3>2. run[m].seen \in Entries
      BY <2>1, <1>3, HereTyped, ContentsAre DEF CopyRead, Holding, Runs, IInv
    <3>3. File(run[m].seen) \in FileRecords /\ File(Converted(run[m].seen)) \in FileRecords
      BY <3>2, ConvertedIn, RecordsTyped DEF Contents
    <3>4. b \in Bundles /\ b.made = here(m).made /\ b.manifest.name = "none"
      BY <3>1, <3>3 DEF Bundles
    <3> QED BY <3>1, <3>4, <2>1, <1>w, <1>3 DEF CopyRead, Write
  <2>2. CASE ~(Readable(run[m].seen) /\ run[m].intact)
    BY <2>2, <1>3, <1>s DEF CopyRead, medium
  <2> QED BY <2>1, <2>2
<1>4. ASSUME NEW m \in Operators, SyncCopies(m)
      PROVE  Stutters
  <2> DEFINE n == run[m].number
             b == [here(m) EXCEPT !.converted[n].synced = TRUE, !.backup[n].synced = TRUE]
  <2>1. here(m) \in Bundles /\ here(m).manifest.name = "none" /\ run[m].at \in Working
    BY <1>b, <1>h, <1>4 DEF SyncCopies, BundleOK, Holding, Copying, Working
  <2>2. n \in Slots
    BY <1>4, HereTyped DEF SyncCopies, Holding, Runs, IInv
  <2>3. b \in Bundles /\ b.made = here(m).made /\ b.manifest.name = "none"
    BY <2>1, <2>2, SyncedTyped
  <2> QED BY <2>1, <2>3, <1>w, <1>4 DEF SyncCopies, Sync
<1>5. ASSUME NEW m \in Operators, WriteManifest(m)
      PROVE  Stutters
  <2> DEFINE b == [here(m) EXCEPT !.manifest =
                     [name |-> "temporary", data |-> run[m].inventory, synced |-> FALSE]]
  <2>1. /\ here(m) \in Bundles /\ here(m).manifest.name = "none" /\ run[m].at \in Working
        /\ run[m].inventory \in Inventories
    BY <1>b, <1>5, HereTyped DEF WriteManifest, BundleOK, Holding, Runs, Copying, Working, IInv
  <2>2. b \in Bundles /\ b.made = here(m).made /\ b.manifest.name = "temporary"
    BY <2>1 DEF Bundles, Manifests
  <2>3. disk' = [disk EXCEPT ![run[m].dir] = b]
    BY <1>5 DEF WriteManifest, here, IInv, TypeOK
  <2> QED BY <2>1, <2>2, <2>3, <1>w, <1>5 DEF WriteManifest
<1>6. ASSUME NEW m \in Operators, SyncManifest(m)
      PROVE  Stutters
  <2> DEFINE b == [here(m) EXCEPT !.manifest.synced = TRUE]
  <2>1. here(m) \in Bundles /\ here(m).manifest.name = "temporary" /\ run[m].at \in Working
    BY <1>b, <1>h, <1>6 DEF SyncManifest, BundleOK, Holding, Working
  <2>2. b \in Bundles /\ b.made = here(m).made /\ b.manifest.name = "temporary"
    BY <2>1 DEF Bundles, Manifests
  <2> QED BY <2>1, <2>2, <1>w, <1>6 DEF SyncManifest, FsyncManifest, Sync
<1>7. ASSUME NEW m \in Operators, Replace(m)
      PROVE  Archives!Commit(run[m].dir)
  <2> DEFINE b == [here(m) EXCEPT !.manifest.name = "final"]
             d == run[m].dir
  <2>1. here(m) \in Bundles /\ here(m).manifest.name = "temporary" /\ here(m).made /\ d \in Dirs
    BY <1>b, <1>h, <1>7 DEF Replace, BundleOK, Holding, Working
  <2>2. b \in Bundles /\ b.made /\ b.manifest.name = "final"
    BY <2>1 DEF Bundles, Manifests
  <2>3. disk' = [disk EXCEPT ![d] = b] /\ UNCHANGED reported
    BY <1>7 DEF Replace, Rename
  <2> HIDE DEF b
  <2>4. disk'[d] = b /\ \A e \in Dirs : e # d => Status'[e] = Status[e]
    BY <2>1, <2>2, <2>3, <1>d
  <2>5. Status[d] = "incomplete" /\ Status'[d] = "complete"
    BY <2>1, <2>2, <2>4, StandingIs, StandingNext DEF here
  <2>6. Status' = [Status EXCEPT ![d] = "complete"]
    BY <2>4, <2>5 DEF Status
  <2> QED BY <2>3, <2>5, <2>6 DEF Archives!Commit, Status
<1>8. ASSUME NEW m \in Operators, Report(m)
      PROVE  Archives!Acknowledge(run[m].dir)
  <2>1. /\ disk[run[m].dir].manifest.name = "final" /\ run[m].dir \in Dirs
        /\ UNCHANGED disk /\ reported' = reported \cup {run[m].dir}
    BY <1>b, <1>h, <1>8 DEF Report, BundleOK, here, Holding, SyncedName, SyncDirectory
  <2>2. Status[run[m].dir] = "complete"
    BY <2>1, StandingIs
  <2>3. UNCHANGED Status
    BY <2>1 DEF Status, Standing, Whole, Durable
  <2> QED BY <2>1, <2>2, <2>3 DEF Archives!Acknowledge, Status
<1>9. CASE PowerLoss
  <2>1. PICK before \in survivors \cup {disk} : \A d \in Dirs : disk'[d] \in Remains(before[d])
    BY <1>9 DEF PowerLoss
  <2>2. \A d \in Dirs : before[d] \in Bundles
    BY DEF IInv, TypeOK
  <2>3. \A d \in Dirs :
          /\ before[d].manifest.name = "final" => Whole(before[d]) /\ disk[d].manifest.name = "final"
          /\ before[d].made => disk[d].made
          /\ d \in reported => before[d].manifest.name = "final"
    BY DEF IInv, SurvivorsOK
  <2>4. \A d \in Dirs :
          /\ disk'[d].manifest.name = "final" => disk[d].manifest.name = "final"
          /\ disk'[d].made => disk[d].made
          /\ d \in reported => disk'[d].manifest.name = "final" /\ disk[d].manifest.name = "final"
    BY <2>1, <2>2, <2>3, RemainsAre
  <2>5. \A d \in Dirs : Status'[d] \in {"absent", "incomplete", "complete"}
    BY StandingNext
  <2>6. \A d \in Dirs : d \in reported => Status'[d] = Status[d]
    BY <2>4, StandingIs, StandingNext
  <2>7. \A d \in Dirs : Status'[d] \in Archives!Undone(Status[d])
    BY <2>4, StandingIs, StandingNext DEF Archives!Undone
  <2>8. Status' \in [Dirs -> {"absent", "incomplete", "complete"}]
    BY <2>5 DEF Status
  <2>9. UNCHANGED reported
    BY <1>9 DEF PowerLoss
  <2>10. Archives!Lose
    BY <2>6, <2>7, <2>8, <2>9 DEF Archives!Lose, Status
  <2> QED BY <2>10 DEF Archives!Next
<1>10. CASE \E m \in Operators : \/ \E d \in Dirs, apply \in BOOLEAN : Begin(m, d, apply)
                               \/ TakeLock(m) \/ SourcePaths(m) \/ InventoryMissing(m)
                               \/ InventoryOpen(m) \/ InventoryRead(m) \/ Verify(m) \/ Fail(m)
  BY <1>s, <1>10 DEF Begin, TakeLock, SourcePaths, InventoryMissing, InventoryOpen, InventoryRead,
                     Verify, Fail, medium, Stutters
<1>11. CASE AgentLock \/ AgentAppend \/ (\E n \in Names : Edit(n)) \/ UNCHANGED migrationVars
  BY <1>s, <1>11 DEF AgentLock, AgentAppend, Edit, migrationVars, medium, Stutters
<1>12. CASE \E m \in Operators : MakeDirs(m) \/ Replace(m) \/ Report(m)
  <2>1. PICK m \in Operators : MakeDirs(m) \/ Replace(m) \/ Report(m)
    BY <1>12
  <2>2. run[m].dir \in Dirs
    BY <2>1, <1>h DEF MakeDirs, Replace, Report, Holding
  <2> QED BY <2>1, <2>2, <1>1, <1>7, <1>8 DEF Archives!Next, Stutters
<1>13. CASE \E m \in Operators : \/ CopyOpen(m) \/ CopyRead(m) \/ SyncCopies(m)
                               \/ WriteManifest(m) \/ SyncManifest(m)
  BY <1>13, <1>2, <1>3, <1>4, <1>5, <1>6 DEF Stutters
<1> QED BY <1>9, <1>10, <1>11, <1>12, <1>13 DEF MigrationNext, Migrating

(* ArchiveImplemented: a directory is created by one run, becomes complete *)
(* in one step, and one reported complete survives a power loss.           *)
THEOREM ArchiveImplemented == MigrationSpec => ImplementsArchive
<1>1. MigrationInit => Archives!Init
  BY DEF MigrationInit, Archives!Init, Standing, NoBundle
<1>2. IInv /\ IInv' /\ [MigrationNext]_migrationVars
        => [Archives!Next]_<<[d \in Dirs |-> Standing(disk[d])], reported>>
  BY ArchiveStep DEF Status
<1> QED BY <1>1, <1>2, Invariance, PTL DEF MigrationSpec, ImplementsArchive, Archives!Spec
=============================================================================
