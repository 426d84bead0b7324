--------------------------- MODULE AuditMigration ----------------------------
(***************************************************************************)
(* audit-migrate: offline copies of the retained journals, one directory   *)
(* per run, holding a backup, its conversion to schema 2, and a manifest   *)
(* whose rename marks the whole as complete.                               *)
(*                                                                         *)
(* Runs of several operators, the agent that appends under the journal's   *)
(* lock, an administrator who edits files without it, failing calls, kills *)
(* and power losses are interleaved between any two system calls.          *)
(*                                                                         *)
(* Power loss: the filesystem keeps the order of its metadata (creations   *)
(* and renames; any sync makes all earlier ones durable), and nothing of   *)
(* the data of a file that has not been synced.                            *)
(* Sources: audit_migrate.py; cli_audit.py (MonitDockerSubCmdAuditMigrate).*)
(***************************************************************************)
EXTENDS Integers, Sequences

CONSTANTS Operators,   \* processes that run audit-migrate
          Dirs,        \* output directories they name
          Files,       \* files kept, the active one included (--audit-files)
          Journals,    \* what the retained files may hold at the beginning
          Absent,      \* no file
          Invalid,     \* a file that prepare_record or a size limit refuses
          Agent,       \* the process that appends to the journal
          Nobody,      \* no holder of the lock
          MaxEvents,   \* bound: events the agent appends
          MaxEdits,    \* bound: files edited without the lock
          Faults       \* which of "io", "power" occur

Slots == 0 .. Files - 1

(* The name .Files is beyond the retention: an archive of an older setting. *)
Names == 0 .. Files

ASSUME FilesAssumption == Files \in Nat \ {0}
ASSUME NamesAssumption == Agent \notin Operators /\ Nobody \notin Operators \cup {Agent}
ASSUME JournalsAssumption == Journals \subseteq [Names -> Seq([id : Int, schema : {1, 2}])
                                                          \cup {Absent, Invalid}]
ASSUME ContentsAssumption ==
  Absent # Invalid /\ {Absent, Invalid} \cap Seq([id : Int, schema : {1, 2}]) = {}

VARIABLES source,     \* source[n]: the journal's file .n (the active one when n = 0)
          lock,       \* who holds the journal's lock file
          run,        \* run[m]: where operator m's run is
          disk,       \* disk[d]: the output directory d
          survivors,  \* what a power loss may leave of disk, unsynced data aside
          reported,   \* directories reported complete, on standard output
          events, edits  \* counters for the bounds

migrationVars == <<source, lock, run, disk, survivors, reported, events, edits>>

Readable(content) == content \notin {Absent, Invalid}

(* prepare_record: the event keeps its identity and is of schema 2. *)
Converted(content) == [k \in DOMAIN content |-> [content[k] EXCEPT !.schema = 2]]

NoFile == [data |-> Absent, synced |-> TRUE]
File(data) == [data |-> data, synced |-> FALSE]
NoManifest == [name |-> "none", data |-> Absent, synced |-> TRUE]
NoBundle == [made |-> FALSE, backup |-> [n \in Slots |-> NoFile],
             converted |-> [n \in Slots |-> NoFile], manifest |-> NoManifest]
EmptyBundle == [NoBundle EXCEPT !.made = TRUE]

(* inventory: what each file held when it was validated; number: the file  *)
(* at hand; seen: what is being read of it; intact: its size and times are *)
(* those of the open; quiet (history): no edit since the lock was taken.   *)
NoRun == [at |-> "idle", dir |-> Absent, apply |-> FALSE, number |-> 0,
         inventory |-> [n \in Slots |-> Absent], seen |-> Absent, intact |-> TRUE, quiet |-> TRUE]

Holding == {"paths", "open", "inspect", "mkdir", "copy", "copying", "sync copies", "verify",
            "manifest", "sync manifest", "replace", "sync name"}

MigrationInit ==
  /\ source \in Journals
  /\ lock = Nobody
  /\ run = [m \in Operators |-> NoRun]
  /\ disk = [d \in Dirs |-> NoBundle]
  /\ survivors = {disk}
  /\ reported = {}
  /\ events = 0 /\ edits = 0

-----------------------------------------------------------------------------
bounds == <<events, edits>>
medium == <<disk, survivors>>
here(m) == disk[run[m].dir]

Goto(m, step) == run' = [run EXCEPT ![m].at = step]

(* Leaving the `with' block, by a return or by an exception. *)
End(m) == run' = [run EXCEPT ![m] = NoRun] /\ lock' = Nobody

(* A change of names, of data, a sync of a file and one of a directory. *)
Rename(m, b) == /\ disk' = [disk EXCEPT ![run[m].dir] = b]
                /\ survivors' = survivors \cup {disk'}
Write(m, b) == disk' = [disk EXCEPT ![run[m].dir] = b] /\ UNCHANGED survivors
Sync(m, b) == disk' = [disk EXCEPT ![run[m].dir] = b] /\ survivors' = {disk'}
SyncDirectory == UNCHANGED disk /\ survivors' = {disk}

(* The destination must not exist when the command starts. *)
Begin(m, d, apply) ==
  /\ run[m].at = "idle"
  /\ ~disk[d].made
  /\ run' = [run EXCEPT ![m].at = "lock", ![m].dir = d, ![m].apply = apply]
  /\ UNCHANGED <<source, lock, medium, reported, bounds>>

(* Mutant: the lock is not taken. *)
AnyLock(m) == TRUE
LockFree(m) == lock = Nobody

(* _source_lock: flock(LOCK_EX | LOCK_NB). *)
TakeLock(m) ==
  /\ run[m].at = "lock"
  /\ IF LockFree(m) THEN lock' = m /\ Goto(m, "paths")
                    ELSE UNCHANGED lock /\ run' = [run EXCEPT ![m] = NoRun]
  /\ UNCHANGED <<source, medium, reported, bounds>>

(* _source_paths: an archive beyond the retention would be left out. *)
SourcePaths(m) ==
  /\ run[m].at = "paths"
  /\ IF source[Files] # Absent
     THEN End(m)
     ELSE UNCHANGED lock /\ run' = [run EXCEPT ![m].at = "open", ![m].number = Files - 1]
  /\ UNCHANGED <<source, medium, reported, bounds>>

(* _inspect, up to its first read: what is seen of the file from here on.  *)
Opened(m, step) == run' = [run EXCEPT ![m].at = step, ![m].intact = TRUE,
                                      ![m].seen = source[run[m].number]]

(* After the last file: nothing found is an error, a dry run ends here. *)
NextInventory(m, found) ==
  IF run[m].number > 0
  THEN /\ run' = [run EXCEPT ![m].at = "open", ![m].inventory = found, ![m].number = @ - 1,
                           ![m].seen = Absent]
       /\ UNCHANGED lock
  ELSE IF run[m].apply /\ \E n \in Slots : found[n] # Absent
  THEN /\ run' = [run EXCEPT ![m].at = "mkdir", ![m].inventory = found, ![m].seen = Absent]
       /\ UNCHANGED lock
  ELSE End(m)

(* FileNotFoundError: continue. *)
InventoryMissing(m) ==
  /\ run[m].at = "open" /\ source[run[m].number] = Absent
  /\ NextInventory(m, run[m].inventory)
  /\ UNCHANGED <<source, medium, reported, bounds>>
InventoryOpen(m) ==
  /\ run[m].at = "open" /\ source[run[m].number] # Absent
  /\ Opened(m, "inspect")
  /\ UNCHANGED <<source, lock, medium, reported, bounds>>
InventoryRead(m) ==
  /\ run[m].at = "inspect"
  /\ IF Readable(run[m].seen) /\ run[m].intact
     THEN NextInventory(m, [run[m].inventory EXCEPT ![run[m].number] = run[m].seen])
     ELSE End(m)
  /\ UNCHANGED <<source, medium, reported, bounds>>

Retained(m) == {n \in Slots : run[m].inventory[n] # Absent}
Highest(S) == CHOOSE n \in S : \A k \in S : k <= n

(* The directory and the two in it; a name that exists is refused. *)
MakeDirs(m) ==
  /\ run[m].at = "mkdir"
  /\ IF ~here(m).made
     THEN /\ Rename(m, EmptyBundle)
          /\ run' = [run EXCEPT ![m].at = "copy", ![m].number = Highest(Retained(m))]
          /\ UNCHANGED lock
     ELSE End(m) /\ UNCHANGED medium
  /\ UNCHANGED <<source, reported, bounds>>

(* _new_file twice, then _inspect of the source, which writes both. *)
CopyOpen(m) ==
  /\ run[m].at = "copy"
  /\ LET n == run[m].number IN
     Rename(m, [here(m) EXCEPT !.backup[n] = File(Invalid), !.converted[n] = File(Invalid)])
  /\ Opened(m, "copying")
  /\ UNCHANGED <<source, lock, reported, bounds>>
CopyRead(m) ==
  /\ run[m].at = "copying"
  /\ LET n == run[m].number IN
     IF Readable(run[m].seen) /\ run[m].intact
     THEN /\ Write(m, [here(m) EXCEPT !.backup[n] = File(run[m].seen),
                                      !.converted[n] = File(Converted(run[m].seen))])
          /\ Goto(m, "sync copies") /\ UNCHANGED lock
     ELSE End(m) /\ UNCHANGED medium
  /\ UNCHANGED <<source, reported, bounds>>
(* Both files are synced as they are closed. *)
SyncCopies(m) ==
  /\ run[m].at = "sync copies"
  /\ LET n == run[m].number IN
     Sync(m, [here(m) EXCEPT !.converted[n].synced = TRUE, !.backup[n].synced = TRUE])
  /\ Goto(m, "verify")
  /\ UNCHANGED <<source, lock, reported, bounds>>

Verified(m) ==
  LET n == run[m].number
      expected == run[m].inventory[n]
  IN /\ run[m].seen = expected
     /\ here(m).backup[n].data = expected
     /\ here(m).converted[n].data = Converted(expected)

Verify(m) ==
  /\ run[m].at = "verify"
  /\ LET rest == {n \in Retained(m) : n < run[m].number} IN
     IF ~Verified(m) THEN End(m)
     ELSE /\ UNCHANGED lock
          /\ run' = [run EXCEPT ![m].at = IF rest = {} THEN "manifest" ELSE "copy",
                                ![m].number = IF rest = {} THEN @ ELSE Highest(rest),
                                ![m].seen = Absent]
  /\ UNCHANGED <<source, medium, reported, bounds>>

(* The two directories are synced, then manifest.json.tmp is created. *)
WriteManifest(m) ==
  /\ run[m].at = "manifest"
  /\ disk' = [disk EXCEPT ![run[m].dir].manifest =
                [name |-> "temporary", data |-> run[m].inventory, synced |-> FALSE]]
  /\ survivors' = {disk, disk'}
  /\ Goto(m, "sync manifest")
  /\ UNCHANGED <<source, lock, reported, bounds>>

(* Mutant: flushed to the kernel and no further. *)
FlushManifest(m) == Write(m, here(m))
FsyncManifest(m) == Sync(m, [here(m) EXCEPT !.manifest.synced = TRUE])
SyncManifest(m) ==
  /\ run[m].at = "sync manifest"
  /\ FsyncManifest(m) /\ Goto(m, "replace")
  /\ UNCHANGED <<source, lock, reported, bounds>>
Replace(m) ==
  /\ run[m].at = "replace"
  /\ Rename(m, [here(m) EXCEPT !.manifest.name = "final"])
  /\ Goto(m, "sync name")
  /\ UNCHANGED <<source, lock, reported, bounds>>

(* Mutant: the rename is left to the kernel. *)
Unsynced == UNCHANGED medium
SyncedName == SyncDirectory

(* The destination and its parent are synced; the report is printed. *)
Report(m) ==
  /\ run[m].at = "sync name"
  /\ SyncedName /\ End(m)
  /\ reported' = reported \cup {run[m].dir}
  /\ UNCHANGED <<source, bounds>>

(* OSError in any call, or a kill: the lock is released with its file.     *)
Fail(m) ==
  /\ "io" \in Faults
  /\ run[m].at \in Holding
  /\ End(m)
  /\ UNCHANGED <<source, medium, reported, bounds>>

-----------------------------------------------------------------------------
(* AuditJournal.append, under the lock (see AuditJournal), with or without *)
(* a rotation; a journal whose last event is incomplete is refused.        *)
AgentLock ==
  /\ lock = Nobody /\ events < MaxEvents
  /\ lock' = Agent /\ events' = events + 1
  /\ UNCHANGED <<source, run, medium, reported, edits>>
Event == [id |-> events, schema |-> 2]
AgentAppend ==
  /\ lock = Agent
  /\ \/ /\ source[0] # Invalid
        /\ source' = [source EXCEPT ![0] = IF @ = Absent THEN <<Event>> ELSE Append(@, Event)]
     \/ /\ source[0] \notin {Absent, Invalid, <<>>}
        /\ source' = [n \in Names |-> IF n = 0 THEN <<Event>>
                                      ELSE IF n < Files THEN source[n - 1] ELSE source[n]]
     \/ source[0] = Invalid /\ UNCHANGED source
  /\ lock' = Nobody
  /\ UNCHANGED <<run, medium, reported, bounds>>

(* A file edited, emptied or removed by something that ignores the lock.   *)
Edit(n) ==
  /\ edits < MaxEdits /\ edits' = edits + 1
  /\ \E content \in {Absent, Invalid, <<>>} \ {source[n]} :
       source' = [source EXCEPT ![n] = content]
  /\ run' = [m \in Operators |->
       [run[m] EXCEPT !.quiet = @ /\ run[m].at \notin Holding,
                      !.intact = @ /\ run[m].number # n]]
  /\ UNCHANGED <<lock, medium, reported, events>>

Lost(f) == {f.data} \cup IF f.synced THEN {} ELSE {Invalid}
LostOf(files) ==
  {f \in [Slots -> UNION {Lost(files[n]) : n \in Slots}] : \A n \in Slots : f[n] \in Lost(files[n])}
Kept(f, data) == [f EXCEPT !.data = data, !.synced = TRUE]
KeptOf(files, data) == [n \in Slots |-> Kept(files[n], data[n])]

(* The bundles that a power loss may leave of bundle b. *)
Remains(b) ==
  {[b EXCEPT !.backup = KeptOf(b.backup, left[1]), !.converted = KeptOf(b.converted, left[2]),
             !.manifest = Kept(b.manifest, left[3])] :
     left \in LostOf(b.backup) \X LostOf(b.converted) \X Lost(b.manifest)}

PowerLoss ==
  /\ "power" \in Faults
  /\ \E before \in survivors \cup {disk} :
     \E left \in [Dirs -> UNION {Remains(before[d]) : d \in Dirs}] :
       /\ \A d \in Dirs : left[d] \in Remains(before[d])
       /\ disk' = left
  /\ survivors' = {disk'}
  /\ lock' = Nobody
  /\ run' = [m \in Operators |-> NoRun]
  /\ UNCHANGED <<source, reported, bounds>>

Migrating(m) ==
  \/ TakeLock(m) \/ SourcePaths(m)
  \/ InventoryMissing(m) \/ InventoryOpen(m) \/ InventoryRead(m)
  \/ MakeDirs(m) \/ CopyOpen(m) \/ CopyRead(m) \/ SyncCopies(m) \/ Verify(m)
  \/ WriteManifest(m) \/ SyncManifest(m) \/ Replace(m) \/ Report(m)

MigrationNext ==
  \/ \E m \in Operators : \/ \E d \in Dirs, apply \in BOOLEAN : Begin(m, d, apply)
                          \/ Migrating(m)
                          \/ Fail(m)
  \/ AgentLock \/ AgentAppend
  \/ \E n \in Names : Edit(n)
  \/ PowerLoss

MigrationSpec == MigrationInit /\ [][MigrationNext]_migrationVars

-----------------------------------------------------------------------------
(***************************************************************************)
(* MarkedIsComplete: wherever a run fails, is killed or loses power, a     *)
(* directory with a manifest holds, durably, the backup of every file of   *)
(* that manifest's inventory and its conversion, and no other file         *)
(* (migrate_journal: "A complete manifest is the commit marker").          *)
(***************************************************************************)
Durable(f, data) == f.data = data /\ f.synced
Whole(b) ==
  /\ b.manifest.synced /\ b.manifest.data \in [Slots -> Seq([id : Int, schema : {1, 2}]) \cup {Absent}]
  /\ \A n \in Slots :
       LET content == b.manifest.data[n] IN
       IF content = Absent THEN b.backup[n] = NoFile /\ b.converted[n] = NoFile
       ELSE Durable(b.backup[n], content) /\ Durable(b.converted[n], Converted(content))
MarkedIsComplete == \A d \in Dirs : disk[d].manifest.name = "final" => Whole(disk[d])

(***************************************************************************)
(* CopiesOneInstant: when the manifest takes its name, and nothing edited  *)
(* the journal behind the lock, the inventory is the whole journal as it   *)
(* then is: no event was appended or rotated between two of its files.     *)
(***************************************************************************)
CopiesOneInstant ==
  [][\A m \in Operators :
       Replace(m) /\ run[m].quiet =>
         \A n \in Names : source[n] = IF n \in Slots THEN run[m].inventory[n] ELSE Absent]_migrationVars

(***************************************************************************)
(* ImplementsArchive: no directory is used by two runs, a complete one is  *)
(* not written again, and one reported complete survives a power loss.     *)
(***************************************************************************)
Standing(b) == IF ~b.made THEN "absent"
             ELSE IF b.manifest.name = "final" /\ Whole(b) THEN "complete" ELSE "incomplete"
Archives == INSTANCE Archive WITH status <- [d \in Dirs |-> Standing(disk[d])],
                                  acknowledged <- reported
ImplementsArchive == Archives!Spec
=============================================================================
