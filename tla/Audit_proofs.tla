---------------------------- MODULE Audit_proofs -----------------------------
(***************************************************************************)
(* Proofs about AuditJournal and AuditReaders, for any writers, readers,   *)
(* files, sizes and events, and whatever faults occur.                     *)
(***************************************************************************)
EXTENDS AuditReaders, SequenceTheorems, WellFoundedInduction, FiniteSetTheorems, TLAPS

(***************************************************************************)
(* The journal.  What makes the retained events the end of the log is said *)
(* file by file: file n holds the events of the log from s[n + 1] + 1 to   *)
(* s[n], so that file n + 1 ends where file n begins; a rotation that is   *)
(* interrupted leaves an empty interval behind.                            *)
(***************************************************************************)
Holding == {"tail", "rotate", "create", "write", "sync"}
Places == {"idle", "wait", "done", "raised", "send"} \cup Holding
WriterRecords ==
  [at : Places, job : {"none", "start", "finish", "receive"}, event : 0 .. NumEvents, left : Nat,
   number : Nat, rest : Nat, batch : SUBSET Events]
FileRecords == [recs : Seq(Events), size : Nat, torn : BOOLEAN]

TypeOK ==
  /\ dir \in [Slots -> Inodes \cup {None}]
  /\ content \in [Inodes -> FileRecords]
  /\ writer \in [Writers -> WriterRecords]
  /\ made \in 0 .. NumEvents
  /\ log \in Seq(Events)

FilesOK ==
  \A n \in Slots : dir[n] # None =>
    /\ content[dir[n]].size <= MaxBytes
    /\ n > 0 => ~content[dir[n]].torn
    /\ \A m \in Slots : dir[m] = dir[n] => m = n

Recs(n) == IF dir[n] = None THEN <<>> ELSE content[dir[n]].recs
Holds(s, n) ==
  /\ s[n + 1] <= s[n] /\ s[n] <= Len(log) /\ Len(Recs(n)) = s[n] - s[n + 1]
  /\ \A k \in 1 .. Len(Recs(n)) : Recs(n)[k] = log[s[n + 1] + k]
Chain(s) == s[0] = Len(log) /\ \A n \in Slots : Holds(s, n)
Chained == \E s \in [0 .. Files -> Nat] : Chain(s)

(* What the holder of the lock has found and left behind.                  *)
PlaceOK(w) ==
  /\ writer[w].at \in Holding => lock = {w}
  /\ writer[w].at = "rotate" =>
       /\ writer[w].number \in Slots /\ ~Incomplete
       /\ writer[w].number = 0 => Files = 1
       /\ writer[w].number < Files - 1 => dir[writer[w].number] = None
  /\ writer[w].at = "create" =>
       ~Incomplete /\ (Active # None => Size + Length[writer[w].event] <= MaxBytes)
  /\ writer[w].at = "write" =>
       Active # None /\ writer[w].left > 0 /\ Size + writer[w].left <= MaxBytes

(* What a writer believes to be written is.                                *)
KnownOK(w) ==
  /\ writer[w].at # "idle" => writer[w].event \in Events
  /\ writer[w].batch \subseteq Logged
  /\ writer[w].at \in {"sync", "done"} => writer[w].event \in Logged

WriterOK(w) == PlaceOK(w) /\ KnownOK(w)

JInv == TypeOK /\ FilesOK /\ Chained /\ (\A w \in Writers : WriterOK(w)) /\ PromisesJournaled

-----------------------------------------------------------------------------
(* A step of one writer disturbs the others neither in what they have      *)
(* found, as it holds the lock if it changes the files, nor in what they   *)
(* know, as the log only grows.                                            *)
LEMMA OneWriter ==
  ASSUME JInv, NEW w \in Writers,
         TypeOK', FilesOK', Chained', PromisesJournaled', WriterOK(w)',
         \A v \in Writers \ {w} : writer'[v] = writer[v],
         Logged \subseteq Logged',
         UNCHANGED journal \/ lock = {w},
         lock' = lock \ {w} \/ lock' = lock \/ (lock = {} /\ lock' = {w})
  PROVE  JInv'
<1>1. ASSUME NEW v \in Writers \ {w} PROVE WriterOK(v)'
  <2>1. writer'[v] = writer[v] /\ WriterOK(v)
    BY DEF JInv
  <2>2. KnownOK(v)'
    BY <2>1 DEF WriterOK, KnownOK
  <2>3. CASE writer[v].at \in Holding
    <3>1. lock = {v} /\ lock' = {v} /\ UNCHANGED journal
      BY <2>1, <2>3 DEF WriterOK, PlaceOK
    <3>2. PlaceOK(v)'
      BY <2>1, <3>1 DEF WriterOK, PlaceOK, journal, Incomplete, Size, Active
    <3> QED BY <2>2, <3>2 DEF WriterOK
  <2>4. CASE writer[v].at \notin Holding
    <3>1. PlaceOK(v)'
      BY <2>1, <2>4 DEF PlaceOK, Holding
    <3> QED BY <2>2, <3>1 DEF WriterOK
  <2> QED BY <2>3, <2>4
<1> QED BY <1>1 DEF JInv

(* A step that touches neither the files nor the log.                      *)
LEMMA QuietWriter ==
  ASSUME JInv, NEW w \in Writers, UNCHANGED <<journal, log>>,
         made' \in 0 .. NumEvents, PromisesJournaled',
         NEW r \in WriterRecords, writer' = [writer EXCEPT ![w] = r], WriterOK(w)',
         lock' = lock \ {w} \/ lock' = lock \/ (lock = {} /\ lock' = {w})
  PROVE  JInv'
<1>1. TypeOK'
  BY DEF JInv, TypeOK, journal
<1>2. FilesOK'
  BY DEF JInv, FilesOK, journal
<1>3. Chained'
  BY DEF JInv, Chained, Chain, Holds, Recs, journal
<1>4. \A v \in Writers \ {w} : writer'[v] = writer[v]
  BY DEF JInv, TypeOK
<1>5. Logged \subseteq Logged'
  BY DEF Logged
<1> QED BY <1>1, <1>2, <1>3, <1>4, <1>5, OneWriter

LEMMA InitJInv == Init => JInv
<1> SUFFICES ASSUME Init PROVE JInv
  OBVIOUS
<1>0. Files \in Nat \ {0} /\ NumEvents \in Nat
  BY FilesAssumption, SizesAssumption
<1>1. TypeOK
  <2>1. Empty \in FileRecords
    BY DEF Empty, FileRecords
  <2>2. Idle \in WriterRecords
    BY <1>0 DEF Idle, WriterRecords, Places, Holding
  <2>3. log \in Seq(Events)
    BY DEF Init
  <2> QED BY <1>0, <2>1, <2>2, <2>3 DEF Init, TypeOK
<1>2. FilesOK
  BY DEF Init, FilesOK
<1>3. Chained
  <2> DEFINE s == [n \in 0 .. Files |-> 0]
  <2>1. \A n \in Slots : n \in 0 .. Files /\ n + 1 \in 0 .. Files
    BY <1>0 DEF Slots
  <2>2. \A n \in Slots : Recs(n) = <<>>
    BY DEF Init, Recs
  <2>3. \A n \in Slots : Holds(s, n)
    BY <2>1, <2>2 DEF Holds
  <2>4. s[0] = Len(log)
    BY <1>0 DEF Init
  <2>5. s \in [0 .. Files -> Nat]
    OBVIOUS
  <2> HIDE DEF s
  <2> QED BY <2>3, <2>4, <2>5 DEF Chained, Chain
<1>4. \A w \in Writers : WriterOK(w)
  BY DEF Init, Idle, WriterOK, PlaceOK, KnownOK, Holding
<1>5. PromisesJournaled
  BY DEF Init, PromisesJournaled
<1> QED BY <1>1, <1>2, <1>3, <1>4, <1>5 DEF JInv

-----------------------------------------------------------------------------
(* A writer that only moves to another place. *)
LEMMA MoveOK ==
  ASSUME JInv, NEW w \in Writers, UNCHANGED <<journal, log, made, started, answered>>,
         NEW step \in Places, Goto(w, step),
         lock' = lock \ {w} \/ lock' = lock \/ (lock = {} /\ lock' = {w}),
         writer[w].at # "idle",
         step \in {"tail", "raised", "done", "send"},
         step = "tail" => lock' = {w},
         step = "done" => writer[w].at = "sync"
  PROVE  JInv'
<1> DEFINE r == [writer[w] EXCEPT !.at = step]
<1>1. writer[w] \in WriterRecords /\ WriterOK(w) /\ writer \in [Writers -> WriterRecords]
  BY DEF JInv, TypeOK
<1>2. /\ r \in WriterRecords /\ writer' = [writer EXCEPT ![w] = r]
      /\ r.at = step /\ r.event = writer[w].event /\ r.batch = writer[w].batch
  BY <1>1 DEF WriterRecords, Goto
<1> HIDE DEF r
<1>3. writer'[w] = r
  BY <1>1, <1>2
<1>4. KnownOK(w)'
  BY <1>1, <1>2, <1>3 DEF WriterOK, KnownOK, Logged
<1>5. PlaceOK(w)'
  BY <1>2, <1>3 DEF PlaceOK, Holding
<1>6. made' \in 0 .. NumEvents /\ PromisesJournaled'
  BY DEF JInv, TypeOK, PromisesJournaled, Logged
<1> QED BY <1>2, <1>4, <1>5, <1>6, QuietWriter DEF WriterOK

LEMMA MoveSteps ==
  ASSUME JInv, NEW w \in Writers, Acquire(w) \/ RefuseTail(w) \/ Sync(w) \/ Fail(w)
  PROVE  JInv'
<1> USE DEF Places, Holding
<1>1. CASE Acquire(w)
  BY <1>1, MoveOK DEF Acquire, history
<1>2. CASE RefuseTail(w)
  BY <1>2, MoveOK DEF RefuseTail, Released, history
<1>3. CASE Sync(w)
  BY <1>3, MoveOK DEF Sync, Released, history
<1>4. CASE Fail(w)
  BY <1>4, MoveOK DEF Fail, Released, Appending, history
<1> QED BY <1>1, <1>2, <1>3, <1>4

(* A writer that begins anew, with an event or without. *)
LEMMA AnewOK ==
  ASSUME JInv, NEW w \in Writers, UNCHANGED <<journal, log>>,
         made' \in 0 .. NumEvents, PromisesJournaled',
         lock' = lock \ {w} \/ lock' = lock,
         NEW r \in WriterRecords, writer' = [writer EXCEPT ![w] = r],
         r.at \in {"idle", "wait"}, r.at = "wait" => r.event \in Events,
         r.batch \subseteq Logged
  PROVE  JInv'
<1>1. writer'[w] = r
  BY DEF JInv, TypeOK
<1>2. WriterOK(w)'
  BY <1>1 DEF WriterOK, PlaceOK, KnownOK, Holding, Logged
<1> QED BY <1>2, QuietWriter

LEMMA IdleIs == Idle \in WriterRecords /\ Idle.at = "idle" /\ Idle.batch = {}
BY SizesAssumption DEF Idle, WriterRecords, Places, Holding

LEMMA RestSteps ==
  ASSUME JInv, NEW w \in Writers, Crash(w) \/ Return(w) \/ Received(w)
  PROVE  JInv'
<1>0. made \in 0 .. NumEvents /\ WriterOK(w)
  BY DEF JInv, TypeOK
<1>1. CASE Crash(w) \/ Return(w)
  <2>1. /\ writer' = [writer EXCEPT ![w] = Idle] /\ UNCHANGED <<journal, made, history>>
        /\ lock' = lock \ {w} \/ lock' = lock
    BY <1>1 DEF Crash, Return, Released
  <2>2. PromisesJournaled'
    BY <2>1 DEF JInv, history, PromisesJournaled, Logged
  <2> QED BY <1>0, <2>1, <2>2, IdleIs, AnewOK DEF history
<1>2. CASE Received(w)
  <2>1. /\ writer' = [writer EXCEPT ![w] = Idle] /\ UNCHANGED <<journal, made, log, started, lock>>
        /\ answered' = answered \cup writer[w].batch \cup {writer[w].event}
        /\ writer[w].at = "done"
    BY <1>2 DEF Received, Persisted
  <2>2. PromisesJournaled'
    BY <1>0, <2>1 DEF JInv, PromisesJournaled, Logged, WriterOK, KnownOK
  <2> QED BY <1>0, <2>1, <2>2, IdleIs, AnewOK
<1> QED BY <1>1, <1>2

(* An event is made. *)
LEMMA RecordOK ==
  ASSUME JInv, NEW w \in Writers, NEW job \in {"start", "finish", "receive"}, NEW rest \in Nat,
         NEW batch \in SUBSET Events, batch \subseteq Logged, Record(w, job, rest, batch)
  PROVE  JInv'
<1> DEFINE r == [Idle EXCEPT !.at = "wait", !.job = job, !.event = made + 1,
                             !.rest = rest, !.batch = batch]
<1>1. /\ made < NumEvents /\ made' = made + 1 /\ UNCHANGED <<journal, lock, history>>
      /\ writer' = [writer EXCEPT ![w] = r]
  BY DEF Record
<1>2. made \in 0 .. NumEvents /\ NumEvents \in Nat
  BY SizesAssumption DEF JInv, TypeOK
<1>3. made + 1 \in Events /\ made' \in 0 .. NumEvents /\ made + 1 \in 0 .. NumEvents
  BY <1>1, <1>2 DEF Events
<1>4. r \in WriterRecords /\ r.at = "wait" /\ r.event = made + 1 /\ r.batch = batch
  BY <1>3 DEF Idle, WriterRecords, Places, Holding
<1> HIDE DEF r
<1>5. PromisesJournaled'
  BY <1>1 DEF JInv, history, PromisesJournaled, Logged
<1> QED BY <1>1, <1>3, <1>4, <1>5, AnewOK DEF history

LEMMA CallerSteps ==
  ASSUME JInv, NEW w \in Writers, CallerStep(w)
  PROVE  JInv'
<1>0. /\ WriterOK(w) /\ writer[w] \in WriterRecords
  BY DEF JInv, TypeOK
<1>1. CASE Deliver(w) \/ Finish(w)
  BY <1>1, RecordOK DEF Deliver, Finish
<1>2. CASE \E alerts \in 1 .. MaxBatch : Receive(w, alerts)
  <2>1. PICK alerts \in 1 .. MaxBatch : Receive(w, alerts)
    BY <1>2
  <2>2. alerts - 1 \in Nat
    BY SizesAssumption
  <2> QED BY <2>1, <2>2, RecordOK DEF Receive
<1>3. CASE ReceiveNext(w)
  <2> DEFINE batch == writer[w].batch \cup {writer[w].event}
  <2>1. writer[w].at = "done" /\ writer[w].rest > 0 /\ Record(w, "receive", writer[w].rest - 1, batch)
    BY <1>3 DEF ReceiveNext, Persisted, MoreAlerts
  <2>2. writer[w].rest - 1 \in Nat
    BY <1>0, <2>1 DEF WriterRecords
  <2>3. batch \subseteq Logged /\ batch \in SUBSET Events
    BY <1>0, <2>1 DEF WriterOK, KnownOK, WriterRecords
  <2> HIDE DEF batch
  <2> QED BY <2>1, <2>2, <2>3, RecordOK
<1>4. CASE Received(w) \/ Return(w)
  BY <1>4, RestSteps
<1>5. CASE Send(w)
  <2>1. writer[w].at = "done" /\ started' = started \cup {writer[w].event}
        /\ UNCHANGED <<journal, lock, made, log, answered>> /\ Goto(w, "send")
    BY <1>5 DEF Send, Persisted
  <2> DEFINE r == [writer[w] EXCEPT !.at = "send"]
  <2>2. /\ r \in WriterRecords /\ writer' = [writer EXCEPT ![w] = r]
        /\ r.at = "send" /\ r.event = writer[w].event /\ r.batch = writer[w].batch
    BY <1>0, <2>1 DEF WriterRecords, Goto, Places, JInv, TypeOK
  <2> HIDE DEF r
  <2>3. writer'[w] = r
    BY <2>2 DEF JInv, TypeOK
  <2>4. WriterOK(w)'
    BY <1>0, <2>1, <2>2, <2>3 DEF WriterOK, PlaceOK, KnownOK, Holding, Logged
  <2>5. PromisesJournaled' /\ made' \in 0 .. NumEvents
    BY <1>0, <2>1 DEF JInv, TypeOK, PromisesJournaled, Logged, WriterOK, KnownOK
  <2> QED BY <2>1, <2>2, <2>4, <2>5, QuietWriter
<1> QED BY <1>1, <1>2, <1>3, <1>4, <1>5 DEF CallerStep

-----------------------------------------------------------------------------
(***************************************************************************)
(* Opening the active file, which may create it, on an inode that no name  *)
(* of the journal has.                                                     *)
(***************************************************************************)
JournalTyped ==
  dir \in [Slots -> Inodes \cup {None}] /\ content \in [Inodes -> FileRecords]

LEMMA ZeroSlot == 0 \in Slots /\ Files \in Nat \ {0} /\ Slots \subseteq Nat
BY FilesAssumption DEF Slots

LEMMA OpenedOK ==
  ASSUME JInv, Opened, UNCHANGED log
  PROVE  /\ JournalTyped' /\ FilesOK' /\ Chained' /\ dir'[0] # None
         /\ content'[dir'[0]] = IF Active = None THEN Empty ELSE content[Active]
<1>0. JournalTyped /\ FilesOK /\ Chained
  BY DEF JInv, TypeOK, JournalTyped
<1>1. CASE Active # None /\ UNCHANGED journal
  <2>1. JournalTyped' /\ FilesOK'
    BY <1>0, <1>1 DEF JournalTyped, FilesOK, journal
  <2>2. Chained'
    BY <1>0, <1>1 DEF Chained, Chain, Holds, Recs, journal
  <2> QED BY <1>1, <2>1, <2>2 DEF journal, Active
<1>2. CASE \E i \in Free : /\ Active = None
                           /\ dir' = [dir EXCEPT ![0] = i]
                           /\ content' = [content EXCEPT ![i] = Empty]
  <2>1. PICK i \in Free : /\ Active = None
                          /\ dir' = [dir EXCEPT ![0] = i]
                          /\ content' = [content EXCEPT ![i] = Empty]
    BY <1>2
  <2>2. i \in Inodes /\ i # None /\ (\A n \in Slots : dir[n] # i)
    BY <2>1, NamesAssumption DEF Free, Linked
  <2>3. Empty \in FileRecords /\ Empty.recs = <<>> /\ Empty.size = 0 /\ ~Empty.torn
    BY DEF Empty, FileRecords
  <2>4. JournalTyped'
    BY <1>0, <2>1, <2>2, <2>3 DEF JournalTyped
  <2>5. /\ dir'[0] = i /\ dir[0] = None /\ content'[i] = Empty
        /\ \A n \in Slots \ {0} : dir'[n] = dir[n]
        /\ \A n \in Slots : dir[n] # None => content'[dir[n]] = content[dir[n]]
    BY <1>0, <2>1, <2>2, ZeroSlot DEF JournalTyped, Active
  <2>6. FilesOK'
    BY <1>0, <2>2, <2>3, <2>5, ZeroSlot, SizesAssumption DEF FilesOK
  <2>7. \A n \in Slots : Recs(n)' = Recs(n)
    BY <2>2, <2>3, <2>5 DEF Recs
  <2>8. Chained'
    BY <1>0, <2>7, ZenonT(30) DEF Chained, Chain, Holds
  <2> QED BY <2>1, <2>2, <2>4, <2>5, <2>6, <2>8 DEF Active
<1> QED BY <1>1, <1>2 DEF Opened

(* A writer that goes on after it has opened the file.                     *)
LEMMA OpenedStep ==
  ASSUME JInv, NEW w \in Writers, Opened, UNCHANGED <<log, lock, made, started, answered>>,
         lock = {w},
         NEW r \in WriterRecords, writer' = [writer EXCEPT ![w] = r], WriterOK(w)'
  PROVE  JInv'
<1>1. JournalTyped' /\ FilesOK' /\ Chained'
  BY OpenedOK
<1>2. TypeOK'
  BY <1>1 DEF JInv, TypeOK, JournalTyped
<1>3. PromisesJournaled' /\ Logged \subseteq Logged'
  BY DEF JInv, PromisesJournaled, Logged
<1>4. \A v \in Writers \ {w} : writer'[v] = writer[v]
  BY DEF JInv, TypeOK
<1> QED BY <1>1, <1>2, <1>3, <1>4, OneWriter

LEMMA CheckTailStep ==
  ASSUME JInv, NEW w \in Writers, CheckTail(w)
  PROVE  JInv'
<1> DEFINE to == IF Full(w) THEN "rotate" ELSE "create"
           r == [writer[w] EXCEPT !.at = to, !.number = Files - 1]
<1>1. /\ writer[w].at = "tail" /\ ~Incomplete /\ Opened
      /\ UNCHANGED <<lock, open, made, log, started, answered>>
      /\ writer' = [writer EXCEPT ![w].at = to, ![w].number = Files - 1]
  BY DEF CheckTail, TailComplete, history
<1>2. writer[w] \in WriterRecords /\ writer \in [Writers -> WriterRecords] /\ WriterOK(w)
  BY DEF JInv, TypeOK
<1>3. Files - 1 \in Slots /\ Files - 1 \in Nat /\ (Files - 1 = 0 => Files = 1)
  BY ZeroSlot DEF Slots
<1>4. /\ r \in WriterRecords /\ writer' = [writer EXCEPT ![w] = r]
      /\ r.at = to /\ r.number = Files - 1 /\ r.event = writer[w].event /\ r.batch = writer[w].batch
  BY <1>1, <1>2, <1>3 DEF WriterRecords, Places, Holding
<1>5. lock = {w} /\ writer[w].event \in Events
  BY <1>1, <1>2 DEF WriterOK, PlaceOK, KnownOK, Holding
<1> HIDE DEF r
<1>6. writer'[w] = r
  BY <1>2, <1>4
<1>7. /\ dir'[0] # None
      /\ content'[dir'[0]] = IF Active = None THEN Empty ELSE content[Active]
  BY <1>1, OpenedOK
<1>8. ~Incomplete'
  BY <1>1, <1>7 DEF Incomplete, Active, Empty
<1>9. KnownOK(w)'
  BY <1>1, <1>2, <1>4, <1>5, <1>6 DEF WriterOK, KnownOK, Logged
<1>10. ~Full(w) => Size' + Length[writer[w].event] <= MaxBytes
  <2>1. Size' = Size /\ Size \in Nat
    BY <1>7, ZeroSlot DEF Size, Active, Empty, JInv, TypeOK, FileRecords
  <2>2. Length[writer[w].event] <= MaxRecord /\ Length[writer[w].event] \in Nat
    BY <1>5, SizesAssumption
  <2> QED BY <2>1, <2>2, SizesAssumption DEF Full
<1>11. PlaceOK(w)'
  BY <1>1, <1>3, <1>4, <1>5, <1>6, <1>8, <1>10, ZeroSlot DEF PlaceOK
<1> QED BY <1>1, <1>4, <1>5, <1>9, <1>11, OpenedStep DEF WriterOK

LEMMA CreateStep ==
  ASSUME JInv, NEW w \in Writers, Create(w)
  PROVE  JInv'
<1> DEFINE r == [writer[w] EXCEPT !.at = "write", !.left = Length[writer[w].event]]
<1>1. /\ writer[w].at = "create" /\ Opened
      /\ UNCHANGED <<lock, open, made, log, started, answered>>
      /\ writer' = [writer EXCEPT ![w].at = "write", ![w].left = Length[writer[w].event]]
  BY DEF Create, history
<1>2. writer[w] \in WriterRecords /\ writer \in [Writers -> WriterRecords] /\ WriterOK(w)
  BY DEF JInv, TypeOK
<1>3. /\ lock = {w} /\ writer[w].event \in Events
      /\ Active # None => Size + Length[writer[w].event] <= MaxBytes
  BY <1>1, <1>2 DEF WriterOK, PlaceOK, KnownOK, Holding
<1>4. Length[writer[w].event] \in 1 .. MaxRecord /\ Length[writer[w].event] \in Nat
  BY <1>3, SizesAssumption
<1>5. /\ r \in WriterRecords /\ writer' = [writer EXCEPT ![w] = r] /\ r.at = "write"
      /\ r.left = Length[writer[w].event] /\ r.event = writer[w].event /\ r.batch = writer[w].batch
  BY <1>1, <1>2, <1>4 DEF WriterRecords, Places, Holding
<1> HIDE DEF r
<1>6. writer'[w] = r
  BY <1>2, <1>5
<1>7. /\ dir'[0] # None
      /\ content'[dir'[0]] = IF Active = None THEN Empty ELSE content[Active]
  BY <1>1, OpenedOK
<1>8. Size' + Length[writer[w].event] <= MaxBytes
  <2>1. Active # None => Size' = Size
    BY <1>7 DEF Size, Active
  <2>2. Active = None => Size' = 0
    BY <1>7 DEF Size, Active, Empty
  <2> QED BY <2>1, <2>2, <1>3, <1>4, SizesAssumption
<1>9. KnownOK(w)'
  BY <1>1, <1>2, <1>3, <1>5, <1>6 DEF WriterOK, KnownOK, Logged
<1>10. PlaceOK(w)'
  BY <1>1, <1>3, <1>4, <1>5, <1>6, <1>7, <1>8, SizesAssumption DEF PlaceOK, Active
<1> QED BY <1>1, <1>3, <1>5, <1>9, <1>10, OpenedStep DEF WriterOK

-----------------------------------------------------------------------------
(***************************************************************************)
(* A turn of the rotation.  The interval of the log in file n - 1 becomes  *)
(* that of file n, whose own interval was empty, or was the oldest.        *)
(***************************************************************************)
LEMMA ShiftedOK ==
  ASSUME JInv, NEW n \in Slots, n = 0 => Files = 1, n < Files - 1 => dir[n] = None,
         ~Incomplete, dir' = Shifted(n), UNCHANGED <<content, log>>
  PROVE  /\ JournalTyped' /\ FilesOK' /\ Chained'
         /\ n > 0 => dir'[n - 1] = None
         /\ n = 0 => dir'[0] = None
         /\ dir'[0] \in {dir[0], None}
<1>0. JournalTyped /\ FilesOK /\ Chained /\ n \in Nat /\ Files \in Nat \ {0} /\ n < Files
      /\ 0 \in Slots
  BY ZeroSlot DEF JInv, TypeOK, JournalTyped, Slots
<1>1. PICK s \in [0 .. Files -> Nat] : Chain(s)
  BY <1>0 DEF Chained
<1>2. n > 0 => n - 1 \in Slots
  BY <1>0 DEF Slots
<1>3. CASE n > 0 /\ dir[n - 1] = None
  <2>1. dir' = dir
    BY <1>0, <1>3 DEF Shifted
  <2>2. Chained'
    <3>1. \A m \in Slots : Recs(m)' = Recs(m)
      BY <2>1 DEF Recs
    <3>2. Chain(s)'
      BY <1>1, <3>1 DEF Chain, Holds
    <3> QED BY <3>2 DEF Chained
  <2> QED BY <1>0, <1>3, <2>1, <2>2 DEF JournalTyped, FilesOK
<1>4. CASE n > 0 /\ dir[n - 1] # None
  <2>1. /\ dir'[n] = dir[n - 1] /\ dir'[n - 1] = None
        /\ \A m \in Slots \ {n, n - 1} : dir'[m] = dir[m]
        /\ dir' \in [Slots -> Inodes \cup {None}]
    BY <1>0, <1>2, <1>4 DEF Shifted, JournalTyped
  <2>2. JournalTyped'
    BY <1>0, <2>1 DEF JournalTyped
  <2>3. FilesOK'
    <3>1. ~content[dir[n - 1]].torn /\ content[dir[n - 1]].size <= MaxBytes
      <4>1. CASE n - 1 = 0
        BY <1>0, <1>2, <1>4, <4>1 DEF Incomplete, Active, FilesOK
      <4>2. CASE n - 1 > 0
        BY <1>2, <1>4, <1>0, <4>2 DEF FilesOK
      <4> QED BY <1>0, <1>4, <4>1, <4>2
    <3>2. ASSUME NEW m \in Slots, dir'[m] # None
          PROVE  /\ content[dir'[m]].size <= MaxBytes
                 /\ m > 0 => ~content[dir'[m]].torn
                 /\ \A j \in Slots : dir'[j] = dir'[m] => j = m
      <4>1. CASE m = n
        <5>1. \A j \in Slots \ {n, n - 1} : dir[j] # dir[n - 1]
          BY <1>0, <1>2, <1>4 DEF FilesOK
        <5> QED BY <1>4, <2>1, <3>1, <4>1, <5>1
      <4>2. CASE m # n
        <5>1. m # n - 1 /\ dir'[m] = dir[m]
          BY <2>1, <3>2, <4>2
        <5>2. dir[n - 1] # dir[m]
          BY <1>0, <1>2, <1>4, <5>1, <3>2 DEF FilesOK
        <5> QED BY <1>0, <2>1, <3>2, <4>2, <5>1, <5>2 DEF FilesOK
      <4> QED BY <4>1, <4>2
    <3> QED BY <3>2 DEF FilesOK
  <2>4. Chained'
    <3> DEFINE t == [s EXCEPT ![n] = s[n - 1], ![n + 1] = s[n]]
    <3>1. \A m \in Slots : m \in 0 .. Files /\ m + 1 \in 0 .. Files /\ s[m] \in Nat /\ s[m + 1] \in Nat
      BY <1>0 DEF Slots
    <3>2. /\ t \in [0 .. Files -> Nat] /\ t[n] = s[n - 1] /\ t[n + 1] = s[n]
          /\ \A m \in (0 .. Files) \ {n, n + 1} : t[m] = s[m]
      BY <1>0, <1>2, <1>4, <3>1, SMTT(20) DEF Slots
    <3>3. n < Files - 1 => s[n + 1] = s[n]
      <4>1. Len(Recs(n)) = s[n] - s[n + 1]
        BY <1>1 DEF Chain, Holds
      <4>2. dir[n] = None => Len(Recs(n)) = 0
        BY DEF Recs
      <4> QED BY <3>1, <4>1, <4>2
    <3> HIDE DEF t
    <3>4. t[0] = Len(log)
      BY <1>0, <1>1, <1>2, <1>4, <3>2 DEF Chain
    <3>5. ASSUME NEW m \in Slots PROVE Holds(t, m)'
      <4>1. Holds(s, m)
        BY <1>1 DEF Chain
      <4>2. CASE m = n
        <5>1. Holds(s, n - 1)
          BY <1>1, <1>2, <1>4 DEF Chain
        <5>2. Recs(n)' = Recs(n - 1)
          BY <1>4, <2>1 DEF Recs
        <5>3. n - 1 + 1 = n
          BY <1>0
        <5> QED BY <3>2, <4>2, <5>1, <5>2, <5>3, SMTT(20) DEF Holds
      <4>3. CASE m = n - 1
        <5>1. Recs(m)' = <<>> /\ m + 1 = n
          BY <1>0, <2>1, <4>3 DEF Recs
        <5>2. t[m] = s[n - 1] /\ t[m + 1] = s[n - 1] /\ s[n - 1] \in Nat
          BY <1>0, <1>2, <1>4, <3>1, <3>2, <4>3, <5>1
        <5>3. s[n - 1] <= Len(log)
          BY <1>1, <1>2, <1>4 DEF Chain, Holds
        <5> QED BY <5>1, <5>2, <5>3 DEF Holds
      <4>4. CASE m \notin {n, n - 1}
        <5>1. Recs(m)' = Recs(m)
          BY <2>1, <4>4 DEF Recs
        <5>2. t[m + 1] = s[m + 1]
          BY <1>0, <3>1, <3>2, <4>4 DEF Slots
        <5>3. t[m] = s[m]
          BY <1>0, <3>1, <3>2, <3>3, <4>4 DEF Slots
        <5> QED BY <4>1, <5>1, <5>2, <5>3 DEF Holds
      <4> QED BY <4>2, <4>3, <4>4
    <3> QED BY <3>2, <3>4, <3>5 DEF Chained, Chain
  <2> QED BY <1>0, <1>4, <2>1, <2>2, <2>3, <2>4
<1>5. CASE n = 0
  <2>1. Slots = {0} /\ dir'[0] = None /\ dir' \in [Slots -> Inodes \cup {None}]
    BY <1>0, <1>5 DEF Shifted, JournalTyped, Slots
  <2>2. JournalTyped' /\ FilesOK'
    BY <1>0, <2>1 DEF JournalTyped, FilesOK
  <2>3. Chained'
    <3>1. Len(log) \in Nat
      BY DEF JInv, TypeOK
    <3>2. PICK t \in [0 .. Files -> Nat] : t[0] = Len(log) /\ t[0 + 1] = Len(log)
      <4> DEFINE u == [m \in 0 .. Files |-> Len(log)]
      <4>1. u \in [0 .. Files -> Nat] /\ u[0] = Len(log) /\ u[0 + 1] = Len(log)
        BY <1>0, <1>5, <3>1
      <4> HIDE DEF u
      <4> QED BY <4>1
    <3>3. Recs(0)' = <<>>
      BY <2>1 DEF Recs
    <3>4. Holds(t, 0)'
      BY <3>1, <3>2, <3>3 DEF Holds
    <3> QED BY <2>1, <3>2, <3>4 DEF Chained, Chain
  <2> QED BY <1>5, <2>1, <2>2, <2>3
<1> QED BY <1>0, <1>3, <1>4, <1>5

LEMMA RotateStep ==
  ASSUME JInv, NEW w \in Writers, Rotate(w)
  PROVE  JInv'
<1> DEFINE n == writer[w].number
           r == IF n > 1 THEN [writer[w] EXCEPT !.number = n - 1]
                ELSE [writer[w] EXCEPT !.at = "create"]
<1>1. /\ writer[w].at = "rotate" /\ dir' = Shifted(n)
      /\ UNCHANGED <<content, lock, made, log, started, answered>>
      /\ writer' = IF n > 1 THEN [writer EXCEPT ![w].number = n - 1]
                   ELSE [writer EXCEPT ![w].at = "create"]
  BY DEF Rotate, history
<1>2. writer[w] \in WriterRecords /\ writer \in [Writers -> WriterRecords] /\ WriterOK(w)
  BY DEF JInv, TypeOK
<1>3. /\ lock = {w} /\ n \in Slots /\ ~Incomplete
      /\ n = 0 => Files = 1
      /\ n < Files - 1 => dir[n] = None
  BY <1>1, <1>2 DEF WriterOK, PlaceOK, Holding
<1>4. n \in Nat /\ Files \in Nat \ {0} /\ n < Files /\ 0 \in Slots
  BY <1>3, ZeroSlot DEF Slots
<1>5. /\ JournalTyped' /\ FilesOK' /\ Chained'
      /\ n > 0 => dir'[n - 1] = None
      /\ n = 0 => dir'[0] = None
      /\ dir'[0] \in {dir[0], None}
  BY <1>1, <1>3, ShiftedOK
<1>6. /\ r \in WriterRecords /\ writer' = [writer EXCEPT ![w] = r]
      /\ r.event = writer[w].event /\ r.batch = writer[w].batch
      /\ n > 1 => r.at = "rotate" /\ r.number = n - 1
      /\ ~(n > 1) => r.at = "create"
  <2>1. CASE n > 1
    <3>1. n - 1 \in Nat
      BY <1>4, <2>1
    <3> QED BY <1>1, <1>2, <2>1, <3>1 DEF WriterRecords
  <2>2. CASE ~(n > 1)
    BY <1>1, <1>2, <2>2 DEF WriterRecords, Places, Holding
  <2> QED BY <2>1, <2>2
<1> HIDE DEF r
<1>7. writer'[w] = r
  BY <1>2, <1>6
<1>8. TypeOK'
  BY <1>1, <1>2, <1>5, <1>6 DEF JInv, TypeOK, JournalTyped
<1>9. KnownOK(w)'
  BY <1>1, <1>2, <1>6, <1>7 DEF WriterOK, KnownOK, Logged
<1>10. ~Incomplete'
  BY <1>1, <1>3, <1>5 DEF Incomplete, Active
<1>11. PlaceOK(w)'
  <2>1. CASE n > 1
    BY <1>1, <1>3, <1>4, <1>5, <1>6, <1>7, <1>10, <2>1 DEF PlaceOK, Slots
  <2>2. CASE ~(n > 1)
    <3>1. dir'[0] = None
      BY <1>4, <1>5, <2>2
    <3> QED BY <1>1, <1>3, <1>6, <1>7, <1>10, <2>2, <3>1 DEF PlaceOK, Active
  <2> QED BY <2>1, <2>2
<1>12. PromisesJournaled' /\ Logged \subseteq Logged'
  BY <1>1 DEF JInv, PromisesJournaled, Logged
<1>13. \A v \in Writers \ {w} : writer'[v] = writer[v]
  BY <1>2, <1>6
<1> QED BY <1>1, <1>3, <1>5, <1>8, <1>9, <1>11, <1>12, <1>13, OneWriter DEF WriterOK

-----------------------------------------------------------------------------
(***************************************************************************)
(* A write lengthens the active file, and with its last piece the log.     *)
(***************************************************************************)
LEMMA WriteStep ==
  ASSUME JInv, NEW w \in Writers, NEW n \in 1 .. MaxRecord, Write(w, n)
  PROVE  JInv'
<1> DEFINE i == Active
           left == writer[w].left - n
           event == writer[w].event
           more == IF left = 0 THEN <<event>> ELSE <<>>
           file == [recs |-> content[i].recs \o more, size |-> content[i].size + n, torn |-> left > 0]
           r == [writer[w] EXCEPT !.left = left, !.at = IF left = 0 THEN "sync" ELSE "write"]
<1>1. /\ writer[w].at = "write" /\ n <= writer[w].left
      /\ content' = [content EXCEPT ![i] = file] /\ log' = log \o more
      /\ writer' = [writer EXCEPT ![w].left = left, ![w].at = IF left = 0 THEN "sync" ELSE "write"]
      /\ UNCHANGED <<dir, lock, made, started, answered>>
  BY DEF Write
<1>2. /\ writer[w] \in WriterRecords /\ writer \in [Writers -> WriterRecords] /\ WriterOK(w)
      /\ content \in [Inodes -> FileRecords] /\ dir \in [Slots -> Inodes \cup {None}]
      /\ log \in Seq(Events) /\ FilesOK
  BY DEF JInv, TypeOK
<1>3. /\ lock = {w} /\ event \in Events /\ i # None
      /\ content[i].size + writer[w].left <= MaxBytes
  BY <1>1, <1>2 DEF WriterOK, PlaceOK, KnownOK, Holding, Size
<1>4. i \in Inodes /\ content[i] \in FileRecords /\ n \in Nat /\ n > 0 /\ left \in Nat
      /\ writer[w].left \in Nat /\ 0 \in Slots
  BY <1>1, <1>2, <1>3, ZeroSlot, SizesAssumption DEF Active, WriterRecords
<1>5. more \in Seq(Events) /\ content[i].recs \in Seq(Events) /\ content[i].size \in Nat
  BY <1>3, <1>4 DEF FileRecords
<1>6. /\ r \in WriterRecords /\ writer' = [writer EXCEPT ![w] = r]
      /\ r.event = event /\ r.batch = writer[w].batch /\ r.left = left
      /\ r.at = IF left = 0 THEN "sync" ELSE "write"
  BY <1>1, <1>2, <1>4 DEF WriterRecords, Places, Holding
<1>7. file \in FileRecords
  BY <1>4, <1>5 DEF FileRecords
<1>8. content'[i] = file /\ \A j \in Inodes \ {i} : content'[j] = content[j]
  BY <1>1, <1>2, <1>4
<1>9. /\ log' \in Seq(Events) /\ Len(log') = Len(log) + (IF left = 0 THEN 1 ELSE 0)
      /\ \A k \in 1 .. Len(log) : log'[k] = log[k]
      /\ left = 0 => log'[Len(log) + 1] = event
  BY <1>1, <1>2, <1>5
<1>10. /\ file.size = content[i].size + n
       /\ Len(file.recs) = Len(content[i].recs) + (IF left = 0 THEN 1 ELSE 0)
       /\ \A k \in 1 .. Len(content[i].recs) : file.recs[k] = content[i].recs[k]
       /\ left = 0 => file.recs[Len(content[i].recs) + 1] = event
  <2>1. CASE left = 0
    <3>1. file.recs = content[i].recs \o <<event>> /\ file.size = content[i].size + n
      BY <2>1
    <3> QED BY <1>3, <1>5, <2>1, <3>1
  <2>2. CASE left # 0
    <3>1. file.recs = content[i].recs \o <<>> /\ file.size = content[i].size + n
      BY <2>2
    <3> QED BY <1>5, <2>2, <3>1
  <2> QED BY <2>1, <2>2
<1>m. Len(log) \in Nat /\ Len(content[i].recs) \in Nat
  BY <1>2, <1>5
<1> HIDE DEF r, file, more
<1>11. writer'[w] = r
  BY <1>2, <1>6
<1>12. TypeOK'
  BY <1>1, <1>2, <1>4, <1>6, <1>7, <1>9 DEF JInv, TypeOK
<1>13. file.size + left <= MaxBytes
  BY <1>3, <1>4, <1>5, <1>10, SizesAssumption, SMTT(20)
<1>14. \A m \in Slots \ {0} : dir[m] # None => dir[m] # i /\ content'[dir[m]] = content[dir[m]]
  BY <1>2, <1>3, <1>4, <1>8 DEF FilesOK, Active
<1>15. FilesOK'
  <2>1. file.size <= MaxBytes
    BY <1>4, <1>7, <1>13, SizesAssumption, SMTT(20) DEF FileRecords
  <2> QED BY <1>1, <1>2, <1>8, <1>14, <2>1 DEF FilesOK, Active
<1>16. Logged \subseteq Logged' /\ (left = 0 => event \in Logged')
  <2>1. \A k \in 1 .. Len(log) : k \in 1 .. Len(log') /\ log'[k] = log[k]
    BY <1>9, <1>m
  <2>2. left = 0 => Len(log) + 1 \in 1 .. Len(log')
    BY <1>9, <1>m
  <2> QED BY <1>9, <2>1, <2>2 DEF Logged
<1>17. Chained'
  <2>1. PICK s \in [0 .. Files -> Nat] : Chain(s)
    BY DEF JInv, Chained
  <2>2. 0 \in 0 .. Files /\ 1 \in 0 .. Files /\ \A m \in Slots : m \in 0 .. Files /\ m + 1 \in 1 .. Files
                                                                 /\ m + 1 \in 0 .. Files
    BY ZeroSlot DEF Slots
  <2>3. PICK t \in [0 .. Files -> Nat] : t[0] = Len(log') /\ \A m \in 1 .. Files : t[m] = s[m]
    <3> DEFINE u == [s EXCEPT ![0] = Len(log')]
    <3>1. u \in [0 .. Files -> Nat] /\ u[0] = Len(log') /\ \A m \in 1 .. Files : u[m] = s[m]
      BY <1>9, <1>m, <2>2
    <3> HIDE DEF u
    <3> QED BY <3>1
  <2>4. ASSUME NEW m \in Slots PROVE Holds(t, m)'
    <3>1. Holds(s, m) /\ s[0] = Len(log) /\ s[m + 1] \in Nat /\ s[m] \in Nat
      BY <2>1, <2>2 DEF Chain
    <3>2. CASE m = 0
      <4>1. Recs(0) = content[i].recs /\ Recs(0)' = file.recs
        BY <1>1, <1>3, <1>8 DEF Recs, Active
      <4>2. t[0 + 1] = s[0 + 1] /\ t[0] = Len(log')
        BY <2>2, <2>3
      <4>3. /\ s[0 + 1] <= Len(log) /\ Len(content[i].recs) = Len(log) - s[0 + 1] /\ s[0 + 1] \in Nat
            /\ \A k \in 1 .. Len(content[i].recs) : content[i].recs[k] = log[s[0 + 1] + k]
        BY <3>1, <3>2, <4>1 DEF Holds
      <4>4. /\ s[0 + 1] <= Len(log') /\ Len(file.recs) = Len(log') - s[0 + 1]
        BY <1>9, <1>10, <1>m, <4>3
      <4>5. ASSUME NEW k \in 1 .. Len(file.recs) PROVE file.recs[k] = log'[s[0 + 1] + k]
        <5>1. CASE k \in 1 .. Len(content[i].recs)
          <6>1. s[0 + 1] + k \in 1 .. Len(log)
            BY <4>3, <5>1, <1>m
          <6> QED BY <1>9, <1>10, <4>3, <5>1, <6>1
        <5>2. CASE k \notin 1 .. Len(content[i].recs)
          <6>1. left = 0 /\ k = Len(content[i].recs) + 1 /\ s[0 + 1] + k = Len(log) + 1
            BY <1>m, <1>10, <4>3, <4>5, <5>2, SMTT(20)
          <6> QED BY <1>9, <1>10, <6>1
        <5> QED BY <5>1, <5>2
      <4> QED BY <3>2, <4>1, <4>2, <4>4, <4>5 DEF Holds
    <3>3. CASE m # 0
      <4>1. Recs(m)' = Recs(m)
        BY <1>1, <1>14, <3>3 DEF Recs
      <4>2. t[m + 1] = s[m + 1] /\ t[m] = s[m]
        BY <2>2, <2>3, <3>3, ZeroSlot DEF Slots
      <4>3. Len(Recs(m)) = s[m] - s[m + 1] /\ s[m] <= Len(log)
        BY <3>1 DEF Holds
      <4>4. \A k \in 1 .. Len(Recs(m)) : s[m + 1] + k \in 1 .. Len(log)
        BY <3>1, <4>3, <1>m, SMTT(20) DEF Holds
      <4>5. s[m] <= Len(log')
        BY <1>9, <1>m, <3>1, <4>3
      <4>6. \A k \in 1 .. Len(Recs(m)) : log'[s[m + 1] + k] = log[s[m + 1] + k]
        BY <1>9, <4>4
      <4> QED BY <3>1, <4>1, <4>2, <4>5, <4>6 DEF Holds
    <3> QED BY <3>2, <3>3
  <2> QED BY <2>3, <2>4 DEF Chained, Chain
<1>18. KnownOK(w)'
  BY <1>2, <1>3, <1>6, <1>11, <1>16 DEF WriterOK, KnownOK
<1>19. PlaceOK(w)'
  <2>1. left > 0 => Active' # None /\ Size' + left <= MaxBytes
    BY <1>1, <1>3, <1>8, <1>13 DEF Active, Size
  <2> QED BY <1>1, <1>3, <1>4, <1>6, <1>11, <2>1 DEF PlaceOK
<1>20. PromisesJournaled' /\ \A v \in Writers \ {w} : writer'[v] = writer[v]
  BY <1>1, <1>2, <1>6, <1>16 DEF JInv, PromisesJournaled
<1> QED BY <1>1, <1>3, <1>12, <1>15, <1>16, <1>17, <1>18, <1>19, <1>20, OneWriter DEF WriterOK

LEMMA NextJInv == JInv /\ [Next]_vars => JInv'
<1> SUFFICES ASSUME JInv, [Next]_vars PROVE JInv'
  OBVIOUS
<1>1. CASE UNCHANGED vars
  <2>1. UNCHANGED <<dir, content, lock, writer, made, log, started, answered>>
    BY <1>1 DEF vars, journal, history
  <2>2. TypeOK' /\ FilesOK' /\ PromisesJournaled'
    BY <2>1 DEF JInv, TypeOK, FilesOK, PromisesJournaled, Logged
  <2>3. Chained'
    BY <2>1 DEF JInv, Chained, Chain, Holds, Recs
  <2>4. \A w \in Writers : WriterOK(w)'
    BY <2>1 DEF JInv, WriterOK, PlaceOK, KnownOK, Logged, Incomplete, Size, Active
  <2> QED BY <2>2, <2>3, <2>4 DEF JInv
<1>2. ASSUME NEW w \in Writers, WriterStep(w) PROVE JInv'
  <2>1. CASE AppendStep(w)
    BY <2>1, MoveSteps, CheckTailStep, RotateStep, CreateStep, WriteStep DEF AppendStep
  <2>2. CASE CallerStep(w)
    BY <2>2, CallerSteps
  <2>3. CASE Fail(w)
    BY <2>3, MoveSteps
  <2>4. CASE Crash(w)
    BY <2>4, RestSteps
  <2> QED BY <1>2, <2>1, <2>2, <2>3, <2>4 DEF WriterStep
<1> QED BY <1>1, <1>2 DEF Next

LEMMA JournalInvariance == Spec => []JInv
<1> QED BY InitJInv, NextJInv, PTL DEF Spec

(***************************************************************************)
(* Every delivery that began has its "started" event in the journal, and   *)
(* so has every event of a notification answered as received, whichever    *)
(* write fails and whenever the process is killed.                         *)
(***************************************************************************)
THEOREM PromisesKept == Spec => []PromisesJournaled
<1>1. JInv => PromisesJournaled
  BY DEF JInv
<1> QED BY <1>1, JournalInvariance, PTL

(***************************************************************************)
(* The retained events, put together file by file, are those of the log    *)
(* from the point where the oldest file begins: by minimal counterexample  *)
(* on the number of files put together.                                    *)
(***************************************************************************)
LEMMA RetainedFrom ==
  ASSUME JInv, NEW s \in [0 .. Files -> Nat], Chain(s)
  PROVE  s[Files] \in 0 .. Len(log) /\ Retained = SubSeq(log, s[Files] + 1, Len(log))
<1> DEFINE Step(g, n) == IF n = 0 THEN <<>> ELSE Recs(n - 1) \o g[n - 1]
           upTo == CHOOSE g : g = [n \in 0 .. Files |-> Step(g, n)]
           f == [n \in 0 .. Files |-> SubSeq(log, s[n] + 1, Len(log))]
<1>0. log \in Seq(Events) /\ Len(log) \in Nat /\ Files \in Nat \ {0}
      /\ \A n \in 1 .. Files : n - 1 \in Slots /\ n - 1 \in 0 .. Files /\ (n - 1) + 1 = n
  BY ZeroSlot DEF JInv, TypeOK, Slots
<1>a. \A n \in 1 .. Files : /\ s[n] <= s[n - 1] /\ s[n - 1] <= Len(log)
                             /\ Len(Recs(n - 1)) = s[n - 1] - s[n]
                             /\ \A k \in 1 .. Len(Recs(n - 1)) : Recs(n - 1)[k] = log[s[n] + k]
  <2> TAKE n \in 1 .. Files
  <2>1. Holds(s, n - 1) /\ (n - 1) + 1 = n
    BY <1>0 DEF Chain
  <2> QED BY <2>1 DEF Holds
<1>1. \A n \in 0 .. Files : s[n] \in 0 .. Len(log)
  <2> TAKE n \in 0 .. Files
  <2>1. CASE n = 0
    BY <1>0, <2>1 DEF Chain
  <2>2. CASE n # 0
    <3>1. n \in 1 .. Files /\ s[n] \in Nat /\ s[n - 1] \in Nat
      BY <1>0, <2>2
    <3>2. s[n] <= s[n - 1] /\ s[n - 1] <= Len(log) /\ s[n] \in Nat /\ s[n - 1] \in Nat
      BY <1>a, <3>1
    <3> HIDE DEF Step, upTo, f
    <3> QED BY <1>0, <3>2
  <2> QED BY <2>1, <2>2
<1>2. ASSUME NEW n \in 1 .. Files PROVE Recs(n - 1) \o f[n - 1] = f[n]
  <2>1. /\ n \in 0 .. Files /\ n - 1 \in 0 .. Files /\ s[n] \in 0 .. Len(log)
        /\ s[n - 1] \in s[n] .. Len(log) /\ s[n] + 1 \in 1 .. Len(log) + 1
        /\ s[n - 1] \in (s[n] + 1) - 1 .. Len(log)
    <3> HIDE DEF Step, upTo, f
    <3>1. n \in 0 .. Files /\ n - 1 \in 0 .. Files
      BY <1>0
    <3>2. s[n] \in 0 .. Len(log) /\ s[n - 1] \in 0 .. Len(log) /\ s[n] <= s[n - 1]
      BY <1>1, <1>a, <3>1
    <3> QED BY <1>0, <3>1, <3>2
  <2>2. Recs(n - 1) = SubSeq(log, s[n] + 1, s[n - 1])
    <3> DEFINE part == SubSeq(log, s[n] + 1, s[n - 1])
    <3>1. \A k \in s[n] + 1 .. s[n - 1] : log[k] \in Events
      BY <1>0, <2>1
    <3>2. /\ part \in Seq(Events) /\ Len(part) = s[n - 1] - s[n]
          /\ \A k \in 1 .. s[n - 1] - s[n] : part[k] = log[s[n] + k]
      <4>1. s[n] + 1 \in Int /\ s[n - 1] \in Int
        BY <2>1
      <4>2. /\ part \in Seq(Events)
            /\ Len(part) = IF s[n] + 1 <= s[n - 1] THEN s[n - 1] - (s[n] + 1) + 1 ELSE 0
            /\ \A k \in 1 .. s[n - 1] - (s[n] + 1) + 1 : part[k] = log[(s[n] + 1) + k - 1]
        BY <3>1, <4>1, SubSeqProperties
      <4> HIDE DEF part
      <4>3. \A k \in 1 .. s[n - 1] - s[n] : (s[n] + 1) + k - 1 = s[n] + k
        BY <2>1
      <4>4. s[n - 1] - (s[n] + 1) + 1 = s[n - 1] - s[n]
        BY <2>1
      <4> QED BY <2>1, <4>2, <4>3, <4>4
    <3> HIDE DEF part
    <3>3. Recs(n - 1) \in Seq(Events)
      <4>1. n - 1 \in Slots
        BY <1>0
      <4> QED BY <4>1 DEF Recs, JInv, TypeOK, FileRecords
    <3>4. Len(Recs(n - 1)) = s[n - 1] - s[n]
          /\ \A k \in 1 .. Len(Recs(n - 1)) : Recs(n - 1)[k] = log[s[n] + k]
      BY <1>a
    <3>5. Recs(n - 1) = part
      BY <3>2, <3>3, <3>4, SeqEqual
    <3> QED BY <3>5 DEF part
  <2>3. SubSeq(log, s[n] + 1, s[n - 1]) \o SubSeq(log, s[n - 1] + 1, Len(log))
          = SubSeq(log, s[n] + 1, Len(log))
    <3>1. Len(log) \in s[n - 1] .. Len(log)
      BY <1>0, <2>1
    <3> QED BY <1>0, <2>1, <3>1, ConcatAdjacentSubSeq
  <2> QED BY <2>1, <2>2, <2>3
<1>b. f[0] = <<>>
  <2>1. s[0] = Len(log) /\ s[0] + 1 \in Int /\ Len(log) < s[0] + 1
    BY <1>0 DEF Chain
  <2>2. f[0] = SubSeq(log, s[0] + 1, Len(log))
    BY <1>0, SMTT(20)
  <2> QED BY <1>0, <2>1, <2>2, SubSeqEmpty
<1>3. f = [n \in 0 .. Files |-> Step(f, n)]
  <2>1. \A n \in 0 .. Files : f[n] = Step(f, n)
    <3> TAKE n \in 0 .. Files
    <3> HIDE DEF f
    <3>1. CASE n = 0
      BY <1>b, <3>1
    <3>2. CASE n # 0
      <4>1. n \in 1 .. Files
        BY <1>0, <3>2
      <4> QED BY <1>2, <3>2, <4>1
    <3> QED BY <3>1, <3>2
  <2>2. f = [n \in 0 .. Files |-> f[n]]
    OBVIOUS
  <2> HIDE DEF f, Step
  <2> QED BY <2>1, <2>2
<1>4. upTo = [n \in 0 .. Files |-> Step(upTo, n)]
  BY <1>3
<1>5. Retained = upTo[Files]
  BY ZeroSlot DEF Retained, Recs
<1>6. \A n \in 0 .. Files : upTo[n] = f[n]
  <2> HIDE DEF upTo, f
  <2> DEFINE R == {p \in Nat \X Nat : p[1] < p[2]}
             T == {n \in 0 .. Files : upTo[n] # f[n]}
  <2>1. OpToRel(<, Nat) = R
    BY DEF OpToRel
  <2>2. IsWellFoundedOn(R, Nat)
    BY <2>1, NatLessThanWellFounded
  <2>3. SUFFICES ASSUME T # {} PROVE FALSE
    OBVIOUS
  <2>4. T \subseteq Nat
    BY <1>0
  <2>5. PICK n \in T : \A m \in T : <<m, n>> \notin R
    <3> HIDE DEF R, T
    <3> QED BY <2>2, <2>3, <2>4, WFMin
  <2>6. n \in 0 .. Files /\ upTo[n] # f[n]
    OBVIOUS
  <2>7. n # 0
    BY <1>0, <1>4, <1>b, <2>6
  <2>8. n \in 1 .. Files /\ n - 1 \in 0 .. Files /\ <<n - 1, n>> \in R
    BY <1>0, <2>6, <2>7
  <2>9. upTo[n - 1] = f[n - 1]
    BY <2>5, <2>8
  <2>10. upTo[n] = Recs(n - 1) \o upTo[n - 1]
    BY <1>4, <2>6, <2>7
  <2>11. Recs(n - 1) \o f[n - 1] = f[n]
    BY <1>2, <2>8
  <2> HIDE DEF R, T
  <2> QED BY <2>6, <2>9, <2>10, <2>11
<1>7. Files \in 0 .. Files /\ f[Files] = SubSeq(log, s[Files] + 1, Len(log))
  <2> HIDE DEF upTo, Step
  <2>1. Files \in 0 .. Files
    BY <1>0
  <2>2. f[Files] = SubSeq(log, s[Files] + 1, Len(log))
    BY <2>1, Zenon
  <2> QED BY <2>1, <2>2
<1> HIDE DEF f, upTo
<1> QED BY <1>1, <1>5, <1>6, <1>7

(***************************************************************************)
(* Rotation loses the oldest events and no other.                          *)
(***************************************************************************)
THEOREM RetainedRecent == Spec => []RetainedIsRecent
<1>1. JInv => RetainedIsRecent
  <2>1. SUFFICES ASSUME JInv PROVE RetainedIsRecent
    OBVIOUS
  <2>2. PICK s \in [0 .. Files -> Nat] : Chain(s)
    BY <2>1 DEF JInv, Chained
  <2> QED BY <2>1, <2>2, RetainedFrom DEF RetainedIsRecent, JInv, FilesOK
<1> QED BY <1>1, JournalInvariance, PTL

-----------------------------------------------------------------------------
(***************************************************************************)
(* The semaphore of the pagers.                                            *)
(***************************************************************************)
Served == {q \in Pagers : reader[q].at \notin {"idle", "end"}}
Shaped == reader = [q \in Readers |->
  [at |-> reader[q].at, number |-> reader[q].number, files |-> reader[q].files]]
SlotsInv == Shaped /\ slots \in Nat /\ SlotsReturned

(* What a step does to the pagers that are served: nothing, or one of them *)
(* comes with a place of the semaphore, or goes and gives it back.         *)
Comes(q) == q \in Pagers \ Served /\ Served' = Served \cup {q} /\ slots > 0 /\ slots' = slots - 1
Goes(q) == q \in Served /\ Served' = Served \ {q} /\ slots' = slots + 1
Stay == Served' = Served /\ slots' = slots
Counted == Shaped' /\ (Stay \/ \E q \in Pagers : Comes(q) \/ Goes(q))

(* A step of one reader moves that reader only.                            *)
LEMMA ReaderMoves ==
  ASSUME Shaped, NEW q \in Readers, NEW r,
         reader' = [reader EXCEPT ![q] = r],
         r = [at |-> r.at, number |-> r.number, files |-> r.files]
  PROVE /\ Shaped'
        /\ q \notin Pagers => Served' = Served
        /\ q \in Pagers /\ r.at \notin {"idle", "end"} => Served' = Served \cup {q}
        /\ q \in Pagers /\ r.at \in {"idle", "end"} => Served' = Served \ {q}
<1> DEFINE shape(x) == [at |-> x.at, number |-> x.number, files |-> x.files]
<1>1. /\ reader' \in [Readers -> {shape(reader[p]) : p \in Readers} \cup {r}]
      /\ \A p \in Readers : reader'[p] = IF p = q THEN r ELSE reader[p]
  BY DEF Shaped
<1>2. \A p \in Readers : reader[p] = shape(reader[p])
  BY DEF Shaped
<1>3. \A p \in Readers : reader'[p] = shape(reader'[p])
  BY <1>1, <1>2
<1>4. Shaped'
  <2> HIDE DEF shape
  <2>1. reader' = [p \in Readers |-> reader'[p]]
    BY <1>1
  <2>2. reader' = [p \in Readers |-> shape(reader'[p])]
    BY <2>1, <1>3
  <2> QED BY <2>2 DEF Shaped, shape
<1>5. \A p \in Pagers : p \in Readers
  BY ReadersAssumption
<1>6. \A p \in Pagers : p \in Served' <=> reader'[p].at \notin {"idle", "end"}
  BY DEF Served
<1>7. \A p \in Pagers : p # q => (p \in Served' <=> p \in Served)
  BY <1>1, <1>5, <1>6 DEF Served
<1>8. q \in Pagers => (q \in Served' <=> r.at \notin {"idle", "end"})
  BY <1>1, <1>6
<1>9. Served' \subseteq Pagers /\ Served \subseteq Pagers
  BY DEF Served
<1> QED BY <1>4, <1>7, <1>8, <1>9

(* Leaving, from a place where the reader is served.                       *)
LEMMA LeaveCounts ==
  ASSUME Shaped, NEW q \in Readers, NEW step, Leave(q, step),
         q \in Pagers => step \in {"idle", "end"} /\ reader[q].at \notin {"idle", "end"}
  PROVE Counted
<1> DEFINE r == [Resting EXCEPT !.at = step]
<1>1. reader' = [reader EXCEPT ![q] = r] /\ slots' = SlotBack(q)
  BY DEF Leave
<1>2. r = [at |-> r.at, number |-> r.number, files |-> r.files] /\ r.at = step
  BY DEF Resting
<1> HIDE DEF r
<1>3. /\ Shaped'
      /\ q \notin Pagers => Served' = Served
      /\ q \in Pagers /\ r.at \in {"idle", "end"} => Served' = Served \ {q}
  BY <1>1, <1>2, ReaderMoves
<1>4. CASE q \in Pagers
  <2>1. q \in Served
    BY <1>4 DEF Served
  <2>2. Goes(q)
    BY <1>1, <1>2, <1>3, <1>4, <2>1 DEF Goes, SlotBack
  <2> QED BY <1>3, <1>4, <2>2 DEF Counted
<1>5. CASE q \notin Pagers
  BY <1>1, <1>3, <1>5 DEF Counted, Stay, SlotBack
<1> QED BY <1>4, <1>5

(* A reader that goes on where it is served, or an exporter.               *)
LEMMA MoveCounts ==
  ASSUME Shaped, NEW q \in Readers, NEW r,
         reader' = [reader EXCEPT ![q] = r], slots' = slots,
         r = [at |-> r.at, number |-> r.number, files |-> r.files],
         q \in Pagers => (r.at \in {"idle", "end"} <=> reader[q].at \in {"idle", "end"})
  PROVE Counted
<1>1. /\ Shaped'
      /\ q \notin Pagers => Served' = Served
      /\ q \in Pagers /\ r.at \notin {"idle", "end"} => Served' = Served \cup {q}
      /\ q \in Pagers /\ r.at \in {"idle", "end"} => Served' = Served \ {q}
  BY ReaderMoves
<1>2. q \in Pagers => (q \in Served <=> reader[q].at \notin {"idle", "end"})
  BY DEF Served
<1> QED BY <1>1, <1>2 DEF Counted, Stay

LEMMA ReaderStepCounts ==
  ASSUME Shaped, NEW q \in Readers,
         \/ ExporterNext(q) /\ q \in Exporters
         \/ PagerNext(q) /\ q \in Pagers
  PROVE Counted
<1>0. /\ reader[q] = [at |-> reader[q].at, number |-> reader[q].number, files |-> reader[q].files]
      /\ q \in Exporters => q \notin Pagers
  BY ReadersAssumption DEF Shaped
<1> DEFINE keep(a) == [at |-> a, number |-> reader[q].number, files |-> reader[q].files]
<1>r. Resting = [at |-> "idle", number |-> Resting.number, files |-> Resting.files]
  BY DEF Resting
<1>k. \A a : [reader EXCEPT ![q].at = a] = [reader EXCEPT ![q] = keep(a)]
  <2> TAKE a
  <2>1. [reader[q] EXCEPT !.at = a] = keep(a)
    BY <1>0
  <2>2. [reader EXCEPT ![q].at = a] = [reader EXCEPT ![q] = [reader[q] EXCEPT !.at = a]]
    OBVIOUS
  <2> QED BY <2>1, <2>2
<1>1. CASE ExportLock(q) /\ q \in Exporters
  <2>1. /\ reader' = [reader EXCEPT ![q] = [at |-> "open", number |-> Files - 1, files |-> <<>>]]
        /\ slots' = slots
    BY <1>1 DEF ExportLock, Opening
  <2> QED BY <2>1, <1>0, <1>1, MoveCounts
<1>2. CASE PageStart(q) /\ q \in Pagers
  <2>1. reader' = [reader EXCEPT ![q] = keep("wait")] /\ reader[q].at = "idle"
        /\ slots > 0 /\ slots' = slots - 1
    BY <1>2, <1>k DEF PageStart, SlotFree
  <2> DEFINE r == keep("wait")
  <2>r. r = [at |-> r.at, number |-> r.number, files |-> r.files] /\ r.at \notin {"idle", "end"}
    OBVIOUS
  <2> HIDE DEF r
  <2>2. Shaped' /\ Served' = Served \cup {q}
    BY <2>1, <2>r, <1>2, ReaderMoves DEF r
  <2>3. q \notin Served
    BY <2>1 DEF Served
  <2> QED BY <2>1, <2>2, <2>3, <1>2 DEF Counted, Comes
<1>3. CASE PageLock(q) /\ q \in Pagers
  <2>1. /\ reader' = [reader EXCEPT ![q] = [at |-> "open", number |-> 0, files |-> <<>>]]
        /\ slots' = slots /\ reader[q].at = "wait"
    BY <1>3 DEF PageLock, Opening
  <2> QED BY <2>1, MoveCounts
<1>4. CASE PageBusy(q) /\ q \in Pagers
  <2>1. reader' = [reader EXCEPT ![q] = Resting] /\ reader[q].at = "wait" /\ slots' = slots + 1
    BY <1>4 DEF PageBusy, SlotBack
  <2>r. Resting.at \in {"idle", "end"}
    BY DEF Resting
  <2>2. Shaped' /\ Served' = Served \ {q}
    BY <2>1, <2>r, <1>4, <1>r, ReaderMoves
  <2>3. q \in Served
    BY <2>1, <1>4 DEF Served
  <2> QED BY <2>1, <2>2, <2>3, <1>4 DEF Counted, Goes
<1>5. CASE OpenFile(q)
  <2> DEFINE n == reader[q].number
             last == IF q \in Pagers THEN n = Files - 1 ELSE n = 0
             taken == dir[n] # None /\ (q \in Pagers => content[dir[n]].size > 0)
             r == [at |-> IF last THEN "check" ELSE "open",
                   number |-> IF last THEN n ELSE IF q \in Pagers THEN n + 1 ELSE n - 1,
                   files |-> IF taken THEN Append(reader[q].files, AsOpened(dir[n]))
                             ELSE reader[q].files]
  <2>1. reader' = [reader EXCEPT ![q].files = r.files, ![q].number = r.number, ![q].at = r.at]
        /\ slots' = slots /\ reader[q].at = "open"
    BY <1>5 DEF OpenFile
  <2>2. r = [at |-> r.at, number |-> r.number, files |-> r.files] /\ r.at \in {"open", "check"}
    OBVIOUS
  <2> HIDE DEF r
  <2>3. reader' = [reader EXCEPT ![q] = r]
    BY <2>1, <2>2, <1>0
  <2> QED BY <2>1, <2>2, <2>3, MoveCounts
<1>6. CASE Validate(q)
  <2>1. reader' = [reader EXCEPT ![q] = keep("yield")] /\ slots' = slots /\ q \in Exporters
    BY <1>6, <1>k DEF Validate
  <2> QED BY <2>1, <1>0, MoveCounts
<1>7. CASE Refuse(q)
  BY <1>7, <1>0, LeaveCounts DEF Refuse
<1>8. CASE Yield(q) /\ q \in Exporters
  <2> DEFINE r == [at |-> reader[q].at, number |-> reader[q].number, files |-> Tail(reader[q].files)]
  <2>0. \A x : [reader[q] EXCEPT !.files = x] =
                [at |-> reader[q].at, number |-> reader[q].number, files |-> x]
    BY <1>0
  <2>1. [reader[q] EXCEPT !.files = Tail(@)] = r
    BY <2>0
  <2>2. reader' = [reader EXCEPT ![q].files = Tail(@)] /\ slots' = slots
    BY <1>8 DEF Yield
  <2>3. reader' = [reader EXCEPT ![q] = [reader[q] EXCEPT !.files = Tail(@)]]
    BY <2>2
  <2> QED BY <2>1, <2>2, <2>3, <1>8, <1>0, MoveCounts
<1>9. CASE Exported(q) /\ q \in Exporters
  BY <1>9, <1>0, LeaveCounts DEF Exported
<1>10. CASE ExportReturn(q)
  <2>1. reader' = [reader EXCEPT ![q] = Resting] /\ slots' = slots /\ q \in Exporters
    BY <1>10 DEF ExportReturn
  <2> QED BY <2>1, <1>0, <1>r, MoveCounts
<1>11. CASE GiveUp(q)
  BY <1>11, LeaveCounts DEF GiveUp
<1>12. CASE CheckCursor(q)
  <2>1. reader' = [reader EXCEPT ![q] = keep("read")] /\ slots' = slots /\ reader[q].at = "check"
    BY <1>12, <1>k DEF CheckCursor
  <2> QED BY <2>1, MoveCounts
<1>13. CASE CursorExpired(q)
  BY <1>13, LeaveCounts DEF CursorExpired
<1>14. CASE ReadLine(q)
  <2>1. PICK a \in {"answer", "read"} :
          reader' = [reader EXCEPT ![q].at = a] /\ slots' = slots /\ reader[q].at = "read"
    <3>1. \E found : reader' = [reader EXCEPT ![q].at = IF Len(found) = PageLimit
                                                        THEN "answer" ELSE "read"]
          /\ slots' = slots /\ reader[q].at = "read"
      BY <1>14 DEF ReadLine
    <3> QED BY <3>1
  <2>2. reader' = [reader EXCEPT ![q] = keep(a)]
    BY <2>1, <1>k
  <2> QED BY <2>1, <2>2, MoveCounts
<1>15. CASE ReadTorn(q)
  BY <1>15, LeaveCounts DEF ReadTorn
<1>16. CASE EndPage(q)
  <2>1. reader' = [reader EXCEPT ![q] = keep("answer")] /\ slots' = slots /\ reader[q].at = "read"
    BY <1>16, <1>k DEF EndPage
  <2> QED BY <2>1, MoveCounts
<1>17. CASE Answer(q)
  <2>1. \E step \in {"idle", "end"} : Leave(q, step)
    BY <1>17 DEF Answer
  <2>2. reader[q].at = "answer"
    BY <1>17 DEF Answer
  <2> QED BY <2>1, <2>2, LeaveCounts
<1>18. CASE LoseAnswer(q)
  BY <1>18, LeaveCounts DEF LoseAnswer
<1>19. CASE BeginAgain(q)
  <2>1. reader' = [reader EXCEPT ![q] = Resting] /\ slots' = slots
        /\ reader[q].at \in {"idle", "end"}
    BY <1>19 DEF BeginAgain
  <2> QED BY <2>1, <1>r, MoveCounts
<1> QED
  BY <1>0, <1>1, <1>2, <1>3, <1>4, <1>5, <1>6, <1>7, <1>8, <1>9, <1>10, <1>11, <1>12, <1>13,
     <1>14, <1>15, <1>16, <1>17, <1>18, <1>19 DEF ExporterNext, PagerNext, PagerStep

LEMMA SlotsStep == SlotsInv /\ [ReadersNext]_allVars => SlotsInv'
<1> SUFFICES ASSUME SlotsInv, [ReadersNext]_allVars PROVE SlotsInv'
  OBVIOUS
<1>0. Shaped /\ slots \in Nat /\ slots + Cardinality(Served) = PageSlots
      /\ Served \subseteq Pagers /\ IsFiniteSet(Pagers) /\ PageSlots \in Nat
  BY ReadersAssumption DEF SlotsInv, SlotsReturned, Served
<1>1. IsFiniteSet(Served) /\ Cardinality(Served) \in Nat
  BY <1>0, FS_Subset, FS_CardinalityType
<1>2. Counted
  <2>1. CASE UNCHANGED <<reader, slots>>
    BY <2>1, <1>0 DEF Counted, Stay, Served, Shaped
  <2>2. CASE \E w \in Writers : WriterStep(w) /\ UNCHANGED rvars
    BY <2>1, <2>2, Zenon DEF rvars
  <2>3. CASE \E q \in Exporters : ExporterNext(q)
    BY <2>3, <1>0, ReaderStepCounts, ReadersAssumption
  <2>4. CASE \E q \in Pagers : PagerNext(q)
    BY <2>4, <1>0, ReaderStepCounts, ReadersAssumption
  <2> QED BY <2>1, <2>2, <2>3, <2>4 DEF ReadersNext, allVars, rvars
<1>3. slots' \in Nat /\ slots' + Cardinality(Served') = PageSlots
  <2>1. CASE Stay
    BY <2>1, <1>0 DEF Stay
  <2>2. ASSUME NEW q \in Pagers, Comes(q)
        PROVE slots' \in Nat /\ slots' + Cardinality(Served') = PageSlots
    <3>1. Cardinality(Served \cup {q}) = Cardinality(Served) + 1
      BY <1>1, <2>2, FS_AddElement DEF Comes
    <3> QED BY <3>1, <1>0, <1>1, <2>2 DEF Comes
  <2>3. ASSUME NEW q \in Pagers, Goes(q)
        PROVE slots' \in Nat /\ slots' + Cardinality(Served') = PageSlots
    <3>1. Cardinality(Served \ {q}) = Cardinality(Served) - 1
      BY <1>1, <2>3, FS_RemoveElement DEF Goes
    <3> QED BY <3>1, <1>0, <1>1, <2>3 DEF Goes
  <2> QED BY <1>2, <2>1, <2>2, <2>3 DEF Counted
<1> QED BY <1>2, <1>3 DEF SlotsInv, Counted, SlotsReturned, Served

(***************************************************************************)
(* However a request ends, its place in the semaphore is given back: the   *)
(* free places and the requests under way are PageSlots together, for any  *)
(* number of pagers and places.                                            *)
(***************************************************************************)
THEOREM SlotsAreReturned == ReadersSpec => []SlotsReturned
<1>1. ReadersInit => SlotsInv
  <2> SUFFICES ASSUME ReadersInit PROVE SlotsInv
    OBVIOUS
  <2>1. reader = [q \in Readers |-> Resting] /\ slots = PageSlots
    BY DEF ReadersInit
  <2>2. Served = {}
    <3>1. \A q \in Pagers : reader[q].at = "idle"
      BY <2>1, ReadersAssumption DEF Resting
    <3> QED BY <3>1 DEF Served
  <2>3. Shaped
    BY <2>1 DEF Shaped, Resting
  <2>4. Cardinality(Served) = 0 /\ PageSlots \in Nat
    BY <2>2, FS_EmptySet, ReadersAssumption
  <2> QED BY <2>1, <2>3, <2>4 DEF SlotsInv, SlotsReturned, Served
<1>2. SlotsInv => SlotsReturned
  BY DEF SlotsInv
<1> QED BY <1>1, <1>2, SlotsStep, PTL DEF ReadersSpec

-----------------------------------------------------------------------------
(***************************************************************************)
(* What readers are given.  The journal changes under a reader, and a      *)
(* browsing goes on across requests; of the log nothing ever changes.  So  *)
(* everything is said with places of the log: a snapshot is cut where its  *)
(* files meet, and a file is known by the event that it begins with, as no *)
(* event is written twice.                                                 *)
(***************************************************************************)

(* Sequence x is what the log l holds after place a.                       *)
Part(x, a, l) == a + Len(x) <= Len(l) /\ \A k \in 1 .. Len(x) : x[k] = l[a + k]
Distinct(l) == \A j, k \in 1 .. Len(l) : l[j] = l[k] => j = k
Grows(x, y) == Len(x) <= Len(y) /\ \A k \in 1 .. Len(x) : y[k] = x[k]

(* What an inode holds, linked or not, is a part of the log.               *)
InodeOK(i) ==
  /\ \E a \in Nat : Part(content[i].recs, a, log)
  /\ content[i].recs # <<>> => content[i].size > 0
  /\ ~content[i].torn /\ content[i].size > 0 => content[i].recs # <<>>

(* An event is written at most once.                                       *)
Pending == {"wait", "tail", "rotate", "create", "write"}
Ahead(w) == writer[w].at \in Pending => writer[w].event <= made /\ writer[w].event \notin Logged
Apart(v, w) ==
  writer[v].at \in Pending /\ writer[w].at \in Pending => writer[v].event # writer[w].event
Once ==
  /\ Distinct(log)
  /\ \A e \in Logged : e <= made
  /\ \A w \in Writers : Ahead(w)
  /\ \A w \in Writers : \A v \in Writers \ {w} : Apart(v, w)

OpenedFiles == [inode : Inodes, count : Nat, whole : BOOLEAN, first : 0 .. NumEvents]
CursorRecords == [files : Seq(OpenedFiles), index : Nat, offset : Nat]
PageRecords == [place : CursorRecords, found : Seq(Events), scanned : Nat]
ReaderPlaces == {"idle", "wait", "open", "check", "yield", "read", "answer", "end", "refused"}
ReaderRecords == [at : ReaderPlaces, number : Nat, files : Seq(OpenedFiles)]
ReadersTyped ==
  /\ open \in [Readers -> SUBSET Inodes]
  /\ reader \in [Readers -> ReaderRecords]
  /\ page \in [Pagers -> PageRecords]
  /\ cursor \in [Pagers -> CursorRecords]
  /\ told \in [Readers -> Seq(Events)]
  /\ view \in [Readers -> Seq(Events)]

(* File f is what the log l holds after a; it is among the open inodes o.  *)
Begins(f, a, l) == a + f.count <= Len(l) /\ (f.count > 0 => f.first = l[a + 1])
Held(f, o, held) ==
  /\ f.inode \in o
  /\ f.count <= Len(held[f.inode].recs)
  /\ f.count > 0 => f.first = held[f.inode].recs[1]
AllHeld(files, o, held) == \A n \in 1 .. Len(files) : Held(files[n], o, held)

(* The files hold the log from lo to hi and meet at the places c;          *)
(* exporters have the oldest first, pagers the newest.                     *)
Cuts(files) == [1 .. Len(files) + 1 -> Nat]
Up(files, c, lo, hi, l) ==
  /\ c[1] = lo /\ c[Len(files) + 1] = hi
  /\ \A n \in 1 .. Len(files) + 1 : c[n] <= hi
  /\ \A n \in 1 .. Len(files) : c[n + 1] = c[n] + files[n].count /\ Begins(files[n], c[n], l)
Ascends(files, lo, hi, l) == \E c \in Cuts(files) : Up(files, c, lo, hi, l)
Down(files, c, lo, hi, l) ==
  /\ c[1] = hi /\ c[Len(files) + 1] = lo
  /\ \A n \in 1 .. Len(files) + 1 : lo <= c[n]
  /\ \A n \in 1 .. Len(files) :
       /\ c[n] = c[n + 1] + files[n].count /\ Begins(files[n], c[n + 1], l)
       /\ files[n].whole => files[n].count > 0
Descends(files, lo, hi, l) == \E c \in Cuts(files) : Down(files, c, lo, hi, l)

(* A page has come down to p.                                              *)
At(place, c, lo, p) ==
  /\ place.index \in 1 .. Len(place.files) + 1
  /\ place.index > Len(place.files) => p = lo
  /\ place.index <= Len(place.files) =>
       /\ p = c[place.index + 1] + place.offset
       /\ place.offset <= place.files[place.index].count
       /\ place.files[place.index].whole => place.offset > 0
PlacedAt(place, lo, hi, p, l) ==
  \E c \in Cuts(place.files) : Down(place.files, c, lo, hi, l) /\ At(place, c, lo, p)

(* t tells the selected events of the log from hi down to p.               *)
Told(t, p, hi, l) ==
  /\ {t[k] : k \in 1 .. Len(t)} = {l[n] : n \in p + 1 .. hi} \cap Matching
  /\ \A j, k \in 1 .. Len(t), m, n \in 1 .. Len(l) :
       j < k /\ t[j] = l[m] /\ t[k] = l[n] => m > n
ToldTo(t, place, lo, hi, l) ==
  \E p \in lo .. hi : PlacedAt(place, lo, hi, p, l) /\ Told(t, p, hi, l)

(* What exporter q shows is the log after lo.                              *)
Exporting(q, lo) ==
  LET r == reader[q]
      mid == lo + Len(told[q])
      hi == lo + Len(view[q])
  IN
  /\ Part(view[q], lo, log) /\ Part(told[q], lo, log) /\ mid <= hi
  /\ r.at = "open" =>
       /\ q \in lock /\ hi = Len(log) /\ r.number \in Slots
       /\ \E s \in [0 .. Files -> Nat] :
            Chain(s) /\ lo = s[Files] /\ Ascends(r.files, lo, s[r.number + 1], log)
  /\ r.at \in {"check", "yield"} => Ascends(r.files, mid, hi, log)
  /\ r.at \in {"open", "check", "yield"} => AllHeld(r.files, open[q], content)
  /\ r.at \in {"open", "check", "refused"} => told[q] = <<>>
  /\ r.at = "end" => mid = hi
ExporterOK(q) == \E lo \in Nat : Exporting(q, lo)

(* What pager q browses is the log after lo.                               *)
Browsing(q, lo) ==
  LET r == reader[q]
      hi == lo + Len(view[q])
      anew == cursor[q] = NoCursor
      place == page[q].place
  IN
  /\ Part(view[q], lo, log)
  /\ \E p \in lo .. hi : Told(told[q], p, hi, log)
  /\ ~anew => ToldTo(told[q], cursor[q], lo, hi, log)
  /\ r.at = "end" => Told(told[q], lo, hi, log)
  /\ r.at \in {"open", "check"} => AllHeld(r.files, open[q], content) /\ (anew => told[q] = <<>>)
  /\ r.at = "open" => q \in lock /\ r.number \in Slots
  /\ r.at = "open" /\ anew =>
       \E s \in [0 .. Files -> Nat] :
         Chain(s) /\ lo = s[Files] /\ Descends(r.files, s[r.number], hi, log)
  /\ r.at = "check" /\ anew => Descends(r.files, lo, hi, log)
  /\ r.at \in {"read", "answer"} =>
       /\ ToldTo(told[q] \o page[q].found, place, lo, hi, log)
       /\ \A n \in place.index .. Len(place.files) : Held(place.files[n], open[q], content)
BrowserOK(q) == \E lo \in Nat : Browsing(q, lo)

RInv ==
  /\ JInv
  /\ \A i \in Inodes : InodeOK(i)
  /\ Once /\ ReadersTyped
  /\ \A q \in Exporters : ExporterOK(q)
  /\ \A q \in Pagers : BrowserOK(q)

(* The log grows: what was said of it stays.                               *)
LEMMA PartGrows ==
  ASSUME NEW x \in Seq(Events), NEW a \in Nat, NEW l \in Seq(Events), NEW m \in Seq(Events),
         Part(x, a, l), Grows(l, m)
  PROVE  Part(x, a, m)
<1>1. Len(x) \in Nat /\ Len(l) \in Nat /\ Len(m) \in Nat
  OBVIOUS
<1>2. \A k \in 1 .. Len(x) : a + k \in 1 .. Len(l)
  BY <1>1 DEF Part
<1> QED BY <1>1, <1>2 DEF Part, Grows

LEMMA PartConcat ==
  ASSUME NEW x \in Seq(Events), NEW y \in Seq(Events), NEW a \in Nat, NEW l \in Seq(Events),
         Part(x, a, l), Part(y, a + Len(x), l)
  PROVE  Part(x \o y, a, l)
<1>1. Len(x) \in Nat /\ Len(y) \in Nat /\ Len(l) \in Nat /\ Len(x \o y) = Len(x) + Len(y)
  OBVIOUS
<1>2. \A k \in 1 .. Len(x) + Len(y) : (x \o y)[k] = IF k <= Len(x) THEN x[k] ELSE y[k - Len(x)]
  OBVIOUS
<1>3. ASSUME NEW k \in 1 .. Len(x) + Len(y) PROVE (x \o y)[k] = l[a + k]
  <2>1. CASE k <= Len(x)
    <3>1. k \in 1 .. Len(x)
      BY <2>1
    <3> QED BY <1>2, <2>1, <3>1 DEF Part
  <2>2. CASE ~(k <= Len(x))
    <3>1. k - Len(x) \in 1 .. Len(y) /\ (a + Len(x)) + (k - Len(x)) = a + k
      BY <1>1, <2>2
    <3>2. y[k - Len(x)] = l[(a + Len(x)) + (k - Len(x))]
      BY <3>1 DEF Part
    <3> QED BY <1>2, <2>2, <3>1, <3>2
  <2> QED BY <2>1, <2>2
<1>4. a + (Len(x) + Len(y)) <= Len(l)
  BY <1>1 DEF Part
<1> HIDE DEF Part
<1>5. \A z : Len(z) = Len(x) + Len(y) /\ (\A k \in 1 .. Len(x) + Len(y) : z[k] = l[a + k]) => Part(z, a, l)
  BY <1>4 DEF Part
<1> QED BY <1>1, <1>3, <1>5

LEMMA BeginsGrows ==
  ASSUME NEW f \in OpenedFiles, NEW a \in Nat, NEW l \in Seq(Events), NEW m \in Seq(Events),
         Begins(f, a, l), Grows(l, m)
  PROVE  Begins(f, a, m)
<1>1. f.count \in Nat /\ Len(l) \in Nat /\ Len(m) \in Nat
  BY DEF OpenedFiles
<1>2. f.count > 0 => a + 1 \in 1 .. Len(l)
  BY <1>1 DEF Begins
<1> QED BY <1>1, <1>2 DEF Begins, Grows

LEMMA AscendsGrows ==
  ASSUME NEW files \in Seq(OpenedFiles), NEW lo, NEW hi, NEW l \in Seq(Events),
         NEW m \in Seq(Events), Ascends(files, lo, hi, l), Grows(l, m)
  PROVE  Ascends(files, lo, hi, m)
<1>1. PICK c \in Cuts(files) : Up(files, c, lo, hi, l)
  BY DEF Ascends
<1>2. \A n \in 1 .. Len(files) : files[n] \in OpenedFiles /\ c[n] \in Nat
  BY DEF Cuts
<1>3. \A n \in 1 .. Len(files) : Begins(files[n], c[n], m)
  BY <1>1, <1>2, BeginsGrows DEF Up
<1> QED BY <1>1, <1>3 DEF Ascends, Up

LEMMA DownGrows ==
  ASSUME NEW files \in Seq(OpenedFiles), NEW c \in Cuts(files), NEW lo, NEW hi,
         NEW l \in Seq(Events), NEW m \in Seq(Events), Down(files, c, lo, hi, l), Grows(l, m)
  PROVE  Down(files, c, lo, hi, m)
<1>1. ASSUME NEW n \in 1 .. Len(files) PROVE files[n] \in OpenedFiles /\ c[n + 1] \in Nat
  <2>1. n + 1 \in 1 .. Len(files) + 1 /\ files[n] \in OpenedFiles
    OBVIOUS
  <2>2. c \in [1 .. Len(files) + 1 -> Nat]
    BY DEF Cuts
  <2> QED BY <2>1, <2>2
<1>2. \A n \in 1 .. Len(files) : Begins(files[n], c[n + 1], m)
  BY <1>1, BeginsGrows DEF Down
<1> QED BY <1>2 DEF Down

LEMMA ToldGrows ==
  ASSUME NEW t \in Seq(Events), NEW p \in Nat, NEW hi \in Nat, NEW l \in Seq(Events),
         NEW m \in Seq(Events), hi <= Len(l), Told(t, p, hi, l), Grows(l, m), Distinct(m)
  PROVE  Told(t, p, hi, m)
<1>1. Len(t) \in Nat /\ Len(l) \in Nat /\ Len(m) \in Nat
  OBVIOUS
<1>2. \A n \in p + 1 .. hi : n \in 1 .. Len(l) /\ n \in 1 .. Len(m) /\ m[n] = l[n]
  BY <1>1 DEF Grows
<1>3. {m[n] : n \in p + 1 .. hi} = {l[n] : n \in p + 1 .. hi}
  BY <1>2
<1>4. ASSUME NEW j \in 1 .. Len(t), NEW x \in 1 .. Len(m), t[j] = m[x]
      PROVE  x \in 1 .. Len(l) /\ t[j] = l[x]
  <2>1. PICK y \in p + 1 .. hi : t[j] = l[y]
    BY DEF Told
  <2>2. x = y
    BY <1>2, <1>4, <2>1 DEF Distinct
  <2> QED BY <1>2, <2>1, <2>2
<1>5. \A j, k \in 1 .. Len(t), x, y \in 1 .. Len(m) :
        j < k /\ t[j] = m[x] /\ t[k] = m[y] => x > y
  BY <1>4 DEF Told
<1> QED BY <1>3, <1>5 DEF Told

LEMMA ToldToGrows ==
  ASSUME NEW t \in Seq(Events), NEW place \in CursorRecords, NEW lo \in Nat, NEW hi \in Nat,
         NEW l \in Seq(Events), NEW m \in Seq(Events),
         hi <= Len(l), ToldTo(t, place, lo, hi, l), Grows(l, m), Distinct(m)
  PROVE  ToldTo(t, place, lo, hi, m)
<1>1. PICK p \in lo .. hi : PlacedAt(place, lo, hi, p, l) /\ Told(t, p, hi, l)
  BY DEF ToldTo
<1>2. PICK c \in Cuts(place.files) : Down(place.files, c, lo, hi, l) /\ At(place, c, lo, p)
  BY <1>1 DEF PlacedAt
<1>3. place.files \in Seq(OpenedFiles) /\ p \in Nat
  BY DEF CursorRecords
<1>4. Down(place.files, c, lo, hi, m)
  BY <1>2, <1>3, DownGrows
<1>5. Told(t, p, hi, m)
  BY <1>1, <1>3, ToldGrows
<1> QED BY <1>1, <1>2, <1>4, <1>5 DEF ToldTo, PlacedAt

(* The event that an inode begins with says which part of the log it holds.*)
LEMMA SameBeginning ==
  ASSUME NEW l \in Seq(Events), Distinct(l), NEW x \in Seq(Events), NEW b \in Nat, Part(x, b, l),
         NEW a \in Nat, NEW n \in Nat, a + n <= Len(l), n <= Len(x), n > 0 => x[1] = l[a + 1]
  PROVE  \A k \in 1 .. n : x[k] = l[a + k]
<1>1. Len(l) \in Nat /\ Len(x) \in Nat
  OBVIOUS
<1>2. ASSUME n > 0 PROVE a = b
  <2>1. x[1] = l[b + 1] /\ a + 1 \in 1 .. Len(l) /\ b + 1 \in 1 .. Len(l)
    BY <1>1, <1>2 DEF Part
  <2>2. a + 1 = b + 1
    BY <1>2, <2>1 DEF Distinct
  <2> QED BY <2>2
<1>3. ASSUME NEW k \in 1 .. n PROVE x[k] = l[a + k]
  <2>1. a = b /\ k \in 1 .. Len(x)
    BY <1>1, <1>2
  <2> QED BY <2>1 DEF Part
<1> QED BY <1>3

(* Snapshots grow by one file, and lose their first.                       *)
LEMMA AscendsEmpty ==
  ASSUME NEW x \in Nat, NEW l PROVE Ascends(<<>>, x, x, l)
<1> DEFINE c == [n \in 1 .. 1 |-> x]
<1>1. c \in Cuts(<<>>) /\ Up(<<>>, c, x, x, l)
  BY DEF Cuts, Up
<1> QED BY <1>1 DEF Ascends

LEMMA AscendsAppend ==
  ASSUME NEW files \in Seq(OpenedFiles), NEW f \in OpenedFiles, NEW lo \in Nat, NEW mid \in Nat,
         NEW l, Ascends(files, lo, mid, l), Begins(f, mid, l)
  PROVE  Ascends(Append(files, f), lo, mid + f.count, l)
<1>1. PICK c \in Cuts(files) : Up(files, c, lo, mid, l)
  BY DEF Ascends
<1> DEFINE g == Append(files, f)
           N == Len(files)
           d == [n \in 1 .. N + 2 |-> IF n = N + 2 THEN mid + f.count ELSE c[n]]
<1>2. /\ N \in Nat /\ Len(g) = N + 1 /\ g[N + 1] = f
      /\ \A n \in 1 .. N : g[n] = files[n]
  OBVIOUS
<1>3. f.count \in Nat /\ c \in [1 .. N + 1 -> Nat] /\ c[1] = lo /\ c[N + 1] = mid
      /\ \A n \in 1 .. N + 1 : c[n] <= mid
  BY <1>1 DEF OpenedFiles, Cuts, Up
<1> HIDE DEF g
<1>4. d \in Cuts(g) /\ d[N + 2] = mid + f.count /\ \A n \in 1 .. N + 1 : d[n] = c[n]
  BY <1>2, <1>3 DEF Cuts
<1> HIDE DEF d
<1>5. d[1] = lo /\ d[Len(g) + 1] = mid + f.count
  BY <1>2, <1>3, <1>4
<1>6. ASSUME NEW n \in 1 .. Len(g) PROVE d[n + 1] = d[n] + g[n].count /\ Begins(g[n], d[n], l)
  <2>1. CASE n = N + 1
    BY <2>1, <1>2, <1>3, <1>4
  <2>2. CASE n \in 1 .. N
    <3>1. c[n + 1] = c[n] + files[n].count /\ Begins(files[n], c[n], l)
      BY <1>1, <2>2 DEF Up
    <3>2. d[n] = c[n] /\ d[n + 1] = c[n + 1] /\ g[n] = files[n]
      BY <1>2, <1>4, <2>2
    <3> QED BY <3>1, <3>2
  <2> QED BY <2>1, <2>2, <1>2
<1>b. ASSUME NEW n \in 1 .. Len(g) + 1 PROVE d[n] <= mid + f.count
  <2>1. n = N + 2 \/ n \in 1 .. N + 1
    BY <1>2
  <2>2. n \in 1 .. N + 1 => c[n] \in Nat /\ c[n] <= mid
    BY <1>3
  <2> QED BY <2>1, <2>2, <1>3, <1>4
<1>7. Up(g, d, lo, mid + f.count, l)
  BY <1>5, <1>6, <1>b DEF Up
<1> QED BY <1>4, <1>7 DEF Ascends, g

LEMMA AscendsTail ==
  ASSUME NEW files \in Seq(OpenedFiles), files # <<>>, NEW lo \in Nat, NEW hi \in Nat,
         NEW l, Ascends(files, lo, hi, l)
  PROVE  /\ Begins(Head(files), lo, l)
         /\ Ascends(Tail(files), lo + Head(files).count, hi, l)
         /\ lo + Head(files).count <= hi
<1>1. PICK c \in Cuts(files) : Up(files, c, lo, hi, l)
  BY DEF Ascends
<1> DEFINE g == Tail(files)
           N == Len(files)
           d == [n \in 1 .. N |-> c[n + 1]]
<1>2. /\ N \in Nat \ {0} /\ Len(g) = N - 1 /\ Head(files) = files[1]
      /\ \A n \in 1 .. N - 1 : g[n] = files[n + 1]
  OBVIOUS
<1>3. /\ c \in [1 .. N + 1 -> Nat] /\ c[1] = lo /\ c[N + 1] = hi
      /\ \A n \in 1 .. N + 1 : c[n] <= hi
      /\ \A n \in 1 .. N : c[n + 1] = c[n] + files[n].count /\ Begins(files[n], c[n], l)
  BY <1>1 DEF Cuts, Up
<1>4. Begins(files[1], lo, l) /\ c[1 + 1] = lo + files[1].count
  BY <1>2, <1>3
<1> HIDE DEF g
<1>5. d \in Cuts(g)
  BY <1>2, <1>3 DEF Cuts
<1>6. d[1] = lo + Head(files).count /\ d[Len(g) + 1] = hi
  BY <1>2, <1>3, <1>4
<1>7. ASSUME NEW n \in 1 .. Len(g) PROVE d[n + 1] = d[n] + g[n].count /\ Begins(g[n], d[n], l)
  <2>1. n + 1 \in 1 .. N /\ n \in 1 .. N /\ g[n] = files[n + 1]
    BY <1>2
  <2>2. d[n + 1] = c[(n + 1) + 1] /\ d[n] = c[n + 1]
    BY <2>1
  <2> QED BY <1>3, <2>1, <2>2
<1>b. \A n \in 1 .. Len(g) + 1 : d[n] <= hi
  BY <1>2, <1>3
<1> HIDE DEF d
<1>8. Up(g, d, lo + Head(files).count, hi, l)
  BY <1>6, <1>7, <1>b DEF Up
<1>9. lo + files[1].count <= hi
  BY <1>2, <1>3, <1>4
<1> QED BY <1>2, <1>4, <1>5, <1>8, <1>9 DEF Ascends, g

LEMMA DescendsEmpty ==
  ASSUME NEW x \in Nat, NEW l PROVE Descends(<<>>, x, x, l)
<1> DEFINE c == [n \in 1 .. 1 |-> x]
<1>1. c \in Cuts(<<>>) /\ Down(<<>>, c, x, x, l)
  BY DEF Cuts, Down
<1> QED BY <1>1 DEF Descends

LEMMA DescendsAppend ==
  ASSUME NEW files \in Seq(OpenedFiles), NEW f \in OpenedFiles, NEW lo \in Nat, NEW mid \in Nat,
         NEW hi \in Nat, NEW l, Descends(files, mid, hi, l), Begins(f, lo, l),
         mid = lo + f.count, f.whole => f.count > 0
  PROVE  Descends(Append(files, f), lo, hi, l)
<1>1. PICK c \in Cuts(files) : Down(files, c, mid, hi, l)
  BY DEF Descends
<1> DEFINE g == Append(files, f)
           N == Len(files)
           d == [n \in 1 .. N + 2 |-> IF n = N + 2 THEN lo ELSE c[n]]
<1>2. /\ N \in Nat /\ Len(g) = N + 1 /\ g[N + 1] = f
      /\ \A n \in 1 .. N : g[n] = files[n]
  OBVIOUS
<1>3. f.count \in Nat /\ c \in [1 .. N + 1 -> Nat] /\ c[1] = hi /\ c[N + 1] = mid
      /\ \A n \in 1 .. N + 1 : mid <= c[n]
  BY <1>1 DEF OpenedFiles, Cuts, Down
<1> HIDE DEF g
<1>4. d \in Cuts(g) /\ d[N + 2] = lo /\ \A n \in 1 .. N + 1 : d[n] = c[n]
  BY <1>2, <1>3 DEF Cuts
<1> HIDE DEF d
<1>5. d[1] = hi /\ d[Len(g) + 1] = lo
  BY <1>2, <1>3, <1>4
<1>6. ASSUME NEW n \in 1 .. Len(g)
      PROVE  /\ d[n] = d[n + 1] + g[n].count /\ Begins(g[n], d[n + 1], l)
             /\ g[n].whole => g[n].count > 0
  <2>1. CASE n = N + 1
    BY <2>1, <1>2, <1>3, <1>4
  <2>2. CASE n \in 1 .. N
    <3>1. /\ c[n] = c[n + 1] + files[n].count /\ Begins(files[n], c[n + 1], l)
          /\ files[n].whole => files[n].count > 0
      BY <1>1, <2>2 DEF Down
    <3>2. d[n] = c[n] /\ d[n + 1] = c[n + 1] /\ g[n] = files[n]
      BY <1>2, <1>4, <2>2
    <3> QED BY <3>1, <3>2
  <2> QED BY <2>1, <2>2, <1>2
<1>b. ASSUME NEW n \in 1 .. Len(g) + 1 PROVE lo <= d[n]
  <2>1. n = N + 2 \/ n \in 1 .. N + 1
    BY <1>2
  <2>2. n \in 1 .. N + 1 => c[n] \in Nat /\ mid <= c[n]
    BY <1>3
  <2> QED BY <2>1, <2>2, <1>3, <1>4
<1>7. Down(g, d, lo, hi, l)
  BY <1>5, <1>6, <1>b DEF Down
<1> QED BY <1>4, <1>7 DEF Descends, g

(* One event more.                                                         *)
LEMMA ToldNothing == \A hi \in Nat : \A l : Told(<<>>, hi, hi, l)
BY DEF Told

LEMMA ToldMore ==
  ASSUME NEW t \in Seq(Events), NEW p \in Nat \ {0}, NEW hi \in Nat, NEW l \in Seq(Events),
         p <= hi, hi <= Len(l), Told(t, p, hi, l), Distinct(l),
         NEW u \in Seq(Events), u = IF l[p] \in Matching THEN Append(t, l[p]) ELSE t
  PROVE  Told(u, p - 1, hi, l)
<1>1. Len(t) \in Nat /\ Len(l) \in Nat /\ p \in 1 .. Len(l) /\ p - 1 \in Nat /\ (p - 1) + 1 = p
  OBVIOUS
<1>2. {l[n] : n \in p .. hi} = {l[n] : n \in p + 1 .. hi} \cup {l[p]}
  <2>1. p .. hi = (p + 1 .. hi) \cup {p}
    BY <1>1
  <2> QED BY <2>1
<1>3. {t[k] : k \in 1 .. Len(t)} = {l[n] : n \in p + 1 .. hi} \cap Matching
  BY DEF Told
<1>4. \A j, k \in 1 .. Len(t), m, n \in 1 .. Len(l) :
        j < k /\ t[j] = l[m] /\ t[k] = l[n] => m > n
  BY DEF Told
<1>5. CASE l[p] \notin Matching
  <2>1. {l[n] : n \in p .. hi} \cap Matching = {l[n] : n \in p + 1 .. hi} \cap Matching
    BY <1>2, <1>5
  <2> QED BY <1>1, <1>3, <1>4, <1>5, <2>1 DEF Told
<1>6. CASE l[p] \in Matching
  <2>1. /\ u = Append(t, l[p]) /\ Len(u) = Len(t) + 1 /\ u[Len(t) + 1] = l[p]
        /\ \A k \in 1 .. Len(t) : u[k] = t[k]
    BY <1>6, <1>1
  <2>2. 1 .. Len(u) = (1 .. Len(t)) \cup {Len(t) + 1}
    BY <1>1, <2>1
  <2>3. {u[k] : k \in 1 .. Len(u)} = {t[k] : k \in 1 .. Len(t)} \cup {l[p]}
    <3>1. {u[k] : k \in 1 .. Len(t)} = {t[k] : k \in 1 .. Len(t)}
      BY <2>1
    <3>2. {u[k] : k \in 1 .. Len(u)} = {u[k] : k \in 1 .. Len(t)} \cup {u[Len(t) + 1]}
      BY <2>2
    <3> QED BY <3>1, <3>2, <2>1
  <2>4. {u[k] : k \in 1 .. Len(u)} = {l[n] : n \in p .. hi} \cap Matching
    BY <1>2, <1>3, <1>6, <2>3
  <2>5. ASSUME NEW j \in 1 .. Len(u), NEW k \in 1 .. Len(u), NEW m \in 1 .. Len(l),
               NEW n \in 1 .. Len(l), j < k, u[j] = l[m], u[k] = l[n]
        PROVE  m > n
    <3>1. j \in 1 .. Len(t) /\ u[j] = t[j]
      BY <2>1, <2>5, <1>1
    <3>2. CASE k \in 1 .. Len(t)
      BY <1>4, <2>1, <2>5, <3>1, <3>2
    <3>3. CASE k = Len(t) + 1
      <4>1. n = p
        BY <1>1, <2>1, <2>5, <3>3 DEF Distinct
      <4>2. PICK x \in p + 1 .. hi : t[j] = l[x]
        BY <1>3, <3>1
      <4>3. x \in 1 .. Len(l) /\ x > p
        BY <1>1, <4>2
      <4>4. m = x
        BY <2>5, <3>1, <4>2, <4>3 DEF Distinct
      <4> QED BY <4>1, <4>3, <4>4
    <3> QED BY <2>2, <3>2, <3>3
  <2> QED BY <1>1, <2>4, <2>5 DEF Told
<1> QED BY <1>5, <1>6

(* Where a page begins, and how it moves.                                  *)
LEMMA PlaceAtTyped ==
  ASSUME NEW files \in Seq(OpenedFiles), NEW n \in Nat \ {0}
  PROVE  /\ PlaceAt(files, n) \in CursorRecords
         /\ PlaceAt(files, n).files = files /\ PlaceAt(files, n).index = n
         /\ n <= Len(files) => PlaceAt(files, n).offset = files[n].count
<1>1. n <= Len(files) => files[n] \in OpenedFiles
  <2>1. n <= Len(files) => n \in 1 .. Len(files)
    OBVIOUS
  <2> QED BY <2>1
<1> QED BY <1>1 DEF PlaceAt, CursorRecords, OpenedFiles

LEMMA PlaceStart ==
  ASSUME NEW files \in Seq(OpenedFiles), NEW lo \in Nat, NEW hi \in Nat, NEW l,
         Descends(files, lo, hi, l)
  PROVE  PlacedAt(PlaceAt(files, 1), lo, hi, hi, l)
<1>1. PICK c \in Cuts(files) : Down(files, c, lo, hi, l)
  BY DEF Descends
<1> DEFINE place == PlaceAt(files, 1)
<1>2. /\ place.files = files /\ place.index = 1
      /\ 1 <= Len(files) => place.offset = files[1].count
  BY PlaceAtTyped
<1> HIDE DEF place
<1>3. Len(files) \in Nat /\ c[1] = hi /\ c[Len(files) + 1] = lo
  BY <1>1 DEF Down
<1>4. 1 <= Len(files) => /\ hi = c[1 + 1] + files[1].count /\ files[1].count \in Nat
                         /\ files[1].whole => files[1].count > 0
  <2>1. 1 <= Len(files) => 1 \in 1 .. Len(files) /\ files[1] \in OpenedFiles
    OBVIOUS
  <2> QED BY <1>1, <1>3, <2>1 DEF Down, OpenedFiles
<1>5. 1 > Len(files) => hi = lo
  BY <1>3
<1>6. At(place, c, lo, hi)
  BY <1>2, <1>3, <1>4, <1>5 DEF At
<1> QED BY <1>1, <1>2, <1>6 DEF PlacedAt, place

(* A line is read, and the page has come down by one event.               *)
Retreats(place, lo, hi, p, l) ==
  /\ Before(place) \in CursorRecords
  /\ p - 1 \in lo .. hi /\ PlacedAt(Before(place), lo, hi, p - 1, l)
  /\ Before(place).files = place.files /\ Before(place).index >= place.index
  /\ place.index \in 1 .. Len(place.files)
  /\ place.offset \in 1 .. place.files[place.index].count
  /\ \E a \in Nat : p = a + place.offset /\ Begins(place.files[place.index], a, l)

LEMMA PlaceBefore ==
  ASSUME NEW place \in CursorRecords, NEW lo \in Nat, NEW hi \in Nat, NEW l \in Seq(Events),
         NEW p \in lo .. hi, PlacedAt(place, lo, hi, p, l),
         place.index <= Len(place.files), place.files[place.index].whole
  PROVE  Retreats(place, lo, hi, p, l)
<1> DEFINE files == place.files
           x == place.index
           f == files[x]
           N == Len(files)
<1>1. PICK c \in Cuts(files) : Down(files, c, lo, hi, l) /\ At(place, c, lo, p)
  BY DEF PlacedAt
<1>2. files \in Seq(OpenedFiles) /\ x \in Nat /\ place.offset \in Nat /\ N \in Nat
      /\ place = [files |-> files, index |-> x, offset |-> place.offset]
  BY DEF CursorRecords
<1>3. x \in 1 .. N /\ p = c[x + 1] + place.offset /\ place.offset <= f.count /\ place.offset > 0
  BY <1>1, <1>2 DEF At
<1>4. f \in OpenedFiles /\ f.count \in Nat
  <2>1. f \in OpenedFiles
    BY <1>2, <1>3
  <2> QED BY <2>1 DEF OpenedFiles
<1>5. c \in [1 .. N + 1 -> Nat] /\ x + 1 \in 1 .. N + 1
  BY <1>2, <1>3 DEF Cuts
<1>6. /\ c[1] = hi /\ c[N + 1] = lo /\ c[x + 1] \in Nat /\ lo <= c[x + 1]
      /\ c[x] = c[x + 1] + f.count /\ Begins(f, c[x + 1], l)
  BY <1>1, <1>3, <1>5 DEF Down
<1> HIDE DEF files, x, f, N
<1>7. p - 1 \in lo .. hi
  <2>1. \A y, z \in Nat : p = y + z /\ lo <= y /\ z > 0 => p - 1 \in lo .. hi
    OBVIOUS
  <2> QED BY <1>2, <1>3, <1>6, <2>1
<1>8. CASE place.offset > 1
  <2> DEFINE b == [files |-> files, index |-> x, offset |-> place.offset - 1]
  <2>1. Before(place) = b
    BY <1>2, <1>8 DEF Before
  <2>2. b.files = files /\ b.index = x /\ b.offset = place.offset - 1 /\ b \in CursorRecords
    BY <1>2, <1>8 DEF CursorRecords
  <2> HIDE DEF b
  <2>3. p - 1 = c[x + 1] + (place.offset - 1)
    BY <1>2, <1>3, <1>6
  <2>4. place.offset - 1 <= f.count /\ place.offset - 1 > 0
    BY <1>2, <1>3, <1>4, <1>8
  <2>5. x \in 1 .. N + 1 /\ ~(x > N)
    BY <1>2, <1>3
  <2>6. At(b, c, lo, p - 1)
    BY <2>2, <2>3, <2>4, <2>5 DEF At, f, N
  <2>7. PlacedAt(b, lo, hi, p - 1, l)
    BY <1>1, <2>2, <2>6 DEF PlacedAt
  <2>8. x \in 1 .. N /\ place.offset \in 1 .. f.count /\ b.index >= x
    BY <1>2, <1>3, <1>4, <2>2
  <2>9. c[x + 1] \in Nat /\ p = c[x + 1] + place.offset /\ Begins(f, c[x + 1], l)
    BY <1>3, <1>6
  <2> QED BY <1>7, <2>1, <2>2, <2>7, <2>8, <2>9 DEF Retreats, files, x, f, N
<1>9. CASE ~(place.offset > 1)
  <2> DEFINE b == PlaceAt(files, x + 1)
  <2>1. Before(place) = b
    BY <1>9 DEF Before, files, x
  <2>2. /\ b \in CursorRecords /\ b.files = files /\ b.index = x + 1
        /\ x + 1 <= N => b.offset = files[x + 1].count
    <3>1. x + 1 \in Nat \ {0}
      BY <1>2
    <3> QED BY <1>2, <3>1, PlaceAtTyped DEF N
  <2> HIDE DEF b
  <2>3. p - 1 = c[x + 1]
    BY <1>2, <1>3, <1>6, <1>9
  <2>4. x + 1 > N => p - 1 = lo
    <3>1. x + 1 > N => x + 1 = N + 1
      BY <1>3, <1>2
    <3> QED BY <2>3, <3>1, <1>6
  <2>5. ASSUME x + 1 <= N
        PROVE  /\ p - 1 = c[(x + 1) + 1] + files[x + 1].count /\ files[x + 1].count \in Nat
               /\ files[x + 1].whole => files[x + 1].count > 0
    <3>1. x + 1 \in 1 .. N
      BY <2>5, <1>2, <1>3
    <3>2. files[x + 1] \in OpenedFiles
      BY <3>1, <1>2 DEF N
    <3> QED BY <3>1, <3>2, <1>1, <2>3 DEF Down, OpenedFiles, N
  <2>6. At(b, c, lo, p - 1)
    BY <1>5, <2>2, <2>4, <2>5 DEF At, N
  <2>7. PlacedAt(b, lo, hi, p - 1, l)
    BY <1>1, <2>2, <2>6 DEF PlacedAt
  <2>8. x \in 1 .. N /\ place.offset \in 1 .. f.count /\ b.index >= x
    BY <1>2, <1>3, <1>4, <2>2
  <2>9. c[x + 1] \in Nat /\ p = c[x + 1] + place.offset /\ Begins(f, c[x + 1], l)
    BY <1>3, <1>6
  <2> QED BY <1>7, <2>1, <2>2, <2>7, <2>8, <2>9 DEF Retreats, files, x, f, N
<1> QED BY <1>8, <1>9

-----------------------------------------------------------------------------
(***************************************************************************)
(* A step of a writer: the log grows and repeats no event, every inode     *)
(* holds a part of it, and what is open to a reader only grows.            *)
(***************************************************************************)
LEMMA InodeQuiet ==
  ASSUME NEW i \in Inodes, content \in [Inodes -> FileRecords], InodeOK(i),
         log \in Seq(Events), log' \in Seq(Events), Grows(log, log'), content'[i] = content[i]
  PROVE  InodeOK(i)'
<1>1. PICK a \in Nat : Part(content[i].recs, a, log)
  BY DEF InodeOK
<1>2. content[i].recs \in Seq(Events)
  BY DEF FileRecords
<1>3. Part(content[i].recs, a, log')
  BY <1>1, <1>2, PartGrows
<1>4. Part(content'[i].recs, a, log')
  BY <1>3
<1> QED BY <1>4 DEF InodeOK

LEMMA SameGrows == \A x \in Seq(Events) : Grows(x, x)
BY DEF Grows

(* The events of the writers.                                              *)
Steady(w) ==
  writer'[w].at \in Pending => writer[w].at \in Pending /\ writer'[w].event = writer[w].event
Others(w) == \A v \in Writers \ {w} : writer'[v] = writer[v]

LEMMA OnceSteady ==
  ASSUME Once, NEW w \in Writers, UNCHANGED <<log, made>>, Steady(w), Others(w)
  PROVE  Once'
<1>1. Distinct(log') /\ Logged' = Logged /\ made' = made
  BY DEF Once, Logged
<1>2. \A v \in Writers : Steady(v)
  BY DEF Steady, Others
<1>3. ASSUME NEW v \in Writers PROVE Ahead(v)'
  BY <1>1, <1>2 DEF Ahead, Once, Steady
<1>4. ASSUME NEW v \in Writers, NEW u \in Writers \ {v} PROVE Apart(u, v)'
  BY <1>2 DEF Apart, Once, Steady
<1> QED BY <1>1, <1>3, <1>4 DEF Once

LEMMA OnceMade ==
  ASSUME JInv, Once, NEW w \in Writers, log' = log, made' = made + 1, Others(w),
         writer'[w].at \in Pending => writer'[w].event = made + 1
  PROVE  Once'
<1>0. made \in Nat /\ NumEvents \in Nat /\ Logged \subseteq Nat
      /\ \A v \in Writers : writer[v].event \in Nat
  <2>1. NumEvents \in Nat
    BY SizesAssumption
  <2>2. made \in Nat /\ Logged \subseteq Nat
    BY <2>1 DEF JInv, TypeOK, Logged, Events
  <2>3. \A v \in Writers : writer[v].event \in Nat
    BY <2>1 DEF JInv, TypeOK, WriterRecords
  <2> QED BY <2>1, <2>2, <2>3
<1>1. Distinct(log') /\ Logged' = Logged
  BY DEF Once, Logged
<1>2. ASSUME NEW v \in Writers PROVE Ahead(v)'
  <2>1. CASE v = w
    BY <1>0, <1>1, <2>1 DEF Ahead, Once
  <2>2. CASE v # w
    BY <1>0, <1>1, <2>2 DEF Ahead, Once, Others
  <2> QED BY <2>1, <2>2
<1>3. \A v \in Writers : writer[v].at \in Pending => writer[v].event # made + 1
  BY <1>0 DEF Once, Ahead
<1>4. ASSUME NEW v \in Writers, NEW u \in Writers \ {v} PROVE Apart(u, v)'
  <2>1. CASE v = w
    BY <1>3, <2>1 DEF Apart, Others
  <2>2. CASE u = w
    BY <1>3, <2>2 DEF Apart, Others
  <2>3. CASE u # w /\ v # w
    BY <2>3 DEF Apart, Once, Others
  <2> QED BY <2>1, <2>2, <2>3
<1>5. ASSUME NEW e \in Logged' PROVE e <= made'
  <2>1. e \in Nat /\ e <= made
    BY <1>0, <1>1 DEF Once
  <2> QED BY <1>0, <2>1
<1> QED BY <1>1, <1>2, <1>4, <1>5 DEF Once

LEMMA OnceWritten ==
  ASSUME JInv, Once, NEW w \in Writers, made' = made, Others(w), writer'[w].at \notin Pending,
         writer[w].at \in Pending, writer[w].event \in Events,
         log' = log \o <<writer[w].event>>
  PROVE  Once'
<1> DEFINE e == writer[w].event
<1>0. log \in Seq(Events) /\ Len(log) \in Nat
  BY DEF JInv, TypeOK
<1>1. /\ Len(log') = Len(log) + 1 /\ log'[Len(log) + 1] = e
      /\ \A k \in 1 .. Len(log) : log'[k] = log[k]
  BY <1>0
<1>2. Ahead(w) /\ e <= made /\ e \notin Logged
  BY DEF Once, Ahead
<1>3. \A k \in 1 .. Len(log) : log[k] \in Logged /\ log[k] # e
  BY <1>2 DEF Logged
<1>4. Logged' = Logged \cup {e}
  <2>1. 1 .. Len(log') = (1 .. Len(log)) \cup {Len(log) + 1}
    BY <1>0, <1>1
  <2>2. {log'[k] : k \in 1 .. Len(log')} = {log'[k] : k \in 1 .. Len(log)} \cup {log'[Len(log) + 1]}
    BY <2>1
  <2>3. {log'[k] : k \in 1 .. Len(log)} = {log[k] : k \in 1 .. Len(log)}
    BY <1>1
  <2> QED BY <1>1, <2>2, <2>3 DEF Logged
<1>5. Distinct(log')
  <2> SUFFICES ASSUME NEW j \in 1 .. Len(log'), NEW k \in 1 .. Len(log'), log'[j] = log'[k]
               PROVE  j = k
    BY DEF Distinct
  <2>1. /\ j \in 1 .. Len(log) \/ j = Len(log) + 1
        /\ k \in 1 .. Len(log) \/ k = Len(log) + 1
    BY <1>0, <1>1
  <2> QED BY <1>1, <1>3, <2>1 DEF Once, Distinct
<1>6. ASSUME NEW v \in Writers PROVE Ahead(v)'
  <2>1. CASE v = w
    BY <2>1 DEF Ahead
  <2>2. CASE v # w
    <3>1. Apart(v, w) /\ Ahead(v) /\ writer'[v] = writer[v]
      BY <2>2 DEF Once, Others
    <3> QED BY <1>4, <3>1 DEF Ahead, Apart
  <2> QED BY <2>1, <2>2
<1>7. ASSUME NEW v \in Writers, NEW u \in Writers \ {v} PROVE Apart(u, v)'
  BY DEF Apart, Once, Others
<1>8. \A x \in Logged' : x <= made'
  BY <1>2, <1>4 DEF Once
<1> QED BY <1>5, <1>6, <1>7, <1>8 DEF Once

LEMMA OnceStep ==
  ASSUME JInv, Once, NEW w \in Writers, WriterStep(w)
  PROVE  Once'
<1>1. /\ writer \in [Writers -> WriterRecords] /\ writer[w] \in WriterRecords
      /\ writer[w].left \in Nat
      /\ writer[w].at \in Pending => writer[w].event \in Events
  BY DEF JInv, TypeOK, WriterRecords, WriterOK, KnownOK, Pending
<1>2. Idle.at \notin Pending
  BY DEF Idle, Pending
<1>3. CASE \E a \in Places : writer' = [writer EXCEPT ![w].at = a] /\ UNCHANGED <<log, made>>
           /\ (a \in Pending => writer[w].at \in Pending)
  <2>1. Steady(w) /\ Others(w)
    BY <1>1, <1>3 DEF Steady, Others, WriterRecords
  <2> QED BY <1>3, <2>1, OnceSteady
<1>4. CASE writer' = [writer EXCEPT ![w] = Idle] /\ UNCHANGED <<log, made>>
  <2>1. Steady(w) /\ Others(w)
    BY <1>1, <1>2, <1>4 DEF Steady, Others
  <2> QED BY <1>4, <2>1, OnceSteady
<1>5. ASSUME NEW job, NEW rest, NEW batch, Record(w, job, rest, batch) PROVE Once'
  <2>1. Others(w) /\ writer'[w].event = made + 1 /\ made' = made + 1 /\ log' = log
    BY <1>1, <1>5 DEF Record, Others, Idle, history
  <2> QED BY <2>1, OnceMade
<1>6. CASE CheckTail(w) \/ Create(w) \/ Rotate(w)
  <2>1. UNCHANGED <<log, made>> /\ writer[w].at \in Pending
    BY <1>6 DEF CheckTail, Create, Rotate, history, Pending
  <2>2. Others(w) /\ writer'[w].event = writer[w].event
    BY <1>1, <1>6 DEF CheckTail, Create, Rotate, Others, WriterRecords
  <2> QED BY <2>1, <2>2, OnceSteady DEF Steady
<1>7. ASSUME NEW n \in 1 .. MaxRecord, Write(w, n) PROVE Once'
  <2> DEFINE left == writer[w].left - n
             r == [writer[w] EXCEPT !.left = left, !.at = IF left = 0 THEN "sync" ELSE "write"]
  <2>1. /\ writer[w].at = "write" /\ made' = made /\ writer[w].at \in Pending
        /\ log' = log \o (IF left = 0 THEN <<writer[w].event>> ELSE <<>>)
        /\ writer' = [writer EXCEPT ![w] = r]
    BY <1>1, <1>7 DEF Write, Pending
  <2>2. Others(w) /\ writer'[w].event = writer[w].event
        /\ writer'[w].at = IF left = 0 THEN "sync" ELSE "write"
    BY <1>1, <2>1 DEF Others, WriterRecords
  <2> HIDE DEF r
  <2>3. CASE left = 0
    <3>1. log' = log \o <<writer[w].event>> /\ writer'[w].at \notin Pending
      BY <2>1, <2>2, <2>3 DEF Pending
    <3> QED BY <1>1, <2>1, <2>2, <3>1, OnceWritten
  <2>4. CASE left # 0
    <3>1. log' = log
      BY <2>1, <2>4 DEF JInv, TypeOK
    <3> QED BY <2>1, <2>2, <3>1, OnceSteady DEF Steady
  <2> QED BY <2>3, <2>4
<1>8. CASE Acquire(w) \/ RefuseTail(w) \/ Sync(w) \/ Fail(w) \/ Send(w)
  BY <1>3, <1>8 DEF Acquire, RefuseTail, Sync, Fail, Send, Goto, history, Pending, Places, Holding
<1>9. CASE Crash(w) \/ Received(w) \/ Return(w)
  BY <1>4, <1>9 DEF Crash, Received, Return, history
<1>10. CASE Deliver(w) \/ Finish(w) \/ ReceiveNext(w) \/ \E alerts \in 1 .. MaxBatch : Receive(w, alerts)
  BY <1>5, <1>10 DEF Deliver, Finish, ReceiveNext, Receive
<1> QED BY <1>6, <1>7, <1>8, <1>9, <1>10 DEF WriterStep, AppendStep, CallerStep

(***************************************************************************)
(* What a writer leaves to readers.                                        *)
(***************************************************************************)
OpenKept == \A q \in Readers : \A i \in open[q] : Grows(content[i].recs, content'[i].recs)
Kept == /\ Grows(log, log') /\ (\A i \in Inodes : InodeOK(i)') /\ OpenKept /\ open' = open
        /\ (UNCHANGED <<journal, log>> \/ \E w \in Writers : lock = {w})

LEMMA QuietKept ==
  ASSUME JInv, \A i \in Inodes : InodeOK(i), open \in [Readers -> SUBSET Inodes],
         UNCHANGED <<content, log, open>>,
         UNCHANGED <<journal, log>> \/ \E w \in Writers : lock = {w}
  PROVE  Kept
<1>1. /\ content \in [Inodes -> FileRecords] /\ log \in Seq(Events)
      /\ \A i \in Inodes : content[i].recs \in Seq(Events)
  BY DEF JInv, TypeOK, FileRecords
<1>2. Grows(log, log')
  BY <1>1, SameGrows
<1>3. \A i \in Inodes : InodeOK(i)'
  BY <1>1, <1>2, InodeQuiet
<1>4. OpenKept
  BY <1>1, SameGrows DEF OpenKept
<1> QED BY <1>2, <1>3, <1>4 DEF Kept

LEMMA OpenedKept ==
  ASSUME JInv, \A i \in Inodes : InodeOK(i), open \in [Readers -> SUBSET Inodes],
         Opened, UNCHANGED <<log, open>>, NEW w \in Writers, lock = {w}
  PROVE  Kept
<1>1. /\ content \in [Inodes -> FileRecords] /\ log \in Seq(Events)
      /\ \A i \in Inodes : content[i].recs \in Seq(Events)
  BY DEF JInv, TypeOK, FileRecords
<1>2. CASE UNCHANGED journal
  BY <1>2, QuietKept DEF journal
<1>3. ASSUME NEW f \in Free, content' = [content EXCEPT ![f] = Empty] PROVE Kept
  <2>1. /\ f \in Inodes /\ \A q \in Readers : f \notin open[q]
        /\ \A i \in Inodes : content'[i] = IF i = f THEN Empty ELSE content[i]
    BY <1>1, <1>3 DEF Free
  <2>2. Grows(log, log')
    BY <1>1, SameGrows
  <2>3. ASSUME NEW i \in Inodes PROVE InodeOK(i)'
    <3>1. CASE i = f
      <4>1. content'[i].recs = <<>> /\ content'[i].size = 0
        BY <2>1, <3>1 DEF Empty
      <4>2. Part(<<>>, 0, log')
        BY <1>1 DEF Part
      <4>3. Part(content'[i].recs, 0, log')
        BY <4>1, <4>2
      <4> QED BY <4>1, <4>3 DEF InodeOK
    <3>2. CASE i # f
      BY <1>1, <2>1, <2>2, <3>2, InodeQuiet
    <3> QED BY <3>1, <3>2
  <2>4. OpenKept
    <3> SUFFICES ASSUME NEW q \in Readers, NEW i \in open[q]
                 PROVE  Grows(content[i].recs, content'[i].recs)
      BY DEF OpenKept
    <3>1. i \in Inodes /\ i # f
      BY <2>1
    <3> QED BY <1>1, <2>1, <3>1, SameGrows
  <2> QED BY <2>2, <2>3, <2>4 DEF Kept
<1> QED BY <1>2, <1>3 DEF Opened

LEMMA WriteKept ==
  ASSUME JInv, \A i \in Inodes : InodeOK(i), open \in [Readers -> SUBSET Inodes],
         NEW w \in Writers, NEW n \in 1 .. MaxRecord, Write(w, n)
  PROVE  Kept
<1> DEFINE i == Active
           left == writer[w].left - n
           event == writer[w].event
           more == IF left = 0 THEN <<event>> ELSE <<>>
           file == [recs |-> content[i].recs \o more, size |-> content[i].size + n, torn |-> left > 0]
<1>1. /\ writer[w].at = "write" /\ n <= writer[w].left
      /\ content' = [content EXCEPT ![i] = file] /\ log' = log \o more
      /\ UNCHANGED <<dir, open>>
  BY DEF Write
<1>2. /\ writer[w] \in WriterRecords /\ WriterOK(w)
      /\ content \in [Inodes -> FileRecords] /\ dir \in [Slots -> Inodes \cup {None}]
      /\ log \in Seq(Events)
  BY DEF JInv, TypeOK
<1>3. lock = {w} /\ event \in Events /\ i # None
  BY <1>1, <1>2 DEF WriterOK, PlaceOK, KnownOK, Holding
<1>4. i \in Inodes /\ content[i] \in FileRecords /\ n \in Nat /\ n > 0 /\ left \in Nat
      /\ 0 \in Slots /\ dir[0] = i
  BY <1>1, <1>2, <1>3, ZeroSlot, SizesAssumption DEF Active, WriterRecords
<1>5. /\ more \in Seq(Events) /\ Len(more) <= 1 /\ content[i].recs \in Seq(Events)
      /\ content[i].size \in Nat /\ (left = 0 => Len(more) = 1 /\ more[1] = event)
  BY <1>3, <1>4 DEF FileRecords
<1> HIDE DEF more
<1>6. \A x, y \in Seq(Events) : Grows(x, x \o y)
  <2>1. \A x, y \in Seq(Events) : /\ Len(x \o y) = Len(x) + Len(y)
                                  /\ \A k \in 1 .. Len(x) : (x \o y)[k] = x[k]
    OBVIOUS
  <2> QED BY <2>1 DEF Grows
<1>7. Grows(log, log') /\ log' \in Seq(Events)
  BY <1>1, <1>2, <1>5, <1>6
<1>8. content'[i] = file /\ \A j \in Inodes \ {i} : content'[j] = content[j]
  BY <1>1, <1>2, <1>4
<1>9. OpenKept
  <2> SUFFICES ASSUME NEW q \in Readers, NEW j \in open[q]
               PROVE  Grows(content[j].recs, content'[j].recs)
    BY DEF OpenKept
  <2>1. j \in Inodes /\ content[j].recs \in Seq(Events)
    BY <1>2 DEF FileRecords
  <2>2. file.recs = content[i].recs \o more
    OBVIOUS
  <2> HIDE DEF file
  <2> QED BY <1>5, <1>6, <1>8, <2>1, <2>2, SameGrows
<1>10. ASSUME NEW j \in Inodes, j = i PROVE InodeOK(j)'
  <2>1. PICK s \in [0 .. Files -> Nat] : Chain(s)
    BY DEF JInv, Chained
  <2>2. /\ Holds(s, 0) /\ s[0] = Len(log) /\ Recs(0) = content[i].recs /\ 0 + 1 = 1
        /\ s[1] \in Nat
    BY <1>3, <1>4, <2>1, ZeroSlot DEF Chain, Recs
  <2>3. s[1] + Len(content[i].recs) = Len(log) /\ Part(content[i].recs, s[1], log)
    <3>1. /\ Len(content[i].recs) = s[0] - s[1]
          /\ \A k \in 1 .. Len(content[i].recs) : content[i].recs[k] = log[s[1] + k]
      BY <2>2 DEF Holds
    <3> QED BY <1>2, <1>5, <2>2, <3>1 DEF Part
  <2>4. Part(content[i].recs, s[1], log')
    BY <1>2, <1>5, <1>7, <2>2, <2>3, PartGrows
  <2>5. Part(more, s[1] + Len(content[i].recs), log')
    <3>1. \A x, y \in Seq(Events) : /\ Len(x \o y) = Len(x) + Len(y)
                                    /\ \A k \in 1 .. Len(y) : (x \o y)[Len(x) + k] = y[k]
      OBVIOUS
    <3>2. Part(more, Len(log), log')
      <4> QED BY <1>1, <1>2, <1>5, <3>1 DEF Part
    <3> QED BY <2>3, <3>2
  <2>6. Part(content[i].recs \o more, s[1], log')
    <3> QED BY <1>5, <1>7, <2>2, <2>4, <2>5, PartConcat
  <2>7. /\ file.recs = content[i].recs \o more /\ file.size = content[i].size + n
        /\ file.torn <=> left > 0
    OBVIOUS
  <2>8. left = 0 => content[i].recs \o more # <<>>
    <3>1. \A x, y \in Seq(Events) : Len(x \o y) = Len(x) + Len(y) /\ Len(x) \in Nat
      OBVIOUS
    <3>2. left = 0 => Len(content[i].recs \o more) > 0
      BY <1>5, <3>1
    <3> QED BY <3>2
  <2> HIDE DEF file
  <2>9. file.size > 0 /\ (~file.torn => file.recs # <<>>)
    BY <1>4, <1>5, <2>7, <2>8
  <2>10. Part(content'[i].recs, s[1], log')
    <3>1. content'[i].recs = content[i].recs \o more
      BY <1>8, <2>7
    <3> QED BY <2>6, <3>1, Zenon
  <2>11. content'[i].size > 0 /\ (~content'[i].torn => content'[i].recs # <<>>)
    BY <1>8, <2>9
  <2> QED BY <1>10, <2>2, <2>10, <2>11 DEF InodeOK
<1>11. ASSUME NEW j \in Inodes PROVE InodeOK(j)'
  BY <1>2, <1>7, <1>8, <1>10, InodeQuiet
<1> QED BY <1>1, <1>3, <1>7, <1>9, <1>11 DEF Kept

LEMMA WriterKept ==
  ASSUME JInv, \A i \in Inodes : InodeOK(i), open \in [Readers -> SUBSET Inodes],
         NEW w \in Writers, WriterStep(w)
  PROVE  Kept
<1>1. writer[w].at \in Holding => lock = {w}
  BY DEF JInv, WriterOK, PlaceOK
<1>2. CASE CheckTail(w) \/ Create(w)
  <2>1. Opened /\ UNCHANGED <<log, open>> /\ lock = {w}
    BY <1>1, <1>2 DEF CheckTail, Create, history, Holding
  <2> QED BY <2>1, OpenedKept
<1>3. CASE Rotate(w)
  <2>1. UNCHANGED <<content, log, open>> /\ lock = {w}
    BY <1>1, <1>3 DEF Rotate, history, Holding
  <2> QED BY <2>1, QuietKept
<1>4. ASSUME NEW n \in 1 .. MaxRecord, Write(w, n) PROVE Kept
  BY <1>4, WriteKept
<1>5. ASSUME NEW job, NEW rest, NEW batch, Record(w, job, rest, batch)
      PROVE UNCHANGED <<journal, log, open>>
  BY <1>5 DEF Record, history
<1>6. CASE Acquire(w) \/ RefuseTail(w) \/ Sync(w) \/ Fail(w) \/ Send(w) \/ Crash(w)
           \/ Received(w) \/ Return(w) \/ Deliver(w) \/ Finish(w) \/ ReceiveNext(w)
           \/ \E alerts \in 1 .. MaxBatch : Receive(w, alerts)
  <2>1. UNCHANGED <<journal, log, open>>
    BY <1>5, <1>6 DEF Acquire, RefuseTail, Sync, Fail, Send, Crash, Received, Return, Deliver,
       Finish, ReceiveNext, Receive, history
  <2> QED BY <2>1, QuietKept DEF journal
<1> QED BY <1>2, <1>3, <1>4, <1>6 DEF WriterStep, AppendStep, CallerStep

-----------------------------------------------------------------------------
(***************************************************************************)
(* A reader is left alone: what it has been given stays what it was.       *)
(***************************************************************************)
LEMMA HeldGrows ==
  ASSUME NEW f, NEW o, NEW C, NEW D, \A i \in o : Grows(C[i].recs, D[i].recs),
         \A i \in o : C[i].recs \in Seq(Events) /\ D[i].recs \in Seq(Events),
         f.count \in Nat, Held(f, o, C)
  PROVE  Held(f, o, D)
<1>1. f.inode \in o /\ Grows(C[f.inode].recs, D[f.inode].recs)
  BY DEF Held
<1>2. Len(C[f.inode].recs) \in Nat /\ Len(D[f.inode].recs) \in Nat
  BY <1>1
<1>3. f.count > 0 => 1 \in 1 .. Len(C[f.inode].recs)
  BY <1>2 DEF Held
<1> QED BY <1>1, <1>2, <1>3 DEF Held, Grows

LEMMA AllHeldGrows ==
  ASSUME NEW files \in Seq(OpenedFiles), NEW o, NEW C, NEW D,
         \A i \in o : Grows(C[i].recs, D[i].recs),
         \A i \in o : C[i].recs \in Seq(Events) /\ D[i].recs \in Seq(Events),
         AllHeld(files, o, C)
  PROVE  AllHeld(files, o, D)
<1> SUFFICES ASSUME NEW n \in 1 .. Len(files) PROVE Held(files[n], o, D)
  BY DEF AllHeld
<1>1. files[n] \in OpenedFiles
  OBVIOUS
<1>2. files[n].count \in Nat
  BY <1>1 DEF OpenedFiles
<1>3. Held(files[n], o, C)
  BY DEF AllHeld
<1> HIDE DEF AllHeld
<1> QED BY <1>2, <1>3, HeldGrows

LEMMA HeldMore ==
  ASSUME NEW files \in Seq(OpenedFiles), NEW o, NEW C, AllHeld(files, o, C),
         NEW f \in OpenedFiles, NEW b, o \subseteq b, Held(f, b, C)
  PROVE  AllHeld(Append(files, f), b, C)
<1>1. /\ Len(Append(files, f)) = Len(files) + 1 /\ Len(files) \in Nat
      /\ \A k \in 1 .. Len(files) + 1 :
           Append(files, f)[k] = IF k = Len(files) + 1 THEN f ELSE files[k]
  OBVIOUS
<1>2. ASSUME NEW k \in 1 .. Len(Append(files, f)) PROVE Held(Append(files, f)[k], b, C)
  <2>1. k \in 1 .. Len(files) \/ k = Len(files) + 1
    BY <1>1
  <2>2. CASE k = Len(files) + 1
    BY <1>1, <2>2
  <2>3. CASE k \in 1 .. Len(files)
    <3>1. Append(files, f)[k] = files[k]
      BY <1>1, <2>3
    <3>2. Held(files[k], o, C)
      BY <2>3 DEF AllHeld
    <3>3. Held(files[k], b, C)
      BY <3>2 DEF Held
    <3> QED BY <3>1, <3>3
  <2> QED BY <2>1, <2>2, <2>3
<1> QED BY <1>2 DEF AllHeld

Alone(q) ==
  /\ reader'[q] = reader[q] /\ told'[q] = told[q] /\ view'[q] = view[q] /\ open'[q] = open[q]
  /\ Grows(log, log') /\ Distinct(log') /\ log \in Seq(Events) /\ log' \in Seq(Events)
  /\ \A i \in open[q] : /\ Grows(content[i].recs, content'[i].recs)
                        /\ content[i].recs \in Seq(Events) /\ content'[i].recs \in Seq(Events)
  /\ reader[q].at = "open" => q \in lock' /\ UNCHANGED <<dir, content, log>>

LEMMA ReaderTypes ==
  ASSUME ReadersTyped, NEW q \in Readers
  PROVE  /\ reader[q] \in ReaderRecords /\ reader[q].files \in Seq(OpenedFiles)
         /\ reader[q].number \in Nat /\ open[q] \in SUBSET Inodes
         /\ reader[q] = [at |-> reader[q].at, number |-> reader[q].number, files |-> reader[q].files]
         /\ told[q] \in Seq(Events) /\ view[q] \in Seq(Events)
         /\ Len(told[q]) \in Nat /\ Len(view[q]) \in Nat
BY DEF ReadersTyped, ReaderRecords

LEMMA PagerTypes ==
  ASSUME ReadersTyped, NEW q \in Pagers
  PROVE  /\ q \in Readers /\ page[q] \in PageRecords /\ cursor[q] \in CursorRecords
         /\ page[q].place \in CursorRecords /\ page[q].found \in Seq(Events)
         /\ page[q].scanned \in Nat
BY ReadersAssumption DEF ReadersTyped, PageRecords

LEMMA ExporterAlone ==
  ASSUME ReadersTyped, NEW q \in Exporters, ExporterOK(q), Alone(q)
  PROVE  ExporterOK(q)'
<1>1. PICK lo \in Nat : Exporting(q, lo)
  BY DEF ExporterOK
<1> DEFINE r == reader[q]
           mid == lo + Len(told[q])
           hi == lo + Len(view[q])
<1>2. /\ r.files \in Seq(OpenedFiles) /\ told[q] \in Seq(Events) /\ view[q] \in Seq(Events)
      /\ mid \in Nat /\ hi \in Nat
  <2>1. q \in Readers
    BY ReadersAssumption
  <2>2. /\ r.files \in Seq(OpenedFiles) /\ told[q] \in Seq(Events) /\ view[q] \in Seq(Events)
        /\ Len(view[q]) \in Nat /\ Len(told[q]) \in Nat
    BY <2>1, ReaderTypes
  <2> QED BY <2>2
<1>3. Part(view[q], lo, log') /\ Part(told[q], lo, log') /\ mid <= hi
  BY <1>1, <1>2, PartGrows DEF Exporting, Alone
<1>4. r.at = "open" =>
        /\ q \in lock' /\ hi = Len(log') /\ r.number \in Slots
        /\ \E s \in [0 .. Files -> Nat] :
             Chain(s)' /\ lo = s[Files] /\ Ascends(r.files, lo, s[r.number + 1], log')
  <2> SUFFICES ASSUME r.at = "open"
               PROVE  /\ q \in lock' /\ hi = Len(log') /\ r.number \in Slots
                      /\ \E s \in [0 .. Files -> Nat] :
                           Chain(s)' /\ lo = s[Files] /\ Ascends(r.files, lo, s[r.number + 1], log')
    OBVIOUS
  <2>1. q \in lock' /\ dir' = dir /\ content' = content /\ log' = log
    BY DEF Alone
  <2>2. PICK s \in [0 .. Files -> Nat] :
          Chain(s) /\ lo = s[Files] /\ Ascends(r.files, lo, s[r.number + 1], log)
    BY <1>1 DEF Exporting
  <2>3. Chain(s)'
    BY <2>1, <2>2 DEF Chain, Holds, Recs
  <2> QED BY <1>1, <2>1, <2>2, <2>3 DEF Exporting
<1>5. r.at \in {"check", "yield"} => Ascends(r.files, mid, hi, log')
  BY <1>1, <1>2, AscendsGrows DEF Exporting, Alone
<1>6. r.at \in {"open", "check", "yield"} => AllHeld(r.files, open[q], content')
  BY <1>1, <1>2, AllHeldGrows DEF Exporting, Alone
<1>7. /\ r.at \in {"open", "check", "refused"} => told[q] = <<>>
      /\ r.at = "end" => mid = hi
  BY <1>1 DEF Exporting
<1>8. reader'[q] = r /\ told'[q] = told[q] /\ view'[q] = view[q] /\ open'[q] = open[q]
  BY DEF Alone
<1>9. Exporting(q, lo)'
  BY <1>3, <1>4, <1>5, <1>6, <1>7, <1>8 DEF Exporting
<1> QED BY <1>9 DEF ExporterOK

LEMMA BrowserAlone ==
  ASSUME ReadersTyped, NEW q \in Pagers, BrowserOK(q), Alone(q),
         page'[q] = page[q], cursor'[q] = cursor[q]
  PROVE  BrowserOK(q)'
<1>1. PICK lo \in Nat : Browsing(q, lo)
  BY DEF BrowserOK
<1> DEFINE r == reader[q]
           hi == lo + Len(view[q])
           anew == cursor[q] = NoCursor
           place == page[q].place
<1>2. /\ r.files \in Seq(OpenedFiles) /\ told[q] \in Seq(Events) /\ view[q] \in Seq(Events)
      /\ hi \in Nat /\ place \in CursorRecords /\ cursor[q] \in CursorRecords
      /\ told[q] \o page[q].found \in Seq(Events)
  <2>1. q \in Readers /\ place \in CursorRecords /\ cursor[q] \in CursorRecords
        /\ page[q].found \in Seq(Events)
    BY PagerTypes
  <2>2. /\ r.files \in Seq(OpenedFiles) /\ told[q] \in Seq(Events) /\ view[q] \in Seq(Events)
        /\ Len(view[q]) \in Nat
    BY <2>1, ReaderTypes
  <2>3. \A x, y \in Seq(Events) : x \o y \in Seq(Events)
    OBVIOUS
  <2> QED BY <2>1, <2>2, <2>3
<1>a. log \in Seq(Events) /\ log' \in Seq(Events) /\ Grows(log, log') /\ Distinct(log')
  BY DEF Alone
<1>3. Part(view[q], lo, log') /\ hi <= Len(log)
  <2>1. Part(view[q], lo, log)
    BY <1>1 DEF Browsing
  <2>2. Part(view[q], lo, log')
    BY <1>2, <1>a, <2>1, PartGrows
  <2> QED BY <2>1, <2>2 DEF Part
<1>4. \E p \in lo .. hi : Told(told[q], p, hi, log')
  <2>1. PICK p \in lo .. hi : Told(told[q], p, hi, log)
    BY <1>1 DEF Browsing
  <2>2. p \in Nat
    BY <1>2
  <2> QED BY <1>2, <1>a, <1>3, <2>1, <2>2, ToldGrows
<1>5. ~anew => ToldTo(told[q], cursor[q], lo, hi, log')
  BY <1>1, <1>2, <1>a, <1>3, ToldToGrows DEF Browsing
<1>6. r.at = "end" => Told(told[q], lo, hi, log')
  BY <1>1, <1>2, <1>a, <1>3, ToldGrows DEF Browsing
<1>7. r.at \in {"open", "check"} =>
        AllHeld(r.files, open[q], content') /\ (anew => told[q] = <<>>)
  BY <1>1, <1>2, AllHeldGrows DEF Browsing, Alone
<1>8. /\ r.at = "open" => q \in lock' /\ r.number \in Slots
      /\ r.at = "open" /\ anew =>
           \E s \in [0 .. Files -> Nat] :
             Chain(s)' /\ lo = s[Files] /\ Descends(r.files, s[r.number], hi, log')
  <2> SUFFICES ASSUME r.at = "open"
               PROVE  /\ q \in lock' /\ r.number \in Slots
                      /\ anew => \E s \in [0 .. Files -> Nat] :
                           Chain(s)' /\ lo = s[Files] /\ Descends(r.files, s[r.number], hi, log')
    OBVIOUS
  <2>1. q \in lock' /\ dir' = dir /\ content' = content /\ log' = log
    BY DEF Alone
  <2>2. \A s \in [0 .. Files -> Nat] : Chain(s) => Chain(s)'
    BY <2>1 DEF Chain, Holds, Recs
  <2> QED BY <1>1, <2>1, <2>2 DEF Browsing
<1>9. r.at = "check" /\ anew => Descends(r.files, lo, hi, log')
  <2> SUFFICES ASSUME r.at = "check", anew PROVE Descends(r.files, lo, hi, log')
    OBVIOUS
  <2>1. PICK c \in Cuts(r.files) : Down(r.files, c, lo, hi, log)
    BY <1>1 DEF Browsing, Descends
  <2>2. Down(r.files, c, lo, hi, log')
    BY <1>2, <1>a, <2>1, DownGrows
  <2> QED BY <2>2 DEF Descends
<1>10. r.at \in {"read", "answer"} =>
         /\ ToldTo(told[q] \o page[q].found, place, lo, hi, log')
         /\ \A n \in place.index .. Len(place.files) : Held(place.files[n], open[q], content')
  <2> SUFFICES ASSUME r.at \in {"read", "answer"}
               PROVE  /\ ToldTo(told[q] \o page[q].found, place, lo, hi, log')
                      /\ \A n \in place.index .. Len(place.files) :
                           Held(place.files[n], open[q], content')
    OBVIOUS
  <2>1. /\ ToldTo(told[q] \o page[q].found, place, lo, hi, log)
        /\ \A n \in place.index .. Len(place.files) : Held(place.files[n], open[q], content)
    BY <1>1 DEF Browsing
  <2>2. ToldTo(told[q] \o page[q].found, place, lo, hi, log')
    BY <1>2, <1>a, <1>3, <2>1, ToldToGrows
  <2>3. place.index \in 1 .. Len(place.files) + 1 /\ place.files \in Seq(OpenedFiles)
    BY <1>2, <2>1 DEF ToldTo, PlacedAt, At, CursorRecords
  <2>4. \A n \in place.index .. Len(place.files) : place.files[n].count \in Nat
    <3> TAKE n \in place.index .. Len(place.files)
    <3>1. n \in 1 .. Len(place.files)
      BY <2>3
    <3>2. place.files[n] \in OpenedFiles
      BY <2>3, <3>1
    <3> QED BY <3>2 DEF OpenedFiles
  <2>5. \A n \in place.index .. Len(place.files) : Held(place.files[n], open[q], content')
    BY <2>1, <2>4, HeldGrows DEF Alone
  <2> QED BY <2>2, <2>5
<1>11. /\ reader'[q] = r /\ told'[q] = told[q] /\ view'[q] = view[q] /\ open'[q] = open[q]
       /\ page'[q] = page[q] /\ cursor'[q] = cursor[q]
  BY DEF Alone
<1>12. Browsing(q, lo)'
  BY <1>3, <1>4, <1>5, <1>6, <1>7, <1>8, <1>9, <1>10, <1>11 DEF Browsing
<1> QED BY <1>12 DEF BrowserOK

LEMMA LockKept ==
  ASSUME NEW w \in Writers, WriterStep(w), NEW q, q # w, q \in lock
  PROVE  q \in lock'
<1>1. ASSUME NEW n \in 1 .. MaxRecord, Write(w, n) PROVE lock' = lock
  BY <1>1 DEF Write
<1>2. ASSUME NEW job, NEW rest, NEW batch, Record(w, job, rest, batch) PROVE lock' = lock
  BY <1>2 DEF Record
<1>3. CASE Deliver(w) \/ Finish(w) \/ ReceiveNext(w) \/ \E alerts \in 1 .. MaxBatch : Receive(w, alerts)
  BY <1>2, <1>3 DEF Deliver, Finish, ReceiveNext, Receive
<1>4. CASE CheckTail(w) \/ Rotate(w) \/ Create(w) \/ Send(w) \/ Received(w) \/ Return(w)
  BY <1>4 DEF CheckTail, Rotate, Create, Send, Received, Return
<1>5. CASE Acquire(w) \/ RefuseTail(w) \/ Sync(w) \/ Fail(w) \/ Crash(w)
  BY <1>5 DEF Acquire, RefuseTail, Sync, Fail, Crash, Released
<1> QED BY <1>1, <1>3, <1>4, <1>5 DEF WriterStep, AppendStep, CallerStep

LEMMA WriterBeside ==
  ASSUME RInv, NEW w \in Writers, WriterStep(w), UNCHANGED rvars
  PROVE  RInv'
<1>0. JInv /\ Once /\ ReadersTyped /\ open \in [Readers -> SUBSET Inodes]
      /\ \A i \in Inodes : InodeOK(i)
  BY DEF RInv, ReadersTyped
<1>1. JInv'
  BY <1>0, NextJInv DEF Next
<1>2. Once'
  BY <1>0, OnceStep
<1>3. Kept
  BY <1>0, WriterKept
<1>4. UNCHANGED <<reader, page, slots, cursor, told, view>>
  BY DEF rvars, session
<1>5. open' = open /\ ReadersTyped'
  BY <1>0, <1>3, <1>4 DEF Kept, ReadersTyped
<1>6. ASSUME NEW q \in Readers, reader[q].at = "open" => q \in lock PROVE Alone(q)
  <2>1. /\ log \in Seq(Events) /\ log' \in Seq(Events) /\ Distinct(log')
        /\ content \in [Inodes -> FileRecords] /\ content' \in [Inodes -> FileRecords]
    BY <1>0, <1>1, <1>2 DEF JInv, TypeOK, Once
  <2>2. \A i \in open[q] : content[i].recs \in Seq(Events) /\ content'[i].recs \in Seq(Events)
    BY <1>0, <2>1 DEF FileRecords
  <2>3. Grows(log, log') /\ \A i \in open[q] : Grows(content[i].recs, content'[i].recs)
    BY <1>3 DEF Kept, OpenKept
  <2>4. ASSUME reader[q].at = "open" PROVE q \in lock' /\ UNCHANGED <<dir, content, log>>
    <3>1. q \in lock /\ q \notin Writers
      BY <1>6, <2>4, ReadersAssumption
    <3>2. q \in lock'
      BY <3>1, LockKept
    <3> QED BY <1>3, <3>1, <3>2 DEF Kept, journal
  <2> QED BY <1>4, <1>5, <2>1, <2>2, <2>3, <2>4 DEF Alone
<1>7. ASSUME NEW q \in Exporters PROVE ExporterOK(q)'
  <2>1. ExporterOK(q) /\ q \in Readers
    BY ReadersAssumption DEF RInv
  <2>2. reader[q].at = "open" => q \in lock
    BY <2>1 DEF ExporterOK, Exporting
  <2> QED BY <1>0, <1>6, <2>1, <2>2, ExporterAlone
<1>8. ASSUME NEW q \in Pagers PROVE BrowserOK(q)'
  <2>1. BrowserOK(q) /\ q \in Readers
    BY ReadersAssumption DEF RInv
  <2>2. reader[q].at = "open" => q \in lock
    BY <2>1 DEF BrowserOK, Browsing
  <2> QED BY <1>0, <1>4, <1>6, <2>1, <2>2, BrowserAlone
<1> QED BY <1>1, <1>2, <1>3, <1>5, <1>7, <1>8 DEF RInv, Kept

(***************************************************************************)
(* A step of a reader leaves the journal, and the other readers, alone.    *)
(***************************************************************************)
Locks(q) == \/ lock' = lock \cup {q} /\ lock \cap Writers = {}
            \/ lock' = lock \/ lock' = lock \ {q}

LEMMA JournalAlone ==
  ASSUME JInv, NEW q \in Readers, UNCHANGED <<journal, writer, made, history>>, Locks(q)
  PROVE  JInv'
<1>0. UNCHANGED <<dir, content, writer, made, log, started, answered>>
  BY DEF journal, history
<1>1. TypeOK' /\ FilesOK'
  BY <1>0 DEF JInv, TypeOK, FilesOK
<1>2. Chained' /\ PromisesJournaled'
  <2>1. Chained'
    BY <1>0 DEF JInv, Chained, Chain, Holds, Recs
  <2> QED BY <1>0, <2>1 DEF JInv, PromisesJournaled, Logged
<1>3. ASSUME NEW w \in Writers PROVE WriterOK(w)'
  <2>1. WriterOK(w) /\ w # q
    BY ReadersAssumption DEF JInv
  <2>2. lock = {w} => lock' = {w}
    BY <2>1 DEF Locks
  <2>3. PlaceOK(w)'
    BY <2>1, <2>2 DEF WriterOK, PlaceOK, journal, Incomplete, Size, Active
  <2>4. KnownOK(w)'
    BY <2>1 DEF WriterOK, KnownOK, Logged, history
  <2> QED BY <2>3, <2>4 DEF WriterOK
<1> QED BY <1>1, <1>2, <1>3 DEF JInv

Only(q) ==
  /\ UNCHANGED <<journal, writer, made, history>> /\ Locks(q) /\ ReadersTyped'
  /\ \A p \in Readers \ {q} : /\ reader'[p] = reader[p] /\ told'[p] = told[p]
                             /\ view'[p] = view[p] /\ open'[p] = open[p]
  /\ \A p \in Pagers \ {q} : page'[p] = page[p] /\ cursor'[p] = cursor[p]

Moves(f, g, q, T) == g = f \/ \E x \in T : g = [f EXCEPT ![q] = x]
LEMMA OnlyMoves ==
  ASSUME ReadersTyped, NEW q \in Readers, UNCHANGED <<journal, writer, made, history>>, Locks(q),
         Moves(reader, reader', q, ReaderRecords), Moves(open, open', q, SUBSET Inodes),
         Moves(told, told', q, Seq(Events)), Moves(view, view', q, Seq(Events)),
         \/ UNCHANGED <<page, cursor>>
         \/ /\ q \in Pagers /\ Moves(page, page', q, PageRecords)
            /\ Moves(cursor, cursor', q, CursorRecords)
  PROVE  Only(q)
<1>1. \A f, g, S, T : \A p \in S : f \in [S -> T] /\ Moves(f, g, p, T) =>
        g \in [S -> T] /\ \A o \in S \ {p} : g[o] = f[o]
  BY DEF Moves
<1>2. /\ reader' \in [Readers -> ReaderRecords] /\ open' \in [Readers -> SUBSET Inodes]
      /\ told' \in [Readers -> Seq(Events)] /\ view' \in [Readers -> Seq(Events)]
      /\ \A p \in Readers \ {q} : /\ reader'[p] = reader[p] /\ told'[p] = told[p]
                                 /\ view'[p] = view[p] /\ open'[p] = open[p]
  BY <1>1 DEF ReadersTyped
<1>3. /\ page' \in [Pagers -> PageRecords] /\ cursor' \in [Pagers -> CursorRecords]
      /\ \A p \in Pagers \ {q} : page'[p] = page[p] /\ cursor'[p] = cursor[p]
  <2>1. page \in [Pagers -> PageRecords] /\ cursor \in [Pagers -> CursorRecords]
    BY DEF ReadersTyped
  <2>2. CASE UNCHANGED <<page, cursor>>
    BY <2>1, <2>2
  <2>3. CASE q \in Pagers /\ Moves(page, page', q, PageRecords) /\ Moves(cursor, cursor', q, CursorRecords)
    BY <1>1, <2>1, <2>3
  <2> QED BY <2>2, <2>3
<1> QED BY <1>2, <1>3 DEF Only, ReadersTyped

LEMMA OthersAlone ==
  ASSUME RInv, NEW q \in Readers, Only(q),
         q \in Exporters => ExporterOK(q)', q \in Pagers => BrowserOK(q)'
  PROVE  RInv'
<1>o. /\ UNCHANGED <<journal, writer, made, history>> /\ Locks(q) /\ ReadersTyped'
      /\ \A p \in Readers \ {q} : /\ reader'[p] = reader[p] /\ told'[p] = told[p]
                                 /\ view'[p] = view[p] /\ open'[p] = open[p]
      /\ \A p \in Pagers \ {q} : page'[p] = page[p] /\ cursor'[p] = cursor[p]
  BY DEF Only
<1>0. JInv /\ Once /\ ReadersTyped /\ open \in [Readers -> SUBSET Inodes]
      /\ \A i \in Inodes : InodeOK(i)
  BY DEF RInv, ReadersTyped
<1>1. JInv'
  BY <1>0, <1>o, JournalAlone
<1>2. Once' /\ \A i \in Inodes : InodeOK(i)'
  BY <1>0, <1>o DEF Once, Ahead, Apart, Logged, InodeOK, journal, history
<1>3. ASSUME NEW p \in Readers \ {q}, reader[p].at = "open" => p \in lock PROVE Alone(p)
  <2>1. /\ log \in Seq(Events) /\ log' = log /\ Distinct(log) /\ dir' = dir /\ content' = content
        /\ content \in [Inodes -> FileRecords]
    BY <1>0, <1>o DEF JInv, TypeOK, Once, journal, history
  <2>2. \A i \in open[p] : content[i].recs \in Seq(Events)
    BY <1>0, <2>1 DEF FileRecords
  <2>3. Grows(log, log') /\ \A i \in open[p] : Grows(content[i].recs, content'[i].recs)
    BY <2>1, <2>2, SameGrows
  <2>4. p \in lock => p \in lock'
    BY <1>3, <1>o DEF Locks
  <2> QED BY <1>3, <1>o, <2>1, <2>2, <2>3, <2>4 DEF Alone
<1>4. ASSUME NEW p \in Exporters PROVE ExporterOK(p)'
  <2>1. ExporterOK(p) /\ p \in Readers
    BY ReadersAssumption DEF RInv
  <2>2. reader[p].at = "open" => p \in lock
    BY <2>1 DEF ExporterOK, Exporting
  <2>3. CASE p # q
    <3>1. Alone(p)
      BY <1>3, <1>o, <2>1, <2>2, <2>3
    <3> QED BY <1>0, <2>1, <3>1, ExporterAlone
  <2> QED BY <1>4, <2>3
<1>5. ASSUME NEW p \in Pagers PROVE BrowserOK(p)'
  <2>1. BrowserOK(p) /\ p \in Readers
    BY ReadersAssumption DEF RInv
  <2>2. reader[p].at = "open" => p \in lock
    BY <2>1 DEF BrowserOK, Browsing
  <2>3. CASE p # q
    <3>1. Alone(p) /\ page'[p] = page[p] /\ cursor'[p] = cursor[p]
      BY <1>3, <1>o, <2>1, <2>2, <2>3
    <3> QED BY <1>0, <2>1, <3>1, BrowserAlone
  <2> QED BY <1>5, <2>3
<1> QED BY <1>1, <1>2, <1>4, <1>5, <1>o DEF RInv

-----------------------------------------------------------------------------
(***************************************************************************)
(* Opening the files.                                                      *)
(***************************************************************************)
LEMMA AsOpenedIs ==
  ASSUME RInv, NEW n \in Slots, dir[n] # None, NEW s \in [0 .. Files -> Nat], Chain(s), NEW o,
         dir[n] \in o
  PROVE  /\ AsOpened(dir[n]) \in OpenedFiles /\ dir[n] \in Inodes
         /\ Held(AsOpened(dir[n]), o, content)
         /\ Begins(AsOpened(dir[n]), s[n + 1], log)
         /\ s[n] = s[n + 1] + AsOpened(dir[n]).count
         /\ s[n] \in Nat /\ s[n + 1] \in Nat
         /\ AsOpened(dir[n]).whole /\ content[dir[n]].size > 0 => AsOpened(dir[n]).count > 0
<1> DEFINE i == dir[n]
           file == content[i]
           f == AsOpened(i)
<1>1. /\ i \in Inodes /\ file \in FileRecords /\ InodeOK(i) /\ log \in Seq(Events)
      /\ file.recs \in Seq(Events) /\ file.size \in Nat /\ file.torn \in BOOLEAN
  BY DEF RInv, JInv, TypeOK, FileRecords
<1>2. /\ f.inode = i /\ f.count = Len(file.recs) /\ (f.whole => ~file.torn)
      /\ f.first = (IF file.recs = <<>> THEN 0 ELSE Head(file.recs))
      /\ f = [inode |-> i, count |-> f.count, whole |-> f.whole, first |-> f.first]
      /\ f.whole \in BOOLEAN
  BY <1>1 DEF AsOpened
<1> HIDE DEF f
<1>c. f.count = Len(file.recs) /\ f.inode = i
  BY <1>2, Zenon
<1>3. f.count \in Nat /\ (f.count > 0 => f.first = file.recs[1] /\ 1 \in 1 .. Len(file.recs))
      /\ (f.count = 0 => f.first = 0) /\ (file.recs # <<>> => f.count > 0)
  <2>1. \A x \in Seq(Events) : /\ Len(x) \in Nat /\ (x = <<>> <=> Len(x) = 0)
                                /\ (x # <<>> => Head(x) = x[1])
    OBVIOUS
  <2>2. file.recs \in Seq(Events)
    BY <1>1
  <2> HIDE DEF file
  <2>3. /\ Len(file.recs) \in Nat /\ (file.recs = <<>> <=> Len(file.recs) = 0)
        /\ (file.recs # <<>> => Head(file.recs) = file.recs[1])
    BY <2>1, <2>2
  <2>4. file.recs = <<>> => f.first = 0
    BY <1>2
  <2>5. file.recs # <<>> => f.first = Head(file.recs)
    BY <1>2
  <2> QED BY <1>c, <2>3, <2>4, <2>5
<1>4. f.first \in 0 .. NumEvents
  <2>1. f.count > 0 => f.first \in Events
    BY <1>1, <1>3
  <2> QED BY <1>3, <2>1, SizesAssumption DEF Events
<1>5. f \in OpenedFiles
  BY <1>1, <1>2, <1>3, <1>4 DEF OpenedFiles
<1>6. s[n] \in Nat /\ s[n + 1] \in Nat /\ Holds(s, n) /\ Recs(n) = file.recs
  BY ZeroSlot DEF Chain, Slots, Recs
<1> HIDE DEF file
<1>h. /\ f.count = s[n] - s[n + 1] /\ s[n] <= Len(log)
      /\ \A k \in 1 .. Len(file.recs) : file.recs[k] = log[s[n + 1] + k]
  <2>1. f.count = Len(file.recs) /\ Recs(n) = file.recs
    BY <1>c, <1>6
  <2>2. /\ s[n] <= Len(log) /\ Len(Recs(n)) = s[n] - s[n + 1]
        /\ \A k \in 1 .. Len(Recs(n)) : Recs(n)[k] = log[s[n + 1] + k]
    BY <1>6 DEF Holds
  <2> QED BY <2>1, <2>2
<1>7. s[n] = s[n + 1] + f.count /\ s[n] <= Len(log)
  BY <1>3, <1>6, <1>h
<1>8. f.count > 0 => f.first = log[s[n + 1] + 1]
  <2>1. f.count > 0 => 1 \in 1 .. Len(file.recs)
    BY <1>3
  <2>2. f.count > 0 => file.recs[1] = log[s[n + 1] + 1]
    BY <1>h, <2>1
  <2> QED BY <1>3, <2>2
<1>9. Held(f, o, content)
  <2>1. f.count <= Len(file.recs) /\ (f.count > 0 => f.first = file.recs[1])
    BY <1>c, <1>3
  <2> QED BY <1>c, <2>1 DEF Held, file
<1>10. f.whole /\ file.size > 0 => f.count > 0
  BY <1>1, <1>2, <1>3 DEF InodeOK, file
<1> QED BY <1>1, <1>5, <1>6, <1>7, <1>8, <1>9, <1>10 DEF Begins, f, file

(* A file more, or nothing where none is taken.                            *)
Takes(q) ==
  LET n == reader[q].number
  IN dir[n] # None /\ (q \in Pagers => content[dir[n]].size > 0)
LEMMA OpenFileMoves ==
  ASSUME RInv, NEW q \in Readers, OpenFile(q), reader[q].number \in Slots, q \in lock
  PROVE  LET n == reader[q].number
             last == IF q \in Pagers THEN n = Files - 1 ELSE n = 0
         IN
         /\ Only(q) /\ UNCHANGED <<told, view, page, cursor, dir, content, log>>
         /\ reader'[q].at = IF last THEN "check" ELSE "open"
         /\ ~last => /\ q \in lock' /\ reader'[q].number \in Slots
                     /\ reader'[q].number = IF q \in Pagers THEN n + 1 ELSE n - 1
         /\ open'[q] = IF Takes(q) THEN open[q] \cup {dir[n]} ELSE open[q]
         /\ reader'[q].files = IF Takes(q) THEN Append(reader[q].files, AsOpened(dir[n]))
                               ELSE reader[q].files
<1> DEFINE n == reader[q].number
           last == IF q \in Pagers THEN n = Files - 1 ELSE n = 0
           taken == Takes(q)
           files == IF taken THEN Append(reader[q].files, AsOpened(dir[n])) ELSE reader[q].files
           o == IF taken THEN open[q] \cup {dir[n]} ELSE open[q]
           m == IF last THEN n ELSE IF q \in Pagers THEN n + 1 ELSE n - 1
           r == [at |-> IF last THEN "check" ELSE "open", number |-> m, files |-> files]
<1>1. /\ open' = IF taken THEN [open EXCEPT ![q] = @ \cup {dir[n]}] ELSE open
      /\ reader' = [reader EXCEPT ![q].files = IF taken THEN Append(@, AsOpened(dir[n])) ELSE @,
                                  ![q].number = m, ![q].at = r.at]
      /\ lock' = IF last THEN lock \ {q} ELSE lock
      /\ UNCHANGED <<journal, writer, made, history, page, cursor, told, view>>
  BY DEF OpenFile, Takes, Released, session
<1>2. JInv /\ ReadersTyped
  BY DEF RInv
<1>3. /\ reader[q].files \in Seq(OpenedFiles) /\ open[q] \in SUBSET Inodes /\ n \in Nat
      /\ reader[q] = [at |-> reader[q].at, number |-> n, files |-> reader[q].files]
  BY <1>2, ReaderTypes
<1>4. taken => AsOpened(dir[n]) \in OpenedFiles /\ dir[n] \in Inodes
  <2>1. PICK s \in [0 .. Files -> Nat] : Chain(s)
    BY <1>2 DEF JInv, Chained
  <2> QED BY <2>1, AsOpenedIs DEF Takes
<1>5. files \in Seq(OpenedFiles) /\ o \in SUBSET Inodes
  <2>1. \A x \in Seq(OpenedFiles), f \in OpenedFiles : Append(x, f) \in Seq(OpenedFiles)
    OBVIOUS
  <2> QED BY <1>3, <1>4, <2>1
<1>6. m \in Slots /\ m \in Nat
  BY <1>3, FilesAssumption DEF Slots
<1>7. r \in ReaderRecords /\ r.files = files /\ r.number = m
      /\ r.at = IF last THEN "check" ELSE "open"
  BY <1>5, <1>6 DEF ReaderRecords, ReaderPlaces
<1>8. reader' = [reader EXCEPT ![q] = r]
  <2>1. reader' = [reader EXCEPT ![q].files = r.files, ![q].number = r.number, ![q].at = r.at]
    BY <1>1, <1>7
  <2>2. r = [at |-> r.at, number |-> r.number, files |-> r.files]
    OBVIOUS
  <2>3. reader[q] = [at |-> reader[q].at, number |-> reader[q].number, files |-> reader[q].files]
    BY <1>3
  <2> HIDE DEF r, files, m, n
  <2> QED BY <2>1, <2>2, <2>3
<1> HIDE DEF r, files, m
<1>9. open' = [open EXCEPT ![q] = o]
  BY <1>1, <1>2 DEF ReadersTyped
<1> HIDE DEF o, taken
<1>10. /\ Moves(reader, reader', q, ReaderRecords) /\ Moves(open, open', q, SUBSET Inodes)
       /\ Moves(told, told', q, Seq(Events)) /\ Moves(view, view', q, Seq(Events))
  BY <1>1, <1>5, <1>7, <1>8, <1>9 DEF Moves
<1>11. Locks(q)
  BY <1>1 DEF Locks
<1>12. Only(q)
  BY <1>1, <1>2, <1>10, <1>11, OnlyMoves
<1>13. reader'[q] = r /\ open'[q] = o
  BY <1>2, <1>8, <1>9 DEF ReadersTyped
<1> QED BY <1>1, <1>6, <1>7, <1>12, <1>13 DEF files, o, m, taken, journal, history

-----------------------------------------------------------------------------
(***************************************************************************)
(* The steps of an exporter.                                               *)
(***************************************************************************)
LEMMA RestingIs ==
  ASSUME NEW step \in ReaderPlaces
  PROVE  /\ [Resting EXCEPT !.at = step] \in ReaderRecords
         /\ [Resting EXCEPT !.at = step].at = step
         /\ [Resting EXCEPT !.at = step].files = <<>>
         /\ Resting \in ReaderRecords /\ Resting.at = "idle" /\ Resting.files = <<>>
<1>1. [Resting EXCEPT !.at = step] = [at |-> step, number |-> 0, files |-> <<>>]
  BY DEF Resting
<1>2. Resting = [at |-> "idle", number |-> 0, files |-> <<>>]
  BY DEF Resting
<1>3. <<>> \in Seq(OpenedFiles)
  OBVIOUS
<1> QED BY <1>1, <1>2, <1>3 DEF ReaderRecords, ReaderPlaces

LEMMA SequencesGrow ==
  /\ <<>> \in Seq(Events)
  /\ \A x, y \in Seq(Events) : x \o y \in Seq(Events) /\ Len(x \o y) = Len(x) + Len(y)
  /\ \A x \in Seq(Events) : x \o <<>> = x /\ (Len(x) = 0 <=> x = <<>>) /\ Len(x) \in Nat
OBVIOUS

(* Whatever the journal retains is a part of the log.                      *)
LEMMA RetainedPart ==
  ASSUME JInv, NEW s \in [0 .. Files -> Nat], Chain(s)
  PROVE  /\ Retained \in Seq(Events) /\ s[Files] \in Nat
         /\ Part(Retained, s[Files], log) /\ s[Files] + Len(Retained) = Len(log)
         /\ s[0] = Len(log)
<1> DEFINE a == s[Files]
           x == SubSeq(log, a + 1, Len(log))
<1>1. /\ log \in Seq(Events) /\ Len(log) \in Nat /\ a \in 0 .. Len(log) /\ Retained = x
  <2>1. log \in Seq(Events) /\ Len(log) \in Nat
    BY DEF JInv, TypeOK
  <2>2. a \in 0 .. Len(log) /\ Retained = x
    BY RetainedFrom
  <2> QED BY <2>1, <2>2
<1>2. \A k \in a + 1 .. Len(log) : log[k] \in Events
  BY <1>1
<1>3. /\ x \in Seq(Events)
      /\ Len(x) = IF a + 1 <= Len(log) THEN Len(log) - (a + 1) + 1 ELSE 0
      /\ \A k \in 1 .. Len(log) - (a + 1) + 1 : x[k] = log[(a + 1) + k - 1]
  <2> DEFINE b == a + 1
             N == Len(log)
  <2>1. b \in Int /\ N \in Int /\ \A k \in b .. N : log[k] \in Events
    BY <1>1, <1>2
  <2> HIDE DEF b, N
  <2>2. /\ SubSeq(log, b, N) \in Seq(Events)
        /\ Len(SubSeq(log, b, N)) = IF b <= N THEN N - b + 1 ELSE 0
        /\ \A k \in 1 .. N - b + 1 : SubSeq(log, b, N)[k] = log[b + k - 1]
    BY <2>1, SubSeqProperties
  <2> QED BY <2>2 DEF b, N
<1> HIDE DEF x, a
<1>4. Len(x) = Len(log) - a /\ \A k \in 1 .. Len(x) : x[k] = log[a + k]
  <2>1. Len(x) = Len(log) - a
    BY <1>1, <1>3
  <2>2. \A k \in 1 .. Len(x) : (a + 1) + k - 1 = a + k /\ k \in 1 .. Len(log) - (a + 1) + 1
    BY <1>1, <2>1
  <2> QED BY <1>3, <2>1, <2>2
<1>5. Part(x, a, log)
  BY <1>1, <1>4 DEF Part
<1> QED BY <1>1, <1>3, <1>4, <1>5 DEF a, Chain

(* An exporter leaves with what it has shown.                              *)
LEMMA ExporterLeaves ==
  ASSUME RInv, NEW q \in Exporters, NEW step \in {"idle", "end", "refused"}, Leave(q, step),
         UNCHANGED session,
         step = "refused" => told[q] = <<>>,
         step = "end" => Len(told[q]) = Len(view[q])
  PROVE  RInv'
<1>1. /\ q \in Readers /\ q \notin Pagers /\ ReadersTyped /\ ExporterOK(q) /\ step \in ReaderPlaces
  BY ReadersAssumption DEF RInv, ReaderPlaces
<1>2. /\ reader' = [reader EXCEPT ![q] = [Resting EXCEPT !.at = step]]
      /\ open' = [open EXCEPT ![q] = {}] /\ lock' = lock \ {q}
      /\ UNCHANGED <<journal, writer, made, history, page, cursor, told, view>>
  BY <1>1 DEF Leave, Released, session
<1>3. /\ Moves(reader, reader', q, ReaderRecords) /\ Moves(open, open', q, SUBSET Inodes)
      /\ Moves(told, told', q, Seq(Events)) /\ Moves(view, view', q, Seq(Events)) /\ Locks(q)
  BY <1>1, <1>2, RestingIs DEF Moves, Locks
<1>4. Only(q)
  BY <1>1, <1>2, <1>3, OnlyMoves
<1>5. reader'[q].at = step /\ told' = told /\ view' = view /\ log' = log
  BY <1>1, <1>2, RestingIs DEF ReadersTyped, history
<1>6. PICK lo \in Nat : Exporting(q, lo)
  BY <1>1 DEF ExporterOK
<1>7. /\ Part(view[q], lo, log) /\ Part(told[q], lo, log)
      /\ lo + Len(told[q]) <= lo + Len(view[q])
  BY <1>6 DEF Exporting
<1>8. Exporting(q, lo)'
  BY <1>5, <1>7 DEF Exporting
<1>9. ExporterOK(q)'
  BY <1>8 DEF ExporterOK
<1> QED BY <1>1, <1>4, <1>9, OthersAlone

LEMMA ExportLockStep ==
  ASSUME RInv, NEW q \in Exporters, ExportLock(q)
  PROVE  RInv'
<1>1. /\ q \in Readers /\ q \notin Pagers /\ ReadersTyped /\ JInv
  BY ReadersAssumption DEF RInv
<1> DEFINE r == [at |-> "open", number |-> Files - 1, files |-> <<>>]
<1>2. /\ reader' = [reader EXCEPT ![q] = r] /\ lock = {} /\ lock' = {q}
      /\ told' = [told EXCEPT ![q] = <<>>] /\ view' = [view EXCEPT ![q] = Retained]
      /\ UNCHANGED <<journal, open, writer, made, history, page, cursor>>
  BY DEF ExportLock, Opening, ExclusiveFree
<1>3. /\ r \in ReaderRecords /\ r.at = "open" /\ r.number = Files - 1 /\ r.files = <<>>
      /\ Files - 1 \in Slots /\ (Files - 1) + 1 = Files
  <2>1. Files - 1 \in Nat /\ Files - 1 \in Slots /\ (Files - 1) + 1 = Files
    BY FilesAssumption DEF Slots
  <2> QED BY <2>1 DEF ReaderRecords, ReaderPlaces
<1> HIDE DEF r
<1>4. PICK s \in [0 .. Files -> Nat] : Chain(s)
  BY <1>1 DEF JInv, Chained
<1>5. /\ Retained \in Seq(Events) /\ s[Files] \in Nat
      /\ Part(Retained, s[Files], log) /\ s[Files] + Len(Retained) = Len(log)
  BY <1>1, <1>4, RetainedPart
<1>6. /\ Moves(reader, reader', q, ReaderRecords) /\ Moves(open, open', q, SUBSET Inodes)
      /\ Moves(told, told', q, Seq(Events)) /\ Moves(view, view', q, Seq(Events)) /\ Locks(q)
  BY <1>2, <1>3, <1>5, SequencesGrow DEF Moves, Locks
<1>7. Only(q)
  BY <1>1, <1>2, <1>6, OnlyMoves
<1>8. /\ reader'[q] = r /\ told'[q] = <<>> /\ view'[q] = Retained /\ log' = log
      /\ q \in lock' /\ dir' = dir /\ content' = content
  BY <1>1, <1>2 DEF ReadersTyped, history, journal
<1>9. Chain(s)'
  BY <1>4, <1>8 DEF Chain, Holds, Recs
<1>10. Part(<<>>, s[Files], log) /\ Len(<<>>) = 0
  BY <1>1, <1>5, SequencesGrow DEF Part, JInv, TypeOK
<1>11. Ascends(<<>>, s[Files], s[Files], log) /\ AllHeld(<<>>, open'[q], content')
  BY <1>5, AscendsEmpty DEF AllHeld
<1>12. s[Files] + 0 <= s[Files] + Len(Retained)
  BY <1>5, SequencesGrow
<1>13. Exporting(q, s[Files])'
  BY <1>3, <1>5, <1>8, <1>9, <1>10, <1>11, <1>12 DEF Exporting
<1>14. ExporterOK(q)'
  BY <1>5, <1>13 DEF ExporterOK
<1> QED BY <1>1, <1>7, <1>14, OthersAlone

LEMMA ExportOpenStep ==
  ASSUME RInv, NEW q \in Exporters, OpenFile(q)
  PROVE  RInv'
<1> DEFINE n == reader[q].number
<1>1. /\ q \in Readers /\ q \notin Pagers /\ ReadersTyped /\ ExporterOK(q) /\ reader[q].at = "open"
  BY ReadersAssumption DEF RInv, OpenFile
<1>2. PICK lo \in Nat : Exporting(q, lo)
  BY <1>1 DEF ExporterOK
<1>3. /\ q \in lock /\ n \in Slots /\ AllHeld(reader[q].files, open[q], content)
      /\ Part(view[q], lo, log) /\ told[q] = <<>> /\ Part(told[q], lo, log)
      /\ lo + Len(told[q]) <= lo + Len(view[q])
      /\ lo + Len(view[q]) = Len(log)
  BY <1>1, <1>2 DEF Exporting
<1>4. PICK s \in [0 .. Files -> Nat] :
        Chain(s) /\ lo = s[Files] /\ Ascends(reader[q].files, lo, s[n + 1], log)
  BY <1>1, <1>2 DEF Exporting
<1>5. /\ Only(q) /\ UNCHANGED <<told, view, dir, content, log>>
      /\ reader'[q].at = IF n = 0 THEN "check" ELSE "open"
      /\ n # 0 => q \in lock' /\ reader'[q].number \in Slots /\ reader'[q].number = n - 1
      /\ open'[q] = IF dir[n] # None THEN open[q] \cup {dir[n]} ELSE open[q]
      /\ reader'[q].files = IF dir[n] # None THEN Append(reader[q].files, AsOpened(dir[n]))
                            ELSE reader[q].files
  BY <1>1, <1>3, OpenFileMoves DEF Takes
<1>6. n \in Nat /\ n \in 0 .. Files /\ n + 1 \in 0 .. Files /\ s[n] \in Nat /\ s[n + 1] \in Nat
      /\ Holds(s, n) /\ s[0] = Len(log)
  <2>1. n \in Slots
    BY <1>3
  <2> HIDE DEF n
  <2>2. n \in Nat /\ n \in 0 .. Files /\ n + 1 \in 0 .. Files
    BY <2>1, FilesAssumption DEF Slots
  <2>3. Holds(s, n) /\ s[0] = Len(log)
    BY <1>4, <2>1 DEF Chain
  <2> QED BY <2>2, <2>3
<1>7. reader[q].files \in Seq(OpenedFiles)
  BY <1>1, ReaderTypes
<1>8. Ascends(reader'[q].files, lo, s[n], log) /\ AllHeld(reader'[q].files, open'[q], content)
  <2>1. CASE dir[n] = None
    <3>1. s[n] = s[n + 1]
      BY <1>6, <2>1 DEF Holds, Recs
    <3> QED BY <1>3, <1>4, <1>5, <2>1, <3>1
  <2>2. CASE dir[n] # None
    <3> DEFINE f == AsOpened(dir[n])
               o == open[q] \cup {dir[n]}
    <3>1. /\ f \in OpenedFiles /\ Held(f, o, content) /\ Begins(f, s[n + 1], log)
          /\ s[n] = s[n + 1] + f.count
      BY <1>3, <1>4, <2>2, AsOpenedIs
    <3> HIDE DEF f
    <3>2. Ascends(Append(reader[q].files, f), lo, s[n], log)
      BY <1>4, <1>6, <1>7, <3>1, AscendsAppend
    <3>3. AllHeld(Append(reader[q].files, f), o, content)
      BY <1>3, <1>7, <3>1, HeldMore
    <3> QED BY <1>5, <2>2, <3>2, <3>3 DEF f
  <2> QED BY <2>1, <2>2
<1>9. Chain(s)'
  BY <1>4, <1>5 DEF Chain, Holds, Recs
<1>10. n # 0 => s[(n - 1) + 1] = s[n]
  BY <1>6
<1>11. Exporting(q, lo)'
  <2>1. CASE n = 0
    <3>1. Ascends(reader'[q].files, lo + Len(told[q]), lo + Len(view[q]), log)
      BY <1>3, <1>6, <1>8, <2>1
    <3> QED BY <1>3, <1>5, <1>8, <2>1, <3>1 DEF Exporting
  <2>2. CASE n # 0
    BY <1>3, <1>4, <1>5, <1>8, <1>9, <1>10, <2>2 DEF Exporting
  <2> QED BY <2>1, <2>2
<1>12. ExporterOK(q)'
  BY <1>11 DEF ExporterOK
<1> QED BY <1>1, <1>5, <1>12, OthersAlone

(* What is read of a file is the part of the log that it was opened for,   *)
(* whatever has become of its name, and whatever was appended since.       *)
LEMMA FileReads ==
  ASSUME RInv, NEW f \in OpenedFiles, NEW o \in SUBSET Inodes, Held(f, o, content),
         NEW a \in Nat, Begins(f, a, log)
  PROVE  /\ f.count \in Nat /\ a + f.count <= Len(log)
         /\ f.count <= Len(content[f.inode].recs) /\ content[f.inode].recs \in Seq(Events)
         /\ \A k \in 1 .. f.count : content[f.inode].recs[k] = log[a + k]
<1> DEFINE i == f.inode
           x == content[i].recs
<1>1. i \in Inodes /\ InodeOK(i) /\ x \in Seq(Events) /\ log \in Seq(Events) /\ Distinct(log)
      /\ f.count \in Nat
  BY DEF Held, RInv, JInv, TypeOK, FileRecords, Once, OpenedFiles
<1>2. PICK b \in Nat : Part(x, b, log)
  BY <1>1 DEF InodeOK
<1>3. f.count <= Len(x) /\ (f.count > 0 => x[1] = log[a + 1])
  BY DEF Held, Begins
<1>4. a + f.count <= Len(log)
  BY DEF Begins
<1> HIDE DEF x, i
<1>5. \A k \in 1 .. f.count : x[k] = log[a + k]
  BY <1>1, <1>2, <1>3, <1>4, SameBeginning
<1> QED BY <1>1, <1>3, <1>4, <1>5 DEF x, i

LEMMA UptoPart ==
  ASSUME RInv, NEW f \in OpenedFiles, NEW o \in SUBSET Inodes, Held(f, o, content),
         NEW a \in Nat, Begins(f, a, log)
  PROVE  Upto(f) \in Seq(Events) /\ Len(Upto(f)) = f.count /\ Part(Upto(f), a, log)
<1> DEFINE x == content[f.inode].recs
           u == SubSeq(x, 1, f.count)
<1>1. /\ f.count \in Nat /\ a + f.count <= Len(log) /\ f.count <= Len(x) /\ x \in Seq(Events)
      /\ \A k \in 1 .. f.count : x[k] = log[a + k]
  BY FileReads
<1> HIDE DEF x
<1>2. \A k \in 1 .. f.count : x[k] \in Events
  <2> TAKE k \in 1 .. f.count
  <2>1. k \in 1 .. Len(x)
    BY <1>1
  <2> QED BY <1>1, <2>1
<1>3. /\ u \in Seq(Events)
      /\ Len(u) = IF 1 <= f.count THEN f.count - 1 + 1 ELSE 0
      /\ \A k \in 1 .. f.count - 1 + 1 : u[k] = x[1 + k - 1]
  <2>1. 1 \in Int /\ f.count \in Int
    BY <1>1
  <2> QED BY <1>2, <2>1, SubSeqProperties
<1> HIDE DEF u
<1>4. Len(u) = f.count
  BY <1>1, <1>3
<1>5. \A k \in 1 .. f.count : k \in 1 .. f.count - 1 + 1 /\ 1 + k - 1 = k
  BY <1>1
<1>6. \A k \in 1 .. Len(u) : u[k] = log[a + k]
  BY <1>1, <1>3, <1>4, <1>5
<1>7. Part(u, a, log)
  BY <1>1, <1>4, <1>6 DEF Part
<1> QED BY <1>3, <1>4, <1>7 DEF Upto, u, x

LEMMA YieldStep ==
  ASSUME RInv, NEW q \in Exporters, Yield(q)
  PROVE  RInv'
<1> DEFINE files == reader[q].files
           f == Head(files)
           t == told[q] \o Upto(f)
           r == [at |-> "yield", number |-> reader[q].number, files |-> Tail(files)]
<1>1. /\ q \in Readers /\ q \notin Pagers /\ ReadersTyped /\ ExporterOK(q) /\ reader[q].at = "yield"
      /\ files # <<>>
  BY ReadersAssumption DEF RInv, Yield
<1>2. PICK lo \in Nat : Exporting(q, lo)
  BY <1>1 DEF ExporterOK
<1>3. /\ files \in Seq(OpenedFiles) /\ told[q] \in Seq(Events) /\ view[q] \in Seq(Events)
      /\ Len(told[q]) \in Nat /\ Len(view[q]) \in Nat /\ open[q] \in SUBSET Inodes
      /\ reader[q].number \in Nat
      /\ reader[q] = [at |-> "yield", number |-> reader[q].number, files |-> files]
  BY <1>1, ReaderTypes
<1>4. /\ Ascends(files, lo + Len(told[q]), lo + Len(view[q]), log)
      /\ AllHeld(files, open[q], content)
      /\ Part(view[q], lo, log) /\ Part(told[q], lo, log)
  BY <1>1, <1>2 DEF Exporting
<1>5. \A T : \A x \in Seq(T) : x # <<>> =>
        /\ Head(x) \in T /\ Head(x) = x[1] /\ Tail(x) \in Seq(T) /\ 1 \in 1 .. Len(x)
        /\ Len(x) \in Nat /\ Len(Tail(x)) = Len(x) - 1
        /\ \A k \in 1 .. Len(x) - 1 : Tail(x)[k] = x[k + 1] /\ k + 1 \in 1 .. Len(x)
  OBVIOUS
<1>6. f \in OpenedFiles /\ Tail(files) \in Seq(OpenedFiles) /\ Held(f, open[q], content)
  BY <1>1, <1>3, <1>4, <1>5 DEF AllHeld
<1>7. /\ Begins(f, lo + Len(told[q]), log)
      /\ Ascends(Tail(files), lo + Len(told[q]) + f.count, lo + Len(view[q]), log)
      /\ lo + Len(told[q]) + f.count <= lo + Len(view[q])
  <2>1. lo + Len(told[q]) \in Nat /\ lo + Len(view[q]) \in Nat
    BY <1>3
  <2> QED BY <1>1, <1>3, <1>4, <2>1, AscendsTail
<1>8. /\ Upto(f) \in Seq(Events) /\ Len(Upto(f)) = f.count
      /\ Part(Upto(f), lo + Len(told[q]), log)
  <2>1. lo + Len(told[q]) \in Nat
    BY <1>3
  <2> QED BY <1>3, <1>6, <1>7, <2>1, UptoPart
<1>9. t \in Seq(Events) /\ Len(t) = Len(told[q]) + f.count /\ Part(t, lo, log)
  <2>1. log \in Seq(Events)
    BY DEF RInv, JInv, TypeOK
  <2> DEFINE u == Upto(f)
  <2>2. u \in Seq(Events) /\ Len(u) = f.count /\ Part(u, lo + Len(told[q]), log)
    BY <1>8
  <2>3. t = told[q] \o u
    OBVIOUS
  <2> HIDE DEF f, u, t
  <2>4. t \in Seq(Events) /\ Len(t) = Len(told[q]) + Len(u)
    BY <1>3, <2>2, <2>3, SequencesGrow
  <2>5. Part(t, lo, log)
    BY <1>3, <1>4, <2>1, <2>2, <2>3, PartConcat
  <2> QED BY <2>2, <2>4, <2>5
<1>10. AllHeld(Tail(files), open[q], content)
  BY <1>1, <1>3, <1>4, <1>5 DEF AllHeld
<1>11. /\ told' = [told EXCEPT ![q] = t] /\ reader' = [reader EXCEPT ![q] = r]
       /\ UNCHANGED <<journal, open, lock, writer, made, history, page, cursor, view>>
  <2>1. /\ told' = [told EXCEPT ![q] = t] /\ reader' = [reader EXCEPT ![q].files = Tail(files)]
        /\ UNCHANGED <<journal, open, lock, writer, made, history, page, cursor, view>>
    BY <1>1, <1>3 DEF Yield, vars, history, ReadersTyped
  <2>2. \A x : [reader[q] EXCEPT !.files = x] =
                [at |-> "yield", number |-> reader[q].number, files |-> x]
    BY <1>3
  <2>3. reader' = [reader EXCEPT ![q] = [reader[q] EXCEPT !.files = Tail(files)]]
    BY <2>1
  <2> QED BY <2>1, <2>2, <2>3
<1>12. /\ r \in ReaderRecords /\ r.at = "yield" /\ r.files = Tail(files)
  BY <1>3, <1>6 DEF ReaderRecords, ReaderPlaces
<1> HIDE DEF r, t
<1>13. /\ Moves(reader, reader', q, ReaderRecords) /\ Moves(open, open', q, SUBSET Inodes)
       /\ Moves(told, told', q, Seq(Events)) /\ Moves(view, view', q, Seq(Events)) /\ Locks(q)
  BY <1>9, <1>11, <1>12 DEF Moves, Locks
<1>14. Only(q)
  BY <1>1, <1>11, <1>13, OnlyMoves
<1>15. /\ reader'[q] = r /\ told'[q] = t /\ view'[q] = view[q] /\ log' = log
       /\ open'[q] = open[q] /\ content' = content
  BY <1>1, <1>11 DEF ReadersTyped, history, journal
<1>16. lo + Len(t) = lo + Len(told[q]) + f.count
  <2> HIDE DEF f
  <2>1. f.count \in Nat
    BY <1>6 DEF OpenedFiles
  <2> QED BY <1>3, <1>9, <2>1
<1>17. Exporting(q, lo)'
  <2> HIDE DEF f, files
  <2> QED BY <1>4, <1>7, <1>9, <1>10, <1>12, <1>15, <1>16 DEF Exporting
<1>18. ExporterOK(q)'
  BY <1>17 DEF ExporterOK
<1> QED BY <1>1, <1>14, <1>18, OthersAlone

LEMMA ExporterStep ==
  ASSUME RInv, NEW q \in Exporters, ExporterNext(q)
  PROVE  RInv'
<1>1. /\ q \in Readers /\ q \notin Pagers /\ ReadersTyped /\ ExporterOK(q)
  BY ReadersAssumption DEF RInv
<1>2. PICK lo \in Nat : Exporting(q, lo)
  BY <1>1 DEF ExporterOK
<1>3. /\ told[q] \in Seq(Events) /\ view[q] \in Seq(Events)
      /\ Len(told[q]) \in Nat /\ Len(view[q]) \in Nat /\ log \in Seq(Events)
  BY <1>1, ReaderTypes DEF RInv, JInv, TypeOK
<1>4. CASE ExportLock(q)
  BY <1>4, ExportLockStep
<1>5. CASE OpenFile(q)
  BY <1>5, ExportOpenStep
<1>6. CASE Validate(q)
  <2> DEFINE r == [reader[q] EXCEPT !.at = "yield"]
  <2>1. /\ reader' = [reader EXCEPT ![q] = r] /\ reader[q].at = "check"
        /\ UNCHANGED <<journal, open, lock, writer, made, history, page, cursor, told, view>>
    BY <1>6 DEF Validate, vars, session
  <2>2. r \in ReaderRecords /\ r.at = "yield" /\ r.files = reader[q].files
    BY <1>1, ReaderTypes DEF ReaderRecords, ReaderPlaces
  <2> HIDE DEF r
  <2>3. /\ Moves(reader, reader', q, ReaderRecords) /\ Moves(open, open', q, SUBSET Inodes)
        /\ Moves(told, told', q, Seq(Events)) /\ Moves(view, view', q, Seq(Events)) /\ Locks(q)
    BY <2>1, <2>2 DEF Moves, Locks
  <2>4. Only(q)
    BY <1>1, <2>1, <2>3, OnlyMoves
  <2>5. /\ reader'[q] = r /\ told' = told /\ view' = view /\ log' = log /\ open' = open
        /\ content' = content
    BY <1>1, <2>1 DEF ReadersTyped, history, journal
  <2>6. Exporting(q, lo)'
    BY <1>2, <2>1, <2>2, <2>5 DEF Exporting
  <2> QED BY <1>1, <2>4, <2>6, OthersAlone DEF ExporterOK
<1>7. CASE Refuse(q)
  <2>1. told[q] = <<>>
    BY <1>2, <1>7 DEF Refuse, Exporting
  <2> QED BY <1>7, <2>1, ExporterLeaves DEF Refuse
<1>8. CASE Yield(q)
  BY <1>8, YieldStep
<1>9. CASE Exported(q)
  <2>1. reader[q].at = "yield" /\ reader[q].files = <<>>
    BY <1>9 DEF Exported
  <2>2. PICK c \in Cuts(<<>>) : Up(<<>>, c, lo + Len(told[q]), lo + Len(view[q]), log)
    BY <1>2, <2>1 DEF Exporting, Ascends
  <2>3. lo + Len(told[q]) = lo + Len(view[q])
    BY <2>2 DEF Up
  <2> QED BY <1>3, <1>9, <2>3, ExporterLeaves DEF Exported
<1>10. CASE ExportReturn(q)
  <2>1. /\ reader' = [reader EXCEPT ![q] = Resting]
        /\ told' = [told EXCEPT ![q] = <<>>] /\ view' = [view EXCEPT ![q] = <<>>]
        /\ UNCHANGED <<journal, open, lock, writer, made, history, page, cursor>>
    BY <1>10 DEF ExportReturn, vars
  <2>2. /\ Moves(reader, reader', q, ReaderRecords) /\ Moves(open, open', q, SUBSET Inodes)
        /\ Moves(told, told', q, Seq(Events)) /\ Moves(view, view', q, Seq(Events)) /\ Locks(q)
    BY <2>1, RestingIs, SequencesGrow DEF Moves, Locks, ReaderPlaces
  <2>3. Only(q)
    BY <1>1, <2>1, <2>2, OnlyMoves
  <2>4. reader'[q].at = "idle" /\ told'[q] = <<>> /\ view'[q] = <<>> /\ log' = log
    BY <1>1, <2>1 DEF ReadersTyped, history, Resting
  <2>5. Part(<<>>, 0, log) /\ 0 + Len(<<>>) <= 0 + Len(<<>>)
    BY <1>3 DEF Part
  <2>6. Exporting(q, 0)'
    BY <2>4, <2>5 DEF Exporting
  <2> QED BY <1>1, <2>3, <2>6, OthersAlone DEF ExporterOK
<1>11. CASE GiveUp(q)
  BY <1>11, ExporterLeaves DEF GiveUp
<1> QED BY <1>4, <1>5, <1>6, <1>7, <1>8, <1>9, <1>10, <1>11 DEF ExporterNext

-----------------------------------------------------------------------------
(***************************************************************************)
(* What a pager does.                                                      *)
(***************************************************************************)
LEMMA NothingTyped == NoCursor \in CursorRecords /\ NoPage \in PageRecords
<1>1. <<>> \in Seq(OpenedFiles) /\ <<>> \in Seq(Events)
  OBVIOUS
<1>2. NoCursor \in CursorRecords
  BY <1>1 DEF NoCursor, CursorRecords
<1> QED BY <1>1, <1>2 DEF NoPage, PageRecords

LEMMA PagerStays ==
  ASSUME ReadersTyped, NEW q \in Pagers
  PROVE  /\ reader = [reader EXCEPT ![q] = reader[q]] /\ open = [open EXCEPT ![q] = open[q]]
         /\ page = [page EXCEPT ![q] = page[q]] /\ cursor = [cursor EXCEPT ![q] = cursor[q]]
         /\ told = [told EXCEPT ![q] = told[q]] /\ view = [view EXCEPT ![q] = view[q]]
BY DEF ReadersTyped

LEMMA PagerMoves ==
  ASSUME RInv, NEW q \in Pagers, NEW r \in ReaderRecords, NEW o \in SUBSET Inodes,
         NEW g \in PageRecords, NEW c \in CursorRecords, NEW t \in Seq(Events),
         NEW v \in Seq(Events), Locks(q), UNCHANGED <<journal, writer, made, history>>,
         reader' = [reader EXCEPT ![q] = r], open' = [open EXCEPT ![q] = o],
         page' = [page EXCEPT ![q] = g], cursor' = [cursor EXCEPT ![q] = c],
         told' = [told EXCEPT ![q] = t], view' = [view EXCEPT ![q] = v]
  PROVE  /\ Only(q) /\ UNCHANGED <<log, content, dir>>
         /\ reader'[q] = r /\ open'[q] = o /\ page'[q] = g /\ cursor'[q] = c
         /\ told'[q] = t /\ view'[q] = v
<1>1. ReadersTyped /\ q \in Readers
  BY ReadersAssumption DEF RInv
<1>2. /\ Moves(reader, reader', q, ReaderRecords) /\ Moves(open, open', q, SUBSET Inodes)
      /\ Moves(told, told', q, Seq(Events)) /\ Moves(view, view', q, Seq(Events))
      /\ Moves(page, page', q, PageRecords) /\ Moves(cursor, cursor', q, CursorRecords)
  BY DEF Moves
<1>3. Only(q)
  BY <1>1, <1>2, OnlyMoves
<1>4. UNCHANGED <<log, content, dir>>
  BY DEF journal, history
<1> QED BY <1>1, <1>3, <1>4 DEF ReadersTyped

LEMMA PagerDone ==
  ASSUME RInv, NEW q \in Pagers, Only(q), NEW lo \in Nat, Browsing(q, lo)'
  PROVE  RInv'
<1>1. q \in Readers /\ q \notin Exporters
  BY ReadersAssumption
<1>2. BrowserOK(q)'
  BY DEF BrowserOK
<1> QED BY <1>1, <1>2, OthersAlone

(* However a request ends, its pager is left with what has been told.      *)
LEMMA PagerLeaves ==
  ASSUME RInv, NEW q \in Pagers, NEW step \in {"idle", "end"}, Leave(q, step),
         NEW lo \in Nat, Browsing(q, lo), NEW t \in Seq(Events), NEW c \in CursorRecords,
         told' = [told EXCEPT ![q] = t], cursor' = [cursor EXCEPT ![q] = c], view' = view,
         NEW p \in lo .. lo + Len(view[q]), Told(t, p, lo + Len(view[q]), log),
         c # NoCursor => ToldTo(t, c, lo, lo + Len(view[q]), log),
         step = "end" => p = lo
  PROVE  RInv'
<1> DEFINE r == [Resting EXCEPT !.at = step]
<1>1. ReadersTyped /\ q \in Readers /\ view[q] \in Seq(Events)
  BY PagerTypes, ReaderTypes DEF RInv
<1>2. r \in ReaderRecords /\ r.at = step
  <2>1. step \in ReaderPlaces
    BY DEF ReaderPlaces
  <2> QED BY <2>1, RestingIs
<1>3. /\ reader' = [reader EXCEPT ![q] = r] /\ open' = [open EXCEPT ![q] = {}]
      /\ lock' = lock \ {q} /\ page' = [page EXCEPT ![q] = NoPage]
      /\ UNCHANGED <<journal, writer, made, history>>
  BY DEF Leave, Released
<1> HIDE DEF r
<1>4. Locks(q) /\ view' = [view EXCEPT ![q] = view[q]]
  BY <1>1, <1>3, PagerStays DEF Locks
<1>5. /\ Only(q) /\ UNCHANGED <<log, content, dir>> /\ reader'[q] = r
      /\ cursor'[q] = c /\ told'[q] = t /\ view'[q] = view[q]
  BY <1>1, <1>2, <1>3, <1>4, NothingTyped, PagerMoves
<1>6. Part(view[q], lo, log)
  BY DEF Browsing
<1>7. Browsing(q, lo)'
  BY <1>2, <1>5, <1>6 DEF Browsing
<1> QED BY <1>5, <1>7, PagerDone

LEMMA PagerAbandons ==
  ASSUME RInv, NEW q \in Pagers, Leave(q, "idle"), UNCHANGED session
  PROVE  RInv'
<1>1. ReadersTyped /\ BrowserOK(q) /\ told' = told /\ cursor' = cursor /\ view' = view
  BY DEF RInv, session
<1>2. PICK lo \in Nat : Browsing(q, lo)
  BY <1>1 DEF BrowserOK
<1>3. PICK p \in lo .. lo + Len(view[q]) : Told(told[q], p, lo + Len(view[q]), log)
  BY <1>2 DEF Browsing
<1>4. cursor[q] # NoCursor => ToldTo(told[q], cursor[q], lo, lo + Len(view[q]), log)
  BY <1>2 DEF Browsing
<1>5. told[q] \in Seq(Events) /\ cursor[q] \in CursorRecords
  BY <1>1, PagerTypes, ReaderTypes
<1>6. told' = [told EXCEPT ![q] = told[q]] /\ cursor' = [cursor EXCEPT ![q] = cursor[q]]
  BY <1>1, PagerStays
<1> QED BY <1>1, <1>2, <1>3, <1>4, <1>5, <1>6, PagerLeaves

LEMMA CursorExpiredStep ==
  ASSUME RInv, NEW q \in Pagers, CursorExpired(q)
  PROVE  RInv'
<1>1. /\ ReadersTyped /\ BrowserOK(q) /\ told' = told /\ view' = view
      /\ cursor' = [cursor EXCEPT ![q] = NoCursor] /\ Leave(q, "idle")
  BY DEF RInv, CursorExpired
<1>2. PICK lo \in Nat : Browsing(q, lo)
  BY <1>1 DEF BrowserOK
<1>3. PICK p \in lo .. lo + Len(view[q]) : Told(told[q], p, lo + Len(view[q]), log)
  BY <1>2 DEF Browsing
<1>4. told[q] \in Seq(Events) /\ told' = [told EXCEPT ![q] = told[q]]
  BY <1>1, PagerTypes, PagerStays, ReaderTypes
<1> QED BY <1>1, <1>2, <1>3, <1>4, NothingTyped, PagerLeaves

LEMMA AnswerStep ==
  ASSUME RInv, NEW q \in Pagers, Answer(q)
  PROVE  RInv'
<1> DEFINE place == page[q].place
           t == told[q] \o page[q].found
           c == IF More(place) THEN place ELSE NoCursor
           step == IF More(place) THEN "idle" ELSE "end"
<1>1. /\ ReadersTyped /\ BrowserOK(q) /\ view' = view /\ reader[q].at = "answer"
      /\ told' = [told EXCEPT ![q] = t]
      /\ cursor' = [cursor EXCEPT ![q] = c] /\ Leave(q, step)
  BY DEF RInv, Answer, ReadersTyped
<1>2. PICK lo \in Nat : Browsing(q, lo)
  BY <1>1 DEF BrowserOK
<1> DEFINE hi == lo + Len(view[q])
<1>3. ToldTo(t, place, lo, hi, log)
  BY <1>1, <1>2 DEF Browsing
<1>4. PICK p \in lo .. hi : PlacedAt(place, lo, hi, p, log) /\ Told(t, p, hi, log)
  BY <1>3 DEF ToldTo
<1>5. /\ told[q] \in Seq(Events) /\ page[q].found \in Seq(Events) /\ place \in CursorRecords
  BY <1>1, PagerTypes, ReaderTypes
<1>6. t \in Seq(Events) /\ c \in CursorRecords /\ step \in {"idle", "end"}
  BY <1>5, SequencesGrow, NothingTyped
<1>7. c # NoCursor => ToldTo(t, c, lo, hi, log)
  BY <1>3
<1>8. step = "end" => p = lo
  <2>1. ASSUME ~More(place) PROVE p = lo
    <3>1. Len(place.files) \in Nat /\ place.index \in Nat
      BY <1>5 DEF CursorRecords
    <3>2. place.index > Len(place.files)
      BY <2>1, <3>1 DEF More
    <3>3. PICK d \in Cuts(place.files) : At(place, d, lo, p)
      BY <1>4 DEF PlacedAt
    <3> QED BY <3>2, <3>3 DEF At
  <2> QED BY <2>1
<1> HIDE DEF t, c, step
<1> QED BY <1>1, <1>2, <1>4, <1>6, <1>7, <1>8, PagerLeaves

LEMMA BeginAgainStep ==
  ASSUME RInv, NEW q \in Pagers, BeginAgain(q)
  PROVE  RInv'
<1>1. ReadersTyped /\ q \in Readers /\ log \in Seq(Events)
  BY ReadersAssumption DEF RInv, JInv, TypeOK
<1>2. /\ reader' = [reader EXCEPT ![q] = Resting] /\ cursor' = [cursor EXCEPT ![q] = NoCursor]
      /\ told' = [told EXCEPT ![q] = <<>>] /\ view' = [view EXCEPT ![q] = <<>>]
      /\ UNCHANGED <<journal, open, lock, writer, made, history, page>>
  BY DEF BeginAgain, vars
<1>3. /\ Locks(q) /\ open' = [open EXCEPT ![q] = open[q]] /\ page' = [page EXCEPT ![q] = page[q]]
      /\ open[q] \in SUBSET Inodes /\ page[q] \in PageRecords
  BY <1>1, <1>2, PagerStays, PagerTypes, ReaderTypes DEF Locks
<1>4. Resting \in ReaderRecords /\ Resting.at = "idle" /\ <<>> \in Seq(Events)
  BY RestingIs, SequencesGrow DEF ReaderPlaces
<1> DEFINE r == Resting
           c == NoCursor
           t == <<>>
           o == open[q]
           g == page[q]
<1>5. /\ r \in ReaderRecords /\ o \in SUBSET Inodes /\ g \in PageRecords /\ c \in CursorRecords
      /\ t \in Seq(Events) /\ Locks(q) /\ UNCHANGED <<journal, writer, made, history>>
      /\ reader' = [reader EXCEPT ![q] = r] /\ open' = [open EXCEPT ![q] = o]
      /\ page' = [page EXCEPT ![q] = g] /\ cursor' = [cursor EXCEPT ![q] = c]
      /\ told' = [told EXCEPT ![q] = t] /\ view' = [view EXCEPT ![q] = t]
  BY <1>2, <1>3, <1>4, NothingTyped
<1> HIDE DEF r, c, t, o, g
<1>6. /\ Only(q) /\ UNCHANGED <<log, content, dir>> /\ reader'[q] = r
      /\ cursor'[q] = c /\ told'[q] = t /\ view'[q] = t
  BY <1>5, PagerMoves
<1>7. /\ Part(t, 0, log) /\ 0 + Len(t) = 0 /\ 0 \in 0 .. 0
      /\ Told(t, 0, 0, log)
  BY <1>1, ToldNothing DEF Part, t
<1>8. Browsing(q, 0)'
  BY <1>4, <1>6, <1>7 DEF Browsing, r, c
<1> QED BY <1>6, <1>8, PagerDone

LEMMA PageStartStep ==
  ASSUME RInv, NEW q \in Pagers, PageStart(q) \/ PageBusy(q)
  PROVE  RInv'
<1> DEFINE r == IF reader[q].at = "idle" THEN [reader[q] EXCEPT !.at = "wait"] ELSE Resting
<1>1. ReadersTyped /\ q \in Readers /\ BrowserOK(q)
  BY ReadersAssumption DEF RInv
<1>2. /\ reader' = [reader EXCEPT ![q] = r]
      /\ UNCHANGED <<journal, open, lock, writer, made, history, page, cursor, told, view>>
  <2>1. CASE PageStart(q)
    BY <1>1, <2>1 DEF PageStart, vars, session, ReadersTyped
  <2>2. CASE PageBusy(q)
    BY <1>1, <2>2 DEF PageBusy, vars, session, ReadersTyped
  <2> QED BY <2>1, <2>2
<1>3. r \in ReaderRecords /\ r.at \in {"idle", "wait"}
  <2>1. CASE reader[q].at = "idle"
    <3>1. /\ reader[q] = [at |-> reader[q].at, number |-> reader[q].number, files |-> reader[q].files]
          /\ r = [reader[q] EXCEPT !.at = "wait"]
      BY <1>1, <2>1, ReaderTypes
    <3>2. r = [at |-> "wait", number |-> reader[q].number, files |-> reader[q].files]
      BY <3>1
    <3> HIDE DEF r
    <3> QED BY <1>1, <3>2, ReaderTypes DEF ReaderRecords, ReaderPlaces
  <2>2. CASE reader[q].at # "idle"
    BY <2>2, RestingIs DEF ReaderPlaces
  <2> QED BY <2>1, <2>2
<1> HIDE DEF r
<1>4. PICK lo \in Nat : Browsing(q, lo)
  BY <1>1 DEF BrowserOK
<1> DEFINE hi == lo + Len(view[q])
<1>5. /\ Part(view[q], lo, log) /\ \E p \in lo .. hi : Told(told[q], p, hi, log)
      /\ cursor[q] # NoCursor => ToldTo(told[q], cursor[q], lo, hi, log)
  BY <1>4 DEF Browsing
<1>6. /\ Moves(reader, reader', q, ReaderRecords) /\ Moves(open, open', q, SUBSET Inodes)
      /\ Moves(told, told', q, Seq(Events)) /\ Moves(view, view', q, Seq(Events)) /\ Locks(q)
  BY <1>2, <1>3 DEF Moves, Locks
<1>7. Only(q)
  BY <1>1, <1>2, <1>6, OnlyMoves
<1>8. reader'[q] = r /\ UNCHANGED <<told, view, cursor, log>>
  BY <1>1, <1>2 DEF ReadersTyped, history
<1>9. Browsing(q, lo)'
  BY <1>3, <1>5, <1>8 DEF Browsing
<1> QED BY <1>7, <1>9, PagerDone

LEMMA PageLockStep ==
  ASSUME RInv, NEW q \in Pagers, PageLock(q)
  PROVE  RInv'
<1> DEFINE r == [at |-> "open", number |-> 0, files |-> <<>>]
           anew == cursor[q] = NoCursor
           t == IF anew THEN <<>> ELSE told[q]
           v == IF anew THEN Retained ELSE view[q]
<1>1. ReadersTyped /\ q \in Readers /\ BrowserOK(q) /\ JInv
  BY ReadersAssumption DEF RInv
<1>2. /\ reader' = [reader EXCEPT ![q] = r] /\ lock \subseteq Pagers /\ lock' = lock \cup {q}
      /\ told' = [told EXCEPT ![q] = t] /\ view' = [view EXCEPT ![q] = v]
      /\ UNCHANGED <<journal, open, writer, made, history, page, cursor>>
  BY <1>1, PagerStays DEF PageLock, Opening, SharedFree
<1>3. PICK s \in [0 .. Files -> Nat] : Chain(s)
  BY <1>1 DEF JInv, Chained
<1>4. /\ Retained \in Seq(Events) /\ s[Files] \in Nat /\ s[0] = Len(log)
      /\ Part(Retained, s[Files], log) /\ s[Files] + Len(Retained) = Len(log)
  BY <1>1, <1>3, RetainedPart
<1>5. /\ r \in ReaderRecords /\ r.at = "open" /\ r.number = 0 /\ r.files = <<>> /\ 0 \in Slots
  BY FilesAssumption DEF ReaderRecords, ReaderPlaces, Slots
<1>6. t \in Seq(Events) /\ v \in Seq(Events)
  BY <1>1, <1>4, ReaderTypes, SequencesGrow
<1>7. Locks(q)
  BY <1>2, ReadersAssumption DEF Locks
<1> HIDE DEF r, t, v
<1>8. /\ Only(q) /\ reader'[q] = r /\ told'[q] = t /\ view'[q] = v
      /\ UNCHANGED <<log, content, dir, cursor>> /\ q \in lock'
  <2>1. /\ Moves(reader, reader', q, ReaderRecords) /\ Moves(open, open', q, SUBSET Inodes)
        /\ Moves(told, told', q, Seq(Events)) /\ Moves(view, view', q, Seq(Events))
    BY <1>2, <1>5, <1>6 DEF Moves
  <2>2. Only(q)
    BY <1>1, <1>2, <1>7, <2>1, OnlyMoves
  <2> QED BY <1>1, <1>2, <2>2 DEF ReadersTyped, journal, history
<1>9. AllHeld(<<>>, open'[q], content')
  BY DEF AllHeld
<1>10. CASE anew
  <2> DEFINE lo == s[Files]
             hi == lo + Len(Retained)
  <2>1. t = <<>> /\ v = Retained
    BY <1>10 DEF t, v
  <2>2. hi = s[0] /\ hi \in Nat /\ hi \in lo .. hi
    BY <1>4, SequencesGrow
  <2>3. Told(<<>>, hi, hi, log) /\ Descends(<<>>, s[0], hi, log)
    BY <2>2, ToldNothing, DescendsEmpty
  <2>4. Chain(s)'
    BY <1>3, <1>8 DEF Chain, Holds, Recs
  <2> HIDE DEF hi
  <2>5. Browsing(q, lo)'
    BY <1>3, <1>4, <1>5, <1>8, <1>9, <1>10, <2>1, <2>2, <2>3, <2>4 DEF Browsing, hi
  <2> QED BY <1>4, <1>8, <2>5, PagerDone
<1>11. CASE ~anew
  <2>1. t = told[q] /\ v = view[q]
    BY <1>11 DEF t, v
  <2>2. PICK lo \in Nat : Browsing(q, lo)
    BY <1>1 DEF BrowserOK
  <2> DEFINE hi == lo + Len(view[q])
  <2>3. /\ Part(view[q], lo, log) /\ \E p \in lo .. hi : Told(told[q], p, hi, log)
        /\ ToldTo(told[q], cursor[q], lo, hi, log)
    BY <1>11, <2>2 DEF Browsing
  <2>4. Browsing(q, lo)'
    BY <1>5, <1>8, <1>9, <1>11, <2>1, <2>3 DEF Browsing
  <2> QED BY <1>8, <2>4, PagerDone
<1> QED BY <1>10, <1>11

LEMMA PageOpenStep ==
  ASSUME RInv, NEW q \in Pagers, OpenFile(q)
  PROVE  RInv'
<1> DEFINE n == reader[q].number
           files == reader[q].files
           f == AsOpened(dir[n])
           anew == cursor[q] = NoCursor
<1>1. /\ q \in Readers /\ ReadersTyped /\ BrowserOK(q) /\ reader[q].at = "open"
      /\ files \in Seq(OpenedFiles)
  BY PagerTypes, ReaderTypes DEF RInv, OpenFile
<1>2. PICK lo \in Nat : Browsing(q, lo)
  BY <1>1 DEF BrowserOK
<1> DEFINE hi == lo + Len(view[q])
<1>3. /\ Part(view[q], lo, log) /\ \E p \in lo .. hi : Told(told[q], p, hi, log)
      /\ ~anew => ToldTo(told[q], cursor[q], lo, hi, log)
      /\ AllHeld(files, open[q], content)
      /\ anew => told[q] = <<>>
      /\ q \in lock /\ n \in Slots
  BY <1>1, <1>2 DEF Browsing
<1>4. /\ Only(q) /\ UNCHANGED <<told, view, page, cursor, dir, content, log>>
      /\ reader'[q].at = IF n = Files - 1 THEN "check" ELSE "open"
      /\ n # Files - 1 => /\ q \in lock' /\ reader'[q].number \in Slots
                          /\ reader'[q].number = n + 1
      /\ open'[q] = IF Takes(q) THEN open[q] \cup {dir[n]} ELSE open[q]
      /\ reader'[q].files = IF Takes(q) THEN Append(files, f) ELSE files
  BY <1>1, <1>3, OpenFileMoves
<1>5. PICK c \in [0 .. Files -> Nat] : Chain(c)
  BY DEF RInv, JInv, Chained
<1>6. AllHeld(reader'[q].files, open'[q], content)
  <2>1. CASE Takes(q)
    <3>1. f \in OpenedFiles /\ Held(f, open[q] \cup {dir[n]}, content)
      BY <1>3, <1>5, <2>1, AsOpenedIs DEF Takes
    <3> QED BY <1>1, <1>3, <1>4, <2>1, <3>1, HeldMore
  <2>2. CASE ~Takes(q)
    BY <1>3, <1>4, <2>2
  <2> QED BY <2>1, <2>2
<1>7. CASE anew
  <2>1. PICK s \in [0 .. Files -> Nat] :
          Chain(s) /\ lo = s[Files] /\ Descends(files, s[n], hi, log)
    BY <1>1, <1>2, <1>7 DEF Browsing
  <2>2. /\ n \in Nat /\ n \in 0 .. Files /\ n + 1 \in 0 .. Files /\ s[n] \in Nat
        /\ s[n + 1] \in Nat /\ Holds(s, n) /\ hi \in Nat
    <3>1. Len(view[q]) \in Nat
      BY <1>1, ReaderTypes
    <3>2. n \in Slots
      BY <1>3
    <3> HIDE DEF n, hi
    <3>3. n \in Nat /\ n \in 0 .. Files /\ n + 1 \in 0 .. Files
      BY <3>2, FilesAssumption DEF Slots
    <3>4. Holds(s, n)
      BY <2>1, <3>2 DEF Chain
    <3> QED BY <3>1, <3>3, <3>4 DEF hi
  <2>3. Descends(reader'[q].files, s[n + 1], hi, log)
    <3>1. CASE Takes(q)
      <4>1. /\ f \in OpenedFiles /\ Begins(f, s[n + 1], log) /\ s[n] = s[n + 1] + f.count
            /\ f.whole => f.count > 0
        <5>1. dir[n] # None /\ content[dir[n]].size > 0
          BY <3>1 DEF Takes
        <5> QED BY <1>3, <2>1, <5>1, AsOpenedIs
      <4> HIDE DEF f, hi
      <4>2. Descends(Append(files, f), s[n + 1], hi, log)
        BY <1>1, <2>1, <2>2, <4>1, DescendsAppend
      <4> QED BY <1>4, <3>1, <4>2
    <3>2. CASE ~Takes(q)
      <4>1. Recs(n) = <<>>
        <5>1. CASE dir[n] = None
          BY <5>1 DEF Recs
        <5>2. CASE dir[n] # None
          <6>1. /\ dir[n] \in Inodes /\ InodeOK(dir[n]) /\ content[dir[n]].size \in Nat
                /\ ~(content[dir[n]].size > 0)
            BY <1>3, <3>2, <5>2 DEF Takes, RInv, JInv, TypeOK, FileRecords
          <6> QED BY <5>2, <6>1 DEF InodeOK, Recs
        <5> QED BY <5>1, <5>2
      <4>2. s[n] = s[n + 1]
        BY <2>2, <4>1 DEF Holds
      <4> QED BY <1>4, <2>1, <3>2, <4>2
    <3> QED BY <3>1, <3>2
  <2>4. Chain(s)'
    BY <1>4, <2>1 DEF Chain, Holds, Recs
  <2>5. n = Files - 1 => n + 1 = Files
    BY <2>2, FilesAssumption
  <2>6. Browsing(q, lo)'
    BY <1>3, <1>4, <1>6, <1>7, <2>1, <2>3, <2>4, <2>5 DEF Browsing
  <2> QED BY <1>4, <2>6, PagerDone
<1>8. CASE ~anew
  <2>1. Browsing(q, lo)'
    BY <1>3, <1>4, <1>6, <1>8 DEF Browsing
  <2> QED BY <1>4, <2>1, PagerDone
<1> QED BY <1>7, <1>8

LEMMA CheckCursorStep ==
  ASSUME RInv, NEW q \in Pagers, CheckCursor(q)
  PROVE  RInv'
<1> DEFINE files == reader[q].files
           anew == cursor[q] = NoCursor
           place == IF anew THEN PlaceAt(files, 1) ELSE cursor[q]
           g == [place |-> place, found |-> <<>>, scanned |-> 0]
           r == [at |-> "read", number |-> reader[q].number, files |-> files]
<1>1. /\ q \in Readers /\ ReadersTyped /\ BrowserOK(q) /\ reader[q].at = "check"
      /\ files \in Seq(OpenedFiles) /\ cursor[q] \in CursorRecords /\ told[q] \in Seq(Events)
      /\ reader[q].number \in Nat
      /\ reader[q] = [at |-> reader[q].at, number |-> reader[q].number, files |-> files]
  BY PagerTypes, ReaderTypes DEF RInv, CheckCursor
<1>2. PICK lo \in Nat : Browsing(q, lo)
  BY <1>1 DEF BrowserOK
<1> DEFINE hi == lo + Len(view[q])
<1>3. /\ Part(view[q], lo, log) /\ \E p \in lo .. hi : Told(told[q], p, hi, log)
      /\ ~anew => ToldTo(told[q], cursor[q], lo, hi, log)
      /\ AllHeld(files, open[q], content)
      /\ anew => told[q] = <<>> /\ Descends(files, lo, hi, log)
  BY <1>1, <1>2 DEF Browsing
<1>4. /\ page' = [page EXCEPT ![q] = [NoPage EXCEPT !.place = place]]
      /\ reader' = [reader EXCEPT ![q] = [reader[q] EXCEPT !.at = "read"]]
      /\ UNCHANGED <<journal, open, lock, writer, made, history, cursor, told, view>>
      /\ ~anew => StillThere(q)
  BY <1>1 DEF CheckCursor, vars, session, ReadersTyped
<1>5. place \in CursorRecords
  BY <1>1, PlaceAtTyped
<1>6. g \in PageRecords /\ g.place = place /\ g.found = <<>>
  BY <1>5, SequencesGrow DEF PageRecords
<1>7. page' = [page EXCEPT ![q] = g] /\ reader' = [reader EXCEPT ![q] = r]
  <2>1. [NoPage EXCEPT !.place = place] = g
    BY DEF NoPage
  <2>2. [reader[q] EXCEPT !.at = "read"] = r
    BY <1>1
  <2> QED BY <1>4, <2>1, <2>2
<1>8. r \in ReaderRecords /\ r.at = "read" /\ r.files = files
  BY <1>1 DEF ReaderRecords, ReaderPlaces
<1> HIDE DEF g, r
<1>9. ToldTo(told[q] \o <<>>, place, lo, hi, log)
  <2>1. told[q] \o <<>> = told[q]
    BY <1>1, SequencesGrow
  <2>2. CASE anew
    <3>1. hi \in Nat /\ hi \in lo .. hi
      BY <1>1, ReaderTypes
    <3> HIDE DEF hi
    <3>2. PlacedAt(PlaceAt(files, 1), lo, hi, hi, log)
      BY <1>1, <1>3, <2>2, <3>1, PlaceStart
    <3>3. Told(told[q], hi, hi, log)
      BY <1>3, <2>2, <3>1, ToldNothing
    <3> QED BY <2>1, <2>2, <3>1, <3>2, <3>3 DEF ToldTo
  <2>3. CASE ~anew
    BY <1>3, <2>1, <2>3
  <2> QED BY <2>2, <2>3
<1>10. \A n \in place.index .. Len(place.files) : Held(place.files[n], open[q], content)
  <2>1. CASE anew
    <3>1. place.files = files /\ place.index = 1
      BY <1>1, <2>1, PlaceAtTyped
    <3> QED BY <1>3, <3>1 DEF AllHeld
  <2>2. CASE ~anew
    <3> DEFINE wanted == cursor[q].files
    <3>1. wanted \in Seq(OpenedFiles) /\ cursor[q].index \in Nat /\ place = cursor[q]
      BY <1>1, <2>2 DEF CursorRecords
    <3>2. cursor[q].index \in 1 .. Len(wanted) + 1
      BY <1>3, <2>2 DEF ToldTo, PlacedAt, At
    <3>3. ASSUME NEW n \in cursor[q].index .. Len(wanted)
          PROVE  Held(wanted[n], open[q], content)
      <4>1. PICK k \in 1 .. Len(files) : SameFile(wanted[n], files[k])
        BY <1>4, <2>2 DEF StillThere
      <4>2. n \in 1 .. Len(wanted)
        BY <3>1, <3>2
      <4>3. wanted[n] \in OpenedFiles /\ files[k] \in OpenedFiles
        BY <1>1, <3>1, <4>2
      <4>4. Held(files[k], open[q], content)
        BY <1>3 DEF AllHeld
      <4> DEFINE x == Len(content[files[k].inode].recs)
      <4>5. /\ wanted[n].count \in Nat /\ files[k].count \in Nat /\ x \in Nat
            /\ files[k].inode = wanted[n].inode /\ files[k].count >= wanted[n].count
            /\ files[k].first = wanted[n].first
            /\ files[k].count <= x
        <5>1. files[k].inode \in Inodes /\ content[files[k].inode].recs \in Seq(Events)
          BY <4>3 DEF OpenedFiles, RInv, JInv, TypeOK, FileRecords
        <5>2. x \in Nat
          BY <5>1, SequencesGrow
        <5>3. wanted[n].count \in Nat /\ files[k].count \in Nat /\ files[k].count <= x
          BY <4>3, <4>4 DEF OpenedFiles, Held
        <5> HIDE DEF x
        <5> QED BY <4>1, <5>2, <5>3 DEF SameFile
      <4> HIDE DEF x
      <4>6. wanted[n].count <= x /\ (wanted[n].count > 0 => files[k].count > 0)
        <5>1. \A l, m, h \in Nat : l >= m /\ l <= h => m <= h /\ (m > 0 => l > 0)
          OBVIOUS
        <5> QED BY <4>5, <5>1
      <4> QED BY <4>4, <4>5, <4>6 DEF Held, x
    <3> QED BY <3>1, <3>3
  <2> QED BY <2>1, <2>2
<1> HIDE DEF place
<1>11. Locks(q) /\ open' = open /\ told' = told /\ view' = view /\ cursor' = cursor
       /\ UNCHANGED <<log, content>>
  BY <1>4 DEF Locks, history, journal
<1>12. Only(q) /\ reader'[q] = r /\ page'[q] = g
  <2>1. /\ Moves(reader, reader', q, ReaderRecords) /\ Moves(open, open', q, SUBSET Inodes)
        /\ Moves(told, told', q, Seq(Events)) /\ Moves(view, view', q, Seq(Events))
        /\ Moves(page, page', q, PageRecords) /\ Moves(cursor, cursor', q, CursorRecords)
    BY <1>6, <1>7, <1>8, <1>11 DEF Moves
  <2>2. Only(q)
    BY <1>1, <1>4, <1>11, <2>1, OnlyMoves
  <2> QED BY <1>1, <1>7, <2>2 DEF ReadersTyped
<1>13. Browsing(q, lo)'
  BY <1>3, <1>6, <1>8, <1>9, <1>10, <1>11, <1>12 DEF Browsing
<1> QED BY <1>12, <1>13, PagerDone

LEMMA ReadLineStep ==
  ASSUME RInv, NEW q \in Pagers, ReadLine(q)
  PROVE  RInv'
<1> DEFINE place == page[q].place
           f == Reached(q)
           o == open[q]
           event == content[f.inode].recs[place.offset]
           old == page[q].found
           found == IF event \in Matching THEN Append(old, event) ELSE old
           next == Before(place)
           g == [place |-> next, found |-> found, scanned |-> page[q].scanned + 1]
           at == IF Len(found) = PageLimit THEN "answer" ELSE "read"
           r == [at |-> at, number |-> reader[q].number, files |-> reader[q].files]
           t == told[q] \o old
           u == told[q] \o found
<1>1. /\ q \in Readers /\ ReadersTyped /\ BrowserOK(q) /\ reader[q].at = "read"
      /\ place \in CursorRecords /\ told[q] \in Seq(Events) /\ old \in Seq(Events)
      /\ page[q].scanned \in Nat
      /\ reader[q].number \in Nat /\ reader[q].files \in Seq(OpenedFiles)
      /\ reader[q] = [at |-> reader[q].at, number |-> reader[q].number,
                      files |-> reader[q].files]
      /\ Len(view[q]) \in Nat
  BY PagerTypes, ReaderTypes DEF RInv, ReadLine
<1>2. PICK lo \in Nat : Browsing(q, lo)
  BY <1>1 DEF BrowserOK
<1> DEFINE hi == lo + Len(view[q])
<1>3. /\ Part(view[q], lo, log) /\ \E p \in lo .. hi : Told(told[q], p, hi, log)
      /\ cursor[q] # NoCursor => ToldTo(told[q], cursor[q], lo, hi, log)
      /\ ToldTo(t, place, lo, hi, log)
      /\ \A n \in place.index .. Len(place.files) : Held(place.files[n], o, content)
  BY <1>1, <1>2 DEF Browsing
<1>4. /\ page' = [page EXCEPT ![q] = g] /\ reader' = [reader EXCEPT ![q].at = at]
      /\ UNCHANGED <<journal, open, lock, writer, made, history, cursor, told, view>>
      /\ place.index <= Len(place.files) /\ f.whole /\ f = place.files[place.index]
  BY <1>1 DEF ReadLine, vars, session, ReadersTyped, More, Reached
<1>5. PICK p \in lo .. hi : PlacedAt(place, lo, hi, p, log) /\ Told(t, p, hi, log)
  BY <1>3 DEF ToldTo
<1>6. /\ log \in Seq(Events) /\ Distinct(log) /\ hi \in Nat /\ hi <= Len(log) /\ Len(log) \in Nat
  BY <1>1, <1>3 DEF RInv, JInv, TypeOK, Once, Part
<1> HIDE DEF hi, place, f, o
<1>7. /\ next \in CursorRecords /\ p - 1 \in lo .. hi /\ PlacedAt(next, lo, hi, p - 1, log)
      /\ next.files = place.files /\ next.index >= place.index
      /\ place.index \in 1 .. Len(place.files) /\ place.offset \in 1 .. f.count
      /\ \E a \in Nat : p = a + place.offset /\ Begins(f, a, log)
  <2>1. /\ place \in CursorRecords /\ lo \in Nat /\ hi \in Nat /\ log \in Seq(Events)
        /\ p \in lo .. hi /\ PlacedAt(place, lo, hi, p, log)
        /\ place.index <= Len(place.files) /\ place.files[place.index].whole
    BY <1>1, <1>4, <1>5, <1>6
  <2>2. Retreats(place, lo, hi, p, log)
    BY <2>1, PlaceBefore
  <2> QED BY <1>4, <2>2 DEF Retreats, next
<1>8. PICK a \in Nat : p = a + place.offset /\ Begins(f, a, log)
  BY <1>7
<1>9. f \in OpenedFiles /\ Held(f, o, content) /\ o \in SUBSET Inodes
  <2>1. place.files \in Seq(OpenedFiles) /\ place.index \in place.index .. Len(place.files)
    BY <1>1, <1>7 DEF CursorRecords
  <2>2. Held(place.files[place.index], o, content)
    BY <1>3, <2>1
  <2>3. place.files[place.index] \in OpenedFiles
    BY <1>7, <2>1
  <2>4. o \in SUBSET Inodes
    BY <1>1, ReaderTypes DEF o
  <2> QED BY <1>4, <2>2, <2>3, <2>4
<1>10. event = log[p] /\ p \in 1 .. Len(log) /\ event \in Events
  <2>1. /\ f.count \in Nat /\ a + f.count <= Len(log)
        /\ \A k \in 1 .. f.count : content[f.inode].recs[k] = log[a + k]
    BY <1>8, <1>9, FileReads
  <2>2. event = log[p]
    BY <1>7, <1>8, <2>1 DEF f, place
  <2>3. p \in 1 .. Len(log)
    <3>1. a + place.offset \in 1 .. Len(log)
      <4>1. \A b, k, m, h \in Nat : k \in 1 .. m /\ b + m <= h => b + k \in 1 .. h
        OBVIOUS
      <4>2. place.offset \in Nat
        BY <1>1 DEF CursorRecords
      <4> QED BY <1>6, <1>7, <1>8, <2>1, <4>1, <4>2
    <3> QED BY <1>8, <3>1
  <2> HIDE DEF event
  <2> QED BY <1>6, <2>2, <2>3
<1> HIDE DEF event, old
<1>11. found \in Seq(Events) /\ u \in Seq(Events) /\ t \in Seq(Events)
       /\ u = IF log[p] \in Matching THEN Append(t, log[p]) ELSE t
  <2>1. \A x, y \in Seq(Events), e \in Events :
          /\ Append(y, e) \in Seq(Events) /\ x \o y \in Seq(Events)
          /\ x \o Append(y, e) = Append(x \o y, e)
    OBVIOUS
  <2> QED BY <1>1, <1>10, <2>1 DEF old
<1> HIDE DEF found, next, u, t
<1>12. Told(u, p - 1, hi, log)
  <2>1. p \in Nat \ {0} /\ p <= hi
    BY <1>6, <1>10
  <2> QED BY <1>5, <1>6, <1>11, <2>1, ToldMore
<1>13. ToldTo(u, next, lo, hi, log)
  BY <1>7, <1>12 DEF ToldTo
<1>14. \A n \in next.index .. Len(next.files) : Held(next.files[n], o, content)
  <2>1. \A n \in next.index .. Len(next.files) : n \in place.index .. Len(place.files)
    <3>1. place.index \in Nat /\ next.index \in Nat
      BY <1>1, <1>7 DEF CursorRecords
    <3> QED BY <1>7, <3>1
  <2> QED BY <1>3, <1>7, <2>1
<1>15. g \in PageRecords /\ g.place = next /\ g.found = found
  <2> DEFINE n == page[q].scanned + 1
  <2>0. n \in Nat
    BY <1>1
  <2>1. next \in CursorRecords /\ found \in Seq(Events) /\ n \in Nat
    BY <1>7, <1>11, <2>0
  <2> HIDE DEF n
  <2>2. [place |-> next, found |-> found, scanned |-> n] \in PageRecords
    BY <2>1 DEF PageRecords
  <2> QED BY <2>2 DEF n
<1>16. reader' = [reader EXCEPT ![q] = r] /\ r \in ReaderRecords /\ r.at \in {"read", "answer"}
       /\ r.at \notin {"open", "check", "end"}
  <2>1. at \in {"read", "answer"}
    OBVIOUS
  <2> HIDE DEF at
  <2>2. reader' = [reader EXCEPT ![q] = [reader[q] EXCEPT !.at = at]]
    BY <1>4
  <2>3. \A x : [reader[q] EXCEPT !.at = x] =
               [at |-> x, number |-> reader[q].number, files |-> reader[q].files]
    <3>1. reader[q] = [at |-> reader[q].at, number |-> reader[q].number,
                       files |-> reader[q].files]
      BY <1>1
    <3> QED BY <3>1
  <2> QED BY <1>1, <2>1, <2>2, <2>3 DEF ReaderRecords, ReaderPlaces
<1> HIDE DEF r, g
<1>17. Locks(q) /\ open' = open /\ told' = told /\ view' = view /\ cursor' = cursor
       /\ UNCHANGED <<log, content>>
  BY <1>4 DEF Locks, history, journal
<1>18. Only(q) /\ reader'[q] = r /\ page'[q] = g
  <2>1. /\ Moves(reader, reader', q, ReaderRecords) /\ Moves(open, open', q, SUBSET Inodes)
        /\ Moves(told, told', q, Seq(Events)) /\ Moves(view, view', q, Seq(Events))
        /\ Moves(page, page', q, PageRecords) /\ Moves(cursor, cursor', q, CursorRecords)
    BY <1>4, <1>15, <1>16, <1>17 DEF Moves
  <2>2. Only(q)
    BY <1>1, <1>4, <1>17, <2>1, OnlyMoves
  <2> QED BY <1>1, <1>4, <1>16, <2>2 DEF ReadersTyped
<1>19. Browsing(q, lo)'
  BY <1>3, <1>13, <1>14, <1>15, <1>16, <1>17, <1>18 DEF Browsing, hi, o, u
<1> QED BY <1>18, <1>19, PagerDone

LEMMA EndPageStep ==
  ASSUME RInv, NEW q \in Pagers, EndPage(q)
  PROVE  RInv'
<1> DEFINE r == [reader[q] EXCEPT !.at = "answer"]
<1>1. q \in Readers /\ ReadersTyped /\ BrowserOK(q)
  BY ReadersAssumption DEF RInv
<1>2. /\ reader' = [reader EXCEPT ![q] = r] /\ reader[q].at = "read"
      /\ UNCHANGED <<journal, open, lock, writer, made, history, page, cursor, told, view>>
  BY <1>1 DEF EndPage, vars, session, ReadersTyped
<1>3. r \in ReaderRecords /\ r.at = "answer"
  BY <1>1, ReaderTypes DEF ReaderRecords, ReaderPlaces
<1> HIDE DEF r
<1>4. /\ Moves(reader, reader', q, ReaderRecords) /\ Moves(open, open', q, SUBSET Inodes)
      /\ Moves(told, told', q, Seq(Events)) /\ Moves(view, view', q, Seq(Events)) /\ Locks(q)
  BY <1>2, <1>3 DEF Moves, Locks
<1>5. Only(q)
  BY <1>1, <1>2, <1>4, OnlyMoves
<1>6. PICK lo \in Nat : Browsing(q, lo)
  BY <1>1 DEF BrowserOK
<1>7. reader'[q] = r /\ UNCHANGED <<open, page, cursor, told, view, log, content>>
  BY <1>1, <1>2 DEF ReadersTyped, history, journal
<1>8. Browsing(q, lo)'
  BY <1>2, <1>3, <1>6, <1>7 DEF Browsing
<1> QED BY <1>5, <1>8, PagerDone

LEMMA PagerNextStep ==
  ASSUME RInv, NEW q \in Pagers, PagerNext(q)
  PROVE  RInv'
<1>1. CASE PageStart(q) \/ PageBusy(q)
  BY <1>1, PageStartStep
<1>2. CASE PageLock(q)
  BY <1>2, PageLockStep
<1>3. CASE OpenFile(q)
  BY <1>3, PageOpenStep
<1>4. CASE CheckCursor(q)
  BY <1>4, CheckCursorStep
<1>5. CASE CursorExpired(q)
  BY <1>5, CursorExpiredStep
<1>6. CASE ReadLine(q)
  BY <1>6, ReadLineStep
<1>7. CASE EndPage(q)
  BY <1>7, EndPageStep
<1>8. CASE Answer(q)
  BY <1>8, AnswerStep
<1>9. CASE BeginAgain(q)
  BY <1>9, BeginAgainStep
<1>10. CASE ReadTorn(q) \/ LoseAnswer(q) \/ GiveUp(q)
  BY <1>10, PagerAbandons DEF ReadTorn, LoseAnswer, GiveUp
<1> QED BY <1>1, <1>2, <1>3, <1>4, <1>5, <1>6, <1>7, <1>8, <1>9, <1>10 DEF PagerNext, PagerStep

-----------------------------------------------------------------------------
(***************************************************************************)
(* What the invariant says of what readers have been given.                *)
(***************************************************************************)
LEMMA PartPrefix ==
  ASSUME NEW t \in Seq(Events), NEW v \in Seq(Events), NEW a \in Nat, NEW l,
         Part(t, a, l), Part(v, a, l), Len(t) <= Len(v)
  PROVE  IsPrefix(t, v) /\ (Len(t) = Len(v) => t = v)
<1> DEFINE N == Len(t)
           x == SubSeq(t, 1, N)
           y == SubSeq(v, 1, N)
<1>1. N \in Nat /\ Len(v) \in Nat /\ 1 \in Int /\ N \in Int
      /\ \A k \in 1 .. N : t[k] \in Events /\ v[k] \in Events /\ t[k] = v[k]
  BY DEF Part
<1>2. /\ x \in Seq(Events) /\ Len(x) = IF 1 <= N THEN N - 1 + 1 ELSE 0
      /\ \A k \in 1 .. N - 1 + 1 : x[k] = t[1 + k - 1]
  BY <1>1, SubSeqProperties
<1>3. /\ y \in Seq(Events) /\ Len(y) = IF 1 <= N THEN N - 1 + 1 ELSE 0
      /\ \A k \in 1 .. N - 1 + 1 : y[k] = v[1 + k - 1]
  <2>1. \A k \in 1 .. N : v[k] \in Events
    BY <1>1
  <2> QED BY <1>1, <2>1, SubSeqProperties
<1> HIDE DEF x, y
<1>4. \A k \in 1 .. N : k \in 1 .. N - 1 + 1 /\ 1 + k - 1 = k
  BY <1>1
<1>5. Len(x) = Len(y) /\ \A k \in 1 .. Len(x) : x[k] = y[k]
  BY <1>1, <1>2, <1>3, <1>4
<1>6. x = y
  BY <1>2, <1>3, <1>5, SeqEqual
<1>7. IsPrefix(t, v)
  BY <1>6 DEF IsPrefix, x, y
<1>8. Len(t) = Len(v) => t = v
  BY <1>1, SeqEqual
<1> QED BY <1>7, <1>8

LEMMA ToldTells ==
  ASSUME NEW t \in Seq(Events), NEW v \in Seq(Events), NEW lo \in Nat, NEW l \in Seq(Events),
         Part(v, lo, l), NEW p \in lo .. lo + Len(v), Told(t, p, lo + Len(v), l)
  PROVE  p - lo \in 0 .. Len(v) /\ Tells(t, v, p - lo)
<1> DEFINE hi == lo + Len(v)
           d == p - lo
<1>1. /\ Len(v) \in Nat /\ Len(l) \in Nat /\ p \in Nat /\ d \in 0 .. Len(v) /\ p = lo + d
      /\ hi <= Len(l) /\ \A n \in 1 .. Len(v) : v[n] = l[lo + n] /\ lo + n \in 1 .. Len(l)
  BY DEF Part
<1> HIDE DEF d
<1>2. {l[n] : n \in p + 1 .. hi} = {v[n] : n \in d + 1 .. Len(v)}
  <2>1. ASSUME NEW n \in p + 1 .. hi PROVE \E m \in d + 1 .. Len(v) : l[n] = v[m]
    <3>1. n - lo \in d + 1 .. Len(v) /\ n - lo \in 1 .. Len(v) /\ lo + (n - lo) = n
      BY <1>1
    <3> QED BY <1>1, <3>1
  <2>2. ASSUME NEW m \in d + 1 .. Len(v) PROVE \E n \in p + 1 .. hi : v[m] = l[n]
    <3>1. lo + m \in p + 1 .. hi /\ m \in 1 .. Len(v)
      BY <1>1
    <3> QED BY <1>1, <3>1
  <2> DEFINE A == {l[n] : n \in p + 1 .. hi}
             B == {v[n] : n \in d + 1 .. Len(v)}
  <2>3. \A e : e \in A => e \in B
    BY <2>1
  <2>4. \A e : e \in B => e \in A
    BY <2>2
  <2> HIDE DEF A, B
  <2>5. A = B
    BY <2>3, <2>4
  <2> QED BY <2>5 DEF A, B
<1>3. {t[k] : k \in 1 .. Len(t)} = {v[n] : n \in d + 1 .. Len(v)} \cap Matching
  BY <1>2 DEF Told
<1>4. ASSUME NEW j \in 1 .. Len(t), NEW k \in 1 .. Len(t), NEW m \in 1 .. Len(v),
             NEW n \in 1 .. Len(v), j < k, t[j] = v[m], t[k] = v[n]
      PROVE  m > n
  <2>1. t[j] = l[lo + m] /\ t[k] = l[lo + n] /\ lo + m \in 1 .. Len(l) /\ lo + n \in 1 .. Len(l)
    BY <1>1, <1>4
  <2>2. lo + m > lo + n
    BY <1>4, <2>1 DEF Told
  <2> QED BY <2>2
<1>5. Tells(t, v, d)
  BY <1>3, <1>4 DEF Tells
<1> QED BY <1>1, <1>5 DEF d

LEMMA FaithfulFromRInv == RInv => ReadersFaithful
<1> SUFFICES ASSUME RInv PROVE ReadersFaithful
  OBVIOUS
<1>1. ReadersTyped /\ log \in Seq(Events)
  BY DEF RInv, JInv, TypeOK
<1>2. ASSUME NEW q \in Exporters
      PROVE  /\ IsPrefix(told[q], view[q])
             /\ reader[q].at = "end" => told[q] = view[q]
             /\ reader[q].at = "refused" => told[q] = <<>>
  <2>1. q \in Readers
    BY ReadersAssumption
  <2>2. PICK lo \in Nat : Exporting(q, lo)
    BY DEF RInv, ExporterOK
  <2>3. /\ told[q] \in Seq(Events) /\ view[q] \in Seq(Events)
        /\ Len(told[q]) \in Nat /\ Len(view[q]) \in Nat
    BY <1>1, <2>1, ReaderTypes
  <2>4. /\ Part(view[q], lo, log) /\ Part(told[q], lo, log)
        /\ lo + Len(told[q]) <= lo + Len(view[q])
        /\ reader[q].at = "refused" => told[q] = <<>>
        /\ reader[q].at = "end" => lo + Len(told[q]) = lo + Len(view[q])
    BY <2>2 DEF Exporting
  <2>5. Len(told[q]) <= Len(view[q])
    BY <2>3, <2>4
  <2>6. IsPrefix(told[q], view[q]) /\ (Len(told[q]) = Len(view[q]) => told[q] = view[q])
    BY <2>3, <2>4, <2>5, PartPrefix
  <2>7. reader[q].at = "end" => Len(told[q]) = Len(view[q])
    BY <2>3, <2>4
  <2> QED BY <2>4, <2>6, <2>7
<1>3. ASSUME NEW q \in Pagers
      PROVE  /\ \E p \in 0 .. Len(view[q]) : Tells(told[q], view[q], p)
             /\ reader[q].at = "end" => Tells(told[q], view[q], 0)
  <2>1. /\ told[q] \in Seq(Events) /\ view[q] \in Seq(Events) /\ Len(view[q]) \in Nat
    BY <1>1, PagerTypes, ReaderTypes
  <2>2. PICK lo \in Nat : Browsing(q, lo)
    BY DEF RInv, BrowserOK
  <2> DEFINE hi == lo + Len(view[q])
  <2>3. /\ Part(view[q], lo, log)
        /\ \E p \in lo .. hi : Told(told[q], p, hi, log)
        /\ reader[q].at = "end" => Told(told[q], lo, hi, log)
    BY <2>2 DEF Browsing
  <2>4. PICK p \in lo .. hi : Told(told[q], p, hi, log)
    BY <2>3
  <2>5. p - lo \in 0 .. Len(view[q]) /\ Tells(told[q], view[q], p - lo)
    BY <1>1, <2>1, <2>3, <2>4, ToldTells
  <2>6. ASSUME reader[q].at = "end" PROVE Tells(told[q], view[q], 0)
    <3>1. lo \in lo .. hi /\ lo - lo = 0
      BY <2>1
    <3>2. Told(told[q], lo, hi, log)
      BY <2>3, <2>6
    <3>3. Tells(told[q], view[q], lo - lo)
      BY <1>1, <2>1, <2>3, <3>1, <3>2, ToldTells
    <3> QED BY <3>1, <3>3
  <2> QED BY <2>5, <2>6
<1> QED BY <1>2, <1>3 DEF ReadersFaithful

LEMMA ReadersBegin == ReadersInit => RInv
<1> SUFFICES ASSUME ReadersInit PROVE RInv
  OBVIOUS
<1>1. /\ Init /\ JInv /\ log = <<>> /\ log \in Seq(Events) /\ Len(log) = 0 /\ Logged = {}
      /\ content = [i \in Inodes |-> Empty] /\ writer = [w \in Writers |-> Idle]
      /\ open = [q \in Readers |-> {}]
  BY InitJInv, SequencesGrow DEF ReadersInit, Init, Logged
<1>2. /\ reader = [q \in Readers |-> Resting] /\ page = [q \in Pagers |-> NoPage]
      /\ cursor = [q \in Pagers |-> NoCursor]
      /\ told = [q \in Readers |-> <<>>] /\ view = [q \in Readers |-> <<>>]
  BY DEF ReadersInit
<1>3. \A i \in Inodes : InodeOK(i)
  BY <1>1 DEF InodeOK, Part, Empty
<1>4. Once
  <2>1. \A w \in Writers : writer[w].at \notin Pending
    BY <1>1 DEF Idle, Pending
  <2> QED BY <1>1, <2>1 DEF Once, Distinct, Ahead, Apart
<1>5. Resting \in ReaderRecords /\ Resting.at = "idle" /\ <<>> \in Seq(Events)
  BY RestingIs, SequencesGrow DEF ReaderPlaces
<1>6. ReadersTyped
  BY <1>1, <1>2, <1>5, NothingTyped DEF ReadersTyped
<1>7. /\ Part(<<>>, 0, log) /\ 0 + Len(<<>>) = 0 /\ 0 \in 0 .. 0
      /\ Told(<<>>, 0, 0, log)
  BY <1>1, ToldNothing DEF Part
<1>8. ASSUME NEW q \in Exporters PROVE ExporterOK(q)
  <2>1. reader[q].at = "idle" /\ told[q] = <<>> /\ view[q] = <<>>
    BY <1>2, <1>5, ReadersAssumption
  <2>2. Exporting(q, 0)
    BY <1>7, <2>1 DEF Exporting
  <2> QED BY <2>2 DEF ExporterOK
<1>9. ASSUME NEW q \in Pagers PROVE BrowserOK(q)
  <2>1. /\ reader[q].at = "idle" /\ told[q] = <<>> /\ view[q] = <<>>
        /\ cursor[q] = NoCursor
    BY <1>2, <1>5, ReadersAssumption
  <2>2. Browsing(q, 0)
    BY <1>7, <2>1 DEF Browsing
  <2> QED BY <2>2 DEF BrowserOK
<1> QED BY <1>1, <1>3, <1>4, <1>6, <1>8, <1>9 DEF RInv

LEMMA ReadersKeep == RInv /\ [ReadersNext]_allVars => RInv'
<1> SUFFICES ASSUME RInv, [ReadersNext]_allVars PROVE RInv'
  OBVIOUS
<1>1. ASSUME NEW w \in Writers, WriterStep(w), UNCHANGED rvars PROVE RInv'
  BY <1>1, WriterBeside
<1>2. ASSUME NEW q \in Exporters, ExporterNext(q) PROVE RInv'
  BY <1>2, ExporterStep
<1>3. ASSUME NEW q \in Pagers, PagerNext(q) PROVE RInv'
  BY <1>3, PagerNextStep
<1>4. CASE UNCHANGED allVars
  <2>1. UNCHANGED <<dir, content, lock, open, writer, made, log, started, answered,
                    reader, page, cursor, told, view>>
    BY <1>4 DEF allVars, vars, rvars, session, journal, history
  <2>2. JInv'
    <3>1. UNCHANGED vars
      BY <1>4 DEF allVars
    <3> QED BY <3>1, NextJInv DEF RInv
  <2>3. (\A i \in Inodes : InodeOK(i))' /\ Once' /\ ReadersTyped'
    BY <2>1 DEF RInv, InodeOK, Once, Logged, Ahead, Apart, ReadersTyped
  <2>4. ASSUME NEW q \in Exporters PROVE ExporterOK(q)'
    <3>1. PICK lo \in Nat : Exporting(q, lo)
      BY DEF RInv, ExporterOK
    <3>2. Exporting(q, lo)'
      BY <2>1, <3>1 DEF Exporting, Chain, Holds, Recs
    <3> QED BY <3>2 DEF ExporterOK
  <2>5. ASSUME NEW q \in Pagers PROVE BrowserOK(q)'
    <3>1. PICK lo \in Nat : Browsing(q, lo)
      BY DEF RInv, BrowserOK
    <3>2. Browsing(q, lo)'
      BY <2>1, <3>1 DEF Browsing, Chain, Holds, Recs
    <3> QED BY <3>2 DEF BrowserOK
  <2> QED BY <2>2, <2>3, <2>4, <2>5 DEF RInv
<1> QED BY <1>1, <1>2, <1>3, <1>4 DEF ReadersNext

(***************************************************************************)
(* What readers are given is the journal as it was when they began,        *)
(* however the writers rotate it, reuse inodes and append meanwhile: an    *)
(* export (iter_records) is a prefix of it and, when it ends, all of it;   *)
(* the pages of a browsing (AuditReader.page), put together across         *)
(* requests, lost answers and cursors, are its selected events from the    *)
(* newest down to a place, each once and in order, and when no cursor      *)
(* follows, all of them.                                                   *)
(***************************************************************************)
THEOREM ReadersAreFaithful == ReadersSpec => []ReadersFaithful
<1>1. ReadersSpec => []RInv
  BY ReadersBegin, ReadersKeep, PTL DEF ReadersSpec
<1> QED BY <1>1, FaithfulFromRInv, PTL

=============================================================================
