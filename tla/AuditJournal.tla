---------------------------- MODULE AuditJournal -----------------------------
(***************************************************************************)
(* The event journal: a file of bounded size, its rotated predecessors and *)
(* the lock file beside them, written by several processes.  An append     *)
(* takes the exclusive lock, refuses a file whose last event is            *)
(* incomplete, rotates a full file by renaming, writes in as many pieces   *)
(* as the kernel takes, and syncs; it may fail, and its process may be     *)
(* killed, between any two of these.                                       *)
(*                                                                         *)
(* Two callers are modelled with it, as they depend on its failures:       *)
(* notification_delivery, which sends only after the "started" event has   *)
(* been persisted, and NotificationAudit.receive, which persists a batch.  *)
(* Sources: audit.py, notification_audit.py.                               *)
(***************************************************************************)
EXTENDS Naturals, Sequences, FiniteSets

CONSTANTS Writers,    \* processes that append
          Readers,    \* processes that read (none in this module)
          Inodes,     \* inodes of the filesystem: reused after an unlink
          None,       \* no inode
          Files,      \* files kept, the active one included (--audit-files)
          MaxBytes,   \* rotation size (--audit-max-bytes)
          MaxRecord,  \* largest record (MAX_RECORD_BYTES)
          NumEvents,  \* bound: events ever made
          Length,     \* Length[e]: bytes of event e, its newline included
          MaxBatch,   \* bound: alerts of one notification
          Faults      \* which of "io", "crash" occur

Events == 1 .. NumEvents
Slots == 0 .. Files - 1

ASSUME FilesAssumption == Files \in Nat \ {0}
ASSUME SizesAssumption ==
  /\ MaxRecord \in Nat \ {0} /\ MaxBytes \in Nat /\ MaxRecord <= MaxBytes
  /\ MaxBatch \in Nat
  /\ NumEvents \in Nat /\ Length \in [Events -> 1 .. MaxRecord]
ASSUME NamesAssumption == None \notin Inodes

VARIABLES dir,      \* dir[n]: the inode named path.n (path when n = 0), or None
          content,  \* content of each inode
          lock,     \* processes that hold the lock file
          open,     \* open[q]: inodes that process q holds open to read
          writer,   \* where each writer is
          made,     \* number of events made so far (event_id)
          log,      \* history: the events completely written, in order
          started,  \* history: "started" events whose delivery was begun
          answered  \* history: events of the batches answered as received

journal == <<dir, content>>
history == <<log, started, answered>>
vars == <<journal, lock, open, writer, made, history>>

Empty == [recs |-> <<>>, size |-> 0, torn |-> FALSE]
Appending == {"wait", "tail", "rotate", "create", "write", "sync"}

(* event: the event being appended, of which `left' bytes are not written  *)
(* yet; number: the slot a rotation fills next; rest, batch: alerts of a   *)
(* notification that remain, and the events already made of the others.    *)
Idle == [at |-> "idle", job |-> "none", event |-> 0, left |-> 0, number |-> 0,
         rest |-> 0, batch |-> {}]

Init ==
  /\ dir = [n \in Slots |-> None]
  /\ content = [i \in Inodes |-> Empty]
  /\ lock = {}
  /\ open = [q \in Readers |-> {}]
  /\ writer = [w \in Writers |-> Idle]
  /\ made = 0
  /\ log = <<>> /\ started = {} /\ answered = {}

-----------------------------------------------------------------------------
(***************************************************************************)
(* AuditJournal.append.                                                    *)
(***************************************************************************)
Active == dir[0]
Size == IF Active = None THEN 0 ELSE content[Active].size

Linked == {dir[n] : n \in Slots} \ {None}
Free == Inodes \ (Linked \cup UNION {open[q] : q \in Readers})

Goto(w, step) == writer' = [writer EXCEPT ![w].at = step]

Released(w) == lock \ {w}

(* _lock: flock(LOCK_EX) waits until nobody holds the lock. *)
Acquire(w) ==
  /\ writer[w].at = "wait"
  /\ lock = {}
  /\ lock' = {w}
  /\ Goto(w, "tail")
  /\ UNCHANGED <<journal, open, made, history>>

(* Opening with O_CREAT: a missing file takes any inode that is free. *)
Opened ==
  \/ Active # None /\ UNCHANGED journal
  \/ \E i \in Free : /\ Active = None
                     /\ dir' = [dir EXCEPT ![0] = i]
                     /\ content' = [content EXCEPT ![i] = Empty]

Full(w) == Size > 0 /\ Size + Length[writer[w].event] > MaxBytes
Incomplete == Active # None /\ content[Active].torn

TailComplete == ~Incomplete

(* The last byte must be a newline, then a full file is rotated. *)
CheckTail(w) ==
  /\ writer[w].at = "tail"
  /\ TailComplete
  /\ Opened
  /\ writer' = [writer EXCEPT ![w].at = IF Full(w) THEN "rotate" ELSE "create",
                              ![w].number = Files - 1]
  /\ UNCHANGED <<lock, open, made, history>>

RefuseTail(w) ==
  /\ writer[w].at = "tail"
  /\ Incomplete
  /\ lock' = Released(w)
  /\ Goto(w, "raised")
  /\ UNCHANGED <<journal, open, made, history>>

(* Mutant: a copy instead of a rename. *)
Copied(n) == IF dir[n - 1] = None THEN dir ELSE [dir EXCEPT ![n] = dir[n - 1]]

(* One turn of the rotation's loop; with a single file, the unlink. *)
Shifted(n) ==
  IF n = 0 THEN [dir EXCEPT ![0] = None]
  ELSE IF dir[n - 1] = None THEN dir
  ELSE [dir EXCEPT ![n] = dir[n - 1], ![n - 1] = None]

Rotate(w) ==
  LET n == writer[w].number IN
  /\ writer[w].at = "rotate"
  /\ dir' = Shifted(n)
  /\ writer' = IF n > 1 THEN [writer EXCEPT ![w].number = n - 1]
               ELSE [writer EXCEPT ![w].at = "create"]
  /\ UNCHANGED <<content, lock, open, made, history>>

Create(w) ==
  /\ writer[w].at = "create"
  /\ Opened
  /\ writer' = [writer EXCEPT ![w].at = "write", ![w].left = Length[writer[w].event]]
  /\ UNCHANGED <<lock, open, made, history>>

(* os.write takes n bytes of those that are left. *)
Write(w, n) ==
  LET left == writer[w].left - n
      event == writer[w].event
      more == IF left = 0 THEN <<event>> ELSE <<>>
  IN
  /\ writer[w].at = "write"
  /\ n <= writer[w].left
  /\ content' = [content EXCEPT ![Active] =
       [recs |-> @.recs \o more, size |-> @.size + n, torn |-> left > 0]]
  /\ log' = log \o more
  /\ writer' = [writer EXCEPT ![w].left = left,
                              ![w].at = IF left = 0 THEN "sync" ELSE "write"]
  /\ UNCHANGED <<dir, lock, open, made, started, answered>>

Sync(w) ==
  /\ writer[w].at = "sync"
  /\ lock' = Released(w)
  /\ Goto(w, "done")
  /\ UNCHANGED <<journal, open, made, history>>

(* An OSError anywhere in append: what was written or renamed stays. *)
Fail(w) ==
  /\ "io" \in Faults
  /\ writer[w].at \in Appending
  /\ lock' = Released(w)
  /\ Goto(w, "raised")
  /\ UNCHANGED <<journal, open, made, history>>

(* The process is killed; another one starts in its place. *)
Crash(w) ==
  /\ "crash" \in Faults
  /\ writer[w].at # "idle"
  /\ lock' = Released(w)
  /\ writer' = [writer EXCEPT ![w] = Idle]
  /\ UNCHANGED <<journal, open, made, history>>

-----------------------------------------------------------------------------
(***************************************************************************)
(* Callers.                                                                *)
(***************************************************************************)

(* event_record, then append: the event is new whatever happens to it. *)
Record(w, job, rest, batch) ==
  /\ made < NumEvents
  /\ made' = made + 1
  /\ writer' = [writer EXCEPT ![w] =
       [Idle EXCEPT !.at = "wait", !.job = job, !.event = made + 1,
                    !.rest = rest, !.batch = batch]]
  /\ UNCHANGED <<journal, lock, open, history>>

(* notification_delivery (and, with it, the automatic actions): "started", *)
(* the delivery itself, and finish, whose failure is swallowed.            *)
Deliver(w) == writer[w].at = "idle" /\ Record(w, "start", 0, {})

(* Mutant: an append that failed counts. *)
PersistedOrNot(w) == writer[w].at \in {"done", "raised"}

Persisted(w) == writer[w].at = "done"
MoreAlerts(w) == writer[w].rest > 0

Send(w) ==
  /\ writer[w].job = "start" /\ Persisted(w)
  /\ started' = started \cup {writer[w].event}
  /\ Goto(w, "send")
  /\ UNCHANGED <<journal, lock, open, made, log, answered>>

Finish(w) == writer[w].at = "send" /\ Record(w, "finish", 0, {})

(* NotificationAudit.receive: one event per alert, all or an error; after  *)
(* an error the sender repeats the whole notification, with new events.    *)
Receive(w, alerts) == writer[w].at = "idle" /\ Record(w, "receive", alerts - 1, {})

ReceiveNext(w) ==
  /\ writer[w].job = "receive" /\ Persisted(w) /\ MoreAlerts(w)
  /\ Record(w, "receive", writer[w].rest - 1,
            writer[w].batch \cup {writer[w].event})

Received(w) ==
  /\ writer[w].job = "receive" /\ Persisted(w) /\ ~MoreAlerts(w)
  /\ answered' = answered \cup writer[w].batch \cup {writer[w].event}
  /\ writer' = [writer EXCEPT ![w] = Idle]
  /\ UNCHANGED <<journal, lock, open, made, log, started>>

Return(w) ==
  /\ \/ writer[w].at = "raised"
     \/ writer[w].at = "done" /\ writer[w].job = "finish"
  /\ writer' = [writer EXCEPT ![w] = Idle]
  /\ UNCHANGED <<journal, lock, open, made, history>>

AppendStep(w) ==
  \/ Acquire(w) \/ CheckTail(w) \/ RefuseTail(w) \/ Rotate(w) \/ Create(w)
  \/ \E n \in 1 .. MaxRecord : Write(w, n)
  \/ Sync(w)

CallerStep(w) ==
  \/ Deliver(w) \/ Send(w) \/ Finish(w)
  \/ \E alerts \in 1 .. MaxBatch : Receive(w, alerts)
  \/ ReceiveNext(w) \/ Received(w) \/ Return(w)

WriterStep(w) == AppendStep(w) \/ CallerStep(w) \/ Fail(w) \/ Crash(w)

Next == \E w \in Writers : WriterStep(w)

Spec == Init /\ [][Next]_vars

-----------------------------------------------------------------------------
(* The complete events retained, oldest first. *)
Retained ==
  LET upTo[n \in 0 .. Files] ==
        IF n = 0 THEN <<>>
        ELSE (IF dir[n - 1] = None THEN <<>> ELSE content[dir[n - 1]].recs) \o upTo[n - 1]
  IN upTo[Files]

Logged == {log[k] : k \in 1 .. Len(log)}

(***************************************************************************)
(* Rotation loses the oldest events and no other: whatever is interrupted, *)
(* what the files hold, read from the oldest to the active one, is the     *)
(* end of what was ever written, without gap, repetition or disorder; no   *)
(* file outgrows the limit, beyond which no reader would accept it, and    *)
(* none but the active one ends in the middle of an event.                 *)
(***************************************************************************)
RetainedIsRecent ==
  /\ \E k \in 0 .. Len(log) : Retained = SubSeq(log, k + 1, Len(log))
  /\ \A n \in Slots : dir[n] # None =>
       content[dir[n]].size <= MaxBytes /\ (n > 0 => ~content[dir[n]].torn)

(***************************************************************************)
(* "If the initial write fails, the action or notification send does not   *)
(* begin": every delivery that began has its "started" event written, and  *)
(* every event of a notification answered as received is written.          *)
(***************************************************************************)
PromisesJournaled == started \cup answered \subseteq Logged
=============================================================================
