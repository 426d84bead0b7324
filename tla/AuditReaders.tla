---------------------------- MODULE AuditReaders -----------------------------
(***************************************************************************)
(* Readers of the journal beside its writers.                              *)
(*                                                                         *)
(*   exporters (iter_records) open every file under the exclusive lock,    *)
(*   release it, validate what they have opened and then pass it on;       *)
(*   pagers (AuditReader.page, in the HTTP threads) browse backwards, a    *)
(*   page per request: the files are opened under a shared lock that is    *)
(*   never waited for long, and a cursor that the client brings back says  *)
(*   which inodes remain to be read, and from where.                       *)
(*                                                                         *)
(* Between two requests a pager holds nothing: its files may be rotated,   *)
(* unlinked, and their inodes used again.  What is read of an open file is *)
(* its first bytes, which no writer ever changes.                          *)
(* Sources: audit.py, audit_query.py.                                      *)
(***************************************************************************)
EXTENDS AuditJournal, SequencesExt

CONSTANTS Exporters, Pagers,
          Matching,   \* events that the filters of the pagers select
          PageLimit,  \* events of a page (PAGE_LIMIT)
          PageSlots   \* requests served at a time (BoundedSemaphore)

ASSUME ReadersAssumption ==
  /\ Readers = Exporters \cup Pagers /\ Exporters \cap Pagers = {}
  /\ IsFiniteSet(Pagers) /\ Writers \cap Readers = {}
  /\ Matching \subseteq Events
  /\ PageLimit \in Nat \ {0} /\ PageSlots \in Nat \ {0}

VARIABLES reader,  \* where each reader is, and the files it has opened
          page,    \* the page under way: place reached, events found
          cursor,  \* the cursor that the client of each pager holds
          slots,   \* semaphore of the pagers
          told,    \* what each export, or browsing, has given out so far
          view     \* history: what the journal held when it began

session == <<cursor, told, view>>
rvars == <<reader, page, slots, session>>
allVars == <<vars, rvars>>

NoCursor == [files |-> <<>>, index |-> 0, offset |-> 0]
NoPage == [place |-> NoCursor, found |-> <<>>, scanned |-> 0]
Resting == [at |-> "idle", number |-> 0, files |-> <<>>]

ReadersInit ==
  /\ Init
  /\ reader = [q \in Readers |-> Resting]
  /\ page = [q \in Pagers |-> NoPage]
  /\ cursor = [q \in Pagers |-> NoCursor]
  /\ slots = PageSlots
  /\ told = [q \in Readers |-> <<>>]
  /\ view = [q \in Readers |-> <<>>]

-----------------------------------------------------------------------------
(***************************************************************************)
(* Opening the files, under the lock.                                      *)
(***************************************************************************)
Opening(q, from) == reader' = [reader EXCEPT ![q] =
  [at |-> "open", number |-> from, files |-> <<>>]]

SharedFree == lock \subseteq Pagers

(* Mutant: the place in the semaphore is not given back. *)
SlotKept(q) == slots

ExclusiveFree == lock = {}
SlotFree == slots > 0
SlotBack(q) == IF q \in Pagers THEN slots + 1 ELSE slots
WaitOver == ~SharedFree

ExportLock(q) ==
  /\ reader[q].at = "idle"
  /\ ExclusiveFree
  /\ lock' = lock \cup {q}
  /\ Opening(q, Files - 1)
  /\ told' = [told EXCEPT ![q] = <<>>]
  /\ view' = [view EXCEPT ![q] = Retained]
  /\ UNCHANGED <<journal, open, writer, made, history, page, cursor, slots>>

PageStart(q) ==
  /\ reader[q].at = "idle"
  /\ SlotFree
  /\ slots' = slots - 1
  /\ reader' = [reader EXCEPT ![q].at = "wait"]
  /\ UNCHANGED <<vars, page, session>>

(* A request without a cursor begins to browse anew. *)
PageLock(q) ==
  /\ reader[q].at = "wait"
  /\ SharedFree
  /\ lock' = lock \cup {q}
  /\ Opening(q, 0)
  /\ IF cursor[q] = NoCursor
     THEN /\ told' = [told EXCEPT ![q] = <<>>]
          /\ view' = [view EXCEPT ![q] = Retained]
     ELSE UNCHANGED <<told, view>>
  /\ UNCHANGED <<journal, open, writer, made, history, page, cursor, slots>>

(* The lock has not become free within _SNAPSHOT_WAIT: "audit_busy". *)
PageBusy(q) ==
  /\ reader[q].at = "wait"
  /\ WaitOver
  /\ reader' = [reader EXCEPT ![q] = Resting]
  /\ slots' = SlotBack(q)
  /\ UNCHANGED <<vars, page, session>>

(* A file as it was opened: how much of it there is, whether its last byte *)
(* ends an event and its size is within the limit, and what it begins with.*)
AsOpened(i) ==
  LET file == content[i] IN
  [inode |-> i, count |-> Len(file.recs),
   whole |-> ~file.torn /\ file.size <= MaxBytes + MaxRecord,
   first |-> IF file.recs = <<>> THEN 0 ELSE Head(file.recs)]

(* Exporters open from the oldest file to the active one, pagers from the  *)
(* active one to the oldest; these leave out files of no size.  The lock   *)
(* is released after the last.                                             *)
OpenFile(q) ==
  LET n == reader[q].number
      last == IF q \in Pagers THEN n = Files - 1 ELSE n = 0
      taken == dir[n] # None /\ (q \in Pagers => content[dir[n]].size > 0)
  IN
  /\ reader[q].at = "open"
  /\ open' = IF taken THEN [open EXCEPT ![q] = @ \cup {dir[n]}] ELSE open
  /\ reader' = [reader EXCEPT
       ![q].files = IF taken THEN Append(@, AsOpened(dir[n])) ELSE @,
       ![q].number = IF last THEN @ ELSE IF q \in Pagers THEN n + 1 ELSE n - 1,
       ![q].at = IF last THEN "check" ELSE "open"]
  /\ lock' = IF last THEN Released(q) ELSE lock
  /\ UNCHANGED <<journal, writer, made, history, page, slots, session>>

-----------------------------------------------------------------------------
(***************************************************************************)
(* Leaving: descriptors are closed, and the semaphore is given back.       *)
(***************************************************************************)
Leave(q, step) ==
  /\ reader' = [reader EXCEPT ![q] = [Resting EXCEPT !.at = step]]
  /\ open' = [open EXCEPT ![q] = {}]
  /\ lock' = Released(q)
  /\ slots' = SlotBack(q)
  /\ page' = IF q \in Pagers THEN [page EXCEPT ![q] = NoPage] ELSE page
  /\ UNCHANGED <<journal, writer, made, history>>

(* Any error of the system, at any moment. *)
GiveUp(q) ==
  /\ "io" \in Faults
  /\ reader[q].at \notin {"idle", "wait", "end", "refused"}
  /\ Leave(q, "idle")
  /\ UNCHANGED session

-----------------------------------------------------------------------------
(***************************************************************************)
(* Exporters: the whole snapshot is validated before any of it is shown.   *)
(***************************************************************************)
Wholesome(q) == \A n \in 1 .. Len(reader[q].files) : reader[q].files[n].whole

Validate(q) ==
  /\ q \in Exporters /\ reader[q].at = "check"
  /\ Wholesome(q)
  /\ reader' = [reader EXCEPT ![q].at = "yield"]
  /\ UNCHANGED <<vars, page, slots, session>>

Refuse(q) ==
  /\ q \in Exporters /\ reader[q].at = "check"
  /\ ~Wholesome(q)
  /\ Leave(q, "refused")
  /\ UNCHANGED session

Upto(file) == SubSeq(content[file.inode].recs, 1, file.count)

Yield(q) ==
  /\ reader[q].at = "yield" /\ reader[q].files # <<>>
  /\ told' = [told EXCEPT ![q] = @ \o Upto(Head(reader[q].files))]
  /\ reader' = [reader EXCEPT ![q].files = Tail(@)]
  /\ UNCHANGED <<vars, page, slots, cursor, view>>

Exported(q) ==
  /\ reader[q].at = "yield" /\ reader[q].files = <<>>
  /\ Leave(q, "end")
  /\ UNCHANGED session

ExportReturn(q) ==
  /\ q \in Exporters /\ reader[q].at \in {"end", "refused"}
  /\ reader' = [reader EXCEPT ![q] = Resting]
  /\ told' = [told EXCEPT ![q] = <<>>]
  /\ view' = [view EXCEPT ![q] = <<>>]
  /\ UNCHANGED <<vars, page, cursor, slots>>

-----------------------------------------------------------------------------
(***************************************************************************)
(* Pagers.                                                                 *)
(***************************************************************************)

(* Mutant: what the file begins with is not compared. *)
SameInode(wanted, file) ==
  file.inode = wanted.inode /\ file.count >= wanted.count

(* The file that a cursor means is still there when one with its inode has *)
(* been opened that is no shorter and begins with the same bytes.          *)
SameFile(wanted, file) ==
  /\ file.inode = wanted.inode
  /\ file.count >= wanted.count
  /\ file.first = wanted.first

StillThere(q) ==
  \A n \in cursor[q].index .. Len(cursor[q].files) :
    \E k \in 1 .. Len(reader[q].files) :
      SameFile(cursor[q].files[n], reader[q].files[k])

(* The place where file n begins to be read: at its end. *)
PlaceAt(files, n) ==
  [files |-> files, index |-> n,
   offset |-> IF n <= Len(files) THEN files[n].count ELSE 0]

CheckCursor(q) ==
  /\ q \in Pagers /\ reader[q].at = "check"
  /\ cursor[q] # NoCursor => StillThere(q)
  /\ page' = [page EXCEPT ![q] =
       [NoPage EXCEPT !.place = IF cursor[q] = NoCursor
                                THEN PlaceAt(reader[q].files, 1) ELSE cursor[q]]]
  /\ reader' = [reader EXCEPT ![q].at = "read"]
  /\ UNCHANGED <<vars, slots, session>>

(* "cursor_expired": the client has to begin again. *)
CursorExpired(q) ==
  /\ q \in Pagers /\ reader[q].at = "check"
  /\ cursor[q] # NoCursor /\ ~StillThere(q)
  /\ Leave(q, "idle")
  /\ cursor' = [cursor EXCEPT ![q] = NoCursor]
  /\ UNCHANGED <<told, view>>

Reached(q) == page[q].place.files[page[q].place.index]
More(place) == place.index <= Len(place.files)

(* One event backwards; at the beginning of a file, on to the next one. *)
Before(place) ==
  IF place.offset > 1 THEN [place EXCEPT !.offset = @ - 1]
  ELSE PlaceAt(place.files, place.index + 1)

(* One line of a block, the last one first.  A file that does not end with *)
(* a complete event is an error ("audit_unavailable").                     *)
ReadLine(q) ==
  LET place == page[q].place
      event == content[Reached(q).inode].recs[place.offset]
      found == IF event \in Matching THEN Append(page[q].found, event)
               ELSE page[q].found
  IN
  /\ reader[q].at = "read"
  /\ More(place) /\ Reached(q).whole
  /\ page' = [page EXCEPT ![q] =
       [place |-> Before(place), found |-> found, scanned |-> @.scanned + 1]]
  /\ reader' = [reader EXCEPT ![q].at = IF Len(found) = PageLimit THEN "answer" ELSE "read"]
  /\ UNCHANGED <<vars, slots, session>>

ReadTorn(q) ==
  /\ reader[q].at = "read"
  /\ More(page[q].place) /\ ~Reached(q).whole
  /\ Leave(q, "idle")
  /\ UNCHANGED session

(* Everything is read, or the page ends early: its bytes are enough, or    *)
(* the budget of the scan is used up, which leaves room for one block.     *)
EndPage(q) ==
  /\ reader[q].at = "read"
  /\ More(page[q].place) => page[q].scanned > 0
  /\ reader' = [reader EXCEPT ![q].at = "answer"]
  /\ UNCHANGED <<vars, page, slots, session>>

Answer(q) ==
  LET place == page[q].place IN
  /\ reader[q].at = "answer"
  /\ Leave(q, IF More(place) THEN "idle" ELSE "end")
  /\ told' = [told EXCEPT ![q] = @ \o page[q].found]
  /\ cursor' = [cursor EXCEPT ![q] = IF More(place) THEN place ELSE NoCursor]
  /\ UNCHANGED view

(* The answer is lost: the client still has the cursor it came with. *)
LoseAnswer(q) ==
  /\ reader[q].at = "answer"
  /\ Leave(q, "idle")
  /\ UNCHANGED session

(* The client stops browsing, or its cursor is too old (_CURSOR_TTL). *)
BeginAgain(q) ==
  /\ q \in Pagers
  /\ reader[q].at = "end" \/ (reader[q].at = "idle" /\ cursor[q] # NoCursor)
  /\ reader' = [reader EXCEPT ![q] = Resting]
  /\ cursor' = [cursor EXCEPT ![q] = NoCursor]
  /\ told' = [told EXCEPT ![q] = <<>>]
  /\ view' = [view EXCEPT ![q] = <<>>]
  /\ UNCHANGED <<vars, page, slots>>

PagerStep(q) ==
  \/ PageLock(q) \/ PageBusy(q) \/ OpenFile(q)
  \/ CheckCursor(q) \/ CursorExpired(q)
  \/ ReadLine(q) \/ ReadTorn(q) \/ EndPage(q)
  \/ Answer(q) \/ LoseAnswer(q)

PagerNext(q) == PageStart(q) \/ PagerStep(q) \/ GiveUp(q) \/ BeginAgain(q)

ExporterNext(q) ==
  \/ ExportLock(q) \/ OpenFile(q) \/ Validate(q) \/ Refuse(q)
  \/ Yield(q) \/ Exported(q) \/ ExportReturn(q) \/ GiveUp(q)

ReadersNext ==
  \/ \E w \in Writers : WriterStep(w) /\ UNCHANGED rvars
  \/ \E q \in Exporters : ExporterNext(q)
  \/ \E q \in Pagers : PagerNext(q)

ReadersSpec == ReadersInit /\ [][ReadersNext]_allVars

-----------------------------------------------------------------------------
(* From place p of v on, t tells its selected events, the last one first.  *)
Tells(t, v, p) ==
  /\ {t[k] : k \in 1 .. Len(t)} = {v[n] : n \in p + 1 .. Len(v)} \cap Matching
  /\ \A j, k \in 1 .. Len(t), m, n \in 1 .. Len(v) :
       j < k /\ t[j] = v[m] /\ t[k] = v[n] => m > n

(***************************************************************************)
(* ReadersFaithful: what readers are given is the journal as it was when   *)
(* they began, whatever has been rotated since, inodes used again and      *)
(* answers lost on the way.  An export is complete and in order; of a      *)
(* journal with an incomplete event nothing is shown.  The pages of one    *)
(* browsing, put together, are the selected events, the last one first:    *)
(* nothing is told twice or left out, and when no cursor follows,          *)
(* everything has been told.                                               *)
(***************************************************************************)
ReadersFaithful ==
  /\ \A q \in Exporters :
       /\ IsPrefix(told[q], view[q])
       /\ reader[q].at = "end" => told[q] = view[q]
       /\ reader[q].at = "refused" => told[q] = <<>>
  /\ \A q \in Pagers :
       /\ \E p \in 0 .. Len(view[q]) : Tells(told[q], view[q], p)
       /\ reader[q].at = "end" => Tells(told[q], view[q], 0)

(***************************************************************************)
(* No request keeps its place in the semaphore, however it ended: as many  *)
(* are free as are not being served.                                       *)
(***************************************************************************)
SlotsReturned ==
  slots + Cardinality({q \in Pagers : reader[q].at \notin {"idle", "end"}}) = PageSlots
=============================================================================
