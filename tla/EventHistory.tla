---------------------------- MODULE EventHistory -----------------------------
(***************************************************************************)
(* Docker's event history.  The daemon keeps its last events, of whatever  *)
(* kind, in a bounded buffer; once per cycle the collector asks for those  *)
(* up to a cutoff in the past and counts the starts and the out-of-memory  *)
(* kills of each container in the window before it.  When the window is    *)
(* longer than what the buffer holds the counts are unavailable.           *)
(* Sources: adapters/events.py; the daemon is external.                    *)
(***************************************************************************)
EXTENDS Integers, Sequences, FiniteSets, SequencesExt, FiniteSetsExt

CONSTANTS Containers,    \* containers that events are counted for
          HistoryLimit,  \* _HISTORY_LIMIT, the size of the daemon's buffer
          Window,        \* the event window, in seconds
          Second,        \* _NANOSECONDS: how many instants are told apart
          MaxClock,      \* bound: the last instant
          MaxEvents,     \* bound: events that happen
          None

ASSUME HistoryAssumption ==
  /\ HistoryLimit \in Nat \ {0} /\ Window \in Nat \ {0} /\ Second \in Nat \ {0}
  /\ None \notin Containers

VARIABLES clock,     \* time, in instants
          happened,  \* what the daemon has told of, in order
          counts,    \* the counts of the cycle, or None
          hidden     \* history: whether the buffer held events after the cutoff

historyVars == <<clock, happened, counts, hidden>>

(* Events of something else, say an image, fill the buffer as well. *)
Happenings ==
  {[id |-> c, action |-> a] : c \in Containers, a \in {"oom", "start"}}
    \cup {[id |-> None, action |-> "pull"]}
Events == [id : Containers \cup {None}, action : {"oom", "start", "pull"},
           stamp : 0 .. MaxClock]
Counts == [until : 0 .. MaxClock, complete : BOOLEAN,
           oom : [Containers -> 0 .. MaxEvents + 1],
           start : [Containers -> 0 .. MaxEvents + 1]]

HistoryTypeOK ==
  /\ clock \in 0 .. MaxClock
  /\ happened \in Seq(Events) /\ Len(happened) <= MaxEvents
  /\ counts \in Counts \cup {None}
  /\ hidden \in BOOLEAN

(* The daemon has just started. *)
HistoryInit ==
  /\ clock = Second /\ happened = <<>> /\ counts = None /\ hidden = FALSE

-----------------------------------------------------------------------------
(* Two events of one kind are never told at the same instant. *)
Emit(h) ==
  /\ Len(happened) < MaxEvents
  /\ \A n \in 1 .. Len(happened) :
       happened[n] # [id |-> h.id, action |-> h.action, stamp |-> clock]
  /\ happened' = Append(happened, [id |-> h.id, action |-> h.action, stamp |-> clock])
  /\ UNCHANGED <<clock, counts, hidden>>

Pass ==
  /\ clock < MaxClock
  /\ clock' = clock + 1
  /\ UNCHANGED <<happened, counts, hidden>>

-----------------------------------------------------------------------------
(***************************************************************************)
(* The query: read_history and event_counts.                               *)
(***************************************************************************)
Buffer == IF Len(happened) <= HistoryLimit THEN happened
          ELSE SubSeq(happened, Len(happened) - HistoryLimit + 1, Len(happened))

(* The daemon answers with what it has up to the cutoff, the beginning of  *)
(* its buffer, and may say one thing twice.                                *)
UpTo(until) == SubSeq(Buffer, 1, Cardinality({n \in DOMAIN Buffer : Buffer[n].stamp <= until * Second}))
Answers(until) ==
  {UpTo(until)} \cup {InsertAt(UpTo(until), n, UpTo(until)[n]) : n \in 1 .. Len(UpTo(until))}

Within(stamp, until) == (until - Window) * Second < stamp /\ stamp <= until * Second

(* "seen": an event is counted once. *)
Count(answer, c, action, until) ==
  Cardinality({e \in ToSet(answer) :
                 e.id = c /\ e.action = action /\ Within(e.stamp, until)})

(* Mutant: a full buffer that begins within the window is whole. *)
WholeInWindow(answer, until) ==
  \/ Len(answer) < HistoryLimit
  \/ \E e \in ToSet(answer) : e.stamp <= until * Second

Complete(answer, until) ==
  \/ Len(answer) < HistoryLimit
  \/ \E e \in ToSet(answer) : e.stamp <= (until - Window) * Second

Counted(answer, until) ==
  [until |-> until,
   complete |-> Complete(answer, until),
   oom |-> [c \in Containers |-> Count(answer, c, "oom", until)],
   start |-> [c \in Containers |-> Count(answer, c, "start", until)]]

(* Whole seconds in the past; an answer that is too long is an error.      *)
Query ==
  LET until == clock \div Second - 1 IN
  /\ hidden' = \E n \in 1 .. Len(Buffer) : Buffer[n].stamp > until * Second
  /\ \/ \E answer \in Answers(until) :
          /\ Len(answer) <= HistoryLimit
          /\ counts' = Counted(answer, until)
     \/ counts' = None
  /\ UNCHANGED <<clock, happened>>

-----------------------------------------------------------------------------
(* What really happened to a container in the window that was asked for. *)
Truth(c, action) ==
  Cardinality({n \in 1 .. Len(happened) :
                 /\ happened[n].id = c /\ happened[n].action = action
                 /\ Within(happened[n].stamp, counts.until)})
=============================================================================
