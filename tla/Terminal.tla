------------------------------ MODULE Terminal -------------------------------
(***************************************************************************)
(* The terminal interface: a thread that observes, and the main thread     *)
(* that draws what it has observed and puts the terminal back in order     *)
(* whatever makes it stop.                                                 *)
(*                                                                         *)
(* The thread publishes each refresh in one update; it may hang in Docker  *)
(* for ever, and it dies of an error of the journal that is no QueryError. *)
(* The main thread never waits for it.  Signals reach the main thread      *)
(* between any two steps: a handler raises, a default disposition kills.   *)
(* The Textual renderer has the same course, with its own restoration.     *)
(* Sources: observation.py, tui.py, textual_tui.py, cli.py (tui).          *)
(***************************************************************************)
EXTENDS Naturals

CONSTANTS StaleAfter,  \* max(90, 3 * interval), in units of Elapse
          MaxSignals   \* bound: signals received

ASSUME StaleAfterAssumption == StaleAfter \in Nat /\ MaxSignals \in Nat

VARIABLES main,     \* where the main thread is
          tty,      \* terminal attributes: "cooked", "raw"
          caught,   \* signals whose handler is the interface's
          signals,  \* number of signals so far
          broken,   \* history: a signal cut the restoration short
          thread,   \* where the observing thread is
          draft,    \* its next update
          shared,   \* Observation.data
          stop,     \* Observation.stop
          view,     \* "containers" or "journal"
          screen    \* what was drawn last

control == <<main, tty, caught, signals, broken, stop>>
display == <<view, screen>>
observed == <<thread, draft, shared>>
tvars == <<control, display, observed>>

(* enabled: is there a journal; rows, records: is there something to list; *)
(* failed, unread: the errors; age: since `updated'.                       *)
Never == StaleAfter + 2
NoData == [enabled |-> FALSE, rows |-> FALSE, failed |-> FALSE, records |-> FALSE, unread |-> FALSE,
           age |-> Never]
(* What is drawn; sound (history): the last collection published had       *)
(* succeeded, and not too long ago.                                        *)
NoScreen == [view |-> "containers", rows |-> FALSE, note |-> "none", empty |-> FALSE, sound |-> FALSE]

TerminalInit ==
  /\ main = "check" /\ tty = "cooked" /\ caught = {} /\ signals = 0
  /\ broken = FALSE /\ stop = FALSE
  /\ thread = "none" /\ draft = NoData
  /\ shared \in {[NoData EXCEPT !.enabled = e] : e \in BOOLEAN}
  /\ view = "containers" /\ screen = NoScreen

-----------------------------------------------------------------------------
(* Observation.refresh, in the thread.                                     *)
(* Mutant: a collection that failed leaves the containers as they were.    *)
OldRows(ok) == ok \/ shared.rows
NewRows(ok) == ok

Observe(ok) ==
  /\ thread = "collect"
  /\ draft' = [draft EXCEPT !.rows = NewRows(ok), !.failed = ~ok, !.age = 0]
  /\ thread' = IF shared.enabled THEN "read" ELSE "publish"
  /\ UNCHANGED <<control, display, shared>>

(* reader.page: a page, a QueryError, or an error that ends the thread. *)
ReadRecords(records) ==
  /\ thread = "read"
  /\ draft' = [draft EXCEPT !.records = records, !.unread = FALSE]
  /\ thread' = "publish"
  /\ UNCHANGED <<control, display, shared>>
ReadUnavailable ==
  /\ thread = "read"
  /\ draft' = [draft EXCEPT !.records = FALSE, !.unread = TRUE]
  /\ thread' = "publish"
  /\ UNCHANGED <<control, display, shared>>
ThreadDies ==
  /\ thread = "read" /\ thread' = "dead"
  /\ UNCHANGED <<control, display, draft, shared>>

Publish ==
  /\ thread = "publish" /\ thread' = "wait"
  /\ shared' = [draft EXCEPT !.enabled = shared.enabled] /\ draft' = NoData
  /\ UNCHANGED <<control, display>>

(* stop.wait(interval) *)
Awake ==
  /\ thread = "wait"
  /\ thread' = IF stop THEN "ended" ELSE "collect"
  /\ UNCHANGED <<control, display, draft, shared>>

Older(d) == IF d.age > StaleAfter THEN d ELSE [d EXCEPT !.age = @ + 1]
Elapse ==
  /\ shared' = Older(shared) /\ draft' = Older(draft)
  /\ UNCHANGED <<control, display, thread>>

-----------------------------------------------------------------------------
(* run(), in the main thread. *)
Step(from, to) == main = from /\ main' = to
Quiet == UNCHANGED <<tty, caught, signals, broken, stop, display, observed>>
Over == main' = "gone" /\ UNCHANGED <<tty, caught, signals, broken, stop, display, observed>>

CheckTerminal == Step("check", "create") /\ Quiet
RefuseTerminal == main = "check" /\ Over
Create == Step("create", "start") /\ Quiet
CreateFails == main = "create" /\ Over

StartThread ==
  /\ Step("start", "install")
  /\ thread' = "collect"
  /\ UNCHANGED <<tty, caught, signals, broken, stop, display, draft, shared>>

(* terminal_signals: one handler after the other. *)
Install ==
  /\ main = "install"
  /\ caught' = IF "HUP" \in caught THEN {"HUP", "TERM"} ELSE {"HUP"}
  /\ main' = IF "HUP" \in caught THEN "enter" ELSE main
  /\ UNCHANGED <<tty, signals, broken, stop, display, observed>>

(* Mutant: curses is entered before the second handler is installed. *)
RawEarly == main = "install" /\ caught # {} /\ main' = "loop"
HandlersFirst == Step("enter", "loop")

EnterCurses ==
  /\ HandlersFirst
  /\ tty' = "raw"
  /\ UNCHANGED <<caught, signals, broken, stop, display, observed>>

Stale == shared.age = StaleAfter + 1
Failure == IF view = "journal" THEN shared.unread ELSE shared.failed
Note ==
  CASE Failure -> "unavailable"
    [] ~Failure /\ view = "journal" /\ ~shared.enabled -> "disabled"
    [] ~Failure /\ ~(view = "journal" /\ ~shared.enabled) ->
         IF shared.age = Never THEN "collecting" ELSE IF Stale THEN "stale" ELSE "updated"
Listed == IF view = "journal" THEN shared.records ELSE shared.rows /\ ~Stale

(* One turn of screen_loop, up to the key. *)
Draw ==
  /\ main = "loop"
  /\ screen' = [view |-> view, rows |-> Listed, note |-> Note,
                empty |-> ~Listed /\ ~Failure /\ shared.age # Never,
                sound |-> ~shared.failed /\ shared.age <= StaleAfter]
  /\ UNCHANGED <<control, view, observed>>

Tab ==
  /\ main = "loop"
  /\ view' \in {"containers", "journal"}
  /\ UNCHANGED <<control, screen, observed>>
Details == Step("loop", "details") /\ screen.rows /\ Quiet
Back == Step("details", "loop") /\ Quiet

(* A quit key; or the terminal has disconnected, which a dialog meets too. *)
Leave ==
  /\ main \in {"loop", "details"}
  /\ main' = "restore"
  /\ UNCHANGED <<tty, caught, signals, broken, stop, display, observed>>

(* curses.wrapper puts the terminal back, terminal_signals the handlers.   *)
RestoreTerminal ==
  /\ Step("restore", "uninstall")
  /\ tty' = "cooked"
  /\ UNCHANGED <<caught, signals, broken, stop, display, observed>>
Uninstall ==
  /\ main = "uninstall"
  /\ caught' = IF "HUP" \in caught THEN caught \ {"HUP"} ELSE {}
  /\ main' = IF caught' = {} THEN "close" ELSE main
  /\ UNCHANGED <<tty, signals, broken, stop, display, observed>>

(* Observation.close: the thread is not waited for if it hangs. *)
Close ==
  /\ Step("close", "join")
  /\ stop' = TRUE
  /\ UNCHANGED <<tty, caught, signals, broken, display, observed>>
Join == Step("join", "gone") /\ Quiet

(* SIGHUP and SIGTERM, or SIGINT, which Python always turns into an        *)
(* exception; it leaves by way of the finally blocks it is in.             *)
Signal(s) ==
  /\ main \notin {"gone", "killed"} /\ signals < MaxSignals
  /\ signals' = signals + 1
  /\ main' = IF s \notin caught \cup {"INT"} THEN "killed"
             ELSE CASE main \in {"loop", "details"} -> "restore"
                    [] main \in {"install", "enter", "restore"} -> "uninstall"
                    [] main \in {"start", "uninstall"} -> "close"
                    [] main \in {"check", "create", "close", "join"} -> "killed"
  /\ broken' = (broken \/ main \in {"restore", "uninstall"})
  /\ UNCHANGED <<tty, caught, stop, display, observed>>

TerminalNext ==
  \/ \E ok \in BOOLEAN : Observe(ok) \/ ReadRecords(ok)
  \/ ReadUnavailable \/ ThreadDies \/ Publish \/ Awake \/ Elapse
  \/ CheckTerminal \/ RefuseTerminal \/ Create \/ CreateFails \/ StartThread
  \/ Install \/ EnterCurses \/ Draw \/ Tab \/ Details \/ Back
  \/ Leave
  \/ RestoreTerminal \/ Uninstall \/ Close \/ Join
  \/ \E s \in {"HUP", "TERM", "INT"} : Signal(s)

-----------------------------------------------------------------------------
(***************************************************************************)
(* TerminalTruthful: containers are listed only from a collection that     *)
(* succeeded, is the last one published, and has not become stale, also    *)
(* when the observing thread hangs or has died; nothing is said to be      *)
(* empty that could not be read.  Whatever ends the interface, a key, a    *)
(* lost terminal, or a signal at any moment at which the terminal is not   *)
(* already being restored, the terminal is left as it was found, and no    *)
(* handler of the interface stays behind.                                  *)
(***************************************************************************)
ListTruthful ==
  /\ screen.view = "containers" /\ screen.rows =>
       screen.note = "updated" /\ screen.sound
  /\ screen.empty => screen.note \in {"updated", "disabled", "stale"}
LeftInOrder ==
  /\ main \in {"gone", "killed"} /\ ~broken => tty = "cooked"
  /\ main = "gone" /\ ~broken => caught = {}
  /\ main = "gone" /\ thread # "none" => stop
TerminalTruthful == ListTruthful /\ LeftInOrder
=============================================================================
