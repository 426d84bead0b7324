---------------------------- MODULE AuditForward -----------------------------
(***************************************************************************)
(* audit-send: the retained events are posted to an HTTPS receiver, one    *)
(* request each, oldest first; the first failure ends the run.  There is   *)
(* no cursor: an operator who runs it again begins at the oldest event     *)
(* that is still retained, and the receiver knows repeated events by their *)
(* Idempotency-Key.                                                        *)
(*                                                                         *)
(* The journal (see AuditJournal) appends and forgets between and during   *)
(* the runs.  A request may be lost, arrive after the run has given it up, *)
(* or be answered by something else than a 2xx although it was taken.      *)
(* Sources: audit_forward.py, cli_audit.py; the receiver is external.      *)
(***************************************************************************)
EXTENDS Naturals, Sequences

CONSTANTS MaxJournal,  \* bound: events ever journaled
          MaxRetained, \* events the files hold
          MaxRuns      \* bound: runs of audit-send

ASSUME ForwardAssumption == {MaxJournal, MaxRetained, MaxRuns} \subseteq Nat

Journaled == 1 .. MaxJournal

VARIABLES oldest, newest,  \* the events retained
          batch,           \* events of this run not yet acknowledged
          counted,         \* `sent': events of this run acknowledged
          waiting,         \* does the run wait for an answer
          mail,            \* requests on their way, with the first event of their run
          reply,           \* the answer on its way back
          received,        \* the receiver's events, in the order of arrival
          result,          \* how the last run ended: "none", "ok", "failed"
          first, runs      \* history: first event of the run; number of runs

retention == <<oldest, newest>>
sender == <<batch, counted, waiting, result, first, runs>>
forwardVars == <<retention, sender, mail, reply, received>>

ForwardInit ==
  /\ oldest = 1 /\ newest = 0
  /\ batch = <<>> /\ counted = 0 /\ waiting = FALSE /\ result = "none"
  /\ mail = {} /\ reply = "none" /\ received = <<>>
  /\ first = 0 /\ runs = 0

(* AuditJournal.append; a rotation takes the oldest events away. *)
JournalAppend ==
  /\ newest < MaxJournal
  /\ newest' = newest + 1
  /\ oldest' \in {n \in oldest .. newest' : newest' - n < MaxRetained}
  /\ UNCHANGED <<sender, mail, reply, received>>

(* records(): the events are read before the first is sent. *)
BeginSend ==
  /\ batch = <<>> /\ ~waiting /\ runs < MaxRuns
  /\ oldest <= newest
  /\ batch' = [n \in 1 .. newest - oldest + 1 |-> oldest + n - 1]
  /\ counted' = 0 /\ result' = "none" /\ first' = oldest /\ runs' = runs + 1
  /\ UNCHANGED <<retention, waiting, mail, reply, received>>

PostEvent ==
  /\ batch # <<>> /\ ~waiting
  /\ waiting' = TRUE /\ mail' = mail \cup {[event |-> Head(batch), first |-> first, run |-> runs]}
  /\ reply' = "none"
  /\ UNCHANGED <<retention, batch, counted, result, first, runs, received>>

(* The receiver takes an event, or knows it already, and answers. *)
Heard == {received[n].event : n \in DOMAIN received}
Answer(m, answer) ==
  /\ mail' = mail \ {m}
  /\ reply' = IF waiting /\ m.run = runs /\ m.event = Head(batch) THEN answer ELSE reply
  /\ UNCHANGED <<retention, sender>>
Take(m, answer) ==
  /\ received' = IF m.event \in Heard THEN received ELSE Append(received, m)
  /\ Answer(m, answer)
Drop(m, answer) == Answer(m, answer) /\ UNCHANGED received

(* A 2xx; a redirect is not followed and is none.                          *)
(* Mutant: any answer acknowledges.                                        *)
AnyAnswer(answer) == answer # "none"
Acknowledges(answer) == answer = "2xx"

Acknowledged ==
  /\ waiting /\ Acknowledges(reply)
  /\ batch' = Tail(batch) /\ counted' = counted + 1
  /\ waiting' = FALSE /\ reply' = "none"
  /\ result' = IF Len(batch) = 1 THEN "ok" ELSE result
  /\ UNCHANGED <<retention, first, runs, mail, received>>

(* Another answer, none in time, or no connection: the run ends. *)
Failed ==
  /\ waiting /\ ~Acknowledges(reply)
  /\ batch' = <<>> /\ waiting' = FALSE /\ reply' = "none" /\ result' = "failed"
  /\ UNCHANGED <<retention, counted, first, runs, mail, received>>

ForwardNext ==
  \/ JournalAppend \/ BeginSend \/ PostEvent \/ Acknowledged \/ Failed
  \/ \E m \in mail : \/ \E answer \in {"2xx", "other", "none"} : Take(m, answer)
                     \/ \E answer \in {"other", "none"} : Drop(m, answer)

-----------------------------------------------------------------------------
(***************************************************************************)
(* ForwardedInOrder: the receiver hears of an event only after it has      *)
(* heard of every earlier one that the run had found retained, whatever    *)
(* was lost, repeated or late; and what a run counts as acknowledged, it   *)
(* has received, all of it when the run ends well ("Each 2xx response      *)
(* acknowledges acceptance").                                              *)
(***************************************************************************)
ForwardedInOrder ==
  /\ \A n \in DOMAIN received : \A earlier \in received[n].first .. received[n].event - 1 :
       \E k \in 1 .. n - 1 : received[k].event = earlier
  /\ first .. first + counted - 1 \subseteq Heard
  /\ result = "ok" => batch = <<>> /\ counted > 0
=============================================================================
