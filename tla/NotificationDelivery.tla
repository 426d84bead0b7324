------------------------ MODULE NotificationDelivery -------------------------
(***************************************************************************)
(* Notifications handed on to a channel beside the agent: Alertmanager     *)
(* posts a notification to the Redis bridge, which appends it to a stream  *)
(* within notification_delivery, which journals the attempt before and     *)
(* after.  Alertmanager repeats a notification until it has an answer that *)
(* is final, so one may be delivered several times, also at a time.        *)
(*                                                                         *)
(* The journal may refuse, Redis may refuse, or take the entry and not     *)
(* say so in time; the bridge may be killed; an answer may be lost.  The   *)
(* command of examples/monitoring/dwho-http has the same course, with an   *)
(* HTTP service for Redis and its exit code for the answer.                *)
(* Sources: audit.py (notification_delivery), redis-webhook/bridge.py,     *)
(* dwho-http/send.py.                                                      *)
(***************************************************************************)
EXTENDS Naturals, FiniteSets

CONSTANTS Notifications,
          Malformed,    \* those that validate_payload refuses
          Attempts      \* deliveries, each used once

ASSUME NotificationAssumption == Malformed \subseteq Notifications

VARIABLES work,     \* work[a]: the notification and the state of delivery a
          recorded, \* the journal: pairs of an attempt and an event
          stream,   \* attempts whose entry Redis has taken
          answers,  \* answers given: pairs of an attempt and a status
          known     \* known[n]: what Alertmanager has heard of notification n

deliveryVars == <<work, recorded, stream, answers, known>>

Unused == [of |-> "none", at |-> "unused"]

DeliveryInit ==
  /\ work = [a \in Attempts |-> Unused]
  /\ recorded = {} /\ stream = {} /\ answers = {}
  /\ known = [n \in Notifications |-> "pending"]

At(a, step) == work[a].at = step
Move(a, step) == work' = [work EXCEPT ![a].at = step]

(* Alertmanager posts, or repeats what it has no final answer to. *)
PostNotification(a, n) ==
  /\ At(a, "unused") /\ known[n] = "pending"
  /\ work' = [work EXCEPT ![a] = [of |-> n, at |-> "validate"]]
  /\ UNCHANGED <<recorded, stream, answers, known>>

AnswerWith(a, status) ==
  /\ Move(a, "answered")
  /\ answers' = answers \cup {<<a, status>>}

(* receive: 415 and 400. *)
RefusePayload(a) ==
  /\ At(a, "validate") /\ work[a].of \in Malformed
  /\ AnswerWith(a, 400)
  /\ UNCHANGED <<recorded, stream, known>>

(* notification_delivery: "started", or an AuditError before anything.     *)
Started(a) ==
  /\ At(a, "validate") /\ work[a].of \notin Malformed
  /\ recorded' = recorded \cup {<<a, "started">>}
  /\ Move(a, "send")
  /\ UNCHANGED <<stream, answers, known>>
NotStarted(a) ==
  /\ At(a, "validate") /\ work[a].of \notin Malformed
  /\ AnswerWith(a, 503)
  /\ UNCHANGED <<recorded, stream, known>>

(* Mutant: the notifier's call that logs failures and returns. *)
NeverRaises(ok) == TRUE
Returns(ok) == ok

(* The strict send: it returns when Redis has said so, and raises else.    *)
SendEntry(a, taken, ok) ==
  /\ At(a, "send") /\ (ok => taken)
  /\ stream' = IF taken THEN stream \cup {a} ELSE stream
  /\ Move(a, IF Returns(ok) THEN "accepted" ELSE "failed")
  /\ UNCHANGED <<recorded, answers, known>>

(* finish: its own failure is not the delivery's. *)
Finished(a, written) ==
  /\ work[a].at \in {"accepted", "failed"}
  /\ recorded' = IF written THEN recorded \cup {<<a, work[a].at>>} ELSE recorded
  /\ AnswerWith(a, IF At(a, "accepted") THEN 202 ELSE 503)
  /\ UNCHANGED <<stream, known>>

(* The bridge is killed; its requests are not answered. *)
KillBridge ==
  /\ \E a \in Attempts : work[a].at \notin {"unused", "answered", "dead"}
  /\ work' = [a \in Attempts |-> IF work[a].at \in {"unused", "answered"} THEN work[a]
                                 ELSE [work[a] EXCEPT !.at = "dead"]]
  /\ UNCHANGED <<recorded, stream, answers, known>>

(* Alertmanager hears 202, or a client error, which it does not repeat.    *)
Hear(a, status) ==
  /\ <<a, status>> \in answers /\ known[work[a].of] = "pending"
  /\ known' = [known EXCEPT ![work[a].of] =
       CASE status = 202 -> "delivered" [] status = 400 -> "refused" [] OTHER -> @]
  /\ UNCHANGED <<work, recorded, stream, answers>>

DeliveryNext ==
  \/ \E a \in Attempts :
       \/ \E n \in Notifications : PostNotification(a, n)
       \/ RefusePayload(a) \/ Started(a) \/ NotStarted(a)
       \/ \E taken, ok \in BOOLEAN : SendEntry(a, taken, ok)
       \/ \E written \in BOOLEAN : Finished(a, written)
       \/ \E status \in {202, 400, 503} : Hear(a, status)
  \/ KillBridge

-----------------------------------------------------------------------------
(***************************************************************************)
(* DeliveryHonest: what Alertmanager will not send again was taken by      *)
(* Redis, or could not be understood; the journal says "accepted" only of  *)
(* an attempt that was taken, and knows of every attempt that was, however *)
(* attempts and faults are interleaved ("Record the adapter's              *)
(* acknowledgement").                                                      *)
(***************************************************************************)
DeliveryHonest ==
  /\ \A n \in Notifications :
       known[n] = "delivered" => \E a \in stream : work[a].of = n
  /\ \A a \in Attempts : <<a, "accepted">> \in recorded => a \in stream
  /\ \A a \in stream : <<a, "started">> \in recorded
=============================================================================
