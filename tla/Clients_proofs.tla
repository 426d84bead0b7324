---------------------------- MODULE Clients_proofs ----------------------------
(***************************************************************************)
(* Theorems about the programs around the agent, each alone: the status    *)
(* page, the journal page, the terminal interface, audit-send and the      *)
(* notification bridge.                                                    *)
(***************************************************************************)
EXTENDS StatusPage, JournalPage, Terminal, AuditForward, NotificationDelivery,
        SequenceTheorems, TLAPS

-----------------------------------------------------------------------------
(***************************************************************************)
(* The status page, for any number of identifiers and targets.             *)
(*                                                                         *)
(* A page may post an action once it knows that its earlier ones are over. *)
(* What it knows comes from two statuses: one in which an earlier request  *)
(* was listed, after which the page stops waiting for it, and a later one, *)
(* in which nothing was in flight.  The invariant says that the first      *)
(* shows that the request has reached the agent for good, and that a       *)
(* request which is still in flight is told by every status since.         *)
(***************************************************************************)

(* A request that will not reach the agent any more. *)
OffWire(i) == \A m \in wire : m.id # i

(* A status from which nothing can follow but that i is in flight or over. *)
Tells(status, i) == state[i] \in InFlight => status.busy

(* What was posted is over, or in flight and told so by the last status.   *)
Known(i) ==
  /\ OffWire(i) /\ Tells(data, i)
  /\ get.state = "served" => Tells(get.status, i)

Waiting(i) == i = unresolved \/ (posting /\ post.id = i)

StateOK ==
  /\ state \in [Ids -> {"absent"} \cup InFlight \cup Ended]
  /\ {auto, hidden, timer, loading, posting} \subseteq BOOLEAN
  /\ sent \subseteq used
  /\ posting \/ post = NoPost
  /\ \A i \in Ids \ used : state[i] = "absent"

WireOK ==
  /\ \A m \in wire : m.id \in used /\ m.id \in Ids /\ state[m.id] = "absent"
  /\ \A m, n \in wire : m.id = n.id => m = n

(* The status on its way, and the refusal on its way. *)
GetOK == get.state = "served" =>
           \A i \in get.status.recent \cap Ids :
             i \in used /\ OffWire(i) /\ Tells(get.status, i)
PostOK == posting => /\ post.id \in sent /\ unresolved = None
                     /\ post.answer = "rejected" => OffWire(post.id) /\ state[post.id] = "absent"

SentOK == \A i \in sent : i \in Ids /\ (Waiting(i) \/ Known(i))

IInv == StateOK /\ WireOK /\ GetOK /\ PostOK /\ SentOK

-----------------------------------------------------------------------------
(* An empty page, and an agent that has seen nothing. *)
LEMMA InitInv == Init => IInv
<1> SUFFICES ASSUME Init PROVE IInv
  OBVIOUS
<1>1. StateOK
  BY DEF Init, RInit, StateOK, InFlight, Ended
<1>2. WireOK /\ GetOK /\ PostOK /\ SentOK
  BY DEF Init, Sent, WireOK, GetOK, PostOK, SentOK
<1> QED BY <1>1, <1>2 DEF IInv

(* Steps of the page in which nothing is posted, answered or received. *)
LEMMA PageInv ==
  ASSUME IInv,
         UNCHANGED <<state, data, wire, post, posting, unresolved, sent, used>>,
         get' \in {get, NoGet, Sent},
         {auto', hidden', timer', loading'} \subseteq BOOLEAN
  PROVE  IInv'
<1>1. StateOK'
  BY DEF IInv, StateOK
<1>2. WireOK' /\ PostOK'
  BY DEF IInv, WireOK, PostOK, OffWire
<1>3. get'.state = "served" => get' = get
  BY DEF NoGet, Sent
<1>4. GetOK'
  BY <1>3 DEF IInv, GetOK, OffWire, Tells
<1>5. SentOK'
  BY <1>3 DEF IInv, SentOK, Known, Waiting, OffWire, Tells
<1> QED BY <1>1, <1>2, <1>4, <1>5 DEF IInv

(* What is listed has reached the agent; what is in flight makes it busy. *)
LEMMA ServeStatusInv ==
  ASSUME IInv, ServeStatus
  PROVE  IInv'
<1> USE DEF ServeStatus, agent, rvars, controls, history
<1>1. StateOK' /\ WireOK' /\ PostOK'
  BY DEF IInv, StateOK, WireOK, PostOK, OffWire
<1>2. get'.status.recent = {i \in Ids : state[i] # "absent"}
  BY DEF Status
<1>3. \A i \in Ids : Tells(get.status, i)'
  BY DEF Status, Tells
<1>4. GetOK'
  BY <1>2, <1>3 DEF IInv, StateOK, GetOK, WireOK, OffWire
<1>5. SentOK'
  BY <1>3 DEF IInv, SentOK, Known, Waiting, OffWire, Tells
<1> QED BY <1>1, <1>4, <1>5 DEF IInv

(* The status takes the place of the last one; the request that the page   *)
(* waits for may be listed in it.                                          *)
LEMMA StatusArrivesInv ==
  ASSUME IInv, StatusArrives
  PROVE  IInv'
<1> USE DEF StatusArrives, agent, rvars, history
<1>1. StateOK'
  BY DEF IInv, StateOK, Schedule
<1>2. WireOK' /\ PostOK'
  BY DEF IInv, WireOK, PostOK, OffWire
<1>3. get'.state # "served"
  BY DEF NoGet
<1>4. ASSUME NEW i \in sent PROVE i \in Ids /\ (Waiting(i)' \/ Known(i)')
  <2>1. CASE Known(i)
    BY <1>3, <2>1 DEF IInv, SentOK, Known, OffWire, Tells
  <2>2. CASE posting /\ post.id = i
    BY <2>2 DEF IInv, SentOK, Waiting
  <2>3. CASE i = unresolved /\ i \in get.status.recent
    BY <1>3, <2>3 DEF IInv, SentOK, GetOK, Known, OffWire, Tells
  <2>4. CASE i = unresolved /\ i \notin get.status.recent
    BY <2>4 DEF IInv, SentOK, Waiting
  <2> QED BY <2>1, <2>2, <2>3, <2>4 DEF IInv, SentOK, Waiting
<1> QED BY <1>1, <1>2, <1>3, <1>4 DEF IInv, GetOK, SentOK

(* When the page posts, what it has posted before is settled: it knows     *)
(* that all of it has reached the agent or will not, and nothing is busy.  *)
LEMMA PostOver ==
  ASSUME IInv, NEW t, CanAct(t), NEW i \in sent
  PROVE  Known(i) /\ Settled(i)
<1>1. ~posting /\ unresolved = None /\ ~data.busy
  BY DEF CanAct
<1>2. Known(i)
  BY <1>1, NoneAssumption DEF IInv, SentOK, Waiting
<1> QED BY <1>1, <1>2 DEF Known, OffWire, Tells, Settled

(* The new request is on the wire only, under an identifier of its own. *)
LEMMA PostInv ==
  ASSUME IInv, NEW i \in Ids, Post(i)
  PROVE  IInv'
<1> USE DEF Post, agent, rvars, controls
<1>1. /\ i \notin used /\ i \notin sent /\ state[i] = "absent"
      /\ \A j : j # i /\ OffWire(j) => OffWire(j)'
  BY DEF IInv, StateOK, OffWire
<1>2. StateOK'
  BY DEF IInv, StateOK
<1>3. WireOK'
  BY <1>1 DEF IInv, WireOK
<1>4. GetOK'
  BY <1>1 DEF IInv, GetOK, Tells
<1>5. PostOK'
  BY DEF PostOK, CanAct
<1>6. ASSUME NEW j \in sent PROVE j \in Ids /\ Known(j)'
  <2>1. j \in Ids /\ Known(j)
    BY PostOver DEF IInv, SentOK
  <2> QED BY <1>1, <2>1 DEF Known, Tells
<1>7. SentOK'
  BY <1>6 DEF SentOK, Waiting
<1> QED BY <1>2, <1>3, <1>4, <1>5, <1>7 DEF IInv

(* What is off the wire is not touched by the fate of what is on it. *)
LEMMA AnsweredInv ==
  ASSUME IInv, NEW m \in wire, NEW answer, Answered(m, answer), used' = used,
         state' \in [Ids -> {"absent"} \cup InFlight \cup Ended],
         \A i \in Ids : i = m.id \/ state'[i] = state[i] \/ state'[i] = "absent",
         state'[m.id] = "absent" \/ answer # "rejected"
  PROVE  IInv'
<1> USE DEF Answered, history
<1>1. /\ m.id \in Ids /\ m.id \in used /\ OffWire(m.id)'
      /\ \A i : OffWire(i) => i # m.id /\ OffWire(i)'
  BY DEF IInv, WireOK, OffWire
<1>2. ASSUME NEW i \in Ids, i # m.id PROVE /\ Tells(data, i) => Tells(data, i)'
                                           /\ Tells(get.status, i) => Tells(get.status, i)'
                                           /\ state[i] = "absent" => state'[i] = "absent"
  BY <1>2 DEF controls, Tells, InFlight
<1>3. StateOK'
  BY <1>1, <1>2, NoneAssumption DEF IInv, StateOK, NoPost
<1>4. WireOK'
  BY <1>1, <1>2 DEF IInv, WireOK
<1>5. GetOK'
  BY <1>1, <1>2 DEF IInv, GetOK
<1>6. PostOK'
  BY <1>1, <1>2 DEF IInv, PostOK, SentOK
<1>7. SentOK'
  BY <1>1, <1>2 DEF IInv, SentOK, Known, Waiting
<1> QED BY <1>3, <1>4, <1>5, <1>6, <1>7 DEF IInv

LEMMA AcceptedInv ==
  ASSUME IInv, NEW m \in wire, Accepted(m)
  PROVE  IInv'
<1>1. PICK dropped \in SUBSET Ids : Accept(m.id, dropped)
  BY DEF Accepted
<1>2. m.id \in Ids /\ state \in [Ids -> {"absent"} \cup InFlight \cup Ended]
  BY DEF IInv, WireOK, StateOK
<1>3. /\ state' \in [Ids -> {"absent"} \cup InFlight \cup Ended]
      /\ \A i \in Ids : i = m.id \/ state'[i] = state[i] \/ state'[i] = "absent"
  BY <1>1, <1>2 DEF Accept, InFlight
<1> QED BY <1>3, AnsweredInv DEF Accepted, Answered, history

LEMMA RefusedInv ==
  ASSUME IInv, NEW m \in wire, NEW answer, Refused(m, answer)
  PROVE  IInv'
<1>1. m.id \in Ids /\ state[m.id] = "absent" /\ state \in [Ids -> {"absent"} \cup InFlight \cup Ended]
  BY DEF IInv, WireOK, StateOK
<1> QED BY <1>1, AnsweredInv DEF Refused, Answered, agent, rvars, history

(* Without a refusal the page goes on waiting for its request. *)
LEMMA PostEndsInv ==
  ASSUME IInv, NEW answer, PostEnds(answer)
  PROVE  IInv'
<1> USE DEF PostEnds, agent, rvars, controls, history
<1>1. StateOK'
  BY DEF IInv, StateOK, Refresh
<1>2. WireOK' /\ PostOK'
  BY DEF IInv, WireOK, PostOK
<1>3. get'.state = "served" => get' = get
  BY DEF Refresh, Sent
<1>4. GetOK'
  BY <1>3 DEF IInv, GetOK, OffWire, Tells
<1>5. ASSUME NEW i \in sent, Known(i) PROVE Known(i)'
  BY <1>3, <1>5 DEF Known, OffWire, Tells
<1>6. ASSUME answer = "rejected" PROVE Known(post.id)
  BY <1>6 DEF IInv, PostOK, Known, Tells, InFlight
<1>7. ASSUME NEW i \in sent PROVE i \in Ids /\ (Waiting(i)' \/ Known(i)')
  <2>1. i \in Ids /\ i # unresolved
    BY NoneAssumption DEF IInv, SentOK, PostOK
  <2>2. CASE Known(i)
    BY <1>5, <2>1, <2>2
  <2>3. CASE i = post.id
    BY <1>5, <1>6, <2>1, <2>3 DEF Waiting, LeavesOpen
  <2> QED BY <2>1, <2>2, <2>3 DEF IInv, SentOK, Waiting
<1> QED BY <1>1, <1>2, <1>4, <1>7 DEF IInv, SentOK

(* A new page has posted nothing. *)
LEMMA ReloadInv ==
  ASSUME IInv, Reload
  PROVE  IInv'
<1> USE DEF Reload, NewPage, agent, rvars
<1>1. StateOK' /\ WireOK'
  BY DEF IInv, StateOK, WireOK
<1>2. GetOK' /\ PostOK' /\ SentOK'
  BY DEF Sent, GetOK, PostOK, SentOK
<1> QED BY <1>1, <1>2 DEF IInv

(* The agent goes on with what it has accepted, or forgets everything. *)
LEMMA AgentStepInv ==
  ASSUME IInv, AgentStep
  PROVE  IInv'
<1> USE DEF page, controls, history
<1>1. /\ state' \in [Ids -> {"absent"} \cup InFlight \cup Ended]
      /\ \A i \in Ids : /\ state[i] = "absent" => state'[i] = "absent"
                        /\ state'[i] \in InFlight => state[i] \in InFlight
  <2>1. state \in [Ids -> {"absent"} \cup InFlight \cup Ended]
    BY DEF IInv, StateOK
  <2>2. CASE ForgetAll
    BY <2>2 DEF ForgetAll, InFlight
  <2>3. CASE \E i \in Ids : GiveUp(i) \/ Start(i) \/ Attempt(i) \/ \E r \in Ended : Finish(i, r)
    BY <2>1, <2>3 DEF GiveUp, Start, Attempt, Finish, InFlight, Ended
  <2> QED BY <2>2, <2>3 DEF AgentStep
<1>2. \A i \in Ids : Tells(data, i) => Tells(data, i)'
  BY <1>1 DEF AgentStep, Tells
<1>3. \A i \in Ids : Tells(get.status, i) => Tells(get.status, i)'
  BY <1>1 DEF AgentStep, Tells
<1>4. StateOK' /\ WireOK' /\ PostOK'
  BY <1>1 DEF AgentStep, IInv, StateOK, WireOK, PostOK, SentOK, OffWire
<1>5. GetOK'
  BY <1>3 DEF AgentStep, IInv, GetOK, OffWire
<1>6. SentOK'
  BY <1>2, <1>3 DEF AgentStep, IInv, SentOK, Known, Waiting, OffWire
<1> QED BY <1>4, <1>5, <1>6 DEF IInv

-----------------------------------------------------------------------------
LEMMA NextInv == IInv /\ [Next]_vars => IInv'
<1> SUFFICES ASSUME IInv, [Next]_vars PROVE IInv'
  OBVIOUS
<1> USE DEF agent, rvars, controls, history
<1>1. {auto, hidden, timer, loading, posting} \subseteq BOOLEAN
  BY DEF IInv, StateOK
<1>2. CASE TimerFires \/ RefreshClicked \/ AutoToggled \/ VisibilityChanged
  BY <1>1, <1>2, PageInv DEF TimerFires, RefreshClicked, AutoToggled, VisibilityChanged, Refresh, Schedule
<1>3. CASE StatusFails \/ Interval \/ Tick
  BY <1>1, <1>3, PageInv DEF StatusFails, Interval, Tick, Schedule
<1>4. CASE (\E t \in Targets : ConfirmAction(t)) \/ Confirmed \/ Closed \/ Collect
  BY <1>1, <1>4, PageInv DEF ConfirmAction, Confirmed, Closed, Collect, page
<1>5. CASE ServeStatus
  BY <1>5, ServeStatusInv
<1>6. CASE StatusArrives
  BY <1>6, StatusArrivesInv
<1>7. CASE \E i \in Ids : Post(i)
  BY <1>7, PostInv
<1>8. CASE \E m \in wire : Accepted(m) \/ \E answer \in {"rejected", "unavailable", "none"} : Refused(m, answer)
  BY <1>8, AcceptedInv, RefusedInv
<1>9. CASE \E answer \in Answers : PostEnds(answer)
  BY <1>9, PostEndsInv
<1>10. CASE Reload
  BY <1>10, ReloadInv
<1>11. CASE AgentStep
  BY <1>11, AgentStepInv
<1>12. CASE UNCHANGED vars
  BY <1>1, <1>12, PageInv DEF vars
<1> QED BY <1>2, <1>3, <1>4, <1>5, <1>6, <1>7, <1>8, <1>9, <1>10, <1>11, <1>12 DEF Next

THEOREM Invariance == Spec => []IInv
<1> QED BY InitInv, NextInv, PTL DEF Spec

(***************************************************************************)
(* A page never posts an action while one that it posted before is in      *)
(* flight at the agent or may still arrive there.                          *)
(***************************************************************************)
THEOREM NeverBesideAnother == Spec => SettledBeforeNext
<1>1. IInv /\ [Next]_vars => [sent' \ sent # {} => \A i \in sent : Settled(i)]_vars
  <2> SUFFICES ASSUME IInv, Next, NEW j \in sent' \ sent, NEW i \in sent
               PROVE  Settled(i)
    BY DEF vars
  <2>1. \E k \in Ids : Post(k)
    BY DEF Next, TimerFires, RefreshClicked, AutoToggled, VisibilityChanged, ServeStatus, StatusArrives,
           StatusFails, Interval, Tick, ConfirmAction, Confirmed, Closed, Accepted, Refused, Answered,
           PostEnds, Reload, NewPage, Collect, AgentStep, page, history
  <2> QED BY <2>1, PostOver DEF Post
<1> QED BY <1>1, Invariance, PTL DEF Spec, SettledBeforeNext

(***************************************************************************)
(* A visible page with automatic refresh has its next refresh planned or   *)
(* under way.                                                              *)
(***************************************************************************)
THEOREM PollingGoesOn == Spec => []PollingArmed
<1>1. Init => PollingArmed
  BY DEF Init, PollingArmed
<1>2. IInv /\ PollingArmed /\ [Next]_vars => PollingArmed'
  <2> SUFFICES ASSUME IInv, PollingArmed, [Next]_vars PROVE PollingArmed'
    OBVIOUS
  <2> USE DEF PollingArmed, history
  <2>1. {auto, hidden, timer, loading, posting} \subseteq BOOLEAN
    BY DEF IInv, StateOK
  <2>2. CASE TimerFires \/ RefreshClicked \/ AutoToggled \/ VisibilityChanged
    BY <2>1, <2>2 DEF TimerFires, RefreshClicked, AutoToggled, VisibilityChanged, Refresh, Schedule
  <2>3. CASE ServeStatus \/ StatusArrives \/ StatusFails \/ Interval \/ Tick
    BY <2>1, <2>3 DEF ServeStatus, StatusArrives, StatusFails, Interval, Tick, Schedule
  <2>4. CASE (\E t \in Targets : ConfirmAction(t)) \/ Confirmed \/ Closed \/ \E i \in Ids : Post(i)
    BY <2>4 DEF ConfirmAction, Confirmed, Closed, Post
  <2>5. ASSUME NEW m \in wire, Accepted(m) \/ \E answer \in {"rejected", "unavailable", "none"} : Refused(m, answer)
        PROVE  PollingArmed'
    <3>1. PICK answer : Answered(m, answer)
      BY <2>5 DEF Accepted, Refused
    <3> QED BY <3>1 DEF Answered
  <2>6. CASE \E answer \in Answers : PostEnds(answer)
    BY <2>1, <2>6 DEF PostEnds, Refresh
  <2>7. CASE Reload
    BY <2>7 DEF Reload, NewPage
  <2>8. CASE Collect \/ AgentStep \/ UNCHANGED vars
    BY <2>8 DEF Collect, AgentStep, page, vars
  <2> QED BY <2>2, <2>3, <2>4, <2>5, <2>6, <2>7, <2>8 DEF Next
<1> QED BY <1>1, <1>2, Invariance, PTL DEF Spec

-----------------------------------------------------------------------------
(***************************************************************************)
(* The bridge.  An attempt leaves "unused" once; from then on its          *)
(* notification does not change, and what is known of it can be traced     *)
(* back, through its answer and its place, to the stream and the journal.  *)
(***************************************************************************)
WorkPlaces == {"unused", "validate", "send", "accepted", "failed", "answered", "dead"}

DeliveryTyped ==
  /\ work \in [Attempts -> [of : Notifications \cup {"none"}, at : WorkPlaces]]
  /\ known \in [Notifications -> {"pending", "delivered", "refused"}]
  /\ stream \subseteq Attempts

RecordsOf(a) == {k \in {"started", "accepted", "failed"} : <<a, k>> \in recorded}
AnswersOf(a) == {k \in {202, 400, 503} : <<a, k>> \in answers}

AttemptOK(a) ==
  /\ At(a, "unused") => a \notin stream /\ AnswersOf(a) = {}
  /\ work[a].at \in {"send", "accepted", "failed"} \/ a \in stream => "started" \in RecordsOf(a)
  /\ At(a, "accepted") \/ 202 \in AnswersOf(a) \/ "accepted" \in RecordsOf(a) => a \in stream
HeardOK == \A n \in Notifications : known[n] = "delivered" => \E a \in stream : work[a].of = n

DeliveryInv == DeliveryTyped /\ (\A a \in Attempts : AttemptOK(a)) /\ HeardOK

LEMMA InitDelivery == DeliveryInit => DeliveryInv
<1> SUFFICES ASSUME DeliveryInit PROVE DeliveryInv
  OBVIOUS
<1>1. DeliveryTyped /\ HeardOK
  BY DEF DeliveryInit, DeliveryTyped, HeardOK, Unused, WorkPlaces
<1>2. \A a \in Attempts : AnswersOf(a) = {} /\ RecordsOf(a) = {} /\ work[a].at = "unused" /\ a \notin stream
  BY DEF DeliveryInit, AnswersOf, RecordsOf, Unused
<1> QED BY <1>1, <1>2 DEF DeliveryInv, AttemptOK, At

(* A step of one attempt. *)
LEMMA AttemptStep ==
  ASSUME DeliveryInv, NEW a \in Attempts, NEW n \in Notifications \cup {"none"}, NEW step \in WorkPlaces,
         step # "unused", At(a, "unused") \/ n = work[a].of,
         work' = [work EXCEPT ![a] = [of |-> n, at |-> step]],
         UNCHANGED known, stream \subseteq stream', stream' \subseteq stream \cup {a},
         \A b \in Attempts \ {a} : RecordsOf(b)' = RecordsOf(b) /\ AnswersOf(b)' = AnswersOf(b),
         step \in {"send", "accepted", "failed"} \/ a \in stream' => "started" \in RecordsOf(a)',
         step = "accepted" \/ 202 \in AnswersOf(a)' \/ "accepted" \in RecordsOf(a)' => a \in stream'
  PROVE  DeliveryInv'
<1>1. DeliveryTyped'
  BY DEF DeliveryInv, DeliveryTyped
<1>2. work'[a] = [of |-> n, at |-> step] /\ \A b \in Attempts \ {a} : work'[b] = work[b]
  BY DEF DeliveryInv, DeliveryTyped
<1>3. ASSUME NEW b \in Attempts PROVE AttemptOK(b)'
  <2>1. AttemptOK(b)
    BY DEF DeliveryInv
  <2>2. CASE b = a
    BY <1>2, <2>1, <2>2 DEF AttemptOK, At
  <2>3. CASE b # a
    BY <1>2, <2>1, <2>3 DEF AttemptOK, At
  <2> QED BY <2>2, <2>3
<1>4. HeardOK'
  <2>1. ASSUME NEW m \in Notifications, known'[m] = "delivered" PROVE \E b \in stream' : work'[b].of = m
    <3>1. PICK b \in stream : work[b].of = m
      BY <2>1 DEF DeliveryInv, HeardOK
    <3>2. b \in Attempts /\ AttemptOK(b)
      BY DEF DeliveryInv, DeliveryTyped
    <3>3. work'[b].of = m
      BY <1>2, <3>1, <3>2 DEF AttemptOK
    <3> QED BY <3>1, <3>3
  <2> QED BY <2>1 DEF HeardOK
<1> QED BY <1>1, <1>3, <1>4 DEF DeliveryInv

LEMMA MoveStep ==
  ASSUME DeliveryInv, NEW a \in Attempts, NEW step \in WorkPlaces \ {"unused"},
         work' = [work EXCEPT ![a] = [of |-> work[a].of, at |-> step]],
         UNCHANGED <<stream, known>>,
         \A b \in Attempts \ {a} : RecordsOf(b)' = RecordsOf(b) /\ AnswersOf(b)' = AnswersOf(b),
         step \in {"send", "accepted", "failed"} \/ a \in stream' => "started" \in RecordsOf(a)',
         step = "accepted" \/ 202 \in AnswersOf(a)' \/ "accepted" \in RecordsOf(a)' => a \in stream'
  PROVE  DeliveryInv'
<1> DEFINE n == work[a].of
<1>1. n \in Notifications \cup {"none"} /\ n = work[a].of
  BY DEF DeliveryInv, DeliveryTyped
<1>2. work' = [work EXCEPT ![a] = [of |-> n, at |-> step]]
  OBVIOUS
<1> HIDE DEF n
<1> QED BY <1>1, <1>2, AttemptStep

(* What the journal and the answers gain is of the attempt that writes.    *)
LEMMA OneRecord ==
  ASSUME NEW a \in Attempts, NEW k \in {"started", "accepted", "failed"},
         recorded' = recorded \cup {<<a, k>>}
  PROVE  /\ \A b \in Attempts \ {a} : RecordsOf(b)' = RecordsOf(b)
         /\ RecordsOf(a)' = RecordsOf(a) \cup {k}
BY DEF RecordsOf
LEMMA OneAnswer ==
  ASSUME NEW a \in Attempts, NEW k \in {202, 400, 503}, answers' = answers \cup {<<a, k>>}
  PROVE  /\ \A b \in Attempts \ {a} : AnswersOf(b)' = AnswersOf(b)
         /\ AnswersOf(a)' = AnswersOf(a) \cup {k}
BY DEF AnswersOf
LEMMA SameTraces ==
  /\ UNCHANGED recorded => \A b \in Attempts : RecordsOf(b)' = RecordsOf(b)
  /\ UNCHANGED answers => \A b \in Attempts : AnswersOf(b)' = AnswersOf(b)
BY DEF RecordsOf, AnswersOf

LEMMA NextDelivery == DeliveryInv /\ [DeliveryNext]_deliveryVars => DeliveryInv'
<1> SUFFICES ASSUME DeliveryInv, [DeliveryNext]_deliveryVars PROVE DeliveryInv'
  OBVIOUS
<1>0. DeliveryTyped /\ HeardOK /\ \A a \in Attempts : AttemptOK(a)
  BY DEF DeliveryInv
<1>a. \A a \in Attempts : work[a] \in [of : Notifications \cup {"none"}, at : WorkPlaces]
  BY <1>0 DEF DeliveryTyped
<1>1. CASE UNCHANGED deliveryVars
  <2>1. UNCHANGED <<work, known, stream>> /\ \A b \in Attempts : RecordsOf(b)' = RecordsOf(b) /\ AnswersOf(b)' = AnswersOf(b)
    BY <1>1, SameTraces DEF deliveryVars
  <2> QED BY <2>1 DEF DeliveryInv, DeliveryTyped, HeardOK, AttemptOK, At
<1>2. ASSUME NEW a \in Attempts, NEW n \in Notifications, PostNotification(a, n) PROVE DeliveryInv'
  <2>1. /\ At(a, "unused") /\ work' = [work EXCEPT ![a] = [of |-> n, at |-> "validate"]]
        /\ UNCHANGED <<recorded, stream, answers, known>>
    BY <1>2 DEF PostNotification
  <2>2. AttemptOK(a) /\ "validate" \in WorkPlaces /\ n \in Notifications \cup {"none"}
    BY <1>0 DEF WorkPlaces
  <2>3. a \notin stream /\ "accepted" \notin RecordsOf(a)' /\ 202 \notin AnswersOf(a)'
    BY <2>1, <2>2, SameTraces DEF AttemptOK
  <2> QED BY <2>1, <2>2, <2>3, SameTraces, AttemptStep
<1>3. ASSUME NEW a \in Attempts, NEW step, Move(a, step)
      PROVE  work' = [work EXCEPT ![a] = [of |-> work[a].of, at |-> step]]
  <2>1. work' = [work EXCEPT ![a] = [work[a] EXCEPT !.at = step]]
    BY <1>3 DEF Move
  <2>2. [work[a] EXCEPT !.at = step] = [of |-> work[a].of, at |-> step]
    BY <1>a
  <2> QED BY <2>1, <2>2
<1>4. ASSUME NEW a \in Attempts, RefusePayload(a) \/ NotStarted(a) PROVE DeliveryInv'
  <2>1. ASSUME NEW status \in {400, 503}, AnswerWith(a, status) PROVE DeliveryInv'
    <3>1. "answered" \in WorkPlaces /\ work[a].of \in Notifications \cup {"none"} /\ AttemptOK(a)
      BY <1>0, <1>a DEF WorkPlaces
    <3>2. work' = [work EXCEPT ![a] = [of |-> work[a].of, at |-> "answered"]]
      BY <1>3, <2>1 DEF AnswerWith
    <3>3. answers' = answers \cup {<<a, status>>} /\ UNCHANGED <<recorded, stream, known>>
      BY <1>4, <2>1 DEF RefusePayload, NotStarted, AnswerWith
    <3>4. /\ \A b \in Attempts \ {a} : AnswersOf(b)' = AnswersOf(b)
          /\ AnswersOf(a)' = AnswersOf(a) \cup {status}
      BY <3>3, OneAnswer
    <3>5. \A b \in Attempts \ {a} : RecordsOf(b)' = RecordsOf(b) /\ AnswersOf(b)' = AnswersOf(b)
      BY <3>3, <3>4, SameTraces
    <3>6. /\ a \in stream' => "started" \in RecordsOf(a)'
          /\ 202 \in AnswersOf(a)' \/ "accepted" \in RecordsOf(a)' => a \in stream'
      BY <3>1, <3>3, <3>4, SameTraces DEF AttemptOK
    <3>7. UNCHANGED <<stream, known>>
      BY <3>3
    <3> DEFINE step == "answered"
    <3>8. /\ step \in WorkPlaces \ {"unused"}
          /\ step \notin {"send", "accepted", "failed"} /\ step # "accepted"
      BY <3>1
    <3>9. work' = [work EXCEPT ![a] = [of |-> work[a].of, at |-> step]]
      BY <3>2
    <3> HIDE DEF step
    <3> QED BY <3>5, <3>6, <3>7, <3>8, <3>9, MoveStep
  <2> QED BY <1>4, <2>1 DEF RefusePayload, NotStarted
<1>5. ASSUME NEW a \in Attempts, Started(a) PROVE DeliveryInv'
  <2>1. "send" \in WorkPlaces /\ work[a].of \in Notifications \cup {"none"} /\ AttemptOK(a)
    BY <1>0, <1>a DEF WorkPlaces
  <2>2. /\ work' = [work EXCEPT ![a] = [of |-> work[a].of, at |-> "send"]]
        /\ recorded' = recorded \cup {<<a, "started">>} /\ UNCHANGED <<stream, answers, known>>
    BY <1>3, <1>5 DEF Started
  <2>3. /\ \A b \in Attempts \ {a} : RecordsOf(b)' = RecordsOf(b)
        /\ RecordsOf(a)' = RecordsOf(a) \cup {"started"}
    BY <2>2, OneRecord
  <2>4. 202 \in AnswersOf(a)' \/ "accepted" \in RecordsOf(a)' => a \in stream'
    BY <2>1, <2>2, <2>3, SameTraces DEF AttemptOK
  <2> QED BY <2>1, <2>2, <2>3, <2>4, SameTraces, AttemptStep
<1>6. ASSUME NEW a \in Attempts, NEW taken \in BOOLEAN, NEW ok \in BOOLEAN, SendEntry(a, taken, ok)
      PROVE  DeliveryInv'
  <2> DEFINE step == IF ok THEN "accepted" ELSE "failed"
  <2>1. step \in WorkPlaces /\ step # "unused" /\ work[a].of \in Notifications \cup {"none"}
        /\ AttemptOK(a) /\ step \in {"accepted", "failed"} /\ (step = "accepted" => ok)
    BY <1>0, <1>a DEF WorkPlaces
  <2>2. /\ work' = [work EXCEPT ![a] = [of |-> work[a].of, at |-> step]]
        /\ stream' = (IF taken THEN stream \cup {a} ELSE stream) /\ UNCHANGED <<recorded, answers, known>>
        /\ (ok => taken) /\ At(a, "send")
    BY <1>3, <1>6 DEF SendEntry, Returns
  <2> HIDE DEF step
  <2>3. /\ "started" \in RecordsOf(a)'
        /\ step = "accepted" \/ 202 \in AnswersOf(a)' \/ "accepted" \in RecordsOf(a)' => a \in stream'
    BY <2>1, <2>2, SameTraces DEF AttemptOK, At
  <2>4. stream \subseteq stream' /\ stream' \subseteq stream \cup {a}
    BY <2>2
  <2> QED BY <2>1, <2>2, <2>3, <2>4, SameTraces, AttemptStep
<1>7. ASSUME NEW a \in Attempts, NEW written \in BOOLEAN, Finished(a, written) PROVE DeliveryInv'
  <2> DEFINE status == IF At(a, "accepted") THEN 202 ELSE 503
  <2>1. "answered" \in WorkPlaces /\ work[a].of \in Notifications \cup {"none"} /\ AttemptOK(a)
    BY <1>0, <1>a DEF WorkPlaces
  <2>2. /\ work' = [work EXCEPT ![a] = [of |-> work[a].of, at |-> "answered"]]
        /\ answers' = answers \cup {<<a, status>>} /\ UNCHANGED <<stream, known>>
        /\ recorded' = (IF written THEN recorded \cup {<<a, work[a].at>>} ELSE recorded)
        /\ work[a].at \in {"accepted", "failed"}
    BY <1>3, <1>7 DEF Finished, AnswerWith
  <2>3. status \in {202, 400, 503} /\ (status = 202 => At(a, "accepted"))
    OBVIOUS
  <2> HIDE DEF status
  <2>4. /\ \A b \in Attempts \ {a} : AnswersOf(b)' = AnswersOf(b)
        /\ AnswersOf(a)' = AnswersOf(a) \cup {status}
    BY <2>2, <2>3, OneAnswer
  <2>5. /\ \A b \in Attempts \ {a} : RecordsOf(b)' = RecordsOf(b)
        /\ RecordsOf(a)' = RecordsOf(a) \/ RecordsOf(a)' = RecordsOf(a) \cup {work[a].at}
    <3>1. CASE written
      BY <2>2, <3>1, OneRecord
    <3>2. CASE ~written
      BY <2>2, <3>2, SameTraces
    <3> QED BY <3>1, <3>2
  <2>6. /\ "started" \in RecordsOf(a)'
        /\ 202 \in AnswersOf(a)' \/ "accepted" \in RecordsOf(a)' => a \in stream'
    BY <2>1, <2>2, <2>3, <2>4, <2>5 DEF AttemptOK, At
  <2> QED BY <2>1, <2>2, <2>4, <2>5, <2>6, AttemptStep
<1>8. ASSUME NEW a \in Attempts, NEW status \in {202, 400, 503}, Hear(a, status) PROVE DeliveryInv'
  <2>1. UNCHANGED <<work, recorded, stream, answers>>
    BY <1>8 DEF Hear
  <2>2. status = 202 => a \in stream
    <3>1. AttemptOK(a) /\ status \in AnswersOf(a)
      BY <1>0, <1>8 DEF Hear, AnswersOf
    <3> QED BY <3>1 DEF AttemptOK
  <2>3. /\ known' \in [Notifications -> {"pending", "delivered", "refused"}]
        /\ \A n \in Notifications : known'[n] = "delivered" =>
             known[n] = "delivered" \/ (status = 202 /\ n = work[a].of)
    <3> DEFINE n == work[a].of
               heard == CASE status = 202 -> "delivered" [] status = 400 -> "refused"
                          [] OTHER -> known[n]
    <3>1. known' = [known EXCEPT ![n] = heard] /\ known[n] = "pending"
      BY <1>8 DEF Hear
    <3>2. /\ heard \in {"pending", "delivered", "refused"}
          /\ heard = "delivered" => status = 202
      BY <3>1
    <3> HIDE DEF heard, n
    <3>3. known \in [Notifications -> {"pending", "delivered", "refused"}]
      BY <1>0 DEF DeliveryTyped
    <3>4. ASSUME NEW m \in Notifications, known'[m] = "delivered"
          PROVE  known[m] = "delivered" \/ (status = 202 /\ m = n)
      <4>1. known'[m] = IF m = n THEN heard ELSE known[m]
        BY <3>1, <3>3
      <4> QED BY <3>2, <3>4, <4>1
    <3>5. known' \in [Notifications -> {"pending", "delivered", "refused"}]
      BY <3>1, <3>2, <3>3
    <3> QED BY <3>4, <3>5 DEF n
  <2>4. \A b \in Attempts : AttemptOK(b)'
    BY <1>0, <2>1, SameTraces DEF AttemptOK, At
  <2>5. HeardOK'
    BY <1>0, <2>1, <2>2, <2>3 DEF HeardOK
  <2> QED BY <1>0, <2>1, <2>3, <2>4, <2>5 DEF DeliveryInv, DeliveryTyped
<1>9. CASE KillBridge
  <2>1. /\ UNCHANGED <<recorded, stream, answers, known>>
        /\ work' \in [Attempts -> [of : Notifications \cup {"none"}, at : WorkPlaces]]
    BY <1>a, <1>9 DEF KillBridge, WorkPlaces
  <2>a. ASSUME NEW a \in Attempts
        PROVE  work'[a].of = work[a].of /\ (work'[a].at = work[a].at \/ work'[a].at = "dead")
    BY <1>a, <1>9 DEF KillBridge
  <2>2. ASSUME NEW a \in Attempts PROVE AttemptOK(a)'
    <3>1. AttemptOK(a) /\ (work'[a].at = work[a].at \/ work'[a].at = "dead")
      BY <1>0, <2>a
    <3> QED BY <2>1, <3>1, SameTraces DEF AttemptOK, At
  <2>3. DeliveryTyped'
    BY <1>0, <2>1 DEF DeliveryTyped
  <2>4. HeardOK'
    <3>1. ASSUME NEW n \in Notifications, known[n] = "delivered" PROVE \E a \in stream : work'[a].of = n
      <4>1. PICK a \in stream : work[a].of = n
        BY <1>0, <3>1 DEF HeardOK
      <4>2. a \in Attempts
        BY <1>0 DEF DeliveryTyped
      <4>3. work'[a].of = work[a].of
        BY <2>a, <4>2
      <4> QED BY <4>1, <4>3
    <3> QED BY <2>1, <3>1 DEF HeardOK
  <2> QED BY <2>2, <2>3, <2>4 DEF DeliveryInv
<1> QED BY <1>1, <1>2, <1>4, <1>5, <1>6, <1>7, <1>8, <1>9 DEF DeliveryNext

(***************************************************************************)
(* A notification that Alertmanager will not send again was taken by Redis *)
(* or could not be understood, "accepted" is journaled of no other         *)
(* attempt, and every attempt that was taken is known to the journal:      *)
(* whichever attempts overlap, fail, or are cut short.                     *)
(***************************************************************************)
THEOREM DeliveriesHonest == DeliveryInit /\ [][DeliveryNext]_deliveryVars => []DeliveryHonest
<1>1. ASSUME DeliveryInv PROVE DeliveryHonest
  <2>1. ASSUME NEW a \in Attempts PROVE <<a, "accepted">> \in recorded => a \in stream
    <3>1. AttemptOK(a)
      BY <1>1 DEF DeliveryInv
    <3> QED BY <3>1 DEF AttemptOK, RecordsOf
  <2>2. ASSUME NEW a \in stream PROVE <<a, "started">> \in recorded
    <3>1. a \in Attempts /\ AttemptOK(a)
      BY <1>1 DEF DeliveryInv, DeliveryTyped
    <3> QED BY <3>1 DEF AttemptOK, RecordsOf
  <2> QED BY <1>1, <2>1, <2>2 DEF DeliveryHonest, DeliveryInv, HeardOK
<1> QED BY <1>1, InitDelivery, NextDelivery, PTL

-----------------------------------------------------------------------------
(***************************************************************************)
(* The terminal.                                                           *)
(***************************************************************************)
DataRecords ==
  [enabled : BOOLEAN, rows : BOOLEAN, failed : BOOLEAN, records : BOOLEAN, unread : BOOLEAN,
   age : 0 .. Never]
DataOK(d) == d \in DataRecords /\ (d.rows => ~d.failed /\ d.age # Never)

MainPlaces == {"check", "create", "start", "install", "enter", "loop", "details", "restore",
               "uninstall", "close", "join", "gone", "killed"}
SignalsOK ==
  /\ main \in MainPlaces
  /\ caught \subseteq {"HUP", "TERM"}
  /\ main \in {"enter", "loop", "details", "restore"} => caught = {"HUP", "TERM"}
  /\ main \in {"check", "create", "start"} => caught = {} /\ thread = "none"
  /\ main \in {"close", "join", "gone"} /\ ~broken => caught = {}
TtyOK == tty \in {"cooked", "raw"} /\ (tty = "raw" => broken \/ main \in {"loop", "details", "restore"})
StopOK == main = "join" \/ (main = "gone" /\ thread # "none") => stop

TerminalInv == DataOK(draft) /\ DataOK(shared) /\ SignalsOK /\ TtyOK /\ StopOK /\ ListTruthful

LEMMA InitTerminal == TerminalInit => TerminalInv
<1> SUFFICES ASSUME TerminalInit PROVE TerminalInv
  OBVIOUS
<1>1. NoData \in DataRecords /\ NoData.rows = FALSE
  BY StaleAfterAssumption DEF NoData, DataRecords, Never
<1>2. DataOK(draft) /\ DataOK(shared)
  BY <1>1 DEF TerminalInit, DataOK, DataRecords
<1>3. SignalsOK /\ TtyOK /\ StopOK /\ ListTruthful
  BY DEF TerminalInit, SignalsOK, MainPlaces, TtyOK, StopOK, ListTruthful, NoScreen
<1> QED BY <1>2, <1>3 DEF TerminalInv

(* The observing thread: what it prepares and publishes.                   *)
ThreadStep ==
  \/ \E ok \in BOOLEAN : Observe(ok) \/ ReadRecords(ok)
  \/ ReadUnavailable \/ ThreadDies \/ Publish \/ Awake \/ Elapse

LEMMA ObservedOK == TerminalInv /\ ThreadStep => TerminalInv'
<1> SUFFICES ASSUME TerminalInv, ThreadStep PROVE TerminalInv'
  OBVIOUS
<1>0. /\ DataOK(draft) /\ DataOK(shared) /\ StaleAfter \in Nat
      /\ SignalsOK /\ TtyOK /\ StopOK /\ ListTruthful
  BY StaleAfterAssumption DEF TerminalInv
<1>1. DataOK(draft)' /\ DataOK(shared)'
  <2>1. ASSUME NEW ok \in BOOLEAN, Observe(ok) PROVE DataOK(draft)' /\ DataOK(shared)'
    <3> DEFINE d == [draft EXCEPT !.rows = ok, !.failed = ~ok, !.age = 0]
    <3>1. d \in DataRecords /\ (d.rows => ~d.failed /\ d.age # Never)
      <4>1. draft \in DataRecords /\ 0 \in 0 .. Never /\ 0 # Never
        BY <1>0 DEF DataOK, Never
      <4>a. (~ok) \in BOOLEAN
        BY Zenon
      <4>2. d \in DataRecords
        BY <4>1, <4>a DEF DataRecords
      <4>3. d.rows = ok /\ d.failed = ~ok /\ d.age = 0
        BY <4>1 DEF DataRecords
      <4> HIDE DEF d
      <4> QED BY <4>1, <4>2, <4>3
    <3>2. draft' = d /\ shared' = shared
      BY <2>1 DEF Observe, NewRows
    <3> HIDE DEF d
    <3> QED BY <1>0, <3>1, <3>2 DEF DataOK
  <2>2. ASSUME NEW ok \in BOOLEAN, ReadRecords(ok) PROVE DataOK(draft)' /\ DataOK(shared)'
    BY <1>0, <2>2 DEF ReadRecords, DataOK, DataRecords
  <2>3. CASE ReadUnavailable
    BY <1>0, <2>3 DEF ReadUnavailable, DataOK, DataRecords
  <2>4. CASE ThreadDies \/ Awake
    BY <1>0, <2>4 DEF ThreadDies, Awake, DataOK
  <2>5. CASE Publish
    BY <1>0, <2>5 DEF Publish, DataOK, DataRecords, NoData, Never
  <2>6. ASSUME NEW d, DataOK(d) PROVE DataOK(Older(d))
    BY <1>0, <2>6 DEF Older, DataOK, DataRecords, Never
  <2>7. CASE Elapse
    BY <1>0, <2>6, <2>7 DEF Elapse, DataOK
  <2> QED BY <2>1, <2>2, <2>3, <2>4, <2>5, <2>7 DEF ThreadStep
<1>2. UNCHANGED <<control, display>> /\ (thread = "none" => thread' = "none")
  BY DEF ThreadStep, Observe, ReadRecords, ReadUnavailable, ThreadDies, Publish, Awake, Elapse
<1>3. SignalsOK' /\ TtyOK' /\ StopOK' /\ ListTruthful'
  BY <1>0, <1>2 DEF SignalsOK, TtyOK, StopOK, ListTruthful, control, display
<1> QED BY <1>1, <1>3 DEF TerminalInv

(* What the main thread draws of it.                                       *)
LEMMA DrawnOK == TerminalInv /\ (Draw \/ Tab) => TerminalInv'
<1> SUFFICES ASSUME TerminalInv, Draw \/ Tab PROVE TerminalInv'
  OBVIOUS
<1>0. /\ DataOK(shared) /\ StaleAfter \in Nat /\ ListTruthful
  BY StaleAfterAssumption DEF TerminalInv
<1>1. CASE Draw
  <2>1. screen'.view = "containers" /\ screen'.rows => screen'.note = "updated" /\ screen'.sound
    BY <1>0, <1>1 DEF Draw, Listed, Note, Failure, Stale, DataOK, DataRecords, Never
  <2>2. screen'.empty => screen'.note \in {"updated", "disabled", "stale"}
    BY <1>1 DEF Draw, Note
  <2> QED BY <1>1, <2>1, <2>2 DEF Draw, ListTruthful, TerminalInv, DataOK, SignalsOK, TtyOK, StopOK,
                                  control, observed
<1>2. CASE Tab
  BY <1>2 DEF Tab, TerminalInv, DataOK, SignalsOK, TtyOK, StopOK, ListTruthful, control, observed
<1> QED BY <1>1, <1>2

(* The course of the main thread, up to its end.                           *)
LEMMA CourseOK ==
  ASSUME TerminalInv, UNCHANGED <<draft, shared, view, screen>>, SignalsOK', TtyOK', StopOK'
  PROVE  TerminalInv'
BY DEF TerminalInv, DataOK, ListTruthful

LEMMA SignalOK ==
  ASSUME TerminalInv, NEW sig \in {"HUP", "TERM", "INT"}, Signal(sig)
  PROVE  TerminalInv'
<1>1. /\ main \notin {"gone", "killed"} /\ UNCHANGED <<tty, caught, stop, view, screen, thread, draft, shared>>
      /\ broken' = (broken \/ main \in {"restore", "uninstall"})
      /\ main' = IF sig \notin caught \cup {"INT"} THEN "killed"
                 ELSE CASE main \in {"loop", "details"} -> "restore"
                        [] main \in {"install", "enter", "restore"} -> "uninstall"
                        [] main \in {"start", "uninstall"} -> "close"
                        [] main \in {"check", "create", "close", "join"} -> "killed"
  BY DEF Signal, display, observed
<1>2. SignalsOK /\ TtyOK /\ StopOK
  BY DEF TerminalInv
<1>3. CASE main' = "killed"
  <2>1. main \notin {"loop", "details", "restore"}
    <3>1. main \in {"loop", "details", "restore"} => sig \in caught \cup {"INT"}
      BY <1>2 DEF SignalsOK
    <3> QED BY <1>1, <1>3, <3>1
  <2>2. tty = "cooked" \/ broken
    BY <1>1, <1>2, <1>3, <2>1 DEF TtyOK
  <2>3. SignalsOK' /\ TtyOK' /\ StopOK'
    BY <1>1, <1>2, <1>3, <2>2 DEF SignalsOK, MainPlaces, TtyOK, StopOK
  <2> QED BY <1>1, <2>3, CourseOK
<1>4. CASE main' # "killed"
  <2>1. \/ main \in {"loop", "details"} /\ main' = "restore"
        \/ main \in {"install", "enter", "restore"} /\ main' = "uninstall"
        \/ main \in {"start", "uninstall"} /\ main' = "close"
    BY <1>1, <1>2, <1>4 DEF SignalsOK, MainPlaces
  <2>2. SignalsOK' /\ TtyOK' /\ StopOK'
    BY <1>1, <1>2, <2>1 DEF SignalsOK, MainPlaces, TtyOK, StopOK
  <2> QED BY <1>1, <2>2, CourseOK
<1> QED BY <1>3, <1>4

LEMMA NextTerminal == TerminalInv /\ [TerminalNext]_tvars => TerminalInv'
<1> SUFFICES ASSUME TerminalInv, [TerminalNext]_tvars PROVE TerminalInv'
  OBVIOUS
<1>1. CASE UNCHANGED tvars
  BY <1>1 DEF tvars, control, display, observed, TerminalInv, DataOK, SignalsOK, TtyOK, StopOK, ListTruthful
<1>2. CASE ThreadStep
  BY <1>2, ObservedOK
<1>3. CASE Draw \/ Tab
  BY <1>3, DrawnOK
<1>4. ASSUME NEW sig \in {"HUP", "TERM", "INT"}, Signal(sig) PROVE TerminalInv'
  BY <1>4, SignalOK
<1>5. CASE \/ CheckTerminal \/ RefuseTerminal \/ Create \/ CreateFails \/ Details \/ Back \/ Leave \/ Join
  <2>1. /\ UNCHANGED <<tty, caught, broken, stop, view, screen, thread, draft, shared>>
        /\ \/ main \in {"check", "create"} /\ main' \in {"create", "start", "gone"}
           \/ main \in {"loop", "details"} /\ main' \in {"loop", "details", "restore"}
           \/ main = "join" /\ main' = "gone"
    BY <1>5 DEF CheckTerminal, RefuseTerminal, Create, CreateFails, Details, Back, Leave, Join, Step,
                Quiet, Over, display, observed
  <2>2. SignalsOK' /\ TtyOK' /\ StopOK'
    BY <2>1 DEF TerminalInv, SignalsOK, MainPlaces, TtyOK, StopOK
  <2> QED BY <2>1, <2>2, CourseOK
<1>6. CASE StartThread
  BY <1>6, CourseOK DEF StartThread, Step, display, TerminalInv, SignalsOK, MainPlaces, TtyOK, StopOK
<1>7. CASE Install
  BY <1>7, CourseOK DEF Install, display, observed, TerminalInv, SignalsOK, MainPlaces, TtyOK, StopOK
<1>8. CASE EnterCurses
  BY <1>8, CourseOK DEF EnterCurses, HandlersFirst, Step, display, observed,
                        TerminalInv, SignalsOK, MainPlaces, TtyOK, StopOK
<1>9. CASE RestoreTerminal
  BY <1>9, CourseOK DEF RestoreTerminal, Step, display, observed, TerminalInv, SignalsOK, MainPlaces, TtyOK, StopOK
<1>10. CASE Uninstall
  BY <1>10, CourseOK DEF Uninstall, display, observed, TerminalInv, SignalsOK, MainPlaces, TtyOK, StopOK
<1>11. CASE Close
  BY <1>11, CourseOK DEF Close, Step, display, observed, TerminalInv, SignalsOK, MainPlaces, TtyOK, StopOK
<1> QED BY <1>1, <1>2, <1>3, <1>4, <1>5, <1>6, <1>7, <1>8, <1>9, <1>10, <1>11
        DEF TerminalNext, ThreadStep

(***************************************************************************)
(* Containers are listed only from a collection that succeeded, is the     *)
(* last one published and is not stale, and the terminal is left as it was *)
(* found, whatever the observing thread does and wherever a signal comes.  *)
(***************************************************************************)
THEOREM TerminalIsTruthful == TerminalInit /\ [][TerminalNext]_tvars => []TerminalTruthful
<1>1. TerminalInv => TerminalTruthful
  BY DEF TerminalInv, SignalsOK, TtyOK, StopOK, TerminalTruthful, LeftInOrder
<1> QED BY <1>1, InitTerminal, NextTerminal, PTL

-----------------------------------------------------------------------------
(***************************************************************************)
(* audit-send.  The batch goes on where what was counted ends, and every   *)
(* request on its way comes after events that the receiver has.            *)
(***************************************************************************)
Posts == [event : Nat, first : Nat, run : Nat]
ForwardTyped ==
  /\ {oldest, newest, counted, first, runs} \subseteq Nat
  /\ batch \in Seq(Nat) /\ received \in Seq(Posts) /\ mail \subseteq Posts

BatchOK ==
  /\ \A k \in 1 .. Len(batch) : batch[k] = first + counted + k - 1
  /\ waiting => batch # <<>>
  /\ waiting /\ reply = "2xx" => Head(batch) \in Heard
MailOK == \A m \in mail : \A earlier \in m.first .. m.event - 1 : earlier \in Heard

ForwardInv == ForwardTyped /\ BatchOK /\ MailOK /\ ForwardedInOrder

LEMMA InitForward == ForwardInit => ForwardInv
<1> SUFFICES ASSUME ForwardInit PROVE ForwardInv
  OBVIOUS
<1>1. Heard = {} /\ DOMAIN received = {} /\ first .. first + counted - 1 = {}
  BY DEF ForwardInit, Heard
<1>2. ForwardTyped /\ BatchOK /\ MailOK
  BY DEF ForwardInit, ForwardTyped, BatchOK, MailOK
<1>3. ForwardedInOrder
  BY <1>1 DEF ForwardInit, ForwardedInOrder
<1> QED BY <1>2, <1>3 DEF ForwardInv

(* The receiver takes an event that is new to it.                          *)
LEMMA TakenOK ==
  ASSUME ForwardInv, NEW m \in mail, received' = Append(received, m)
  PROVE  /\ received' \in Seq(Posts) /\ Heard' = Heard \cup {m.event}
         /\ \A n \in DOMAIN received' : \A earlier \in received'[n].first .. received'[n].event - 1 :
              \E k \in 1 .. n - 1 : received'[k].event = earlier
<1>1. received \in Seq(Posts) /\ m \in Posts
  BY DEF ForwardInv, ForwardTyped
<1>2. /\ received' \in Seq(Posts) /\ Len(received') = Len(received) + 1 /\ Len(received) \in Nat
      /\ \A n \in 1 .. Len(received) : received'[n] = received[n]
      /\ received'[Len(received) + 1] = m
      /\ DOMAIN received = 1 .. Len(received) /\ DOMAIN received' = 1 .. Len(received) + 1
  BY <1>1
<1>3. Heard' = Heard \cup {m.event}
  <2>1. ASSUME NEW n \in DOMAIN received' PROVE received'[n].event \in Heard \cup {m.event}
    <3>1. n \in DOMAIN received \/ n = Len(received) + 1
      BY <1>2
    <3> QED BY <1>2, <3>1 DEF Heard
  <2>2. ASSUME NEW n \in DOMAIN received PROVE received[n].event \in Heard'
    <3>1. n \in DOMAIN received' /\ received'[n] = received[n]
      BY <1>2
    <3> QED BY <3>1 DEF Heard
  <2>3. m.event \in Heard'
    <3>1. Len(received) + 1 \in DOMAIN received'
      BY <1>2
    <3> QED BY <1>2, <3>1 DEF Heard
  <2> QED BY <2>1, <2>2, <2>3 DEF Heard
<1>4. ASSUME NEW n \in DOMAIN received', NEW earlier \in received'[n].first .. received'[n].event - 1
      PROVE  \E k \in 1 .. n - 1 : received'[k].event = earlier
  <2>1. CASE n \in 1 .. Len(received)
    <3>1. PICK k \in 1 .. n - 1 : received[k].event = earlier
      BY <1>2, <1>4, <2>1 DEF ForwardInv, ForwardedInOrder
    <3>2. received'[k] = received[k]
      BY <1>2, <2>1
    <3> QED BY <3>1, <3>2
  <2>2. CASE n \notin 1 .. Len(received)
    <3>1. n = Len(received) + 1 /\ received'[n] = m
      BY <1>2, <2>2
    <3>2. earlier \in Heard
      BY <1>4, <3>1 DEF ForwardInv, MailOK
    <3>3. PICK k \in DOMAIN received : received[k].event = earlier
      BY <3>2 DEF Heard
    <3>4. k \in 1 .. n - 1 /\ received'[k] = received[k]
      BY <1>2, <3>1
    <3> QED BY <3>3, <3>4
  <2> QED BY <2>1, <2>2
<1> QED BY <1>2, <1>3, <1>4

LEMMA AnswerOK ==
  ASSUME ForwardInv, NEW m \in mail, NEW answer, Answer(m, answer),
         UNCHANGED received \/ received' = Append(received, m),
         answer = "2xx" => m.event \in Heard'
  PROVE  ForwardInv'
<1>1. /\ received' \in Seq(Posts) /\ Heard \subseteq Heard'
      /\ \A n \in DOMAIN received' : \A earlier \in received'[n].first .. received'[n].event - 1 :
           \E k \in 1 .. n - 1 : received'[k].event = earlier
  <2>1. CASE received' = Append(received, m)
    BY <2>1, TakenOK
  <2>2. CASE UNCHANGED received
    BY <2>2 DEF ForwardInv, ForwardTyped, ForwardedInOrder, Heard
  <2> QED BY <2>1, <2>2
<1>2. /\ UNCHANGED <<oldest, newest, batch, counted, waiting, result, first, runs>>
      /\ mail' \subseteq mail
      /\ reply' = reply \/ (m.event = Head(batch) /\ reply' = answer)
  BY DEF Answer, retention, sender
<1>3. ForwardTyped' /\ MailOK' /\ BatchOK'
  BY <1>1, <1>2 DEF ForwardInv, ForwardTyped, MailOK, BatchOK
<1>4. ForwardedInOrder'
  BY <1>1, <1>2 DEF ForwardInv, ForwardedInOrder
<1> QED BY <1>3, <1>4 DEF ForwardInv

LEMMA NextForward == ForwardInv /\ [ForwardNext]_forwardVars => ForwardInv'
<1> SUFFICES ASSUME ForwardInv, [ForwardNext]_forwardVars PROVE ForwardInv'
  OBVIOUS
<1>0. /\ ForwardTyped /\ BatchOK /\ MailOK /\ ForwardedInOrder
      /\ {oldest, newest, counted, first, runs} \subseteq Nat /\ batch \in Seq(Nat)
  BY DEF ForwardInv, ForwardTyped
<1>1. CASE UNCHANGED <<sender, mail, reply, received>> /\ {oldest', newest'} \subseteq Nat
  BY <1>1 DEF sender, ForwardInv, ForwardTyped, BatchOK, MailOK, ForwardedInOrder, Heard
<1>2. CASE JournalAppend
  BY <1>0, <1>1, <1>2 DEF JournalAppend
<1>3. CASE BeginSend
  <2>1. /\ batch' \in Seq(Nat) /\ Len(batch') = newest - oldest + 1
        /\ \A k \in 1 .. Len(batch') : batch'[k] = oldest + k - 1
    <3> DEFINE n == newest - oldest + 1
               f == [k \in 1 .. n |-> oldest + k - 1]
    <3>1. n \in Nat /\ batch' = f
      BY <1>0, <1>3 DEF BeginSend
    <3>2. \A k \in 1 .. n : oldest + k - 1 \in Nat
      BY <1>0
    <3>3. f \in Seq(Nat) /\ Len(f) = n
      BY <3>1, <3>2
    <3> QED BY <3>1, <3>3
  <2>2. /\ first' = oldest /\ counted' = 0 /\ ~waiting' /\ result' = "none" /\ runs' = runs + 1
        /\ UNCHANGED <<oldest, newest, mail, received>>
    BY <1>3 DEF BeginSend, retention
  <2>3. ForwardTyped'
    BY <1>0, <2>1, <2>2 DEF ForwardTyped
  <2>a. MailOK'
    BY <1>0, <2>2 DEF MailOK, Heard
  <2>b. BatchOK'
    <3>1. \A k \in 1 .. Len(batch') : batch'[k] = first' + counted' + k - 1
      BY <1>0, <2>1, <2>2
    <3> QED BY <2>2, <3>1 DEF BatchOK
  <2>4. first' .. first' + counted' - 1 = {}
    BY <1>0, <2>2
  <2> QED BY <1>0, <2>2, <2>3, <2>a, <2>b, <2>4 DEF ForwardInv, ForwardedInOrder, Heard
<1>4. CASE PostEvent
  <2> DEFINE m == [event |-> Head(batch), first |-> first, run |-> runs]
  <2>1. /\ batch # <<>> /\ waiting' /\ mail' = mail \cup {m} /\ reply' = "none"
        /\ UNCHANGED <<oldest, newest, batch, counted, result, first, runs, received>>
    BY <1>4 DEF PostEvent, retention
  <2>2. Head(batch) = first + counted /\ m \in Posts
    <3>1. 1 \in 1 .. Len(batch) /\ Head(batch) = batch[1]
      BY <1>0, <2>1
    <3>2. batch[1] = first + counted + 1 - 1
      BY <1>0, <3>1 DEF BatchOK
    <3> QED BY <1>0, <3>1, <3>2 DEF Posts
  <2>3. \A earlier \in m.first .. m.event - 1 : earlier \in Heard
    BY <1>0, <2>2 DEF ForwardedInOrder
  <2>4. ForwardTyped'
    BY <1>0, <2>1, <2>2 DEF ForwardTyped
  <2>5. MailOK' /\ BatchOK'
    BY <1>0, <2>1, <2>3 DEF MailOK, BatchOK, Heard
  <2> QED BY <1>0, <2>1, <2>4, <2>5 DEF ForwardInv, ForwardedInOrder, Heard
<1>5. CASE Acknowledged
  <2>1. /\ waiting /\ reply = "2xx" /\ batch' = Tail(batch) /\ counted' = counted + 1 /\ ~waiting'
        /\ result' = (IF Len(batch) = 1 THEN "ok" ELSE result)
        /\ UNCHANGED <<oldest, newest, first, runs, mail, received>>
    BY <1>5 DEF Acknowledged, Acknowledges, retention
  <2>2. batch # <<>> /\ Head(batch) \in Heard
    BY <1>0, <2>1 DEF BatchOK
  <2>3. /\ batch' \in Seq(Nat) /\ Len(batch') = Len(batch) - 1
        /\ \A k \in 1 .. Len(batch') : k + 1 \in 1 .. Len(batch) /\ batch'[k] = batch[k + 1]
        /\ Head(batch) = batch[1] /\ 1 \in 1 .. Len(batch)
    BY <1>0, <2>1, <2>2
  <2>4. Head(batch) = first + counted
    BY <1>0, <2>3 DEF BatchOK
  <2>5. \A k \in 1 .. Len(batch') : batch'[k] = first' + counted' + k - 1
    BY <1>0, <2>1, <2>3 DEF BatchOK
  <2>6. ForwardTyped' /\ MailOK' /\ BatchOK'
    BY <1>0, <2>1, <2>3, <2>5 DEF ForwardTyped, MailOK, BatchOK, Heard
  <2>7. first' .. first' + counted' - 1 \subseteq Heard'
    <3>1. Heard' = Heard
      BY <2>1 DEF Heard
    <3>2. first .. first + counted - 1 \subseteq Heard
      BY <1>0 DEF ForwardedInOrder
    <3>3. \A n \in first' .. first' + counted' - 1 : n \in first .. first + counted - 1 \/ n = first + counted
      <4>1. first \in Nat /\ counted \in Nat /\ first' = first /\ counted' = counted + 1
        BY <1>0, <2>1
      <4> QED BY <4>1
    <3> QED BY <2>2, <2>4, <3>1, <3>2, <3>3
  <2>8. result' = "ok" => batch' = <<>> /\ counted' > 0
    <3>1. result # "ok" /\ counted' > 0
      BY <1>0, <2>1, <2>2 DEF ForwardedInOrder
    <3>2. Len(batch) = 1 => batch' = <<>>
      BY <2>3
    <3> QED BY <2>1, <3>1, <3>2
  <2> QED BY <1>0, <2>1, <2>6, <2>7, <2>8 DEF ForwardInv, ForwardedInOrder
<1>6. CASE Failed
  <2>1. /\ batch' = <<>> /\ ~waiting' /\ result' = "failed"
        /\ UNCHANGED <<oldest, newest, counted, first, runs, mail, received>>
    BY <1>6 DEF Failed, retention
  <2> QED BY <1>0, <2>1 DEF ForwardInv, ForwardTyped, BatchOK, MailOK, ForwardedInOrder, Heard
<1>7. ASSUME NEW m \in mail, NEW answer, Take(m, answer) PROVE ForwardInv'
  <2>1. CASE m.event \in Heard
    BY <1>7, <2>1, AnswerOK DEF Take, Heard
  <2>2. CASE m.event \notin Heard
    <3>1. received' = Append(received, m) /\ Answer(m, answer)
      BY <1>7, <2>2 DEF Take
    <3>2. m.event \in Heard'
      BY <3>1, TakenOK
    <3> QED BY <3>1, <3>2, AnswerOK
  <2> QED BY <2>1, <2>2
<1>8. ASSUME NEW m \in mail, NEW answer \in {"other", "none"}, Drop(m, answer) PROVE ForwardInv'
  BY <1>8, AnswerOK DEF Drop
<1>9. CASE UNCHANGED forwardVars
  BY <1>0, <1>1, <1>9 DEF forwardVars, retention
<1> QED BY <1>2, <1>3, <1>4, <1>5, <1>6, <1>7, <1>8, <1>9 DEF ForwardNext

(***************************************************************************)
(* The receiver hears of no event before the earlier ones that the run had *)
(* found retained, and what a run counts it has received, for any losses,  *)
(* repetitions and delays of requests and answers.                         *)
(***************************************************************************)
THEOREM ForwardsInOrder == ForwardInit /\ [][ForwardNext]_forwardVars => []ForwardedInOrder
<1>1. ForwardInv => ForwardedInOrder
  BY DEF ForwardInv
<1> QED BY <1>1, InitForward, NextForward, PTL

-----------------------------------------------------------------------------
(***************************************************************************)
(* The journal page.  The trail is always that of one snapshot, though it  *)
(* may be of other filters than those shown while nothing is listed; a     *)
(* cursor that is asked for is the next of the trail, or of the dialog.    *)
(***************************************************************************)
Places == [query : Filters \cup Correlations \cup {NoQuery}, snap : Nat, index : Nat]
Requests == [query : Filters \cup Correlations \cup {NoQuery}, cursor : Places, index : Nat,
             reset : BOOLEAN]
JournalPageTyped ==
  /\ filters \in Filters /\ trail \in Seq(Places) /\ pageIndex \in Nat
  /\ {current, action.next} \subseteq Places /\ {load, look} \subseteq Requests
  /\ action \in [id : Correlations \cup {NoQuery}, preview : BOOLEAN, pages : Seq(Places), next : Places]
  /\ snapshots \in Nat

TrailOK ==
  /\ pageIndex < Len(trail)
  /\ \A k \in 0 .. pageIndex : trail[k + 1] = Place(trail[1].query, trail[1].snap, k)
  /\ current # NoPlace => current = trail[pageIndex + 1] /\ trail[1].query = filters
LoadOK ==
  load # NoRequest =>
    /\ load.query = filters
    /\ load.reset => load.cursor = NoPlace /\ load.index = 0
    /\ ~load.reset => /\ load.cursor = Place(trail[1].query, trail[1].snap, load.index)
                      /\ load.index <= pageIndex + 1
PagesOK ==
  /\ shownAs.open => action.id # NoQuery
  /\ \A k \in DOMAIN action.pages : action.pages[k] = Place(action.id, action.pages[1].snap, k - 1)
  /\ action.next # NoPlace =>
       /\ action.pages # <<>>
       /\ action.next = Place(action.id, action.pages[1].snap, Len(action.pages))
LookOK ==
  look # NoRequest =>
    /\ look.query = action.id
    /\ look.reset => look.cursor = NoPlace
    /\ ~look.reset => look.cursor = action.next /\ action.next # NoPlace

JournalPageInv == JournalPageTyped /\ TrailOK /\ LoadOK /\ PagesOK /\ LookOK

LEMMA PlaceTyped ==
  /\ NoPlace \in Places /\ NoRequest \in Requests /\ NoRequest.query = NoQuery
  /\ NoAction.id = NoQuery /\ NoAction.pages = <<>> /\ NoAction.next = NoPlace
  /\ NoQuery \notin Filters \cup Correlations
BY JournalPageAssumption DEF NoPlace, Place, Places, NoRequest, Requests, NoAction

LEMMA InitJournalPage == JournalPageInit => JournalPageInv
<1> SUFFICES ASSUME JournalPageInit PROVE JournalPageInv
  OBVIOUS
<1>1. JournalPageTyped
  <2>1. /\ trail = <<NoPlace>> /\ look = NoRequest /\ action = NoAction /\ current = NoPlace
        /\ load = [NoRequest EXCEPT !.query = filters, !.reset = TRUE]
        /\ filters \in Filters /\ pageIndex = 0 /\ snapshots = 0
    BY DEF JournalPageInit
  <2>2. load \in Requests
    BY <2>1, PlaceTyped DEF Requests
  <2>3. trail \in Seq(Places)
    BY <2>1, PlaceTyped
  <2>4. NoAction \in [id : Correlations \cup {NoQuery}, preview : BOOLEAN, pages : Seq(Places), next : Places]
    BY PlaceTyped DEF NoAction
  <2> QED BY <2>1, <2>2, <2>3, <2>4, PlaceTyped DEF JournalPageTyped
<1>2. TrailOK
  BY DEF JournalPageInit, TrailOK, NoPlace, Place
<1>3. LoadOK
  BY DEF JournalPageInit, LoadOK, NoRequest
<1>4. PagesOK /\ LookOK
  BY PlaceTyped DEF JournalPageInit, PagesOK, LookOK
<1> QED BY <1>1, <1>2, <1>3, <1>4 DEF JournalPageInv

(* A request of the list, of the events from the beginning, or of the      *)
(* trail's next or an earlier page.                                        *)
LEMMA LoadStep ==
  ASSUME JournalPageInv, NEW query \in Filters, NEW cursor \in Places, NEW index \in Nat,
         NEW reset \in BOOLEAN, Load(query, cursor, index, reset), filters' = query,
         reset => cursor = NoPlace /\ index = 0,
         ~reset => cursor = Place(trail[1].query, trail[1].snap, index) /\ index <= pageIndex + 1
  PROVE  JournalPageInv'
<1> DEFINE r == [query |-> query, cursor |-> cursor, index |-> index, reset |-> reset]
<1>1. load' = r /\ current' = NoPlace /\ UNCHANGED <<trail, pageIndex, action, shownAs, look, snapshots>>
  BY DEF Load, actionVars
<1>2. r \in Requests
  BY DEF Requests
<1>3. r.query = query /\ r.cursor = cursor /\ r.index = index /\ r.reset = reset
  OBVIOUS
<1> HIDE DEF r
<1>4. JournalPageTyped'
  BY <1>1, <1>2, PlaceTyped DEF JournalPageInv, JournalPageTyped
<1>5. TrailOK'
  BY <1>1 DEF JournalPageInv, TrailOK
<1>6. LoadOK'
  BY <1>1, <1>3 DEF LoadOK
<1>7. PagesOK' /\ LookOK'
  BY <1>1 DEF JournalPageInv, PagesOK, LookOK
<1> QED BY <1>4, <1>5, <1>6, <1>7 DEF JournalPageInv

LEMMA AfterIs ==
  ASSUME NEW place \in Places, More(place)
  PROVE  After(place) = Place(place.query, place.snap, place.index + 1) /\ After(place) \in Places
BY DEF After, More, Place, Places

LEMMA LoadSteps ==
  ASSUME JournalPageInv, OlderLogs \/ PreviousLogs \/ \E query \in Filters : SetFilters(query)
  PROVE  JournalPageInv'
<1>0. /\ filters \in Filters /\ pageIndex \in Nat /\ current \in Places /\ trail \in Seq(Places)
      /\ TrailOK /\ 0 \in Nat
  BY DEF JournalPageInv, JournalPageTyped
<1>1. ASSUME NEW query \in Filters, SetFilters(query) PROVE JournalPageInv'
  BY <1>0, <1>1, LoadStep, PlaceTyped DEF SetFilters
<1>2. CASE OlderLogs
  <2>1. More(current) /\ Load(filters, After(current), pageIndex + 1, FALSE) /\ filters' = filters
    BY <1>2 DEF OlderLogs
  <2>2. current # NoPlace
    BY <2>1 DEF More, NoPlace, Place
  <2>3. current = Place(trail[1].query, trail[1].snap, pageIndex)
    BY <1>0, <2>2 DEF TrailOK
  <2>4. After(current) = Place(trail[1].query, trail[1].snap, pageIndex + 1) /\ After(current) \in Places
    BY <1>0, <2>1, <2>3, AfterIs DEF Place
  <2>5. pageIndex + 1 \in Nat /\ pageIndex + 1 <= pageIndex + 1 /\ ~FALSE /\ FALSE \in BOOLEAN
    BY <1>0
  <2> QED BY <1>0, <2>1, <2>4, <2>5, LoadStep
<1>3. CASE PreviousLogs
  <2>1. pageIndex > 0 /\ Load(filters, trail[pageIndex], pageIndex - 1, FALSE) /\ filters' = filters
    BY <1>3 DEF PreviousLogs
  <2>2. pageIndex - 1 \in 0 .. pageIndex /\ (pageIndex - 1) + 1 = pageIndex /\ pageIndex - 1 \in Nat
        /\ pageIndex \in 1 .. Len(trail) /\ pageIndex - 1 <= pageIndex + 1
    BY <1>0, <2>1 DEF TrailOK
  <2>3. trail[pageIndex] = Place(trail[1].query, trail[1].snap, pageIndex - 1) /\ trail[pageIndex] \in Places
    BY <1>0, <2>2 DEF TrailOK
  <2> QED BY <1>0, <2>1, <2>2, <2>3, LoadStep
<1> QED BY <1>1, <1>2, <1>3

(* What the server answers to a request.                                   *)
LEMMA ServedIs ==
  ASSUME NEW request \in Requests, NEW place \in Served, Serves(request, place), snapshots \in Nat
  PROVE  /\ place \in Places /\ snapshots' \in Nat /\ place.query = request.query
         /\ request.cursor # NoPlace => place = request.cursor
         /\ request.cursor = NoPlace => place = Place(request.query, place.snap, 0)
<1>1. place \in Places
  BY JournalPageAssumption DEF Served, Places
<1>2. CASE request.cursor = NoPlace
  BY <1>1, <1>2 DEF Serves, Place
<1>3. CASE request.cursor # NoPlace
  BY <1>1, <1>3 DEF Serves, Bound
<1> QED BY <1>1, <1>2, <1>3

LEMMA LoadedStep ==
  ASSUME JournalPageInv, NEW place \in Served, Loaded(place)
  PROVE  JournalPageInv'
<1>0. /\ load \in Requests /\ load.index \in Nat /\ load.reset \in BOOLEAN /\ filters \in Filters
      /\ pageIndex \in Nat /\ trail \in Seq(Places) /\ TrailOK
      /\ load # NoRequest /\ LoadOK /\ snapshots \in Nat
  BY DEF JournalPageInv, JournalPageTyped, Requests, Loaded
<1> DEFINE to == IF load.index < Len(trail) THEN Len(trail) ELSE load.index + 1
<1>1. /\ Serves(load, place) /\ current' = place /\ pageIndex' = load.index /\ load' = NoRequest
      /\ trail' = IF load.reset THEN <<place>>
                  ELSE [n \in 1 .. to |-> IF n = load.index + 1 THEN place ELSE trail[n]]
      /\ UNCHANGED <<filters, action, shownAs, look>>
  BY DEF Loaded, actionVars
<1>2. /\ place \in Places /\ snapshots' \in Nat /\ place.query = filters
      /\ load.cursor # NoPlace => place = load.cursor
      /\ load.cursor = NoPlace => place = Place(filters, place.snap, 0)
  BY <1>0, <1>1, ServedIs DEF LoadOK
<1>3. load.cursor = NoPlace => load.index = 0
  BY <1>0 DEF LoadOK, NoPlace, Place
<1>4. place = Place(filters, place.snap, load.index)
  BY <1>0, <1>2, <1>3 DEF LoadOK, Place
<1>5. load.index # 0 => place = Place(trail[1].query, trail[1].snap, load.index) /\ ~load.reset
  BY <1>0, <1>2, <1>3 DEF LoadOK
<1>6. trail' \in Seq(Places) /\ load.index < Len(trail') /\ trail'[load.index + 1] = place
      /\ (~load.reset => \A n \in 1 .. load.index : n \in 1 .. Len(trail) /\ trail'[n] = trail[n])
  <2>1. CASE load.reset
    BY <1>0, <1>1, <1>2, <2>1 DEF LoadOK
  <2>2. CASE ~load.reset
    <3>1. /\ load.index <= pageIndex + 1 /\ pageIndex < Len(trail) /\ Len(trail) \in Nat
          /\ to \in Nat /\ load.index + 1 \in 1 .. to
      BY <1>0, <2>2 DEF LoadOK, TrailOK
    <3>2. \A n \in 1 .. to : n # load.index + 1 => n \in 1 .. Len(trail)
      BY <1>0, <3>1
    <3>3. \A n \in 1 .. to : (IF n = load.index + 1 THEN place ELSE trail[n]) \in Places
      BY <1>0, <1>2, <3>2
    <3> HIDE DEF to
    <3>4. trail' \in Seq(Places) /\ Len(trail') = to
      BY <1>1, <2>2, <3>1, <3>3
    <3>5. \A n \in 1 .. to : trail'[n] = IF n = load.index + 1 THEN place ELSE trail[n]
      BY <1>1, <2>2
    <3>6. \A n \in 1 .. load.index : n \in 1 .. to /\ n # load.index + 1
      BY <1>0, <3>1
    <3>7. load.index < Len(trail') /\ trail'[load.index + 1] = place
      BY <1>0, <3>1, <3>4, <3>5
    <3>8. \A n \in 1 .. load.index : n \in 1 .. Len(trail) /\ trail'[n] = trail[n]
      BY <3>2, <3>5, <3>6
    <3> QED BY <3>4, <3>7, <3>8
  <2> QED BY <1>0, <2>1, <2>2
<1> HIDE DEF to
<1>7. TrailOK'
  <2>1. ASSUME NEW k \in 0 .. load.index PROVE trail'[k + 1] = Place(trail'[1].query, trail'[1].snap, k)
    <3>1. CASE load.index = 0
      BY <1>0, <1>4, <1>6, <3>1 DEF Place
    <3>2. CASE load.index # 0
      <4>1. /\ 1 \in 1 .. load.index /\ trail'[1] = trail[1] /\ load.index <= pageIndex + 1
            /\ place = Place(trail[1].query, trail[1].snap, load.index)
        BY <1>0, <1>5, <1>6, <3>2 DEF LoadOK
      <4>2. CASE k = load.index
        BY <1>6, <4>1, <4>2
      <4>3. CASE k # load.index
        <5>1. k + 1 \in 1 .. load.index /\ k \in 0 .. pageIndex
          BY <1>0, <4>1, <4>3
        <5>2. trail'[k + 1] = trail[k + 1]
          BY <1>5, <1>6, <3>2, <5>1
        <5> QED BY <1>0, <4>1, <5>1, <5>2 DEF TrailOK
      <4> QED BY <4>2, <4>3
    <3> QED BY <3>1, <3>2
  <2>2. trail'[1].query = filters
    <3>1. trail'[load.index + 1] = Place(trail'[1].query, trail'[1].snap, load.index)
      BY <1>0, <2>1
    <3> QED BY <1>4, <1>6, <3>1 DEF Place
  <2> QED BY <1>1, <1>6, <2>1, <2>2 DEF TrailOK
<1>8. JournalPageTyped'
  BY <1>0, <1>1, <1>2, <1>6, PlaceTyped DEF JournalPageInv, JournalPageTyped
<1>9. LoadOK' /\ PagesOK' /\ LookOK'
  BY <1>1 DEF JournalPageInv, LoadOK, PagesOK, LookOK
<1> QED BY <1>7, <1>8, <1>9 DEF JournalPageInv

(* Steps of the list in which nothing is asked or answered. *)
LEMMA ListRests ==
  ASSUME JournalPageInv, LoadFails \/ Download \/ Downloaded
  PROVE  JournalPageInv'
<1>1. /\ UNCHANGED <<filters, trail, pageIndex, current, action, shownAs, look, snapshots>>
      /\ load' \in {load, NoRequest}
  BY DEF LoadFails, Download, Downloaded, actionVars
<1> QED BY <1>1, PlaceTyped DEF JournalPageInv, JournalPageTyped, TrailOK, LoadOK, PagesOK, LookOK

(* The dialog asks, from the beginning or for the next page. *)
LEMMA LookStep ==
  ASSUME JournalPageInv, NEW asked, NEW reset \in BOOLEAN, LoadAction(asked, reset),
         (asked = action /\ action.id # NoQuery) \/ (reset /\ \E id \in Correlations : asked = [NoAction EXCEPT !.id = id]),
         ~reset => asked = action /\ action.next # NoPlace
  PROVE  JournalPageInv'
<1> DEFINE Actions == [id : Correlations \cup {NoQuery}, preview : BOOLEAN, pages : Seq(Places), next : Places]
<1>0. action \in Actions /\ PagesOK
  BY DEF JournalPageInv, JournalPageTyped
<1>1. /\ action' = IF reset THEN [asked EXCEPT !.preview = TRUE, !.next = NoPlace] ELSE asked
      /\ look' = [query |-> asked.id, cursor |-> IF reset THEN NoPlace ELSE asked.next, index |-> 0,
                  reset |-> reset]
      /\ UNCHANGED <<filters, trail, pageIndex, current, load, snapshots>>
  BY DEF LoadAction, listVars
<1>2. /\ asked \in Actions /\ asked.id # NoQuery
      /\ \A k \in DOMAIN asked.pages : asked.pages[k] = Place(asked.id, asked.pages[1].snap, k - 1)
  <2>1. CASE asked = action /\ action.id # NoQuery
    BY <1>0, <2>1 DEF PagesOK
  <2>2. ASSUME NEW id \in Correlations, asked = [NoAction EXCEPT !.id = id]
        PROVE  /\ asked \in Actions /\ asked.id # NoQuery
               /\ \A k \in DOMAIN asked.pages : asked.pages[k] = Place(asked.id, asked.pages[1].snap, k - 1)
    <3>1. asked = [id |-> id, preview |-> FALSE, pages |-> <<>>, next |-> NoPlace]
      BY <2>2 DEF NoAction
    <3> QED BY <3>1, PlaceTyped
  <2> QED BY <2>1, <2>2
<1>3. /\ action' \in Actions /\ action'.id = asked.id /\ action'.pages = asked.pages
      /\ reset => action'.next = NoPlace
      /\ ~reset => action' = action
  BY <1>1, <1>2, PlaceTyped
<1>4. /\ look' \in Requests /\ look'.query = asked.id /\ look'.reset = reset
      /\ reset => look'.cursor = NoPlace
      /\ ~reset => look'.cursor = action.next /\ action.next # NoPlace
  BY <1>1, <1>2, PlaceTyped DEF Requests
<1> HIDE DEF Actions
<1>5. JournalPageTyped'
  BY <1>1, <1>3, <1>4 DEF JournalPageInv, JournalPageTyped, Actions
<1>6. TrailOK' /\ LoadOK'
  BY <1>1 DEF JournalPageInv, TrailOK, LoadOK
<1>7. PagesOK'
  BY <1>0, <1>2, <1>3 DEF PagesOK
<1>8. LookOK'
  BY <1>3, <1>4 DEF LookOK
<1> QED BY <1>5, <1>6, <1>7, <1>8 DEF JournalPageInv

LEMMA LookSteps ==
  ASSUME JournalPageInv, RefreshAction \/ OlderAction \/ \E id \in Correlations : OpenAction(id)
  PROVE  JournalPageInv'
<1>1. ASSUME NEW id \in Correlations, OpenAction(id) PROVE JournalPageInv'
  BY <1>1, LookStep DEF OpenAction
<1>2. CASE RefreshAction
  BY <1>2, LookStep DEF RefreshAction, JournalPageInv, PagesOK
<1>3. CASE OlderAction
  BY <1>3, LookStep DEF OlderAction, JournalPageInv, PagesOK
<1> QED BY <1>1, <1>2, <1>3

LEMMA ActionLoadedStep ==
  ASSUME JournalPageInv, NEW place \in Served, ActionLoaded(place)
  PROVE  JournalPageInv'
<1> DEFINE Actions == [id : Correlations \cup {NoQuery}, preview : BOOLEAN, pages : Seq(Places), next : Places]
           shown == IF look.reset THEN <<place>> ELSE Append(action.pages, place)
<1>0. /\ action \in Actions /\ look \in Requests /\ look # NoRequest /\ PagesOK /\ LookOK
      /\ snapshots \in Nat
  BY DEF JournalPageInv, JournalPageTyped, ActionLoaded
<1>1. /\ Serves(look, place) /\ look' = NoRequest
      /\ action' = [action EXCEPT !.preview = FALSE, !.next = After(place), !.pages = shown]
      /\ UNCHANGED <<filters, trail, pageIndex, current, load, shownAs>>
  BY DEF ActionLoaded, listVars
<1>2. /\ place \in Places /\ snapshots' \in Nat /\ place.query = action.id
      /\ look.cursor # NoPlace => place = look.cursor
      /\ look.cursor = NoPlace => place = Place(action.id, place.snap, 0)
  BY <1>0, <1>1, ServedIs DEF LookOK
<1>3. After(place) \in Places
  BY <1>2, AfterIs, PlaceTyped DEF After
<1>4. shown \in Seq(Places)
  BY <1>0, <1>2
<1>5. action' \in Actions /\ action'.id = action.id /\ action'.pages = shown /\ action'.next = After(place)
  <2> HIDE DEF shown
  <2> QED BY <1>0, <1>1, <1>3, <1>4
<1>6. /\ \A k \in DOMAIN shown : shown[k] = Place(action.id, shown[1].snap, k - 1)
      /\ shown # <<>> /\ shown[Len(shown)] = place /\ Len(shown) \in DOMAIN shown
  <2>1. CASE look.reset
    <3>1. shown = <<place>> /\ place = Place(action.id, place.snap, 0)
      BY <1>0, <1>2, <2>1 DEF LookOK
    <3> HIDE DEF shown
    <3>2. DOMAIN shown = {1} /\ Len(shown) = 1 /\ shown[1] = place /\ shown # <<>>
      BY <3>1
    <3>3. ASSUME NEW k \in DOMAIN shown PROVE shown[k] = Place(action.id, shown[1].snap, k - 1)
      <4>1. k = 1 /\ k - 1 = 0
        BY <3>2
      <4> QED BY <3>1, <3>2, <4>1
    <3> QED BY <3>2, <3>3
  <2>2. CASE ~look.reset
    <3>1. /\ place = action.next /\ action.pages # <<>> /\ action.pages \in Seq(Places)
          /\ place = Place(action.id, action.pages[1].snap, Len(action.pages))
      BY <1>0, <1>2, <2>2 DEF LookOK, PagesOK
    <3>2. /\ shown = Append(action.pages, place) /\ Len(shown) = Len(action.pages) + 1
          /\ Len(action.pages) \in Nat /\ Len(action.pages) > 0
          /\ DOMAIN shown = 1 .. Len(action.pages) + 1 /\ DOMAIN action.pages = 1 .. Len(action.pages)
          /\ shown[Len(action.pages) + 1] = place
          /\ \A k \in 1 .. Len(action.pages) : shown[k] = action.pages[k]
      BY <1>2, <2>2, <3>1
    <3>3. shown[1] = action.pages[1]
      BY <3>2
    <3> HIDE DEF shown
    <3>4. ASSUME NEW k \in DOMAIN shown PROVE shown[k] = Place(action.id, shown[1].snap, k - 1)
      <4>1. CASE k = Len(action.pages) + 1
        BY <3>1, <3>2, <3>3, <4>1
      <4>2. CASE k # Len(action.pages) + 1
        <5>1. k \in DOMAIN action.pages /\ shown[k] = action.pages[k]
          BY <3>2, <4>2
        <5> QED BY <1>0, <3>3, <5>1 DEF PagesOK
      <4> QED BY <4>1, <4>2
    <3>5. shown # <<>>
      BY <3>2
    <3> QED BY <3>2, <3>4, <3>5
  <2> QED BY <2>1, <2>2
<1> HIDE DEF shown, Actions
<1>7. JournalPageTyped'
  BY <1>1, <1>2, <1>3, <1>5, PlaceTyped DEF JournalPageInv, JournalPageTyped, Actions
<1>8. TrailOK' /\ LoadOK' /\ LookOK'
  BY <1>1 DEF JournalPageInv, TrailOK, LoadOK, LookOK
<1>9. PagesOK'
  <2>1. After(place) # NoPlace => After(place) = Place(action.id, shown[1].snap, Len(shown))
    <3>1. SUFFICES ASSUME More(place) PROVE After(place) = Place(action.id, shown[1].snap, Len(shown))
      BY DEF After
    <3>2. After(place) = Place(place.query, place.snap, place.index + 1)
      BY <1>2, <3>1, AfterIs
    <3>3. place = Place(action.id, shown[1].snap, Len(shown) - 1)
      BY <1>6
    <3>4. Len(shown) \in Nat
      BY <1>4 DEF shown
    <3> QED BY <3>2, <3>3, <3>4 DEF Place
  <2> QED BY <1>0, <1>1, <1>5, <1>6, <2>1 DEF PagesOK
<1> QED BY <1>7, <1>8, <1>9 DEF JournalPageInv

(* Closing, and the event of it, which is queued. *)
LEMMA DialogRests ==
  ASSUME JournalPageInv, ActionFails \/ CloseAction \/ CloseEvent \/ AbortedEnds
  PROVE  JournalPageInv'
<1>1. /\ UNCHANGED <<filters, trail, pageIndex, current, load, snapshots>>
      /\ \/ UNCHANGED action /\ look' \in {look, NoRequest} /\ (shownAs'.open => shownAs.open)
         \/ action' = NoAction /\ look' = NoRequest /\ ~shownAs.open /\ shownAs' = [shownAs EXCEPT !.events = @ - 1]
  BY DEF ActionFails, CloseAction, CloseEvent, StillClosed, AbortedEnds, listVars, actionVars
<1>2. shownAs' = [shownAs EXCEPT !.events = @ - 1] => shownAs'.open = shownAs.open
  OBVIOUS
<1>3. NoAction \in [id : Correlations \cup {NoQuery}, preview : BOOLEAN, pages : Seq(Places), next : Places]
  BY PlaceTyped DEF NoAction
<1>4. JournalPageTyped' /\ TrailOK' /\ LoadOK'
  BY <1>1, <1>3, PlaceTyped DEF JournalPageInv, JournalPageTyped, TrailOK, LoadOK
<1>5. PagesOK' /\ LookOK'
  BY <1>1, <1>2, PlaceTyped DEF JournalPageInv, PagesOK, LookOK
<1> QED BY <1>4, <1>5 DEF JournalPageInv

LEMMA NextJournalPage == JournalPageInv /\ [JournalPageNext]_journalVars => JournalPageInv'
<1> SUFFICES ASSUME JournalPageInv, [JournalPageNext]_journalVars PROVE JournalPageInv'
  OBVIOUS
<1>1. CASE UNCHANGED journalVars
  BY <1>1 DEF journalVars, listVars, actionVars, JournalPageInv, JournalPageTyped, TrailOK, LoadOK,
              PagesOK, LookOK
<1>2. CASE JournalPageNext
  BY <1>2, LoadSteps, LoadedStep, ListRests, LookSteps, ActionLoadedStep, DialogRests
     DEF JournalPageNext
<1> QED BY <1>1, <1>2

(***************************************************************************)
(* The events listed are those of the filters shown at the page number     *)
(* shown, and a dialog's are those of one action, page after page of one   *)
(* snapshot, after any mixture of failed, replaced and late requests.      *)
(***************************************************************************)
THEOREM PageIsCoherent == JournalPageInit /\ [][JournalPageNext]_journalVars => []JournalCoherent
<1>1. ASSUME JournalPageInv PROVE JournalCoherent
  <2>1. DialogCoherent
    BY <1>1, PlaceTyped DEF JournalPageInv, PagesOK, DialogCoherent
  <2>2. ASSUME current # NoPlace PROVE ListCoherent
    <3>1. pageIndex \in Nat /\ TrailOK /\ current = Place(filters, trail[1].snap, pageIndex)
      BY <1>1, <2>2 DEF JournalPageInv, JournalPageTyped, TrailOK
    <3>2. current.snap = trail[1].snap
      BY <3>1 DEF Place
    <3> QED BY <2>2, <3>1, <3>2 DEF TrailOK, ListCoherent
  <2> QED BY <2>1, <2>2 DEF JournalCoherent, ListCoherent
<1> QED BY <1>1, InitJournalPage, NextJournalPage, PTL

=============================================================================
