----------------------------- MODULE StatusPage ------------------------------
(***************************************************************************)
(* The overview page in a browser: it polls /v1/status, offers controls on *)
(* what the last answer showed, and posts one action at a time.            *)
(*                                                                         *)
(* Between page and agent is a proxy and a network that may lose, delay or *)
(* refuse a request and lose its answer; both requests of the page are     *)
(* given up after eight seconds, which says nothing about what the agent   *)
(* did or will do with them.  The agent is RequestLifecycle, which         *)
(* ManualActions implements.  Another page has the role of a reloaded one.  *)
(* Sources: ui/static/app.js; adapters/http_routes.py for the answers.     *)
(***************************************************************************)
EXTENDS Naturals, RequestLifecycle

CONSTANTS Targets,  \* pairs of a container and an action
          None,
          Fresh     \* seconds for which an answer is good for acting on

ASSUME FreshAssumption == Fresh \in Nat
ASSUME NoneAssumption == None \notin Ids

VARIABLES admits,         \* targets the agent's measurements admit; none until it is ready
          data,           \* the last status received
          connected, loading, posting, auto, hidden,
          age,            \* seconds since receivedAt, up to Fresh + 1
          timer,          \* is the timer of the next refresh set
          dialog,         \* the confirmation dialog: selected target, button
          unresolved,     \* request that has not been seen in a status yet
          get,            \* the status request under way
          post,           \* the action request under way
          wire,           \* action requests that the agent has not handled
          sent,           \* history: requests this page has posted
          used            \* history: identifiers drawn so far

agent == <<rvars, admits>>
controls == <<data, connected, age>>
history == <<sent, used>>
vars == <<agent, controls, loading, posting, auto, hidden, timer, dialog, unresolved,
          get, post, wire, history>>

NoPost == [id |-> None, answer |-> "none"]
NoGet == [state |-> "none", status |-> None]
Sent == [state |-> "sent", status |-> None]
NoDialog == [target |-> None, state |-> "closed", enabled |-> FALSE]

(* What the page reads of a status: what may be done, the requests listed  *)
(* and whether one of them is queued or running.                           *)
Status == [admits |-> admits, recent |-> {i \in Ids : state[i] # "absent"},
           busy |-> \E i \in Ids : state[i] \in InFlight]

(* An empty page; its last line calls refresh(). *)
NewPage ==
  /\ data' = None /\ connected' = FALSE /\ age' = Fresh + 1
  /\ loading' = TRUE /\ get' = Sent
  /\ posting' = FALSE /\ post' = NoPost /\ unresolved' = None
  /\ auto' = TRUE /\ hidden' \in BOOLEAN /\ timer' = FALSE
  /\ dialog' = NoDialog /\ sent' = {}

Init ==
  /\ RInit /\ admits = {}
  /\ data = None /\ connected = FALSE /\ age = Fresh + 1
  /\ loading = TRUE /\ get = Sent
  /\ posting = FALSE /\ post = NoPost /\ unresolved = None
  /\ auto = TRUE /\ hidden \in BOOLEAN /\ timer = FALSE
  /\ dialog = NoDialog /\ wire = {} /\ sent = {} /\ used = {}

-----------------------------------------------------------------------------
CanAct(t) ==
  /\ connected /\ age <= Fresh /\ data # None
  /\ ~posting /\ unresolved = None /\ ~data.busy
  /\ t \in data.admits

(* render(): a dialog whose target can no longer be acted on loses its     *)
(* button for good.  Primed: what render sees is the new state.            *)
Render == dialog' = [dialog EXCEPT !.enabled =
                       @ /\ \E t \in Targets : t = dialog.target /\ CanAct(t)']

(* refresh(): an early return while one is under way. *)
Refresh == IF ~loading THEN loading' = TRUE /\ get' = Sent ELSE UNCHANGED <<loading, get>>

(* Mutant: the next refresh is planned by answers only. *)
ScheduleConnected == timer' = (auto' /\ ~hidden' /\ connected')
Schedule == timer' = (auto' /\ ~hidden')

TimerFires ==
  /\ timer /\ timer' = FALSE
  /\ Refresh
  /\ UNCHANGED <<agent, controls, posting, auto, hidden, dialog, unresolved, post, wire, history>>

RefreshClicked ==
  /\ ~loading /\ dialog.state = "closed"
  /\ Refresh
  /\ UNCHANGED <<agent, controls, posting, auto, hidden, timer, dialog, unresolved, post, wire, history>>

AutoToggled ==
  /\ dialog.state = "closed"
  /\ auto' = ~auto
  /\ UNCHANGED <<agent, controls, posting, hidden, dialog, unresolved, post, wire, history>>
  /\ Schedule
  /\ IF auto' THEN Refresh ELSE UNCHANGED <<loading, get>>

VisibilityChanged ==
  /\ hidden' = ~hidden
  /\ timer' = FALSE
  /\ UNCHANGED <<agent, data, age, posting, auto, unresolved, post, wire, history>>
  /\ IF hidden THEN connected' = FALSE /\ Refresh /\ Render
               ELSE UNCHANGED <<connected, loading, get, dialog>>

(* The agent answers a status request with what holds at that moment. *)
ServeStatus ==
  /\ get.state = "sent"
  /\ get' = [state |-> "served", status |-> Status]
  /\ UNCHANGED <<agent, controls, loading, posting, auto, hidden, timer, dialog, unresolved,
                 post, wire, history>>

StatusArrives ==
  /\ get.state = "served"
  /\ data' = get.status /\ connected' = TRUE /\ age' = 0
  /\ unresolved' = IF unresolved \in get.status.recent THEN None
                   ELSE unresolved
  /\ get' = NoGet /\ loading' = FALSE
  /\ UNCHANGED <<agent, posting, auto, hidden, post, wire, history>>
  /\ Render /\ Schedule

(* Lost, refused, or given up after eight seconds. *)
StatusFails ==
  /\ get # NoGet
  /\ connected' = FALSE
  /\ get' = NoGet /\ loading' = FALSE
  /\ UNCHANGED <<agent, data, age, posting, auto, hidden, unresolved, post, wire, history>>
  /\ Render /\ Schedule

(* The page's check once a second; throttled in a page that is hidden. *)
Interval ==
  /\ connected /\ age > Fresh
  /\ connected' = FALSE
  /\ UNCHANGED <<agent, data, age, loading, posting, auto, hidden, timer, unresolved, get, post,
                 wire, history>>
  /\ Render

Tick ==
  /\ age <= Fresh /\ age' = age + 1
  /\ UNCHANGED <<agent, data, connected, loading, posting, auto, hidden, timer, dialog, unresolved,
                 get, post, wire, history>>

-----------------------------------------------------------------------------
(* confirmAction: the dialog is modal, so there is one at a time. *)
ConfirmAction(t) ==
  /\ dialog.state = "closed" /\ CanAct(t)
  /\ dialog' = [target |-> t, state |-> "open", enabled |-> TRUE]
  /\ UNCHANGED <<agent, controls, loading, posting, auto, hidden, timer, unresolved, get, post,
                 wire, history>>

(* The close event comes later: a status may be received before it. *)
Confirmed ==
  /\ dialog.state = "open" /\ dialog.enabled
  /\ dialog' = [dialog EXCEPT !.state = "confirm"]
  /\ UNCHANGED <<agent, controls, loading, posting, auto, hidden, timer, unresolved, get, post,
                 wire, history>>

(* Cancelled, or confirmed when the target can no longer be acted on. *)
Closed ==
  /\ dialog.state = "open" \/ (dialog.state = "confirm" /\ ~CanAct(dialog.target))
  /\ dialog' = NoDialog
  /\ UNCHANGED <<agent, controls, loading, posting, auto, hidden, timer, unresolved, get, post,
                 wire, history>>

Post(i) ==
  /\ dialog.state = "confirm" /\ CanAct(dialog.target)
  /\ i \in Ids \ used
  /\ posting' = TRUE
  /\ post' = [id |-> i, answer |-> "none"]
  /\ wire' = wire \cup {[id |-> i, target |-> dialog.target]}
  /\ sent' = sent \cup {i} /\ used' = used \cup {i}
  /\ dialog' = NoDialog
  /\ UNCHANGED <<agent, controls, loading, auto, hidden, timer, unresolved, get>>

(* What becomes of a posted request: the agent accepts it, refuses it for  *)
(* a reason of its own, or cannot journal it (503); a proxy refuses it; it *)
(* is lost.  The page hears of it if it still waits.                       *)
Answered(m, answer) ==
  /\ wire' = wire \ {m}
  /\ post' = IF post.id = m.id THEN [post EXCEPT !.answer = answer] ELSE post
  /\ UNCHANGED <<controls, loading, posting, auto, hidden, timer, dialog, unresolved, get, history>>
Accepted(m) ==
  /\ m \in wire /\ m.target \in admits
  /\ \E dropped \in SUBSET Ids : Accept(m.id, dropped)
  /\ Answered(m, "accepted")
  /\ UNCHANGED admits
Refused(m, answer) == m \in wire /\ Answered(m, answer) /\ UNCHANGED agent

(* The codes of a refusal are final; any other failure leaves it open.     *)
(* Mutant: a request that got no answer counts as refused.                 *)
OnlyAccepted(answer) == answer = "accepted"
LeavesOpen(answer) == answer # "rejected"

(* The answer arrives, or eight seconds have passed without one. *)
PostEnds(answer) ==
  /\ posting /\ answer \in {post.answer, "none"}
  /\ unresolved' = IF LeavesOpen(answer) THEN post.id ELSE unresolved
  /\ posting' = FALSE /\ post' = NoPost
  /\ Refresh
  /\ UNCHANGED <<agent, controls, auto, hidden, timer, wire, history>>
  /\ Render

(* The page is reloaded, or another one opened in its place. *)
Reload ==
  /\ NewPage
  /\ UNCHANGED <<agent, wire, used>>

-----------------------------------------------------------------------------
page == <<controls, loading, posting, auto, hidden, timer, dialog, unresolved, get, post, wire, history>>

Collect ==
  /\ admits' \in SUBSET Targets
  /\ UNCHANGED <<rvars, page>>

(* The accepted request proceeds; the agent restarts. *)
AgentStep ==
  /\ \/ \E i \in Ids : GiveUp(i) \/ Start(i) \/ Attempt(i) \/ \E s \in Ended : Finish(i, s)
     \/ ForgetAll
  /\ UNCHANGED <<admits, page>>

Answers == {"accepted", "rejected", "unavailable", "none"}

Next ==
  \/ TimerFires \/ RefreshClicked \/ AutoToggled \/ VisibilityChanged
  \/ ServeStatus \/ StatusArrives \/ StatusFails \/ Interval \/ Tick
  \/ \E t \in Targets : ConfirmAction(t)
  \/ Confirmed \/ Closed \/ \E i \in Ids : Post(i)
  \/ \E m \in wire : Accepted(m) \/ \E answer \in {"rejected", "unavailable", "none"} : Refused(m, answer)
  \/ \E answer \in Answers : PostEnds(answer)
  \/ Reload \/ Collect \/ AgentStep

Spec == Init /\ [][Next]_vars

-----------------------------------------------------------------------------
(***************************************************************************)
(* SettledBeforeNext: when a page posts an action, whatever it has posted  *)
(* before has come to its end: the agent is not running it, does not have  *)
(* it queued, and will not receive it late (browser.cjs: "A gateway        *)
(* timeout is ambiguous: never retry or enable another mutation").         *)
(***************************************************************************)
Settled(i) == state[i] \notin InFlight /\ \A m \in wire : m.id # i
SettledBeforeNext == [][sent' \ sent # {} => \A i \in sent : Settled(i)]_vars

(***************************************************************************)
(* PollingArmed: a visible page with automatic refresh always has its next *)
(* refresh planned or one under way, whatever fails and whatever the order *)
(* of the events that set and clear the one timer.                         *)
(***************************************************************************)
PollingArmed == auto /\ ~hidden => timer \/ loading
=============================================================================
