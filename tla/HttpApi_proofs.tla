--------------------------- MODULE HttpApi_proofs ----------------------------
(***************************************************************************)
(* Theorems about CommandLine and HttpApi, for every set of invocations    *)
(* and requests, whatever the values of their options.                     *)
(*                                                                         *)
(* The two properties about jobs rest on how arguments and section are     *)
(* merged: on what is dropped before the checks are made.  The one about   *)
(* secrets rests on the order of things: nothing is listening before the   *)
(* secrets have been compared, and they do not change afterwards.          *)
(***************************************************************************)
EXTENDS HttpApi, TLAPS

(* What is known of the options before the assembly. *)
OptionsOK ==
  /\ phase = "build" => ValidJob(JobKind, options, Simulates(call))
  /\ phase = "resolve" => call.mode = "run"
  /\ phase = "build" /\ call.mode = "monit" /\ Given(call.line.rsc) => ~Given(options.cmd)
  /\ phase \in {"build", "serve"} /\ call.mode = "serve" /\ call.dry => ~On(options.allow_actions)

BuiltOK ==
  /\ built \in [rules : BOOLEAN, simulate : BOOLEAN, audit : BOOLEAN,
                actions : BOOLEAN, notifications : BOOLEAN, reader : BOOLEAN]
  /\ phase \in {"parse", "resolve", "build"} => built = NotBuilt
  /\ phase = "serve" => JobKind = "serve"

(* No request before the secrets are settled. *)
ServerOK ==
  /\ DOMAIN security = {"action", "notification", "audit", "metrics", "status", "trust"}
  /\ Distinct(security)
  /\ server # "off" \/ request # Unset \/ response.handled => phase \in {"run", "exit"}

IInv == Invocation(call) /\ OptionsOK /\ BuiltOK /\ ObservationNeverActs /\ ServerOK /\ CredentialsSeparate

-----------------------------------------------------------------------------
LEMMA InitInv == Init => IInv
<1> SUFFICES ASSUME Init PROVE IInv
  OBVIOUS
<1> USE DEF Init, CInit, HInit
<1>1. Invocation(call)
  BY InvocationsAssumption
<1>2. OptionsOK /\ BuiltOK
  BY DEF OptionsOK, BuiltOK, NotBuilt
<1>3. ObservationNeverActs /\ CredentialsSeparate
  BY DEF ObservationNeverActs, CredentialsSeparate, NotBuilt, NoAnswer
<1>4. ServerOK
  BY DEF ServerOK, NoSecurity, Distinct, Given, NoAnswer
<1> QED BY <1>1, <1>2, <1>3, <1>4 DEF IInv

(* The values of Default that the checks meet. *)
LEMMA Defaults ==
  /\ Default.cmd = Unset /\ Default.audit_file = Unset
  /\ Default.audit_limits = "in" /\ Default.output = "in"
BY DEF Default, Blank, Fields, Switches, Tokens, Bounded

(* Merged options that no section may set come from the arguments. *)
LEMMA Merged ==
  ASSUME NEW l, NEW y, NEW mode, NEW f \in Fields
  PROVE  Effective(mode, l, y)[f] \in {l[f], y[f], Default[f]}
BY DEF Effective

(* Journal and output settings are sound in every direct command. *)
LEMMA CommonSound ==
  ASSUME Invocation(call), NEW section, NEW o,
         section = (IF call.mode \in Direct THEN call.yaml ELSE Blank),
         o = Effective(call.mode, call.line, section),
         InRange(call.line, {"audit_limits", "output"}), SoundText(call.line, {"audit_file"}),
         call.mode \in Direct => SectionAccepted(call.mode, section)
  PROVE  InRange(o, {"audit_limits", "output"}) /\ SoundText(o, {"audit_file"})
<1>1. {"audit_limits", "output", "audit_file"} \subseteq Fields
  BY DEF Fields, Bounded
<1>2. /\ ~Given(section.audit_limits) /\ ~Given(section.audit_file)
      /\ Given(section.output) => section.output # "out"
  <2>1. CASE call.mode \in Direct
    <3>1. SectionAccepted(call.mode, section)
      BY <2>1
    <3>2. {"audit_limits", "audit_file"} \cap CommandFields[call.mode] = {}
      BY <2>1 DEF CommandFields, Direct, Policy, Tokens
    <3> QED BY <1>1, <3>1, <3>2 DEF SectionAccepted, InRange, Bounded
  <2>2. CASE call.mode \notin Direct
    BY <1>1, <2>2 DEF Blank, Given
  <2> QED BY <2>1, <2>2
<1> QED BY <1>1, <1>2, Merged, Defaults DEF InRange, SoundText, Given

(* What the checks of a subcommand let through is a valid job.             *)
LEMMA ArgumentsSuffice ==
  ASSUME Invocation(call), call.mode \in Direct \cup {"tui"}, NEW o,
         InRange(o, {"audit_limits", "output"}), SoundText(o, {"audit_file"}),
         ArgumentsAccepted(call.mode, o, call.dry)
  PROVE  ValidJob(JobKind, o, Simulates(call))
<1> USE DEF ValidJob, JobKind, Simulates, Direct, CommandFields
<1>1. CASE call.mode \in {"stats", "monit", "tui"}
  BY <1>1
<1>2. CASE call.mode = "cron"
  <2>1. CronAccepted(o, call.dry)
    BY <1>2 DEF ArgumentsAccepted
  <2> QED BY <1>2, <2>1 DEF CronAccepted, PolicyAccepted, SoundText, InRange
<1>3. CASE call.mode = "serve"
  <2>1. ServeAccepted(o, call.dry)
    BY <1>3 DEF ArgumentsAccepted
  <2>2. /\ On(o.allow_maintenance) => On(o.allow_actions)
        /\ On(o.allow_actions) => Given(o.state_file) /\ ~call.dry
    BY <2>1 DEF ServeAccepted, ActionsAccepted
  <2>3. InRange(o, {"cooldown", "max_restarts"}) /\ InRange(o, {"bind", "port", "action_cooldown"})
    BY <2>1 DEF ServeAccepted, PolicyAccepted, InRange
  <2>4. SoundText(o, {"state_file"})
    BY <2>1 DEF ServeAccepted, SoundText
  <2>5. /\ o.trigger_after >= 0
        /\ IF o.trigger_after > 0 THEN Given(o.cmd) /\ Given(o.max_gap) /\ o.max_gap > 0
                                  ELSE ~Given(o.max_gap)
    BY <2>1 DEF ServeAccepted, PolicyAccepted
  <2>6. /\ o.interval > 0 /\ StaleAfter(o) >= o.interval
        /\ Given(o.cmd) => Given(o.state_file)
        /\ o.trigger_after > 0 => o.max_gap > o.interval
        /\ call.dry => Given(o.cmd)
    BY <2>1 DEF ServeAccepted, GapExceedsInterval
  <2> HIDE DEF ValidJob
  <2> QED BY <1>3, <2>2, <2>3, <2>4, <2>5, <2>6 DEF ValidJob
<1> QED BY <1>1, <1>2, <1>3

(* Who chose an observation on the command line has no command left. *)
LEMMA ObservationKeepsNoCommand ==
  ASSUME NEW l, NEW y, NEW dry, Given(l.rsc), RulesAccepted(Effective("monit", l, y), dry)
  PROVE  ~Given(Effective("monit", l, y).cmd)
<1>1. Effective("monit", l, y).rsc = l.rsc
  BY DEF Effective, Fields
<1> QED BY <1>1 DEF RulesAccepted

-----------------------------------------------------------------------------
(* One lemma for each phase.                                               *)
LEMMA ParseInv ==
  ASSUME IInv, Parse, UNCHANGED hvars
  PROVE  IInv'
<1> DEFINE section == IF call.mode \in Direct THEN call.yaml ELSE Blank
           o == Effective(call.mode, call.line, section)
<1> USE DEF hvars
<1>1. /\ phase = "parse" /\ phase' \in {"build", "resolve", "run", "exit"}
      /\ UNCHANGED <<call, built, security>>
      /\ phase' = "resolve" => call.mode = "run"
  BY DEF Parse, Fails, Exit
<1>2. ASSUME phase' = "build"
      PROVE  /\ call.mode \in Direct \cup {"tui"} /\ options' = o
             /\ InRange(call.line, {"audit_limits", "output"}) /\ SoundText(call.line, {"audit_file"})
             /\ call.mode \in Direct => SectionAccepted(call.mode, section)
             /\ ArgumentsAccepted(call.mode, o, call.dry)
  BY <1>2 DEF Parse, Fails, Exit
<1>3. OptionsOK'
  <2> SUFFICES ASSUME phase' = "build" PROVE OptionsOK'
    BY <1>1 DEF OptionsOK
  <2>1. Invocation(call)
    BY DEF IInv
  <2>2. InRange(o, {"audit_limits", "output"}) /\ SoundText(o, {"audit_file"})
    BY <1>2, <2>1, CommonSound
  <2>3. ValidJob(JobKind, o, Simulates(call))
    BY <1>2, <2>1, <2>2, ArgumentsSuffice
  <2>4. ASSUME call.mode = "monit", Given(call.line.rsc) PROVE ~Given(o.cmd)
    BY <1>2, <2>4, ObservationKeepsNoCommand DEF ArgumentsAccepted
  <2>5. ASSUME call.mode = "serve", call.dry PROVE ~On(o.allow_actions)
    BY <1>2, <2>5 DEF ArgumentsAccepted, ServeAccepted, ActionsAccepted
  <2> HIDE DEF o
  <2> QED BY <1>1, <1>2, <2>3, <2>4, <2>5 DEF OptionsOK, JobKind
<1>4. BuiltOK' /\ ObservationNeverActs' /\ ServerOK'
  BY <1>1 DEF IInv, BuiltOK, ObservationNeverActs, ServerOK
<1>5. Invocation(call)' /\ CredentialsSeparate'
  BY <1>1 DEF IInv, CredentialsSeparate
<1> QED BY <1>3, <1>4, <1>5 DEF IInv

LEMMA ResolveInv ==
  ASSUME IInv, ResolveScenario, UNCHANGED hvars
  PROVE  IInv'
<1> USE DEF hvars
<1>1. /\ phase = "resolve" /\ phase' \in {"build", "exit"}
      /\ UNCHANGED <<call, built, security>>
  BY DEF ResolveScenario, Fails, Exit
<1>2. OptionsOK'
  <2> SUFFICES ASSUME phase' = "build" PROVE OptionsOK'
    BY <1>1 DEF OptionsOK
  <2>1. call.mode = "run" /\ ValidJob(call.kind, options', Simulates(call))
    BY DEF ResolveScenario, Fails, Exit, IInv, OptionsOK
  <2> QED BY <1>1, <2>1 DEF OptionsOK, JobKind
<1>3. BuiltOK' /\ ObservationNeverActs' /\ ServerOK'
  BY <1>1 DEF IInv, BuiltOK, ObservationNeverActs, ServerOK
<1>4. Invocation(call)' /\ CredentialsSeparate'
  BY <1>1 DEF IInv, CredentialsSeparate
<1> QED BY <1>2, <1>3, <1>4 DEF IInv

(* What is assembled has rules only when the job has a command. *)
LEMMA BuildInv ==
  ASSUME IInv, Build, UNCHANGED hvars
  PROVE  IInv'
<1> USE DEF hvars
<1>1. /\ phase = "build" /\ phase' \in {"serve", "run", "exit"}
      /\ UNCHANGED <<call, options, security>>
      /\ phase' = "serve" => JobKind = "serve"
  BY DEF Build, Fails, Exit
<1>2. OptionsOK'
  BY <1>1 DEF IInv, OptionsOK
<1>3. \/ built' = built
      \/ /\ built'.rules => UsesRules /\ Given(options.cmd)
         /\ built'.simulate = Simulates(call) /\ built'.actions = FALSE
         /\ built' \in [rules : BOOLEAN, simulate : BOOLEAN, audit : BOOLEAN,
                        actions : BOOLEAN, notifications : BOOLEAN, reader : BOOLEAN]
  <2>1. Simulates(call) \in BOOLEAN
    BY DEF IInv, Invocation, Simulates
  <2>2. ASSUME NEW rules \in BOOLEAN PROVE NeedsJournal(rules, options) \in BOOLEAN
    BY DEF NeedsJournal, On, Given
  <2> QED BY <2>1, <2>2 DEF Build, Fails, Exit, NotBuilt, UsesRules, Given
<1>4. BuiltOK'
  BY <1>1, <1>3 DEF IInv, BuiltOK, JobKind
<1>5. ObservationNeverActs'
  BY <1>1, <1>3 DEF IInv, OptionsOK, ObservationNeverActs, UsesRules, JobKind, Simulates, Invocation
<1>6. ServerOK' /\ Invocation(call)' /\ CredentialsSeparate'
  BY <1>1 DEF IInv, ServerOK, CredentialsSeparate
<1> QED BY <1>2, <1>4, <1>5, <1>6 DEF IInv

(* The secrets are compared while no request can be under way. *)
LEMMA ServeInv ==
  ASSUME IInv, Serve, UNCHANGED hvars
  PROVE  IInv'
<1> USE DEF hvars
<1>1. phase = "serve" /\ phase' \in {"run", "exit"} /\ JobKind = "serve"
  BY DEF Serve, Fails, Exit, IInv, BuiltOK
<1>2. server = "off" /\ request = Unset /\ ~response.handled
  BY <1>1 DEF IInv, ServerOK
<1>3. CASE phase' = "exit"
  <2>1. UNCHANGED <<call, options, built, security>>
    BY <1>3 DEF Serve, Fails
  <2> QED BY <1>1, <1>2, <1>3, <2>1 DEF IInv, OptionsOK, BuiltOK, ObservationNeverActs, ServerOK, CredentialsSeparate
<1>4. CASE phase' = "run"
  <2>1. /\ Distinct(security')
        /\ security' = IF call.mode = "run" THEN NoSecurity ELSE Security(options)
        /\ built' = [built EXCEPT !.actions = call.mode = "serve" /\ On(options.allow_actions),
                                  !.notifications = Given(security'.notification),
                                  !.reader = Given(security'.audit)]
        /\ call' = [call EXCEPT !.line = Blank, !.yaml = Blank]
    BY <1>4 DEF Serve, Fails, Exit
  <2>2. /\ call'.mode = call.mode /\ call'.kind = call.kind /\ call'.dry = call.dry
        /\ Invocation(call)'
    BY <2>1 DEF IInv, Invocation, Blank
  <2>3. DOMAIN security' = {"action", "notification", "audit", "metrics", "status", "trust"}
    BY <2>1 DEF NoSecurity, Security
  <2>4. BuiltOK'
    BY <1>4, <2>1 DEF IInv, BuiltOK, On, Given
  <2>5. call.mode \in {"serve", "run"}
    BY <1>1 DEF JobKind
  <2>6. ObservationNeverActs'
    BY <1>1, <2>1, <2>2, <2>5 DEF IInv, OptionsOK, BuiltOK, ObservationNeverActs
  <2> QED BY <1>2, <1>4, <2>1, <2>2, <2>3, <2>4, <2>6 DEF IInv, OptionsOK, ServerOK, CredentialsSeparate
<1> QED BY <1>1, <1>3, <1>4

(* The operation, and what it ends with. *)
LEMMA CommandInv ==
  ASSUME IInv, Command \/ BindFails
  PROVE  IInv'
<1>1. phase' = "exit" /\ UNCHANGED <<call, options, built, security, hvars>>
  BY DEF Command, BindFails, Completes, Raises, Fails, Exit
<1> QED BY <1>1 DEF IInv, OptionsOK, BuiltOK, ObservationNeverActs, ServerOK, CredentialsSeparate, hvars

LEMMA ServerStepInv ==
  ASSUME IInv, Listen \/ Shutdown \/ Close \/ \E r \in Offered : Receive(r)
  PROVE  IInv'
<1>1. UNCHANGED cvars /\ phase \in {"run", "exit"} /\ response' \in {response, NoAnswer}
  BY DEF Listen, IsServer, Shutdown, Close, Receive, IInv, ServerOK
<1> QED BY <1>1 DEF IInv, OptionsOK, BuiltOK, ObservationNeverActs, ServerOK, CredentialsSeparate,
                    NoAnswer, cvars, JobKind

LEMMA TurnedAwayInv ==
  ASSUME IInv, Guarded \/ Refuse \/ RefuseBody
  PROVE  IInv'
<1>1. UNCHANGED <<cvars, server>> /\ phase \in {"run", "exit"} /\ response'.handled = FALSE
  BY DEF Guarded, Refuse, RefuseBody, Respond, IInv, ServerOK
<1> QED BY <1>1 DEF IInv, OptionsOK, BuiltOK, ObservationNeverActs, ServerOK, CredentialsSeparate,
                    cvars, JobKind

(* A handler is reached with the secret of its role, unlike all others. *)
LEMMA HandleInv ==
  ASSUME IInv, NEW status, Handle(status)
  PROVE  IInv'
<1>1. /\ UNCHANGED <<cvars, server>> /\ phase \in {"run", "exit"}
      /\ response'.request = request
      /\ request.path \in ToAuth => Authenticated(request) /\ ~Hidden(request.path)
  BY DEF Handle, Passed, Respond, IInv, ServerOK
<1> DEFINE own == Role[request.path]
<1>2. ASSUME request.path \in ToAuth
      PROVE  /\ own \in DOMAIN security
             /\ own \in {"action", "audit", "notification"} => Given(security[own])
             /\ Given(security[own]) => request.secret = security[own] /\ request.copies = 1
  <2>1. Authenticated(request) /\ DOMAIN security = {"action", "notification", "audit", "metrics", "status", "trust"}
    BY <1>1, <1>2 DEF IInv, ServerOK
  <2>2. CASE request.path = "metrics"
    <3>1. own = "metrics" /\ (Given(security.metrics) => Presents(request, "Authorization", security.metrics))
      BY <2>1, <2>2 DEF Authenticated, Role
    <3> QED BY <2>1, <3>1 DEF Presents
  <2>3. CASE request.path = "status"
    <3>1. own = "status" /\ (Given(security.status) => Presents(request, "Authorization", security.status))
      BY <2>1, <2>3 DEF Authenticated, Role
    <3> QED BY <2>1, <3>1 DEF Presents
  <2>4. CASE request.path = "audit"
    <3>1. own = "audit" /\ Presents(request, "X-Monit-Audit-Token", security.audit)
      BY <2>1, <2>4 DEF Authenticated, Role
    <3> QED BY <2>1, <3>1 DEF Presents
  <2>5. CASE request.path = "notifications"
    <3>1. own = "notification" /\ Presents(request, "Authorization", security.notification)
      BY <2>1, <2>5 DEF Authenticated, Role
    <3> QED BY <2>1, <3>1 DEF Presents
  <2>6. CASE request.path = "actions"
    <3>1. own = "action" /\ Presents(request, "X-Monit-Action-Token", security.action)
      BY <2>1, <2>6 DEF Authenticated, Role
    <3> QED BY <2>1, <3>1 DEF Presents
  <2> QED BY <1>2, <2>2, <2>3, <2>4, <2>5, <2>6 DEF ToAuth
<1>3. CredentialsSeparate'
  <2> SUFFICES ASSUME request.path \in ToAuth
               PROVE  /\ own \in {"action", "audit", "notification"} => Given(security[own])
                      /\ Given(security[own]) =>
                           /\ request.secret = security[own] /\ request.copies = 1
                           /\ \A q \in DOMAIN security \ {own, "trust"} : security[q] # security[own]
    BY <1>1 DEF CredentialsSeparate, cvars
  <2>1. own # "trust" /\ Distinct(security)
    BY DEF ToAuth, Role, IInv, ServerOK
  <2> QED BY <1>2, <2>1 DEF Distinct
<1>4. OptionsOK' /\ BuiltOK' /\ ObservationNeverActs'
  BY <1>1 DEF IInv, OptionsOK, BuiltOK, ObservationNeverActs, cvars, JobKind
<1>5. ServerOK' /\ Invocation(call)'
  BY <1>1 DEF IInv, ServerOK, cvars
<1> QED BY <1>3, <1>4, <1>5 DEF IInv

-----------------------------------------------------------------------------
LEMMA NextInv == IInv /\ [Next]_vars => IInv'
<1> SUFFICES ASSUME IInv, [Next]_vars PROVE IInv'
  OBVIOUS
<1>1. CASE (Parse \/ ResolveScenario \/ Build \/ Serve) /\ UNCHANGED hvars
  BY <1>1, ParseInv, ResolveInv, BuildInv, ServeInv
<1>2. CASE Listen \/ BindFails \/ Shutdown \/ Close \/ Command \/ \E r \in Offered : Receive(r)
  BY <1>2, ServerStepInv, CommandInv
<1>3. CASE Guarded \/ Refuse \/ RefuseBody \/ \E status \in {200, 202, 400, 403, 409, 410, 503} : Handle(status)
  BY <1>3, TurnedAwayInv, HandleInv
<1>4. CASE UNCHANGED vars
  BY <1>4 DEF vars, cvars, hvars, IInv, OptionsOK, BuiltOK, ObservationNeverActs, ServerOK, CredentialsSeparate, JobKind
<1> QED BY <1>1, <1>2, <1>3, <1>4 DEF Next

THEOREM Invariance == Spec => []IInv
<1> QED BY InitInv, NextInv, PTL DEF Spec

(***************************************************************************)
(* Whatever arguments, sections and scenarios accept is a valid job.       *)
(***************************************************************************)
THEOREM AcceptedIsValid == Spec => []JobsValid
<1>1. IInv => JobsValid
  BY DEF IInv, OptionsOK, JobsValid
<1> QED BY <1>1, Invariance, PTL

(***************************************************************************)
(* An observation gets no rules, and a simulation none that act.           *)
(***************************************************************************)
THEOREM ObserversAreSafe == Spec => []ObservationNeverActs
<1>1. IInv => ObservationNeverActs
  BY DEF IInv
<1> QED BY <1>1, Invariance, PTL

(***************************************************************************)
(* A handler is reached with its own role's secret, which is no other's.   *)
(***************************************************************************)
THEOREM SecretsKeptApart == Spec => []CredentialsSeparate
<1>1. IInv => CredentialsSeparate
  BY DEF IInv
<1> QED BY <1>1, Invariance, PTL
=============================================================================
