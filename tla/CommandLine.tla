---------------------------- MODULE CommandLine -----------------------------
(***************************************************************************)
(* One invocation of monit-docker, from its arguments to its exit code:    *)
(* the command line is merged with the configuration's section for the     *)
(* subcommand, checked, turned into a job, the application is assembled    *)
(* from the job and run, and what it raised decides the exit code.         *)
(*                                                                         *)
(* There are three ways to a job, each with checks of its own: a direct    *)
(* command (argparse and YAML defaults), a named scenario (YAML only) and  *)
(* the terminal interface.  All meet in validate_job, which the assembly   *)
(* repeats.  Options whose only check is a range of their own are the set  *)
(* Bounded, with the values "in" and "out".                                *)
(* Sources: cli.py, job.py, composition.py, adapters/command_config.py,    *)
(* adapters/scenarios.py, adapters/http_security.py.                       *)
(***************************************************************************)
EXTENDS Naturals, Integers, Sequences, FiniteSets

CONSTANTS Unset,        \* an option that is not given: None, or an empty list
          Invocations,  \* the invocations, as Invocation describes them
          Codes,        \* codes that a MonitoringError carries
          Results       \* exit codes that report a measurement (monit --rsc)

Switches == {"allow_actions", "allow_maintenance", "trust_proxy_user", "propagate_exit_code"}
Tokens == {"action_token_file", "audit_read_token_file", "notification_token_file",
           "metrics_token_file", "status_token_file"}
Bounded == {"cooldown", "max_restarts", "bind", "port", "action_cooldown", "output", "audit_limits"}
Fields == Switches \cup Tokens \cup Bounded
          \cup {"cmd", "rsc", "state_file", "audit_file", "action_origin", "select",
                "trigger_after", "max_gap", "interval", "stale_after"}

Blank == [f \in Fields |-> Unset]

(* COMMAND_FIELDS: what the section of a direct command may set. *)
Policy == {"cmd", "state_file", "cooldown", "trigger_after", "max_gap", "max_restarts"}
CommandFields == [
  stats |-> {"rsc", "output"},
  monit |-> {"rsc", "cmd", "propagate_exit_code"},
  cron  |-> Policy \cup {"propagate_exit_code"},
  serve |-> Policy \cup Tokens \cup {"allow_actions", "allow_maintenance", "trust_proxy_user", "rsc",
                "bind", "port", "interval", "stale_after", "action_cooldown", "action_origin"}]
Direct == DOMAIN CommandFields
Local == {"check-config", "scenario", "audit-export", "audit-send", "audit-migrate",
          "restart-reset", "maintenance"}
Modes == Direct \cup Local \cup {"run", "tui"}

(* _MODE_FIELDS: what a scenario may set. *)
ScenarioFields == [
  stats |-> {"select", "audit_file", "audit_limits", "rsc", "output"},
  cron  |-> {"select", "audit_file", "audit_limits"} \cup Policy,
  serve |-> {"select", "audit_file", "audit_limits", "rsc", "bind", "port", "interval", "stale_after"}
            \cup Policy]

Arguments(mode) == {"select", "audit_file", "audit_limits"}
                   \cup (IF mode \in Direct THEN CommandFields[mode] ELSE {})

(* mode, arguments, --dry-run; the YAML of the mode's section or of the    *)
(* scenario, whose mode is kind and which may ask for simulation itself.   *)
Invocation(i) ==
  /\ DOMAIN i = {"mode", "kind", "line", "yaml", "all", "dry", "simulate"}
  /\ i.mode \in Modes /\ i.kind \in Direct
  /\ DOMAIN i.line = Fields /\ DOMAIN i.yaml = Fields
  /\ \A f \in Fields : i.line[f] # Unset => f \in Arguments(i.mode)
  /\ i.dry => i.mode \in {"monit", "cron", "serve", "run"}
  /\ {i.dry, i.simulate, i.all} \subseteq BOOLEAN

ASSUME InvocationsAssumption == \A i \in Invocations : Invocation(i)
ASSUME CodesAssumption == Codes \subseteq Int \ {0} /\ Results \subseteq Int

VARIABLES phase,    \* "parse", "resolve", "build", "run", "serve", "exit"
          call,     \* the invocation
          options,  \* options after parsing, then the job
          built,    \* what was assembled: rules, simulation, journal
          security, \* secrets of the HTTP server, when there is one
          raised,   \* what the operation raised
          rc        \* exit code

cvars == <<phase, call, options, built, security, raised, rc>>

NotBuilt == [rules |-> FALSE, simulate |-> FALSE, audit |-> FALSE,
             actions |-> FALSE, notifications |-> FALSE, reader |-> FALSE]
NoSecurity == [action |-> Unset, notification |-> Unset, audit |-> Unset,
               metrics |-> Unset, status |-> Unset, trust |-> FALSE]

CInit ==
  /\ phase = "parse" /\ call \in Invocations
  /\ options = Blank /\ built = NotBuilt /\ security = NoSecurity
  /\ raised = "nothing" /\ rc = Unset

Given(x) == x # Unset
On(x) == x = TRUE
Exit(code) == phase' = "exit" /\ rc' = code
Fails(code) == Exit(code) /\ UNCHANGED <<call, options, built, security, raised>>

-----------------------------------------------------------------------------
(* Values the loaders accept by themselves: argparse checks some on its    *)
(* own, validate_command_section all that a section may set.               *)
SoundText(o, fields) == \A f \in fields : Given(o[f]) => o[f] # "blank"
InRange(o, fields) == \A f \in fields : Given(o[f]) => o[f] # "out"

(* validate_command_section *)
SectionAccepted(mode, y) ==
  /\ \A f \in Fields \ CommandFields[mode] : ~Given(y[f])
  /\ SoundText(y, Tokens \cup {"state_file", "action_origin"})
  /\ InRange(y, Bounded)
  /\ Given(y.interval) => y.interval > 0
  /\ Given(y.stale_after) => y.stale_after > 0
  /\ Given(y.trigger_after) => y.trigger_after >= 0
  /\ Given(y.max_gap) => y.max_gap >= 0
  /\ mode = "monit" => ~(Given(y.cmd) /\ Given(y.rsc))

(* _apply_command_defaults: what the arguments take out of the section. *)
ObservationDrops(mode, l) ==
  IF mode = "monit" /\ Given(l.rsc) THEN {"cmd", "propagate_exit_code"} ELSE {}

Dropped(mode, l, y) ==
  ObservationDrops(mode, l)
  \cup (IF mode = "monit" /\ Given(l.cmd) THEN {"rsc"} ELSE {})
  \cup (IF mode = "serve" /\ l.allow_actions = FALSE
        THEN {"action_origin", "action_token_file", "allow_maintenance"}
             \cup (IF Given(l.audit_read_token_file) \/ Given(y.audit_read_token_file)
                   THEN {} ELSE {"trust_proxy_user"})
        ELSE {})

Default == [Blank EXCEPT !.propagate_exit_code = FALSE, !.trigger_after = 0, !.interval = 2,
                         !.cooldown = "in", !.max_restarts = "in", !.bind = "in", !.port = "in",
                         !.action_cooldown = "in", !.output = "in", !.audit_limits = "in"]

Effective(mode, l, y) == [f \in Fields |->
  IF Given(l[f]) THEN l[f]
  ELSE IF Given(y[f]) /\ f \notin Dropped(mode, l, y) THEN y[f]
  ELSE Default[f]]

-----------------------------------------------------------------------------
(* valid_subcmd_parser of each subcommand. *)
StaleAfter(o) ==
  IF Given(o.stale_after) THEN o.stale_after
  ELSE IF 3 * o.interval > 90 THEN 3 * o.interval ELSE 90

(* _validate_policy_options *)
PolicyAccepted(o) ==
  /\ InRange(o, {"max_restarts"}) /\ o.trigger_after >= 0
  /\ IF o.trigger_after > 0 THEN Given(o.cmd) /\ Given(o.max_gap) /\ o.max_gap > 0
                            ELSE ~Given(o.max_gap)

RulesAccepted(o, dry) ==
  /\ ~(Given(o.rsc) /\ Given(o.cmd))
  /\ On(o.propagate_exit_code) \/ dry => Given(o.cmd)

CronAccepted(o, dry) ==
  /\ RulesAccepted(o, dry) /\ Given(o.cmd)
  /\ Given(o.state_file) /\ o.state_file # "blank"
  /\ InRange(o, {"cooldown"})
  /\ PolicyAccepted(o)

ActionsAccepted(o, dry) ==
  IF On(o.allow_actions)
  THEN o.action_origin = "https" /\ Given(o.action_token_file) /\ Given(o.state_file) /\ ~dry
  ELSE ~Given(o.action_origin) /\ ~Given(o.action_token_file) /\ ~On(o.allow_maintenance)

(* Mutant: the delay of a trigger may be shorter than a cycle. *)
AnyGap(o) == TRUE
GapExceedsInterval(o) == o.trigger_after > 0 => o.max_gap > o.interval

ServeAccepted(o, dry) ==
  /\ InRange(o, {"bind", "port", "cooldown", "action_cooldown"})
  /\ o.interval > 0 /\ StaleAfter(o) >= o.interval
  /\ Given(o.cmd) => Given(o.state_file)
  /\ SoundText(o, Tokens \cup {"state_file"})
  /\ dry => Given(o.cmd)
  /\ ActionsAccepted(o, dry)
  /\ Given(o.audit_read_token_file) => Given(o.audit_file)
  /\ On(o.trust_proxy_user) => On(o.allow_actions) \/ Given(o.audit_read_token_file)
  /\ PolicyAccepted(o)
  /\ GapExceedsInterval(o)

ArgumentsAccepted(mode, o, dry) ==
  CASE mode = "monit" -> RulesAccepted(o, dry)
    [] mode = "cron"  -> CronAccepted(o, dry)
    [] mode = "serve" -> ServeAccepted(o, dry)
    [] mode \in {"run", "scenario"} -> ~Given(o.select)
    [] mode \in {"audit-export", "audit-send", "audit-migrate"} -> Given(o.audit_file)
    [] OTHER -> TRUE

(* argv_parse_check *)
Parse ==
  /\ phase = "parse"
  /\ LET mode == call.mode
         section == IF mode \in Direct THEN call.yaml ELSE Blank
         o == Effective(mode, call.line, section)
     IN IF ~InRange(call.line, {"audit_limits", "output"}) \/ ~SoundText(call.line, {"audit_file"})
        THEN Fails(2)
        ELSE IF mode \in Direct /\ ~SectionAccepted(mode, section) THEN Fails(110)
        ELSE IF ~ArgumentsAccepted(mode, o, call.dry) THEN Fails(2)
        ELSE /\ phase' = CASE mode \in Direct \cup {"tui"} -> "build"
                           [] mode = "run" -> "resolve"
                           [] OTHER -> "run"
             /\ options' = o
             /\ UNCHANGED <<call, built, security, raised, rc>>

-----------------------------------------------------------------------------
(* validate_job, with the job's mode and whether it simulates. *)
ValidJob(kind, j, dry) ==
  /\ InRange(j, {"audit_limits", "output"}) /\ SoundText(j, {"audit_file"})
  /\ kind \in {"cron", "serve"} =>
       /\ InRange(j, {"cooldown", "max_restarts"})
       /\ j.trigger_after >= 0
       /\ IF j.trigger_after > 0 THEN Given(j.cmd) /\ Given(j.max_gap) /\ j.max_gap > 0
                                 ELSE ~Given(j.max_gap)
       /\ SoundText(j, {"state_file"})
       /\ dry => Given(j.cmd)
  /\ kind = "cron" => Given(j.cmd) /\ Given(j.state_file)
  /\ kind = "serve" =>
       /\ InRange(j, {"bind", "port", "action_cooldown"})
       /\ j.interval > 0 /\ StaleAfter(j) >= j.interval
       /\ Given(j.cmd) => Given(j.state_file)
       /\ j.trigger_after > 0 => j.max_gap > j.interval
       /\ On(j.allow_maintenance) => On(j.allow_actions)
       /\ On(j.allow_actions) => Given(j.state_file) /\ ~dry

(* scenario_options: the fields of its mode, and a selection or all.  *)
ScenarioAccepted(kind, y) ==
  /\ kind \in DOMAIN ScenarioFields
  /\ \A f \in Fields \ ScenarioFields[kind] : ~Given(y[f])
  /\ SoundText(y, {"state_file", "audit_file"})
  /\ Given(y.select) # call.all
  /\ ValidJob(kind, Effective("run", Blank, y), call.simulate)

(* Mutant: the scenario alone decides on simulation. *)
ScenarioDecides(i) == i.simulate
Simulates(i) == IF i.mode = "run" THEN i.simulate \/ i.dry ELSE i.dry

(* run_scenario: audit settings of the outer command fill what the         *)
(* scenario leaves open.                                                   *)
Inherit(y, o) == [f \in Fields |-> IF f \in {"audit_file", "audit_limits"} /\ ~Given(y[f])
                                   THEN o[f] ELSE Effective("run", Blank, y)[f]]
ResolveScenario ==
  /\ phase = "resolve"
  /\ LET job == Inherit(call.yaml, options)
     IN IF \/ ~ScenarioAccepted(call.kind, call.yaml)
           \/ call.dry /\ ~Given(call.yaml.cmd)
           \/ ~ValidJob(call.kind, job, Simulates(call))
        THEN Fails(110)
        ELSE phase' = "build" /\ options' = job /\ UNCHANGED <<call, built, security, raised, rc>>

-----------------------------------------------------------------------------
JobKind == CASE call.mode = "run" -> call.kind [] call.mode = "tui" -> "stats" [] OTHER -> call.mode
UsesRules == JobKind # "stats"

(* build_application, the journal's part of it.                            *)
NeedsJournal(rules, j) ==
  rules \/ On(j.allow_actions) \/ Given(j.notification_token_file) \/ Given(j.audit_read_token_file)

(* A direct command meets here what else is wrong in its configuration;    *)
(* a scenario has been validated, the terminal shows the error.            *)
Build ==
  /\ phase = "build"
  /\ LET rules == UsesRules /\ Given(options.cmd)
     IN IF ~ValidJob(JobKind, options, Simulates(call)) THEN Fails(150)
        ELSE \/ call.mode \in Direct /\ Fails(110)
             \/ /\ phase' = IF JobKind = "serve" THEN "serve" ELSE "run"
                /\ built' = [NotBuilt EXCEPT !.rules = rules, !.simulate = Simulates(call),
                                             !.audit = NeedsJournal(rules, options)]
                /\ UNCHANGED <<call, options, security, raised, rc>>

(* load_security: secrets of different roles must differ.                  *)
(* Mutant: the status secret is not compared with the one of the journal.  *)
LooselyDistinct(s) ==
  \A p, q \in DOMAIN s \ {"trust"} :
    p # q /\ Given(s[p]) /\ {p, q} # {"status", "audit"} => s[p] # s[q]
Distinct(s) ==
  \A p, q \in DOMAIN s \ {"trust"} : p # q /\ Given(s[p]) => s[p] # s[q]

Security(o) ==
  [action |-> IF On(o.allow_actions) THEN o.action_token_file ELSE Unset,
   notification |-> o.notification_token_file, audit |-> o.audit_read_token_file,
   metrics |-> o.metrics_token_file, status |-> o.status_token_file,
   trust |-> On(o.trust_proxy_user)]

(* The serve subcommand; a scenario's server has neither secrets nor       *)
(* services.  What was parsed is not looked at again.                      *)
Serve ==
  /\ phase = "serve"
  /\ LET s == IF call.mode = "run" THEN NoSecurity ELSE Security(options)
     IN IF (\E r \in DOMAIN s \ {"trust"} : s[r] = "invalid") \/ ~Distinct(s)
        THEN Fails(110)
        ELSE /\ phase' = "run" /\ security' = s
             /\ built' = [built EXCEPT !.actions = call.mode = "serve" /\ On(options.allow_actions),
                                       !.notifications = Given(s.notification),
                                       !.reader = Given(s.audit)]
             /\ call' = [call EXCEPT !.line = Blank, !.yaml = Blank] /\ options' = Blank
             /\ UNCHANGED <<raised, rc>>

-----------------------------------------------------------------------------
(* Classes of what an operation raises, with the classes they are part of. *)
Ancestors == [
  APIError |-> {"APIError", "DockerException", "OSError", "Exception"},
  DockerException |-> {"DockerException", "Exception"},
  CommandExecutionError |-> {"CommandExecutionError", "MonitoringError", "Exception"},
  MonitoringError |-> {"MonitoringError", "Exception"},
  MonitDockerExit |-> {"MonitDockerExit", "SystemExit"},
  SystemExit |-> {"SystemExit"}, KeyboardInterrupt |-> {"KeyboardInterrupt"},
  RuleSyntaxError |-> {"SyntaxError", "Exception"},
  OSError |-> {"OSError", "Exception"}, ValueError |-> {"ValueError", "Exception"},
  OtherError |-> {"Exception"}]

(* The except clauses of run_operation, in their order.                    *)
Clauses ==
  <<"APIError", "DockerException", "CommandExecutionError", "MonitoringError",
    "MonitDockerExit", "SystemExit", "KeyboardInterrupt", "SyntaxError", "Exception">>

Caught(e) ==
  Clauses[CHOOSE n \in DOMAIN Clauses :
            Clauses[n] \in Ancestors[e] /\ \A m \in 1..(n - 1) : Clauses[m] \notin Ancestors[e]]

(* own: the code or exit status that the exception carries. *)
RuntimeCode(e, own) ==
  CASE Caught(e) = "APIError" -> 180
    [] Caught(e) = "DockerException" -> 170
    [] Caught(e) = "CommandExecutionError" -> IF On(options.propagate_exit_code) THEN own ELSE 116
    [] Caught(e) \in {"MonitoringError", "MonitDockerExit"} -> own
    [] Caught(e) \in {"SystemExit", "KeyboardInterrupt"} -> 255
    [] Caught(e) = "SyntaxError" -> 140
    [] Caught(e) = "Exception" -> 150

(* main, for the subcommands that need neither Docker nor a log file. *)
LocalCode(e, own) ==
  IF "MonitoringError" \in Ancestors[e] THEN own
  ELSE IF {"OSError", "ValueError"} \cap Ancestors[e] # {} THEN 119 ELSE 1

IsRuntime == call.mode \in Direct \cup {"run"}

Raises(e, own) ==
  /\ phase = "run"
  /\ e = "MonitDockerExit" => call.mode = "monit" /\ Given(options.rsc) /\ own \in Results
  /\ e # "MonitDockerExit" => own \in Codes
  /\ ~IsRuntime => e \in {"MonitoringError", "OSError", "ValueError", "OtherError"}
  /\ raised' = e
  /\ Exit(IF IsRuntime THEN RuntimeCode(e, own) ELSE LocalCode(e, own))
  /\ UNCHANGED <<call, options, built, security>>

Completes == phase = "run" /\ Fails(0)

CNext ==
  \/ Parse \/ ResolveScenario \/ Build \/ Serve \/ Completes
  \/ \E e \in DOMAIN Ancestors, own \in Codes \cup Results : Raises(e, own)

-----------------------------------------------------------------------------
(***************************************************************************)
(* JobsValid: an invocation whose arguments and section are accepted       *)
(* yields a job that validate_job accepts too, whichever way it was put    *)
(* together: the checks of argparse, of the sections and of the scenarios  *)
(* leave nothing for "150, unexpected exception" to report.                *)
(***************************************************************************)
JobsValid == phase = "build" => ValidJob(JobKind, options, Simulates(call))

(***************************************************************************)
(* ObservationNeverActs: who asks for an observation gets no rules, though *)
(* the YAML has some ("A caller explicitly choosing observation must never *)
(* inherit a YAML action", cli.py), and who asks for a simulation gets no  *)
(* rules that act and no manual actions, on the command line or through a  *)
(* scenario ("run --dry-run only enables simulation").                     *)
(***************************************************************************)
ObservationNeverActs ==
  /\ call.mode \in {"stats", "tui"} \/ (call.mode = "monit" /\ Given(call.line.rsc)) => ~built.rules
  /\ call.dry => (built.rules => built.simulate) /\ ~built.actions
=============================================================================
