---------------------------- MODULE InvocationsMC ----------------------------
(***************************************************************************)
(* Invocations: for each subcommand some sound settings (Bases), given on  *)
(* the command line or in the YAML, and up to MaxChanges other values of   *)
(* options on either side.  Requests: every path, method, header and       *)
(* secret with the rest in order, and each other thing out of order alone. *)
(* audit-migrate is the subcommand that is followed through its run: it is *)
(* one of the two programs, and the other one keeps its initial state.     *)
(***************************************************************************)
EXTENDS HttpApi, AuditMigration, TLC

CONSTANTS s1, s2

Values(f) ==
  CASE f \in Switches -> BOOLEAN
    [] f \in Tokens -> {s1, s2, "invalid"}
    [] f \in Bounded -> {"in", "out"}
    [] f \in {"cmd", "rsc", "select"} -> {"given"}
    [] f \in {"state_file", "audit_file"} -> {"path", "blank"}
    [] f = "action_origin" -> {"https", "bad"}
    [] f = "trigger_after" -> {0, 1}
    [] f = "max_gap" -> {2, 3}
    [] f = "interval" -> {0, 100}
    [] f = "stale_after" -> {1, 400}

Base(fs) == [f \in Fields |-> IF f \in DOMAIN fs THEN fs[f] ELSE Unset]
Rules == [cmd |-> "given", state_file |-> "path"]
Delay == [cmd |-> "given", state_file |-> "path", trigger_after |-> 1, max_gap |-> 3]
Actions == [allow_actions |-> TRUE, state_file |-> "path", action_origin |-> "https",
            action_token_file |-> s1]
Bases(mode) ==
  {Blank} \cup CASE mode = "monit" -> {Base([cmd |-> "given"]), Base([rsc |-> "given"])}
                 [] mode = "cron" -> {Base(Rules), Base(Delay)}
                 [] mode = "serve" -> {Base(Rules), Base(Delay), Base(Actions)}
                 [] OTHER -> {}

Change(o, fs) == {o} \cup {[o EXCEPT ![f] = v] : <<f, v>> \in UNION {{f} \X Values(f) : f \in fs}}

Invoked(mode, kind, lines, yamls) ==
  [mode : {mode}, kind : {kind}, line : lines, yaml : yamls, all : BOOLEAN,
   dry : IF mode \in {"monit", "cron", "serve", "run"} THEN BOOLEAN ELSE {FALSE},
   simulate : IF mode = "run" /\ kind # "stats" THEN BOOLEAN ELSE {FALSE}]

DirectCalls(mode) ==
  {i \in UNION {Invoked(mode, mode, Change(b, Arguments(mode)), Change(c, CommandFields[mode])) :
                b \in Bases(mode), c \in Bases(mode)} : ~i.all}
RunCalls ==
  UNION {Invoked("run", kind, Change(Blank, Arguments("run")),
                 UNION {Change(c, ScenarioFields[kind]) : c \in Bases(kind)}) : kind \in DOMAIN ScenarioFields}
JournalCalls ==
  Invoked("serve", "serve",
          Change(Base([audit_file |-> "path", audit_read_token_file |-> s2]), (Tokens \cup Switches) \cap Arguments("serve")), {Blank})
LocalCalls ==
  UNION {Invoked(mode, "stats", Change(Blank, Arguments(mode)), {Blank}) : mode \in Local \cup {"tui"}}

MCInvocations == UNION {DirectCalls(mode) : mode \in Direct} \cup RunCalls \cup LocalCalls \cup JournalCalls

Proper == [path |-> "actions", method |-> "POST", header |-> "X-Monit-Action-Token", secret |-> s1,
           copies |-> 1, origin |-> TRUE, actor |-> TRUE, body |-> "json"]
MCOffered ==
  [path : DOMAIN Routes, method : {"GET", "POST"}, header : Headers, secret : Secrets,
   copies : {1}, origin : {TRUE}, actor : {TRUE}, body : {"json"}]
  \cup {[Proper EXCEPT !.copies = 2], [Proper EXCEPT !.origin = FALSE], [Proper EXCEPT !.actor = FALSE]}
  \cup {[Proper EXCEPT !.body = b] : b \in Bodies}

(* One archive beside the active journal, and perhaps one of an older      *)
(* setting.                                                                *)
old == [id |-> 0, schema |-> 1]
new == [id |-> -1, schema |-> 2]
MCJournals ==
  {[n \in Names |-> CASE n = 0 -> <<new>> [] n = 1 -> archive [] n = Files -> surplus] :
     archive \in {Absent, <<old>>}, surplus \in {Absent, <<old>>}}

VARIABLE program

Symmetry == Permutations(Operators)

MigrationCall == CHOOSE i \in LocalCalls : i.mode = "audit-migrate"
InvocationsInit ==
  \/ /\ program = "invocation" /\ Init /\ MigrationInit
     /\ \A n \in Names \ {0} : source[n] = Absent
  \/ /\ program = "audit-migrate" /\ call = MigrationCall /\ Init /\ MigrationInit
InvocationsNext ==
  /\ UNCHANGED program
  /\ IF program = "invocation" THEN Next /\ UNCHANGED migrationVars
                               ELSE MigrationNext /\ UNCHANGED vars

InvocationsSpec == InvocationsInit /\ [][InvocationsNext]_<<program, vars, migrationVars>>
=============================================================================
