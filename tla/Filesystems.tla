----------------------------- MODULE Filesystems ------------------------------
(***************************************************************************)
(* Checks of directories in one container's turn of a cycle, from the      *)
(* text of the rules to their verdicts.  Every path is probed by commands  *)
(* executed in the container; what they print is read in frames from a     *)
(* connection, before a deadline, and the connection is closed whatever    *)
(* happens.  Groups may share paths: a path is measured once for all of    *)
(* them, with the fields that any of them needs, its access once for each  *)
(* identity.                                                               *)
(* Sources: adapters/filesystems.py, adapters/access.py, collect in        *)
(* adapters/docker.py, core/rules.py; the cycle is in RuleCycle, the       *)
(* statistics of the container in StatsStream.                             *)
(***************************************************************************)
EXTENDS RuleConditions, Naturals, SequencesExt

CONSTANTS Groups,      \* directory groups: a sequence of paths each
          Identities,  \* of a group, or NoIdentity
          NoIdentity,
          Settings,    \* [rules, extra]: rules and the resources asked for beside them
          Readings,    \* what stat may print: a value for each of Numeric
          Missing,     \* a counter that the filesystem does not have
          Pieces,      \* frames of the output of a command
          Budget       \* _EXEC_TIMEOUT

ASSUME GroupsAssumption ==
  /\ IsFiniteSet(DOMAIN Groups)
  /\ \A g \in DOMAIN Groups :
       Groups[g] \in Seq(ToSet(Groups[g])) \ {<<>>} /\ IsInjective(Groups[g])
  /\ DOMAIN Identities = DOMAIN Groups
  /\ Missing \notin {0, 1} /\ Readings \subseteq [Numeric -> {0, 1, Missing}]
ASSUME SettingsAssumption == \A s \in Settings :
  /\ DOMAIN s.rules \subseteq Nat
  /\ \A r \in DOMAIN s.rules : /\ s.rules[r] \in Seq(ToSet(s.rules[r]))
                              /\ \A c \in ToSet(s.rules[r]) : c.text \in Texts
  /\ \A e \in s.extra : e.resource \in OnPaths
ASSUME LimitsAssumption == Pieces \in Nat \ {0} /\ Budget \in Nat \ {0}

VARIABLES settings,  \* the rules: sequences of [text, group], and the extra [resource, group]
          turn,      \* "parse", "state", "collect", "probe", "judge", "end"
          checked,   \* what check-config says of the rules
          agenda,    \* groups still to be sampled, with the paths left of each
          entry,     \* fields of the path at the head of the agenda
          cache, accessCache, \* of paths; of paths and identities
          measured,  \* the samples
          exchange,  \* the connection to the command in execution, see Idle
          outcome,   \* verdict of each rule
          code,      \* what the turn raised
          printed,   \* history: what commands that succeeded have printed
          excused    \* history: something failed that was not of the program's making

probing == <<exchange, entry, cache, accessCache, printed>>
fsVars == <<settings, turn, checked, agenda, measured, outcome, code, excused, probing>>

Idle == [step |-> "idle", open |-> <<>>, left |-> 0, within |-> FALSE, pieces |-> 0, failed |-> FALSE]
RuleNames == DOMAIN settings.rules

FsInit ==
  /\ settings \in Settings
  /\ turn = "parse" /\ checked = FALSE /\ agenda = <<>>
  /\ entry = <<>> /\ cache = <<>> /\ accessCache = <<>> /\ measured = <<>>
  /\ exchange = Idle /\ outcome = [r \in DOMAIN settings.rules |-> "none"] /\ code = 0
  /\ printed = <<>> /\ excused = FALSE

Raise(c) == turn' = "end" /\ code' = c
Put(f, key, v) == [k \in DOMAIN f \cup {key} |-> IF k = key THEN v ELSE f[k]]

-----------------------------------------------------------------------------
(***************************************************************************)
(* Before the container's turn.                                            *)
(***************************************************************************)
AllConditions == UNION {ToSet(settings.rules[r]) : r \in RuleNames}
WithIdentity == {g \in DOMAIN Groups : Identities[g] # NoIdentity}

(* Rules are parsed when the job is assembled; prepare_resources checks    *)
(* what is asked for beside them.                                          *)
Parse ==
  /\ turn = "parse"
  /\ checked' = \A c \in AllConditions : CheckedOffline(c.text, c.group, DOMAIN Groups, WithIdentity)
  /\ IF /\ \A c \in AllConditions : Accepted(c.text, c.group, DOMAIN Groups, WithIdentity)
        /\ \A e \in settings.extra : e.resource = "access" => e.group \in WithIdentity
     THEN turn' = "state" /\ UNCHANGED code
     ELSE Raise(110)
  /\ UNCHANGED <<settings, agenda, measured, outcome, excused, probing>>

(* The fields that each group is asked for. *)
AskedOf(g) ==
  {c.text.resource : c \in {c \in AllConditions : c.group = g /\ c.text.resource \in OnPaths}}
    \cup {e.resource : e \in {e \in settings.extra : e.group = g}}
Requested == {c.group : c \in {c \in AllConditions : c.text.resource \in OnPaths}}
               \cup {e.group : e \in settings.extra}

(* Rules on the state of the container alone do not wait for measurements. *)
StateOnly(r) == \A c \in ToSet(settings.rules[r]) : c.text.resource \in State
Needed == settings.extra # {} \/ \E r \in RuleNames : ~StateOnly(r)

(* A stopped container is not measured, and the other rules are skipped.   *)
Collect(status) ==
  /\ turn = "collect"
  /\ \/ (status = "exited" \/ ~Needed) /\ turn' = "end" /\ UNCHANGED <<code, excused, agenda>>
     \/ /\ status # "exited" /\ Needed /\ ~(Requested \subseteq DOMAIN Groups)
        /\ Raise(110) /\ UNCHANGED <<excused, agenda>>
     \/ /\ status = "paused" /\ Requested \subseteq DOMAIN Groups /\ Requested # {}
        /\ Raise(115) /\ excused' = TRUE /\ UNCHANGED agenda
     \/ /\ status = "running" /\ Needed /\ Requested \subseteq DOMAIN Groups
        /\ turn' = IF Requested = {} THEN "judge" ELSE "probe"
        /\ \E order \in SetToSeqs(Requested) :
             agenda' = [n \in DOMAIN order |-> [group |-> order[n], paths |-> Groups[order[n]]]]
        /\ UNCHANGED <<code, excused>>
     \/ status = "paused" /\ Needed /\ Requested = {} /\ turn' = "judge" /\ UNCHANGED <<code, excused, agenda>>
  /\ UNCHANGED <<settings, checked, measured, outcome, probing>>

-----------------------------------------------------------------------------
(***************************************************************************)
(* collect_filesystems: the commands that the sample at the head of the    *)
(* agenda needs and that have not been executed for it.                    *)
(***************************************************************************)
Path == Head(Head(agenda).paths)
Group == Head(agenda).group

(* The fields that any of the groups with the path is asked for. *)
PathFields(p) == UNION {AskedOf(g) : g \in {g \in Requested : p \in ToSet(Groups[g])}}

(* Mutant: access is kept for the path. *)
PathOnlyKey(g, p) == <<p>>
AccessKey(g, p) == <<p, Identities[g]>>

Cached == Path \in DOMAIN cache
StatWanted == ~Cached /\ PathFields(Path) \cap Numeric # {} /\ DOMAIN entry \cap Numeric = {}
ModeWanted == ~Cached /\ ~StatWanted /\ "mode" \in PathFields(Path) \ DOMAIN entry
AccessWanted == Cached /\ "access" \in AskedOf(Group) /\ AccessKey(Group, Path) \notin DOMAIN accessCache

Wanted == CASE StatWanted -> "stat" [] ModeWanted -> "mode" [] AccessWanted -> "access" [] OTHER -> "none"

Turning == turn = "probe" /\ exchange.step = "idle" /\ agenda # <<>>

CacheEntry ==
  /\ Turning /\ ~Cached /\ Wanted = "none"
  /\ cache' = Put(cache, Path, [f \in Numeric \cup {"mode"} |->
                                  IF f \in DOMAIN entry THEN entry[f] ELSE Missing])
  /\ entry' = <<>>
  /\ UNCHANGED <<settings, turn, checked, agenda, accessCache, measured, exchange, outcome, code, printed, excused>>

AddSample ==
  /\ Turning /\ Cached /\ Wanted = "none"
  /\ measured' = Append(measured, [group |-> Group, path |-> Path,
       value |-> Put(cache[Path], "access",
         IF "access" \in AskedOf(Group) THEN accessCache[AccessKey(Group, Path)] ELSE Missing)])
  /\ agenda' = IF Len(Head(agenda).paths) = 1 THEN Tail(agenda)
                ELSE [agenda EXCEPT ![1].paths = Tail(@)]
  /\ UNCHANGED <<settings, turn, checked, outcome, code, excused, probing>>

(* A field that was asked for and is not there is an error, never a zero.  *)
Unavailable == \E s \in ToSet(measured) : \E f \in AskedOf(s.group) : s.value[f] = Missing

Collected ==
  /\ turn = "probe" /\ exchange.step = "idle" /\ agenda = <<>>
  /\ IF Unavailable THEN Raise(115) ELSE turn' = "judge" /\ UNCHANGED code
  /\ UNCHANGED <<settings, checked, agenda, measured, outcome, excused, probing>>

-----------------------------------------------------------------------------
(***************************************************************************)
(* _exec_output: a command executed in the container.                      *)
(***************************************************************************)
Quiet == UNCHANGED <<settings, turn, checked, agenda, measured, outcome, code, entry,
                     cache, accessCache, printed>>

(* With nothing to close if exec_create or exec_start fails. *)
Execute ==
  /\ Turning /\ Wanted # "none"
  /\ \/ /\ \E parts \in {<<"file">>, <<"response", "file", "socket">>} :
             exchange' = [exchange EXCEPT !.step = "read", !.open = @ \o parts, !.left = Budget]
        /\ UNCHANGED <<turn, code, excused>>
     \/ Raise(115) /\ excused' = TRUE /\ UNCHANGED exchange
  /\ UNCHANGED <<settings, checked, agenda, measured, outcome, entry, cache, accessCache, printed>>

Reading == exchange.step = "read" /\ exchange.left > 0

Fails ==
  /\ exchange' = [exchange EXCEPT !.step = "close", !.failed = TRUE]
  /\ excused' = TRUE

(* Mutant: every read has the whole time. *)
ReceiveAnew(inside, more) ==
  /\ Reading
  /\ exchange.pieces + more <= Pieces
  /\ exchange' = [exchange EXCEPT !.within = inside, !.pieces = @ + more, !.left = Budget]
  /\ UNCHANGED excused /\ Quiet

(* Part of a frame; or the end of one, which is a piece of the output,     *)
(* empty, or from stderr.                                                  *)
Receive(inside, more) ==
  /\ Reading
  /\ exchange.pieces + more <= Pieces
  /\ exchange' = [exchange EXCEPT !.within = inside, !.pieces = @ + more]
  /\ UNCHANGED excused /\ Quiet

(* A frame of another channel or too long, a connection that breaks, or    *)
(* nothing for too long.                                                   *)
ProbeFails == exchange.step = "read" /\ Fails /\ Quiet
TimedOut == exchange.step = "read" /\ exchange.left = 0 /\ Fails /\ Quiet

Eof ==
  /\ Reading
  /\ IF exchange.within THEN Fails
     ELSE /\ exchange' = [exchange EXCEPT !.step = "inspect"]
          /\ excused' = (excused \/ exchange.pieces < Pieces)
  /\ Quiet

(* exec_inspect fails, or tells of a command that runs or has failed. *)
Inspect ==
  /\ exchange.step = "inspect"
  /\ \/ Fails
     \/ exchange' = [exchange EXCEPT !.step = "close"] /\ UNCHANGED excused
  /\ Quiet

Tick ==
  /\ exchange.step = "read" /\ exchange.left > 0
  /\ exchange' = [exchange EXCEPT !.left = @ - 1]
  /\ UNCHANGED excused /\ Quiet

(* Response, file and socket are closed one after the other; one that      *)
(* fails to close does not keep the others from being closed.              *)
CloseNext ==
  /\ exchange.step = "close"
  /\ IF exchange.open = <<>> THEN exchange' = [exchange EXCEPT !.step = "closed"] /\ UNCHANGED excused
     ELSE \/ exchange' = [exchange EXCEPT !.open = Tail(@)] /\ UNCHANGED excused
          \/ exchange' = [exchange EXCEPT !.open = Tail(@), !.failed = TRUE] /\ excused' = TRUE
  /\ Quiet

(* Output that is not whole, not what the command prints, or of another    *)
(* identity is refused (stat_values, mount_mode, access_values).           *)
Refused ==
  /\ exchange.step = "closed"
  /\ Raise(115) /\ excused' = TRUE
  /\ exchange' = [Idle EXCEPT !.open = exchange.open]
  /\ UNCHANGED <<settings, checked, agenda, measured, outcome, entry, cache, accessCache, printed>>

Printed(v, identity) == printed' = Put(printed, <<Wanted, Path, identity>>, v)

Deliver ==
  /\ exchange.step = "closed" /\ ~exchange.failed /\ exchange.pieces = Pieces
  /\ \/ /\ Wanted = "stat"
        /\ entry' \in Readings /\ Printed(entry', NoIdentity)
        /\ UNCHANGED accessCache
     \/ /\ Wanted = "mode"
        /\ \E v \in {0, 1} : entry' = Put(entry, "mode", v) /\ Printed(v, NoIdentity)
        /\ UNCHANGED accessCache
     \/ /\ Wanted = "access"
        /\ \E v \in {0, 1} : /\ accessCache' = Put(accessCache, AccessKey(Group, Path), v)
                             /\ Printed(v, Identities[Group])
        /\ UNCHANGED entry
  /\ exchange' = [Idle EXCEPT !.open = exchange.open]
  /\ UNCHANGED <<settings, turn, checked, agenda, measured, outcome, code, excused, cache>>

-----------------------------------------------------------------------------
(***************************************************************************)
(* RuleEvaluator.matches.  A comparison holds of the measured value 1.     *)
(***************************************************************************)
(* The first result that is not the ordinary one, of results by place. *)
First(results, ordinary) ==
  LET others == {n \in DOMAIN results : results[n] # ordinary}
  IN IF others = {} THEN ordinary ELSE results[CHOOSE n \in others : \A k \in others : n <= k]

Result(holds) == IF holds THEN "matched" ELSE "unmatched"
Compared(c, absent, holds) ==
  IF Evaluates(c.text, TypeOf(c.text.resource, absent)) THEN Result(holds) ELSE "error"

IsOnPath(c) == c.text.resource \in OnPaths

(* One sample must satisfy all conditions of its group. *)
GroupResult(conditions, g) ==
  LET own == {n \in DOMAIN conditions : IsOnPath(conditions[n]) /\ conditions[n].group = g}
      Of(s) == First([n \in own |-> Compared(conditions[n], FALSE, s.value[conditions[n].text.resource] = 1)],
                     "matched")
  IN First([k \in {k \in DOMAIN measured : measured[k].group = g} |-> Of(measured[k])], "unmatched")

(* simple: that the conditions on statistics and state hold; what is not   *)
(* known of events and processes is an error in Collection.                *)
Matches(conditions, simple, absent) ==
  LET onPaths == {n \in DOMAIN conditions : IsOnPath(conditions[n])}
      plain == First([n \in DOMAIN conditions \ onPaths |-> Compared(conditions[n], absent, simple)], "matched")
  IN IF plain # "matched" THEN plain
     ELSE First([n \in onPaths |-> GroupResult(conditions, conditions[n].group)], "matched")

(* Rules in their order, until one cannot be evaluated. *)
JudgeRule ==
  /\ turn \in {"state", "judge"}
  /\ LET open == {r \in RuleNames : outcome[r] = "none" /\ (turn = "state" => StateOnly(r))}
     IN IF open = {} THEN turn' = (IF turn = "state" THEN "collect" ELSE "end") /\ UNCHANGED <<outcome, code>>
        ELSE LET r == CHOOSE r \in open : \A q \in open : r <= q
             IN /\ \E simple, absent \in BOOLEAN :
                  outcome' = [outcome EXCEPT ![r] = Matches(settings.rules[r], simple, absent)]
                /\ IF outcome'[r] = "error" THEN Raise(110) ELSE UNCHANGED <<turn, code>>
  /\ UNCHANGED <<settings, checked, agenda, measured, excused, probing>>

-----------------------------------------------------------------------------
(* The next turn; nothing is kept of this one. *)
Again ==
  /\ turn = "end"
  /\ turn' = "parse" /\ checked' = FALSE /\ agenda' = <<>> /\ measured' = <<>>
  /\ entry' = <<>> /\ cache' = <<>> /\ accessCache' = <<>>
  /\ exchange' = [Idle EXCEPT !.open = exchange.open]
  /\ outcome' = [r \in RuleNames |-> "none"] /\ code' = 0 /\ printed' = <<>> /\ excused' = FALSE
  /\ UNCHANGED settings

FsStep ==
  \/ Parse \/ \E status \in {"running", "paused", "exited"} : Collect(status)
  \/ CacheEntry \/ AddSample \/ Collected \/ Execute
  \/ TimedOut \/ Inspect \/ CloseNext \/ Refused \/ Deliver \/ JudgeRule \/ Again
FsWorld ==
  \/ \E inside \in BOOLEAN, more \in {0, 1} : Receive(inside, more)
  \/ ProbeFails \/ Eof

FsNext == FsStep \/ FsWorld \/ Tick

(* Calls to Docker end, as they have timeouts of their own; the container  *)
(* may print what it wants, as slowly as it wants.                         *)
FsSpec == FsInit /\ [][FsNext]_fsVars /\ WF_fsVars(FsStep) /\ WF_fsVars(Tick)

-----------------------------------------------------------------------------
(***************************************************************************)
(* Properties.                                                             *)
(***************************************************************************)
CommandOf(f) == IF f \in Numeric THEN "stat" ELSE f
PrintedOf(c, p) ==
  LET f == c.text.resource
      key == <<CommandOf(f), p, IF f = "access" THEN Identities[c.group] ELSE NoIdentity>>
  IN IF key \notin DOMAIN printed THEN Missing
     ELSE IF f \in Numeric THEN printed[key][f] ELSE printed[key]
PathsOf(g) == ToSet(Groups[g])
OnGroup(r, g) == {c \in ToSet(settings.rules[r]) : IsOnPath(c) /\ c.group = g}
GroupsOf(r) == {c.group : c \in {c \in ToSet(settings.rules[r]) : IsOnPath(c)}}

(* A rule matches because in each of its groups one path satisfied all its *)
(* conditions, on what commands of this turn that have succeeded printed   *)
(* of that path, with the identity of that group; a rule of paths alone    *)
(* does not match because in some group no path did; and error 115 says    *)
(* that a command failed or that the filesystem has no such counter, never *)
(* that the turn has not asked for what its rules need.                    *)
VerdictOnProbes ==
  /\ \A r \in RuleNames : outcome[r] = "matched" =>
       \A g \in GroupsOf(r) : \E p \in PathsOf(g) : \A c \in OnGroup(r, g) : PrintedOf(c, p) = 1
  /\ \A r \in RuleNames : outcome[r] = "unmatched" /\ (\A c \in ToSet(settings.rules[r]) : IsOnPath(c)) =>
       \E g \in GroupsOf(r) : \A p \in PathsOf(g) : \E c \in OnGroup(r, g) : PrintedOf(c, p) = 0
  /\ code = 115 /\ ~excused =>
       \E s \in ToSet(measured) : \E f \in AskedOf(s.group) \cap Numeric :
         printed[<<"stat", s.path, NoIdentity>>][f] = Missing

(* docs/check-config.md: check-config verifies condition value conversion: *)
(* rules that it accepts never fail in a cycle because a literal cannot be *)
(* read as what is measured.  That is so except where a counter of a       *)
(* filesystem, an integer, is compared with a fraction or an infinity: the *)
(* measurements made up for the check have floats there.                   *)
AcceptedEvaluates ==
  checked => \A r \in RuleNames : outcome[r] = "error" =>
    \E c \in ToSet(settings.rules[r]) :
      c.text.resource \in Counters /\ Written(c.text) \cap {"fraction", "infinity"} # {}

(* The probes of a container end, whatever it prints and however slowly,   *)
(* and leave no connection open, whichever call fails.                     *)
ProbesEnd == turn = "probe" ~> (turn # "probe" /\ exchange.open = <<>>)
=============================================================================
