---------------------------- MODULE RuleConditions ----------------------------
(***************************************************************************)
(* One condition of a rule: what the parser accepts of it, whether its     *)
(* literals can be read as values of the type that is measured, and what   *)
(* check-config finds out by evaluating it on measurements it makes up.    *)
(* Resources are classes of those with the same type and rules, literals   *)
(* are what the grammar and the conversions tell apart.                    *)
(* Sources: adapters/rules.py (_parse_exprs), core/rules.py                *)
(* (_matches_value), adapters/validation_rules.py (_validate_rule).        *)
(***************************************************************************)

(* "size" and "inode" are the counters of a filesystem, "percent" its      *)
(* percentages, "access" its three flags.                                  *)
Counters == {"size", "inode"}
Numeric == Counters \cup {"percent"}
OnPaths == Numeric \cup {"mode", "access"}

(* "measure" is a number and "share" a percentage from the statistics;     *)
(* what State has is known without measuring (STATE_RESOURCES).            *)
Runtime == {"events", "pids", "pids_percent"}
State == {"status", "health", "pid", "events"}
Resources == OnPaths \cup Runtime \cup State \cup {"measure", "share", "unknown"}

(* "bit" is 0 or 1; "sized" a number with a unit that bitmath knows;       *)
(* "infinity" a word that float() takes; "state" a state that the resource *)
(* can have, "states" a list of such.                                      *)
Digits == {"bit", "natural"}
Numerals == Digits \cup {"fraction", "sized"}
Literals == Numerals \cup {"unknown_unit", "infinity", "state", "states", "word", "words"}

(* A membership with a left operand can be written; it is refused by every *)
(* evaluation or satisfied by none, and left out.                          *)
Texts ==
  {c \in [resource : Resources, op : {"equal", "order", "member"}, value : Literals,
          pre : Numerals \cup {"unknown_unit", "none"}] : c.op = "member" => c.pre = "none"}

Written(c) == {c.value, c.pre} \ {"none"}

-----------------------------------------------------------------------------
(* What RuleParser accepts, when groups are the directory groups and       *)
(* identities those of them with an access identity.                       *)
RuntimeAccepted(c) ==
  c.op # "member" /\ Written(c) \subseteq Digits \cup (IF c.resource = "pids_percent" THEN {"fraction"} ELSE {})

StateAccepted(c) ==
  /\ c.op # "order" /\ c.pre = "none"
  /\ c.value = IF c.op = "member" THEN "states" ELSE "state"

AccessAccepted(c) == c.op = "equal" /\ c.pre = "none" /\ c.value = "bit"

Accepted(c, group, groups, identities) ==
  /\ c.resource # "unknown" /\ "unknown_unit" \notin Written(c)
  /\ c.resource \in Runtime => RuntimeAccepted(c)
  /\ c.resource \in {"health", "mode"} => StateAccepted(c)
  /\ c.resource \in OnPaths => group \in groups
  /\ c.resource = "access" => group \in identities /\ AccessAccepted(c)
  /\ c.resource \in Numeric => c.op # "member" /\ Written(c) \subseteq Numerals \cup {"infinity"}

-----------------------------------------------------------------------------
(* type(actual)(literal); a size with a unit has become a float.           *)
ReadsAs(type, literal) ==
  CASE type = "str" -> TRUE
    [] type = "int" -> literal \in Digits \cup {"sized"}
    [] type = "float" -> literal \in Numerals \cup {"infinity"}

(* Whether a condition on a value of this type has a result.               *)
Evaluates(c, type) ==
  IF c.op = "member" THEN c.value \in {"states", "words"} ELSE \A l \in Written(c) : ReadsAs(type, l)

(* Type of what a cycle measures; a process that is absent has ''.         *)
TypeOf(resource, absent) ==
  CASE resource \in {"status", "health", "mode"} -> "str"
    [] resource \in {"share", "percent", "pids_percent"} -> "float"
    [] resource = "pid" -> IF absent THEN "str" ELSE "int"
    [] OTHER -> "int"

(* Types of what check-config makes up: every number of a filesystem       *)
(* sample is 1.0, and a process is there.                                  *)
MadeUpType(resource) ==
  CASE resource \in {"status", "health", "mode"} -> "str"
    [] resource \in Numeric \cup {"share", "pids_percent"} -> "float"
    [] OTHER -> "int"

(* Mutant: check-config parses the rules and evaluates nothing. *)
OnlyParsed(c, group, groups, identities) == Accepted(c, group, groups, identities)

CheckedOffline(c, group, groups, identities) ==
  Accepted(c, group, groups, identities) /\ Evaluates(c, MadeUpType(c.resource))
=============================================================================
