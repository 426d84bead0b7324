---------------------------- MODULE MeasurementsMC ----------------------------
(***************************************************************************)
(* The two ways in which a cycle measures a container, of which a          *)
(* behaviour takes one: events and statistics (Collection, on the instance *)
(* of CollectionMC), or the checks of directories (Filesystems), while the *)
(* other one keeps its initial state.                                      *)
(***************************************************************************)
EXTENDS CollectionMC, Filesystems

CONSTANTS p1, p2, i1, i2

(* Two groups share a path under different identities; two have a path for *)
(* themselves, one of them without an identity.                            *)
TheirPaths == [data |-> <<p1, p2>>, logs |-> <<p2>>, own |-> <<p1>>, plain |-> <<p1>>]
TheirIdentities == [data |-> i1, logs |-> i2, own |-> i1, plain |-> NoIdentity]

Text(resource) ==
  CASE resource = "mode" -> [resource |-> resource, op |-> "equal", value |-> "state", pre |-> "none"]
    [] resource = "access" -> [resource |-> resource, op |-> "equal", value |-> "bit", pre |-> "none"]
    [] OTHER -> [resource |-> resource, op |-> "order", value |-> "natural", pre |-> "none"]
Needs(resource, group) == [text |-> Text(resource), group |-> group]

(* Rules that meet on a path, and every condition alone. *)
Meeting ==
  {<<<<Needs("percent", "data"), Needs("inode", "data")>>>>,
   <<<<Needs("percent", "data")>>, <<Needs("mode", "logs"), Needs("inode", "logs")>>>>,
   <<<<Needs("access", "data")>>, <<Needs("pids", "none"), Needs("access", "logs"), Needs("mode", "data")>>>>}
Extras == {{}, {[resource |-> "access", group |-> "plain"]}, {[resource |-> "size", group |-> "none"]},
           {[resource |-> "mode", group |-> "data"]}}
Alone ==
  {<<<<[text |-> c, group |-> g]>>>> : c \in {c \in Texts : c.resource \in OnPaths}, g \in {"own", "plain", "none"}}
    \cup {<<<<[text |-> c, group |-> "none"]>>>> : c \in {c \in Texts : c.resource \notin OnPaths}}
MCSettings == [rules : Meeting, extra : Extras] \cup [rules : Alone, extra : {{}}]

MCReadings ==
  {[size |-> a, percent |-> a, inode |-> b] : a \in {0, 1}, b \in {0, 1, Missing}}

VARIABLE program

MeasurementsInit ==
  /\ Init /\ FsInit
  /\ \/ program = "collection" /\ settings = CHOOSE s \in MCSettings : TRUE
     \/ program = "filesystems"

MeasurementsNext ==
  /\ UNCHANGED program
  /\ IF program = "collection" THEN Next /\ UNCHANGED fsVars ELSE FsNext /\ UNCHANGED vars

allVars == <<program, vars, fsVars>>
Collects(A) == program = "collection" /\ A /\ UNCHANGED <<historyVars, cycleVars, fsVars, program>>
Probes(A) == program = "filesystems" /\ A /\ UNCHANGED <<vars, program>>

(* The fairness of the program that runs. *)
MeasurementsSpec ==
  /\ MeasurementsInit /\ [][MeasurementsNext]_allVars
  /\ WF_allVars(Collects(ReadStep) \/ Probes(FsStep))
  /\ WF_allVars(Collects(WatchdogStep) \/ Probes(Tick))

(* SamplingEnds of Collection and ProbesEnd of Filesystems: what measures  *)
(* comes to an end, and leaves no connection open.                         *)
MeasurementsEnd ==
  (IF program = "collection" THEN reader = "reading" ELSE turn = "probe") ~>
    (IF program = "collection" THEN reader = "end" ELSE turn # "probe" /\ exchange.open = <<>>)
=============================================================================
