------------------------------ MODULE ClientsMC ------------------------------
(***************************************************************************)
(* The programs around the agent, each alone: which one is chosen at the   *)
(* start, and the others keep their initial states.                        *)
(***************************************************************************)
EXTENDS StatusPage, JournalPage, Terminal, AuditForward, NotificationDelivery, TLC

VARIABLE client

Symmetry == Permutations(Ids)

ClientsInit ==
  /\ client \in {"status page", "journal page", "terminal", "audit-send", "bridge"}
  /\ Init /\ JournalPageInit /\ TerminalInit /\ ForwardInit /\ DeliveryInit
  /\ client # "status page" => ~hidden
  /\ client # "journal page" => filters = CHOOSE query \in Filters : TRUE
  /\ client # "terminal" => shared.enabled

ClientsNext ==
  /\ UNCHANGED client
  /\ IF client = "status page" THEN Next ELSE UNCHANGED vars
  /\ IF client = "journal page" THEN JournalPageNext ELSE UNCHANGED journalVars
  /\ IF client = "terminal" THEN TerminalNext ELSE UNCHANGED tvars
  /\ IF client = "audit-send" THEN ForwardNext ELSE UNCHANGED forwardVars
  /\ IF client = "bridge" THEN DeliveryNext ELSE UNCHANGED deliveryVars

ClientsSpec ==
  ClientsInit /\ [][ClientsNext]_<<client, vars, journalVars, tvars, forwardVars, deliveryVars>>
=============================================================================
