----------------------------- MODULE JournalPage -----------------------------
(***************************************************************************)
(* The journal page in a browser: filtered events, a page at a time, and a *)
(* dialog with the events of one action.                                   *)
(*                                                                         *)
(* The server is AuditReaders seen from outside: a request without cursor  *)
(* begins a snapshot, a cursor goes on in its own, is refused with other   *)
(* filters than its own, and expires.  A new request of a view aborts the  *)
(* one before, which still comes to its end afterwards; the close event of *)
(* the dialog is queued and may find it open again.                        *)
(* Sources: ui/static/logs.js; audit_query.py (AuditReader.page).          *)
(***************************************************************************)
EXTENDS Naturals, Sequences

CONSTANTS Filters,       \* filters of the journal
          Correlations,  \* actions: correlation identifiers
          NoQuery,
          LastPage,      \* pages of a snapshot are 0 .. LastPage
          MaxSnapshots,  \* bound: snapshots begun
          MaxAborted     \* bound: aborted requests that have not ended

ASSUME JournalPageAssumption == NoQuery \notin Filters \cup Correlations
                                /\ {LastPage, MaxSnapshots, MaxAborted} \subseteq Nat

VARIABLES filters, trail, pageIndex, current, exporting, \* the list of events
          load,      \* its request under way
          action,    \* actionView
          shownAs,   \* is the dialog open, and how many close events are queued
          look,      \* the request of the dialog under way
          aborted,   \* number of aborted requests that have not ended
          snapshots  \* of the server

listVars == <<filters, trail, pageIndex, current, exporting, load>>
actionVars == <<action, shownAs, look>>
journalVars == <<listVars, actionVars, aborted, snapshots>>

(* A cursor, and a page, are a place in a snapshot; snapshot 0 is none.    *)
Place(query, snap, index) == [query |-> query, snap |-> snap, index |-> index]
NoPlace == Place(NoQuery, 0, 0)
More(place) == place.snap > 0 /\ place.index < LastPage
After(place) == IF More(place) THEN [place EXCEPT !.index = @ + 1] ELSE NoPlace

NoRequest == [query |-> NoQuery, cursor |-> NoPlace, index |-> 0, reset |-> FALSE]
NoAction == [id |-> NoQuery, preview |-> FALSE, pages |-> <<>>, next |-> NoPlace]

JournalPageInit ==
  /\ filters \in Filters /\ trail = <<NoPlace>> /\ pageIndex = 0 /\ current = NoPlace
  /\ exporting = FALSE
  /\ load = [NoRequest EXCEPT !.query = filters, !.reset = TRUE]
  /\ action = NoAction /\ shownAs = [open |-> FALSE, events |-> 0] /\ look = NoRequest
  /\ aborted = 0 /\ snapshots = 0

-----------------------------------------------------------------------------
(* The server.                                                             *)
(* Mutant: a cursor is good for any filters.                               *)
Unbound(cursor, query) == TRUE
Bound(cursor, query) == cursor.query = query

Serves(request, place) ==
  IF request.cursor = NoPlace
  THEN /\ snapshots < MaxSnapshots /\ snapshots' = snapshots + 1
       /\ place = Place(request.query, snapshots', 0)
  ELSE /\ Bound(request.cursor, request.query)
       /\ place = request.cursor /\ UNCHANGED snapshots

Served == [query : Filters \cup Correlations, snap : 1 .. MaxSnapshots, index : 0 .. LastPage]

(* A request takes the place of another, which is aborted.                 *)
Aborts(request) ==
  /\ request # NoRequest => aborted < MaxAborted
  /\ aborted' = IF request # NoRequest THEN aborted + 1 ELSE aborted
AbortedEnds ==
  /\ aborted > 0 /\ aborted' = aborted - 1
  /\ UNCHANGED <<listVars, actionVars, snapshots>>

-----------------------------------------------------------------------------
(* The list of events: load(). *)
Load(query, cursor, index, reset) ==
  /\ Aborts(load)
  /\ load' = [query |-> query, cursor |-> cursor, index |-> index, reset |-> reset]
  /\ current' = NoPlace
  /\ UNCHANGED <<trail, pageIndex, exporting, actionVars, snapshots>>

SetFilters(query) ==
  /\ ~shownAs.open
  /\ filters' = query
  /\ Load(query, NoPlace, 0, TRUE)

Idle == load = NoRequest /\ ~exporting /\ ~shownAs.open
OlderLogs ==
  /\ Idle /\ More(current)
  /\ Load(filters, After(current), pageIndex + 1, FALSE) /\ UNCHANGED filters
PreviousLogs ==
  /\ Idle /\ pageIndex > 0
  /\ Load(filters, trail[pageIndex], pageIndex - 1, FALSE) /\ UNCHANGED filters

Loaded(place) ==
  /\ load # NoRequest /\ Serves(load, place)
  /\ current' = place /\ pageIndex' = load.index
  /\ trail' = IF load.reset THEN <<place>>
              ELSE [n \in 1 .. (IF load.index < Len(trail) THEN Len(trail) ELSE load.index + 1) |->
                      IF n = load.index + 1 THEN place ELSE trail[n]]
  /\ load' = NoRequest
  /\ UNCHANGED <<filters, exporting, actionVars, aborted>>

(* An error status, no answer in ten seconds; an expired cursor. *)
LoadFails ==
  /\ load # NoRequest /\ load' = NoRequest
  /\ UNCHANGED <<filters, trail, pageIndex, current, exporting, actionVars, aborted, snapshots>>

Download ==
  /\ Idle /\ current # NoPlace /\ exporting' = TRUE
  /\ UNCHANGED <<filters, trail, pageIndex, current, load, actionVars, aborted, snapshots>>
Downloaded ==
  /\ exporting /\ exporting' = FALSE
  /\ UNCHANGED <<filters, trail, pageIndex, current, load, actionVars, aborted, snapshots>>

-----------------------------------------------------------------------------
(* The dialog: loadAction(). *)
LoadAction(view, reset) ==
  /\ Aborts(look)
  /\ action' = IF reset THEN [view EXCEPT !.preview = TRUE, !.next = NoPlace] ELSE view
  /\ look' = [query |-> view.id, cursor |-> IF reset THEN NoPlace ELSE view.next, index |-> 0,
              reset |-> reset]
  /\ UNCHANGED <<listVars, snapshots>>

OpenAction(id) ==
  /\ current # NoPlace /\ ~shownAs.open
  /\ shownAs' = [shownAs EXCEPT !.open = TRUE]
  /\ LoadAction([NoAction EXCEPT !.id = id], TRUE)
RefreshAction ==
  /\ shownAs.open /\ action # NoAction /\ look = NoRequest
  /\ LoadAction(action, TRUE) /\ UNCHANGED shownAs
OlderAction ==
  /\ shownAs.open /\ action # NoAction /\ look = NoRequest /\ action.next # NoPlace
  /\ LoadAction(action, FALSE) /\ UNCHANGED shownAs

ActionLoaded(place) ==
  /\ look # NoRequest /\ Serves(look, place)
  /\ action' = [action EXCEPT !.preview = FALSE, !.next = After(place),
                              !.pages = IF look.reset THEN <<place>> ELSE Append(@, place)]
  /\ look' = NoRequest
  /\ UNCHANGED <<listVars, shownAs, aborted>>
ActionFails ==
  /\ look # NoRequest /\ look' = NoRequest
  /\ UNCHANGED <<listVars, action, shownAs, aborted, snapshots>>

CloseAction ==
  /\ shownAs.open /\ shownAs.events < 2
  /\ shownAs' = [open |-> FALSE, events |-> shownAs.events + 1]
  /\ UNCHANGED <<listVars, action, look, aborted, snapshots>>

(* Mutant: the event does not look at the dialog. *)
Always == TRUE
StillClosed == ~shownAs.open
CloseEvent ==
  /\ shownAs.events > 0
  /\ shownAs' = [shownAs EXCEPT !.events = @ - 1]
  /\ IF StillClosed THEN Aborts(look) /\ look' = NoRequest /\ action' = NoAction
                    ELSE UNCHANGED <<look, action, aborted>>
  /\ UNCHANGED <<listVars, snapshots>>

JournalPageNext ==
  \/ \E query \in Filters : SetFilters(query)
  \/ OlderLogs \/ PreviousLogs \/ LoadFails \/ Download \/ Downloaded
  \/ \E place \in Served : Loaded(place) \/ ActionLoaded(place)
  \/ \E id \in Correlations : OpenAction(id)
  \/ RefreshAction \/ OlderAction \/ ActionFails \/ CloseAction \/ CloseEvent \/ AbortedEnds

-----------------------------------------------------------------------------
(***************************************************************************)
(* JournalCoherent: the events listed are those of the filters shown, at   *)
(* the page number shown, and "previous" leads through the pages before it *)
(* in the same snapshot; an open dialog has its view, whose events are     *)
(* those of one action, page after page of one snapshot without a gap:     *)
(* after any mixture of failed, replaced and late requests and events.     *)
(***************************************************************************)
ListCoherent ==
  current # NoPlace =>
    /\ current = Place(filters, current.snap, pageIndex)
    /\ \A k \in 0 .. pageIndex : trail[k + 1] = Place(filters, current.snap, k)
DialogCoherent ==
  /\ shownAs.open => action # NoAction
  /\ \A k \in DOMAIN action.pages : action.pages[k] = Place(action.id, action.pages[1].snap, k - 1)
JournalCoherent == ListCoherent /\ DialogCoherent
=============================================================================
