--------------------------- MODULE AuditReadersMC ----------------------------
(***************************************************************************)
(* Small instances of AuditReaders.  An instance is chosen at the start:   *)
(* which readers take part, and how many events are written beside them.   *)
(***************************************************************************)
EXTENDS AuditReaders, TLC

CONSTANTS q1, q2, q3

VARIABLE cast

(* One client that browses; one export; two requests for one place.        *)
Casts == {[readers |-> {q1}, events |-> 5], [readers |-> {q2}, events |-> 4],
          [readers |-> {q1, q3}, events |-> 2]}

FirstLong == [e \in Events |-> IF e = 1 THEN 2 ELSE 1]
Symmetry == Permutations(Inodes)

CastNext ==
  /\ UNCHANGED cast
  /\ \/ \E w \in Writers : WriterStep(w) /\ UNCHANGED rvars /\ made' <= cast.events
     \/ \E q \in Exporters \cap cast.readers : ExporterNext(q)
     \/ \E q \in Pagers \cap cast.readers : PagerNext(q)

CastInit == ReadersInit /\ cast \in Casts
CastSpec == CastInit /\ [][CastNext]_<<allVars, cast>>
=============================================================================
