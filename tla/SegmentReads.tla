---------------------------- MODULE SegmentReads ----------------------------
(***************************************************************************)
(* A query (src/internal/query, Executor.Run and Executor.Count) next to   *)
(* the goroutines of Segments.  The executor lists the catalog once, then  *)
(* visits the listed segments one by one: by then a segment it saw active  *)
(* may be gone from the manager's map, or its connection may be closed.    *)
(*                                                                         *)
(* The time range of a query is a range of windows.  Filters, the order of *)
(* the rows and the limit are not modelled here: the query asks for every  *)
(* event of the range.                                                     *)
(***************************************************************************)
EXTENDS Segments

VARIABLES
    qpc,        \* where the query is
    qfrom, qto, \* its time range
    qlisted,    \* listed segments not yet visited
    qstate,     \* the state column of the rows as listed
    qwin, qfile,\* the segment QueryActive took from the map
    qmissed,    \* segments listed active that QueryActive did not find open
    qgot,       \* the events of the response
    qdue        \* events of the range acknowledged before the listing

query == <<qpc, qfrom, qto, qlisted, qstate, qwin, qfile, qmissed, qgot, qdue>>

Within(S) == {e \in S : EventWindow[e] \in qfrom..qto}

(***************************************************************************)
(* SegmentsInRange: the row of an active segment spans its window, that of *)
(* a sealed one the first to the last timestamp found at the export.       *)
(***************************************************************************)
\* Mutant: only segments that lie inside the range are listed.
OverlapsInside(w, from, to) ==
    IF state[w] = "sealed"
    THEN \A e \in counted[w] : EventWindow[e] \in from..to
    ELSE w \in from..to

Overlaps(w, from, to) ==
    IF state[w] = "sealed"
    THEN /\ \E e \in counted[w] : EventWindow[e] <= to
         /\ \E e \in counted[w] : EventWindow[e] >= from
    ELSE w \in from..to

SegmentsInRange(from, to) ==
    {w \in Windows : state[w] \notin {"none", "lost"} /\ Overlaps(w, from, to)}

QueryInit ==
    /\ qpc = "idle" /\ qfrom = 0 /\ qto = 0
    /\ qlisted = {} /\ qstate = state /\ qwin = 0 /\ qfile = None
    /\ qmissed = {} /\ qgot = {} /\ qdue = {}

QueryBegin(from, to) ==
    /\ phase = "running" /\ qpc = "idle"
    /\ qfrom' = from /\ qto' = to
    /\ qlisted' = SegmentsInRange(from, to)
    /\ qstate' = state
    /\ qdue' = {e \in written : EventWindow[e] \in from..to}
    /\ qpc' = "visit"
    /\ UNCHANGED <<qwin, qfile, qmissed, qgot>>

\* querySealed reads the Parquet file of the row.
QuerySealed(w) ==
    /\ qpc = "visit" /\ w \in qlisted /\ qstate[w] = "sealed"
    /\ qgot' = qgot \cup Within(parquet[w])
    /\ qlisted' = qlisted \ {w}
    /\ UNCHANGED <<qpc, qfrom, qto, qstate, qwin, qfile, qmissed, qdue>>

\* QueryActive: the map is looked up under the mutex, the statement runs on
\* the connection afterwards.  A segment that is not open yields no rows.
QueryActive(w) ==
    /\ qpc = "visit" /\ w \in qlisted /\ qstate[w] = "active"
    /\ qlisted' = qlisted \ {w}
    /\ qwin' = w /\ qfile' = active[w]
    /\ IF active[w] = None
       THEN qmissed' = qmissed \cup {w} /\ UNCHANGED qpc
       ELSE qpc' = "rows" /\ UNCHANGED qmissed
    /\ UNCHANGED <<qfrom, qto, qstate, qgot, qdue>>

\* On a connection sealOne has closed the statement fails, and so does Run.
QueryRows ==
    /\ qpc = "rows"
    /\ IF qfile = active[qwin] \/ (qfile = sfile /\ qwin = swin)
       THEN qpc' = "visit" /\ qgot' = qgot \cup Within(rows[qfile])
       ELSE qpc' = "failed" /\ UNCHANGED qgot
    /\ UNCHANGED <<qfrom, qto, qlisted, qstate, qwin, qfile, qmissed, qdue>>

QueryReturns ==
    /\ qpc = "visit" /\ qlisted = {}
    /\ qpc' = "done"
    /\ UNCHANGED <<qfrom, qto, qlisted, qstate, qwin, qfile, qmissed, qgot, qdue>>

QueryStep ==
    /\ \/ \E from, to \in Windows : from <= to /\ QueryBegin(from, to)
       \/ \E w \in Windows : QuerySealed(w) \/ QueryActive(w)
       \/ QueryRows \/ QueryReturns
    /\ UNCHANGED vars

\* A query dies with the process.
ManagerStep ==
    /\ Next
    /\ qpc' = IF phase' = "down" /\ qpc \in {"visit", "rows"} THEN "failed" ELSE qpc
    /\ UNCHANGED <<qfrom, qto, qlisted, qstate, qwin, qfile, qmissed, qgot, qdue>>

ReadInit == Init /\ QueryInit
ReadNext == QueryStep \/ ManagerStep
ReadSpec == ReadInit /\ [][ReadNext]_<<vars, query>>

(***************************************************************************)
(*                              PROPERTIES                                 *)
(***************************************************************************)
\* Events of the range found in the files of their own window, not of the
\* segment that was current when they came late or early.
Placed(S) == {e \in S : e \in OnDisk(EventWindow[e])}

\* A finished query has every event of its range that was acknowledged before
\* it listed the catalog and placed by its time, except those of a segment it
\* listed active and then did not find open (queryActive, QueryActive), or that
\* recovery has marked lost.
QueryMissesOnlySealing ==
    qpc = "done" =>
        \A e \in Placed(qdue) :
            \/ e \in qgot \/ EventWindow[e] \in qmissed
            \/ qstate[EventWindow[e]] = "lost"

\* "Callers fall back to a catalog-based lookup in that case (it may have just
\* sealed)": no event of a segment that was open or sealed is missing.
MissedSegmentIsLookedUp ==
    qpc = "done" /\ restarts = 0 => Placed(qdue) \subseteq qgot

(***************************************************************************)
(* The inductive invariant behind QueryMissesOnlySealing: where an event   *)
(* the query owes is, as long as it is placed.                             *)
(***************************************************************************)
Awaited(e) ==
    LET w == EventWindow[e]
    IN  \/ e \in qgot \/ w \in qmissed \/ qstate[w] = "lost"
        \/ w \in qlisted /\ qpc # "done" /\ qstate[w] \in {"active", "sealed"}
        \/ qpc = "rows" /\ qwin = w

ReadInv ==
    /\ qpc \in {"idle", "visit", "rows", "done", "failed"}
    /\ qlisted \subseteq Windows /\ qwin \in Windows
    /\ qdue \subseteq Within(written)
    /\ qpc \in {"visit", "rows", "done"} =>
          /\ \A e \in Placed(qdue) : Awaited(e)
          /\ \A w \in Windows : qstate[w] = "sealed" =>
                parquet[w] # None /\ \A e \in qdue : e \in OnDisk(w) => e \in parquet[w]
    /\ qpc = "rows" => qfile # None
=============================================================================
