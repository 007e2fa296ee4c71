------------------------- MODULE SegmentReadsProofs -------------------------
(***************************************************************************)
(* Proofs about SegmentReads.  The query only looks on, so every invariant *)
(* of the segment manager holds next to it; ReadInv then follows the       *)
(* events a query owes from the listing of the catalog to its response.    *)
(***************************************************************************)
EXTENDS SegmentReads, SegmentsProofs

\* A behaviour with a query is one of the segment manager.
LEMMA ReadsImplyManager == ReadSpec => Spec
<1>1. ReadInit => Init
  BY DEF ReadInit
<1>2. [ReadNext]_<<vars, query>> => [Next]_vars
  BY DEF ReadNext, QueryStep, ManagerStep
<1>3. QED
  BY <1>1, <1>2, PTL DEF ReadSpec, Spec

\* All the events of a sealed segment are in its Parquet file.
LEMMA SealedHasAll ==
    ASSUME PunctualInv, NEW w \in Windows, state[w] = "sealed"
    PROVE  parquet[w] # None /\ OnDisk(w) = parquet[w]
BY DEF PunctualInv, SealedRowTrue, DiskInv, Superseded, OnDisk

\* All the events of an open segment are in its DuckDB file.
LEMMA OpenHasAll ==
    ASSUME PunctualInv, NEW w \in Windows, active[w] # None
    PROVE  OnDisk(w) = rows[active[w]]
BY DEF PunctualInv, DiskInv, OnDisk

\* So are those of the segment being sealed, until the sealing is over.
LEMMA SealingHasAll ==
    ASSUME PunctualInv, spc \in Sealing, NEW e \in OnDisk(swin)
    PROVE  e \in rows[sfile]
BY DEF PunctualInv, SealInv, TypeInv, TypeOK, SealHolds, OnDisk, Sealing

\* An acknowledged event is not found in a segment where it was not before.
LEMMA NotMoved ==
    ASSUME Punctual, PunctualInv, Next, TypeInv', OneHome',
           NEW e \in written, NEW w \in Windows, e \in OnDisk(w)'
    PROVE  e \in OnDisk(w)
<1>1. PICK v \in Windows : e \in OnDisk(v)
  BY DEF PunctualInv, Durable
<1>2. e \in OnDisk(v)'
  BY <1>1, OnDiskGrows
<1>3. v = w
  BY <1>2 DEF OneHome
<1>4. QED
  BY <1>1, <1>3

\* The catalog is listed: every placed event the query owes is in a listed
\* segment, or in a lost one (SegmentsInRange).
LEMMA BeginReads ==
    ASSUME PunctualInv, RegisteredInv, ReadInv, NEW from \in Windows,
           NEW to \in Windows, QueryBegin(from, to), UNCHANGED vars
    PROVE  ReadInv'
<1> USE SegmentsAssumption DEF PunctualInv, TypeInv, TypeOK
<1>1. /\ qpc' = "visit" /\ qstate' = state /\ qlisted' = SegmentsInRange(from, to)
      /\ qdue' = {e \in written : EventWindow[e] \in from..to}
      /\ qfrom' = from /\ qto' = to
      /\ UNCHANGED <<qwin, qfile, qmissed, qgot>> /\ phase = "running"
      /\ UNCHANGED <<written, duck, rows, parquet>>
  BY DEF QueryBegin, vars, disk
<1>2. \A w \in Windows : OnDisk(w)' = OnDisk(w)
  BY <1>1 DEF OnDisk
<1>3. ASSUME NEW e \in Placed(qdue)' PROVE Awaited(e)'
  <2> DEFINE w == EventWindow[e]
  <2>1. /\ e \in written /\ w \in from..to /\ w \in Windows /\ e \in OnDisk(w)
        /\ e \in Events
    BY <1>1, <1>2, <1>3 DEF Placed
  <2>2. state[w] # "none"
    BY <1>1, <2>1 DEF RegisteredInv, OnDisk
  <2>3. CASE state[w] = "lost"
    BY <1>1, <2>3 DEF Awaited
  <2>4. CASE state[w] = "active"
    <3>1. w \in SegmentsInRange(from, to)
      BY <2>1, <2>4 DEF SegmentsInRange, Overlaps
    <3>2. QED
      BY <1>1, <2>4, <3>1 DEF Awaited
  <2>5. CASE state[w] = "sealed"
    <3>1. e \in counted[w]
      BY <2>1, <2>5, SealedHasAll DEF SealedRowTrue
    <3>2. EventWindow[e] <= to /\ EventWindow[e] >= from
      BY <2>1 DEF Windows
    <3>3. w \in SegmentsInRange(from, to)
      BY <2>1, <2>5, <3>1, <3>2 DEF SegmentsInRange, Overlaps
    <3>4. QED
      BY <1>1, <2>5, <3>3 DEF Awaited
  <2>6. QED
    BY <2>1, <2>2, <2>3, <2>4, <2>5
<1>4. ASSUME NEW w \in Windows, qstate'[w] = "sealed"
      PROVE  parquet'[w] # None /\ \A e \in qdue' : e \in OnDisk(w)' => e \in parquet'[w]
  BY <1>1, <1>2, <1>4, SealedHasAll
<1>5. qlisted' \subseteq Windows
  BY <1>1 DEF SegmentsInRange
<1>6. qdue' \subseteq Within(written)'
  BY <1>1 DEF Within
<1>7. QED
  BY <1>1, <1>3, <1>4, <1>5, <1>6 DEF ReadInv

\* The segments are visited: the Parquet file of one listed sealed, the open
\* or closing connection of one listed active (querySealed, QueryActive).
LEMMA VisitReads ==
    ASSUME PunctualInv, ReadInv, UNCHANGED vars,
           \/ \E w \in Windows : QuerySealed(w) \/ QueryActive(w)
           \/ QueryRows \/ QueryReturns
    PROVE  ReadInv'
<1> USE DEF PunctualInv, TypeInv, TypeOK
<1>0. UNCHANGED <<written, duck, rows, parquet, active, sfile, swin, spc, state>>
  BY DEF vars, disk, catalog, seal
<1>1. \A w \in Windows : OnDisk(w)' = OnDisk(w)
  BY <1>0 DEF OnDisk
<1>2. UNCHANGED <<qfrom, qto, qstate, qdue>>
  BY DEF QuerySealed, QueryActive, QueryRows, QueryReturns
<1>3. /\ qdue' \subseteq Within(written)' /\ qlisted' \subseteq Windows
      /\ qwin' \in Windows
  BY <1>0, <1>2 DEF ReadInv, Within, QuerySealed, QueryActive, QueryRows, QueryReturns
<1>4. /\ qpc \in {"visit", "rows"}
      /\ qpc' \in {"visit", "rows", "done", "failed"}
      /\ qpc' = "rows" => qfile' # None
  BY <1>0 DEF ReadInv, QuerySealed, QueryActive, QueryRows, QueryReturns
<1>5. ASSUME NEW w \in Windows, qstate'[w] = "sealed"
      PROVE  parquet'[w] # None /\ \A e \in qdue' : e \in OnDisk(w)' => e \in parquet'[w]
  BY <1>0, <1>1, <1>2, <1>4, <1>5 DEF ReadInv
<1>6. ASSUME NEW e \in Placed(qdue)', qpc' # "failed" PROVE Awaited(e)'
  <2> DEFINE w == EventWindow[e]
  <2>1. e \in qdue /\ e \in Events /\ w \in Windows /\ e \in OnDisk(w)
    BY SegmentsAssumption, <1>1, <1>2, <1>6 DEF Placed, ReadInv, Within
  <2>2. Awaited(e) /\ \A S : e \in S => e \in Within(S)
    BY <1>4, <2>1 DEF ReadInv, Placed, Within
  <2>3. ASSUME NEW v \in Windows, QuerySealed(v) PROVE Awaited(e)'
    <3>1. CASE v = w
      <4>1. e \in parquet[w]
        BY <1>4, <2>1, <2>3, <3>1 DEF ReadInv, QuerySealed
      <4>2. QED
        BY <2>2, <2>3, <3>1, <4>1 DEF QuerySealed, Awaited
    <3>2. CASE v # w
      BY <2>2, <2>3, <3>2 DEF QuerySealed, Awaited
    <3>3. QED
      BY <3>1, <3>2
  <2>4. ASSUME NEW v \in Windows, QueryActive(v) PROVE Awaited(e)'
    BY <2>2, <2>4 DEF QueryActive, Awaited
  <2>5. CASE QueryRows
    <3>1. /\ qpc' = "visit" /\ qgot' = qgot \cup Within(rows[qfile])
          /\ qfile = active[qwin] \/ (qfile = sfile /\ qwin = swin)
          /\ UNCHANGED <<qlisted, qmissed>>
      BY <1>6, <2>5 DEF QueryRows
    <3>2. CASE qwin = w
      <4>1. qfile # None
        BY <2>5 DEF ReadInv, QueryRows
      <4>2. CASE qfile = active[qwin]
        BY <2>1, <2>2, <3>1, <3>2, <4>1, <4>2, OpenHasAll DEF Awaited
      <4>3. CASE qfile = sfile /\ qwin = swin
        <5>1. spc \in Sealing
          BY <4>1, <4>3 DEF SealHolds
        <5>2. QED
          BY <2>1, <2>2, <3>1, <3>2, <4>3, <5>1, SealingHasAll DEF Awaited
      <4>4. QED
        BY <3>1, <4>2, <4>3
    <3>3. CASE qwin # w
      BY <1>2, <2>2, <3>1, <3>3 DEF Awaited
    <3>4. QED
      BY <3>2, <3>3
  <2>6. CASE QueryReturns
    BY <2>2, <2>6 DEF QueryReturns, Awaited
  <2>7. QED
    BY <2>3, <2>4, <2>5, <2>6
<1>7. QED
  BY <1>3, <1>4, <1>5, <1>6 DEF ReadInv

\* What the goroutines of the manager do meanwhile takes nothing away: a sealed
\* file stays, and no event turns up where it was not.
LEMMA ManagerKeepsReads ==
    ASSUME Punctual, PunctualInv, TypeInv', OneHome', ReadInv, ManagerStep
    PROVE  ReadInv'
<1>1. /\ Next /\ qpc' \in {qpc, "failed"}
      /\ UNCHANGED <<qfrom, qto, qlisted, qstate, qwin, qfile, qmissed, qgot, qdue>>
  BY DEF ManagerStep
<1>2. written \subseteq written' /\ written \subseteq Events
  BY <1>1, WrittenStep DEF FlushInsert, PunctualInv, TypeInv, TypeOK
<1>3. qdue' \subseteq Within(written)' /\ qdue \subseteq written
  BY <1>1, <1>2 DEF ReadInv, Within
<1>4. ASSUME NEW w \in Windows, NEW e \in qdue, e \in OnDisk(w)'
      PROVE  e \in OnDisk(w)
  BY <1>1, <1>3, <1>4, NotMoved
<1>5. ASSUME NEW e \in Placed(qdue)', qpc' # "failed",
             qpc \in {"visit", "rows", "done"}
      PROVE Awaited(e)'
  <2>1. e \in qdue /\ EventWindow[e] \in Windows /\ e \in OnDisk(EventWindow[e])'
    BY SegmentsAssumption, <1>1, <1>2, <1>3, <1>5 DEF Placed
  <2>2. e \in Placed(qdue)
    BY <1>4, <2>1 DEF Placed
  <2>3. QED
    BY <1>1, <1>5, <2>2 DEF ReadInv, Awaited
<1>6. ASSUME NEW w \in Windows, qstate[w] = "sealed",
             qpc \in {"visit", "rows", "done"}
      PROVE  parquet'[w] # None /\ \A e \in qdue : e \in OnDisk(w)' => e \in parquet'[w]
  <2>1. parquet[w] # None
    BY <1>6 DEF ReadInv
  <2>2. parquet'[w] = parquet[w]
    BY <1>1, <2>1, ParquetKept
  <2>3. QED
    BY <1>4, <1>6, <2>1, <2>2 DEF ReadInv
<1>7. QED
  BY <1>1, <1>3, <1>5, <1>6 DEF ReadInv

\* A query that finishes has every event of its range that was acknowledged
\* before it listed the catalog and placed by its time, but those of a segment
\* that left the map before it looked, and of a lost one (Executor.Run).
THEOREM QueryMissesOnlySealingAlways ==
    ASSUME Punctual PROVE ReadSpec => []QueryMissesOnlySealing
<1>1. ReadInit => ReadInv
  BY SegmentsAssumption DEF ReadInit, QueryInit, ReadInv, Windows, Within
<1>2. PunctualInv /\ PunctualInv' /\ OneHome' /\ RegisteredInv /\ ReadInv
      /\ [ReadNext]_<<vars, query>> => ReadInv'
  <2> SUFFICES ASSUME PunctualInv, PunctualInv', OneHome', RegisteredInv, ReadInv,
                      [ReadNext]_<<vars, query>>
               PROVE  ReadInv'
    OBVIOUS
  <2>1. TypeInv'
    BY DEF PunctualInv
  <2>2. CASE QueryStep
    BY <2>2, BeginReads, VisitReads DEF QueryStep
  <2>3. CASE ManagerStep
    BY <2>1, <2>3, ManagerKeepsReads
  <2>4. CASE UNCHANGED <<vars, query>>
    BY <2>4 DEF vars, disk, query, ReadInv, Awaited, Placed, OnDisk, Within
  <2>5. QED
    BY <2>2, <2>3, <2>4 DEF ReadNext
<1>3. ReadInv => QueryMissesOnlySealing
  BY DEF ReadInv, QueryMissesOnlySealing, Awaited
<1>4. QED
  BY <1>1, <1>2, <1>3, ReadsImplyManager, PunctualAlways, OneHomeAlways,
     RegisteredAlways, PTL DEF ReadSpec
=============================================================================
