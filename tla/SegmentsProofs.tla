--------------------------- MODULE SegmentsProofs ---------------------------
(***************************************************************************)
(* Proofs about Segments.  TypeInv is inductive by itself, and so are      *)
(* HomeInv and ReconcileInv on top of it, in any environment; for a        *)
(* punctual environment so is PunctualInv, from which the safety theorems  *)
(* in the middle follow (module SegmentsInv).                              *)
(***************************************************************************)
EXTENDS SegmentsInv, TLAPS

\* The state a first start of the process finds is well formed (New).
LEMMA TypeInit == Init => TypeInv
BY SegmentsAssumption DEF Init, TypeInv, TypeOK, SealHolds, Sealing, Windows, Empty

\* Every critical section, call and crash keeps it well formed.
LEMMA TypeStep == TypeInv /\ [Next]_vars => TypeInv'
<1> SUFFICES ASSUME TypeInv, [Next]_vars PROVE TypeInv'
  OBVIOUS
<1> USE SegmentsAssumption DEF TypeInv, TypeOK, SealHolds, Sealing, Windows, clock, disk, catalog, flush, seal
<1>1. CASE NextWindow
  BY <1>1 DEF NextWindow
<1>2. CASE GraceElapses
  BY <1>2 DEF GraceElapses
<1>3. ASSUME NEW b \in SUBSET unseen, FlushBegin(b) PROVE TypeInv'
  BY <1>3 DEF FlushBegin
<1>4. CASE FlushLookup
  BY <1>4 DEF FlushLookup, AfterOpen
<1>5. CASE FlushOpen
  <2>1. CASE duck[target] = None
    <3>1. PICK f \in Files : /\ duck' = [duck EXCEPT ![target] = f]
                             /\ rows' = [rows EXCEPT ![f] = {}]
                             /\ ffile' = f
      BY <1>5, <2>1 DEF FlushOpen
    <3>2. rows' \in [Files -> SUBSET Events] /\ duck' \in [Windows -> {None} \cup Files]
      BY <3>1
    <3>3. QED
      BY <1>5, <3>1, <3>2 DEF FlushOpen
  <2>2. CASE duck[target] # None
    BY <1>5, <2>2 DEF FlushOpen
  <2>3. QED
    BY <2>1, <2>2
<1>6. CASE FlushEnsureRow
  BY <1>6 DEF FlushEnsureRow
<1>7. CASE FlushPublish
  BY <1>7 DEF FlushPublish, AfterOpen
<1>8. ASSUME NEW e \in Events, FlushRoute(e) PROVE TypeInv'
  BY <1>8 DEF FlushRoute
<1>9. ASSUME NEW w \in Windows, FlushPick(w) PROVE TypeInv'
  BY <1>9 DEF FlushPick
<1>10. CASE FlushInsert
  <2>1. ffile \in Files
    BY <1>10 DEF FlushInsert, IsOpen
  <2>2. rows' \in [Files -> SUBSET Events] /\ written' \subseteq Events
    BY <1>10, <2>1 DEF FlushInsert
  <2>3. /\ groups' \in [Windows -> SUBSET Events] /\ todo' \subseteq Events
        /\ cur' \in Windows /\ target' \in Windows /\ ffile' \in {None} \cup Files
        /\ fpc' \in {"pick", "idle"}
    <3>1. CASE FlushEnds
      BY <3>1 DEF FlushEnds, Empty
    <3>2. CASE /\ groups' = [groups EXCEPT ![target] = {}]
               /\ fpc' = "pick" /\ UNCHANGED <<todo, cur, target, ffile>>
      BY <3>2
    <3>3. QED
      BY <1>10, <3>1, <3>2 DEF FlushInsert
  <2>4. QED
    BY <1>10, <2>2, <2>3 DEF FlushInsert
<1>11. CASE FlushOpenFails
  BY <1>11 DEF FlushOpenFails, FlushEnds, Empty, Faulty
<1>12. CASE FlushInsertFails
  <2>1. ffile \in Files
    BY <1>12 DEF FlushInsertFails, IsOpen
  <2>2. rows' \in [Files -> SUBSET Events]
    BY <1>12, <2>1 DEF FlushInsertFails
  <2>3. QED
    BY <1>12, <2>2 DEF FlushInsertFails, FlushEnds, Empty, Faulty
<1>13. CASE FlushPanics
  BY <1>13 DEF FlushPanics, GoDown, FlushEnds, Empty, SealReturns
<1>14. CASE SealTick
  BY <1>14 DEF SealTick, SealableNow
<1>15. CASE SealDetach
  BY <1>15 DEF SealDetach
<1>16. CASE SealCount
  BY <1>16 DEF SealCount
<1>17. CASE SealDropFile
  BY <1>17 DEF SealDropFile, Faulty
<1>18. CASE SealDropRow
  BY <1>18 DEF SealDropRow, SealReturns
<1>19. CASE SealExport
  BY <1>19 DEF SealExport
<1>20. CASE SealRename
  BY <1>20 DEF SealRename
<1>21. CASE SealMark
  <2>1. /\ state' \in [Windows -> {"none", "active", "sealed", "lost"}]
        /\ counted' \in [Windows -> SUBSET Events]
        /\ sha' \in [Windows -> SUBSET Events]
    <3>1. CASE state[swin] = "none"
      BY <1>21, <3>1 DEF SealMark
    <3>2. CASE state[swin] # "none"
      <4>1. /\ state' = [state EXCEPT ![swin] = "sealed"]
            /\ counted' = [counted EXCEPT ![swin] = scount]
            /\ sha' = [sha EXCEPT ![swin] = sexport]
        BY <1>21, <3>2 DEF SealMark
      <4>2. QED
        BY <4>1
    <3>3. QED
      BY <3>1, <3>2
  <2>2. QED
    BY <1>21, <2>1 DEF SealMark
<1>22. CASE SealUnlink
  BY <1>22 DEF SealUnlink, SealReturns, Faulty
<1>23. CASE SealFails
  BY <1>23 DEF SealFails, SealReturns, Faulty
<1>24. CASE Crash
  BY <1>24 DEF Crash, GoDown, FlushEnds, Empty, SealReturns
<1>25. CASE Close
  BY <1>25 DEF Close, GoDown, FlushEnds, Empty, SealReturns
<1>26. CASE Start
  BY <1>26 DEF Start
<1>27. CASE CatalogLost
  <2>1. state' \in [Windows -> {"none", "active", "sealed", "lost"}]
    BY <1>27 DEF CatalogLost
  <2>2. counted' \in [Windows -> SUBSET Events] /\ sha' \in [Windows -> SUBSET Events]
    BY <1>27 DEF CatalogLost, Empty
  <2>3. faults' \in Nat
    BY <1>27 DEF CatalogLost, Faulty
  <2>4. QED
    BY <1>27, <2>1, <2>2, <2>3 DEF CatalogLost
<1>28. ASSUME NEW w \in Windows, RecoverOrphan(w) PROVE TypeInv'
  BY <1>28 DEF RecoverOrphan, Superseded
<1>29. ASSUME NEW w \in Windows, RecoverRegister(w) PROVE TypeInv'
  <2>1. duck[w] = None => parquet[w] \in SUBSET Events
    BY <1>29 DEF RecoverRegister, Unregistered
  <2>2. /\ state' \in [Windows -> {"none", "active", "sealed", "lost"}]
        /\ counted' \in [Windows -> SUBSET Events]
        /\ sha' \in [Windows -> SUBSET Events]
    BY <1>29, <2>1 DEF RecoverRegister
  <2>3. QED
    BY <1>29, <2>2 DEF RecoverRegister
<1>30. ASSUME NEW w \in Windows, RecoverMarkLost(w) PROVE TypeInv'
  BY <1>30 DEF RecoverMarkLost
<1>31. ASSUME NEW w \in Windows, RecoverReopen(w) PROVE TypeInv'
  BY <1>31 DEF RecoverReopen, Unopened
<1>32. CASE RecoverNextRule
  BY <1>32 DEF RecoverNextRule
<1>33. CASE UNCHANGED vars
  BY <1>33 DEF vars
<1>34. QED
  BY <1>1, <1>2, <1>3, <1>4, <1>5, <1>6, <1>7, <1>8, <1>9, <1>10, <1>11,
     <1>12, <1>13, <1>14, <1>15, <1>16, <1>17, <1>18, <1>19, <1>20, <1>21,
     <1>22, <1>23, <1>24, <1>25, <1>26, <1>28, <1>29, <1>30, <1>31, <1>32,
     <1>33, <1>27
     DEF Next, FlushStep, SealStep, RecoverStep

\* Type correctness of the manager's fields, the data directory and the
\* segments table, in every environment.
THEOREM TypeCorrect == Spec => []TypeOK
<1>1. Init => TypeInv
  BY TypeInit
<1>2. TypeInv /\ [Next]_vars => TypeInv'
  BY TypeStep
<1>3. TypeInv => TypeOK
  BY DEF TypeInv
<1>4. QED
  BY <1>1, <1>2, <1>3, PTL DEF Spec

(***************************************************************************)
(* For a punctual environment PunctualInv is inductive.  One lemma per     *)
(* part of it; an action that does not touch a part is proved with its     *)
(* neighbours, one that does has a step of its own.                        *)
(***************************************************************************)

\* An empty data directory satisfies it (New, the first Recover).
LEMMA PunctualInit == Init => PunctualInv
<1> SUFFICES ASSUME Init PROVE PunctualInv
  OBVIOUS
<1>1. TypeInv
  BY TypeInit
<1>2. PhaseInv /\ FlushInv /\ SealInv
  BY SegmentsAssumption DEF Init, PhaseInv, FlushInv, SealInv, Superseded,
     Opening, Sealing, Windows, Empty
<1>3. DiskInv /\ OpenSegmentIsActive /\ SealedRowTrue /\ Durable
  BY SegmentsAssumption DEF Init, DiskInv, OpenSegmentIsActive, SealedRowTrue,
     Durable, OnDisk, Superseded, Windows
<1>4. QED
  BY <1>1, <1>2, <1>3 DEF PunctualInv

\* The goroutines run only after Recover has reconciled (Recover).
LEMMA PhaseStep == ASSUME TypeInv, PhaseInv, Next, TypeInv' PROVE PhaseInv'
<1> USE SegmentsAssumption DEF TypeInv, TypeOK, PhaseInv,
        Superseded, Missing, Windows, clock, disk, catalog, flush, seal
<1>0. Next
  OBVIOUS
<1>1. CASE NextWindow \/ GraceElapses
  BY <1>1 DEF NextWindow, GraceElapses
<1>2. ASSUME NEW b \in SUBSET unseen, FlushBegin(b) PROVE PhaseInv'
  BY <1>2 DEF FlushBegin
<1>3. CASE FlushStep \/ FlushOpenFails \/ FlushInsertFails
  BY <1>3 DEF FlushStep, FlushLookup, FlushOpen, FlushEnsureRow, FlushPublish,
     FlushRoute, FlushPick, FlushInsert, FlushOpenFails, FlushInsertFails,
     FlushEnds
<1>4. CASE SealTick \/ SealStep \/ SealFails
  BY <1>4 DEF SealTick, SealStep, SealDetach, SealCount, SealDropFile,
     SealDropRow, SealExport, SealRename, SealMark, SealUnlink, SealFails,
     SealReturns
<1>5. CASE FlushPanics \/ Crash \/ Close \/ Start \/ CatalogLost
  BY <1>5 DEF FlushPanics, Crash, Close, Start, GoDown, FlushEnds, SealReturns, CatalogLost
<1>6. ASSUME NEW w \in Windows,
             \/ RecoverOrphan(w) \/ RecoverRegister(w)
             \/ RecoverMarkLost(w) \/ RecoverReopen(w)
      PROVE  PhaseInv'
  BY <1>6 DEF RecoverOrphan, RecoverRegister, RecoverMarkLost, RecoverReopen
<1>7. CASE RecoverNextRule
  BY <1>7 DEF RecoverNextRule, Unregistered
<1>8. QED
  BY ONLY <1>0, <1>1, <1>2, <1>3, <1>4, <1>5, <1>6, <1>7 DEF Next, RecoverStep

\* Flush writes at or above the horizon, to the linked file (Flush, openOrCreate).
LEMMA FlushInvStep ==
    ASSUME PunctualInv, Punctual, Next, TypeInv' PROVE FlushInv'
<1> USE SegmentsAssumption DEF PunctualInv, TypeInv, TypeOK, PhaseInv, FlushInv,
        Opening, Windows, clock, disk, catalog, flush, seal
<1>0. Next
  OBVIOUS
<1>1. CASE NextWindow
  BY <1>1 DEF NextWindow
\* The environment is punctual: no window of the Flush in progress is passed.
<1>2. CASE GraceElapses
  <2>1. /\ horizon' = horizon + 1
        /\ UNCHANGED <<active, duck, state, fpc, todo, cur, groups, target, ffile>>
    BY <1>2 DEF GraceElapses
  <2>2. CASE fpc # "idle"
    <3>1. /\ cur # horizon
          /\ \A e \in todo : EventWindow[e] # horizon
          /\ \A w \in Windows : groups[w] # {} => w # horizon
      BY <1>2, <2>2 DEF GraceElapses, FlushWindows
    <3>2. /\ cur >= horizon'
          /\ \A e \in todo : EventWindow[e] >= horizon'
          /\ \A w \in Windows : groups[w] # {} => w >= horizon'
      <4>1. ASSUME NEW w \in Windows, w >= horizon, w # horizon
            PROVE  w >= horizon'
        BY <2>1, <4>1
      <4>2. \A e \in todo : EventWindow[e] \in Windows
        OBVIOUS
      <4>3. QED
        BY <2>2, <3>1, <4>1, <4>2
    <3>3. QED
      BY <2>1, <2>2, <3>2
  <2>3. QED
    BY <2>1, <2>2
<1>3. ASSUME NEW b \in SUBSET unseen, FlushBegin(b) PROVE FlushInv'
  <2>1. /\ fpc' = "lookup" /\ cur' = now /\ target' = now /\ todo' = b
        /\ UNCHANGED <<horizon, active, duck, state, groups, ffile>>
        /\ \A e \in b : EventWindow[e] >= horizon
    BY <1>3 DEF FlushBegin
  <2>2. \A w \in Windows : groups[w] = {}
    BY <1>3 DEF FlushBegin, Empty
  <2>3. QED
    BY <2>1, <2>2
<1>4. CASE FlushLookup \/ FlushOpen \/ FlushEnsureRow \/ FlushPublish
  BY <1>4 DEF FlushLookup, FlushOpen, FlushEnsureRow, FlushPublish, AfterOpen,
     Unused, DiskInv
<1>5. ASSUME NEW e \in Events, FlushRoute(e) PROVE FlushInv'
  BY <1>5 DEF FlushRoute
<1>6. ASSUME NEW w \in Windows, FlushPick(w) PROVE FlushInv'
  BY <1>6 DEF FlushPick
<1>7. CASE FlushInsert
  BY <1>7 DEF FlushInsert, FlushEnds, Empty
<1>8. CASE FlushOpenFails \/ FlushInsertFails
  BY <1>8 DEF FlushOpenFails, FlushInsertFails, FlushEnds, Empty
\* The seal loop only moves files and rows below the horizon.
<1>9. CASE SealTick \/ SealCount \/ SealExport \/ SealRename \/ SealFails
  BY <1>9 DEF SealTick, SealCount, SealExport, SealRename, SealFails
<1>10. CASE SealDetach \/ SealDropFile \/ SealDropRow \/ SealMark \/ SealUnlink
  BY <1>10, SMTT(20) DEF SealDetach, SealDropFile, SealDropRow, SealMark, SealUnlink,
     SealInv, Sealing
<1>11. CASE FlushPanics \/ Crash \/ Close \/ Start \/ CatalogLost
  BY <1>11 DEF FlushPanics, Crash, Close, Start, GoDown, FlushEnds, Empty, CatalogLost
<1>12. CASE RecoverStep
  BY <1>12 DEF RecoverStep, RecoverOrphan, RecoverRegister, RecoverMarkLost,
     RecoverReopen, RecoverNextRule
<1>13. QED
  BY ONLY <1>0, <1>1, <1>2, <1>3, <1>4, <1>5, <1>6, <1>7, <1>8, <1>9, <1>10,
     <1>11, <1>12 DEF Next, FlushStep, SealStep

\* sealOne works below it, on rows nobody else changes (SealOnce, sealOne).
LEMMA SealInvStep == ASSUME PunctualInv, Punctual, Next, TypeInv' PROVE SealInv'
<1> USE SegmentsAssumption DEF PunctualInv, TypeInv, TypeOK, SealHolds, PhaseInv, FlushInv,
        SealInv, DiskInv, OpenSegmentIsActive, Opening, Sealing, Superseded, Windows,
        clock, disk, catalog, flush, seal
<1>0. Next
  OBVIOUS
<1>1. CASE NextWindow \/ GraceElapses
  BY <1>1 DEF NextWindow, GraceElapses
<1>2. ASSUME NEW b \in SUBSET unseen, FlushBegin(b) PROVE SealInv'
  BY <1>2 DEF FlushBegin
\* Flush opens, registers and writes at or above the horizon only.
<1>3. CASE \/ FlushLookup \/ FlushOpenFails \/ \E w \in Windows : FlushPick(w)
           \/ \E e \in Events : FlushRoute(e)
  BY <1>3 DEF FlushLookup, FlushOpenFails, FlushPick, FlushRoute
<1>4. CASE FlushOpen \/ FlushEnsureRow \/ FlushPublish
  <2>1. target >= horizon /\ (spc \in Sealing => swin # target)
    BY <1>4 DEF FlushOpen, FlushEnsureRow, FlushPublish
  <2>2. CASE FlushOpen
    <3>1. UNCHANGED <<horizon, active, parquet, state, seal>>
      BY <2>2 DEF FlushOpen
    <3>2. spc \in Sealing => /\ rows'[sfile] = rows[sfile]
                             /\ duck'[swin] = duck[swin]
                             /\ \A w \in Windows : duck'[w] = sfile => w = swin
      <4>1. CASE UNCHANGED <<duck, rows>>
        BY <4>1
      <4>2. CASE \E f \in Files : /\ Unused(f)
                                  /\ duck' = [duck EXCEPT ![target] = f]
                                  /\ rows' = [rows EXCEPT ![f] = {}]
        <5>1. PICK f \in Files : /\ f # sfile
                                 /\ duck' = [duck EXCEPT ![target] = f]
                                 /\ rows' = [rows EXCEPT ![f] = {}]
          BY <4>2 DEF Unused
        <5>2. spc \in Sealing => rows'[sfile] = rows[sfile] /\ duck'[swin] = duck[swin]
          BY <2>1, <5>1
        <5>3. spc \in Sealing => \A w \in Windows : duck'[w] = sfile => w = swin
          BY <2>1, <5>1
        <5>4. QED
          BY <5>2, <5>3
      <4>3. QED
        BY <2>2, <4>1, <4>2 DEF FlushOpen
    <3>3. QED
      BY <3>1, <3>2
  <2>3. CASE FlushEnsureRow
    BY <2>1, <2>3 DEF FlushEnsureRow
  <2>4. CASE FlushPublish
    BY <2>1, <2>4 DEF FlushPublish
  <2>5. QED
    BY <1>4, <2>2, <2>3, <2>4
<1>5. CASE FlushInsert \/ FlushInsertFails
  <2>1. target >= horizon /\ ffile # None /\ ffile = duck[target]
    BY <1>5 DEF FlushInsert, FlushInsertFails
  <2>2. spc \in Sealing => swin # target /\ ffile # sfile
    BY <1>5, <2>1 DEF FlushInsert, FlushInsertFails
  <2>3. spc \in Sealing => rows'[sfile] = rows[sfile]
    BY <1>5, <2>1, <2>2 DEF FlushInsert, FlushInsertFails
  <2>4. UNCHANGED <<horizon, active, duck, parquet, state, seal>>
    BY <1>5 DEF FlushInsert, FlushInsertFails
  <2>5. QED
    BY <2>3, <2>4
<1>6. CASE SealTick \/ SealDetach
  BY <1>6 DEF SealTick, SealableNow, SealDetach
<1>7. CASE SealCount \/ SealDropFile \/ SealExport \/ SealRename \/ SealMark
  BY <1>7 DEF SealCount, SealDropFile, SealExport, SealRename, SealMark
<1>8. CASE SealDropRow \/ SealUnlink \/ SealFails
  BY <1>8 DEF SealDropRow, SealUnlink, SealFails, SealReturns
<1>9. CASE FlushPanics \/ Crash \/ Close \/ Start \/ CatalogLost
  BY <1>9 DEF FlushPanics, Crash, Close, Start, GoDown, SealReturns, CatalogLost
<1>10. CASE RecoverStep
  BY <1>10 DEF RecoverStep, RecoverOrphan, RecoverRegister, RecoverMarkLost,
     RecoverReopen, RecoverNextRule
<1>11. QED
  BY ONLY <1>0, <1>1, <1>2, <1>3, <1>6, <1>7, <1>8, <1>9, <1>10,
     <1>4, <1>5 DEF Next, FlushStep, SealStep

\* Files, rows and the map agree after every step (sealOne, Recover).
LEMMA DiskStep == ASSUME PunctualInv, Punctual, Next, TypeInv'
                  PROVE  DiskInv' /\ OpenSegmentIsActive' /\ SealedRowTrue'
<1> DEFINE Goal == DiskInv /\ OpenSegmentIsActive /\ SealedRowTrue
<1> USE SegmentsAssumption DEF PunctualInv, TypeInv, TypeOK, SealHolds, PhaseInv, FlushInv,
        SealInv, DiskInv, OpenSegmentIsActive, SealedRowTrue, Opening, Sealing,
        Superseded, Windows, clock, disk, catalog, flush, seal
<1>0. Next
  OBVIOUS
<1>1. CASE NextWindow \/ GraceElapses
  BY <1>1 DEF NextWindow, GraceElapses
<1>2. ASSUME NEW b \in SUBSET unseen, FlushBegin(b) PROVE Goal'
  BY <1>2 DEF FlushBegin
<1>3. CASE \/ FlushLookup \/ FlushOpenFails \/ \E w \in Windows : FlushPick(w)
           \/ \E e \in Events : FlushRoute(e)
  BY <1>3 DEF FlushLookup, FlushOpenFails, FlushPick, FlushRoute
<1>4. CASE FlushOpen
  <2>1. CASE duck[target] = None
    <3>1. PICK f \in Files : /\ Unused(f)
                             /\ duck' = [duck EXCEPT ![target] = f]
                             /\ rows' = [rows EXCEPT ![f] = {}]
      BY <1>4, <2>1 DEF FlushOpen
    <3>2. target >= horizon /\ parquet[target] = None /\ state[target] = "none"
      BY <1>4, <2>1 DEF FlushOpen
    <3>3. \A v, w \in Windows : duck'[v] # None /\ duck'[v] = duck'[w] => v = w
      BY <3>1 DEF Unused
    <3>4. QED
      BY <1>4, <3>1, <3>2, <3>3 DEF FlushOpen, Unused
  <2>2. CASE duck[target] # None
    BY <1>4, <2>2 DEF FlushOpen
  <2>3. QED
    BY <2>1, <2>2
<1>5. CASE FlushEnsureRow \/ FlushPublish
  BY <1>5 DEF FlushEnsureRow, FlushPublish
<1>6. CASE FlushInsert \/ FlushInsertFails
  BY <1>6 DEF FlushInsert, FlushInsertFails
<1>7. CASE SealTick \/ SealDetach \/ SealCount \/ SealExport \/ SealFails
  BY <1>7 DEF SealTick, SealDetach, SealCount, SealExport, SealFails
<1>8. CASE SealDropFile
  <2>1. CASE duck' = [duck EXCEPT ![swin] = None]
    BY <1>8, <2>1 DEF SealDropFile
  <2>2. CASE UNCHANGED duck
    BY <1>8, <2>2 DEF SealDropFile
  <2>3. QED
    BY <1>8, <2>1, <2>2 DEF SealDropFile
<1>9. CASE SealDropRow
  BY <1>9 DEF SealDropRow
<1>10. CASE SealRename \/ SealMark
  BY <1>10, SMTT(20) DEF SealRename, SealMark
<1>11. CASE SealUnlink
  <2>1. CASE duck' = [duck EXCEPT ![swin] = None]
    BY <1>11, <2>1 DEF SealUnlink
  <2>2. CASE UNCHANGED duck
    BY <1>11, <2>2 DEF SealUnlink
  <2>3. QED
    BY <1>11, <2>1, <2>2 DEF SealUnlink
<1>12. CASE FlushPanics \/ Crash \/ Close \/ Start \/ CatalogLost
  BY <1>12, SMTT(20) DEF FlushPanics, Crash, Close, Start, GoDown, CatalogLost
<1>13. ASSUME NEW w \in Windows, RecoverOrphan(w) PROVE Goal'
  BY <1>13 DEF RecoverOrphan
<1>14. ASSUME NEW w \in Windows, RecoverReopen(w) PROVE Goal'
  BY <1>14 DEF RecoverReopen, Unopened
<1>15. ASSUME NEW w \in Windows, RecoverRegister(w) PROVE Goal'
  <2>1. CASE duck[w] # None
    <3>1. /\ state[w] = "none" /\ state' = [state EXCEPT ![w] = "active"]
          /\ UNCHANGED <<counted, sha, active, duck, rows, parquet, horizon>>
      BY <1>15, <2>1 DEF RecoverRegister, Unregistered
    <3>2. OpenSegmentIsActive' /\ SealedRowTrue'
      BY <3>1
    <3>3. DiskInv'
      BY <2>1, <3>1
    <3>4. QED
      BY <3>2, <3>3
  <2>2. CASE duck[w] = None
    <3>1. /\ parquet[w] # None /\ state' = [state EXCEPT ![w] = "sealed"]
          /\ counted' = [counted EXCEPT ![w] = parquet[w]]
          /\ sha' = [sha EXCEPT ![w] = parquet[w]]
      BY <1>15, <2>2 DEF RecoverRegister, Unregistered
    <3>2. QED
      BY <1>15, <2>2, <3>1 DEF RecoverRegister
  <2>3. QED
    BY <2>1, <2>2
<1>16. ASSUME NEW w \in Windows, RecoverMarkLost(w) PROVE Goal'
  BY <1>16 DEF RecoverMarkLost, Missing
<1>17. CASE RecoverNextRule
  BY <1>17 DEF RecoverNextRule
<1>18. QED
  BY ONLY <1>0, <1>1, <1>2, <1>3, <1>4, <1>5, <1>6, <1>7, <1>8, <1>10, <1>11,
     <1>12, <1>13, <1>15, <1>16, <1>17, <1>9, <1>14
     DEF Next, FlushStep, SealStep, RecoverStep, Goal

\* No step removes an event from the files of a window.
LEMMA OnDiskGrows ==
    ASSUME PunctualInv, Punctual, Next, TypeInv', NEW v \in Windows
    PROVE  OnDisk(v) \subseteq OnDisk(v)'
<1> USE SegmentsAssumption DEF PunctualInv, TypeInv, TypeOK, SealHolds, PhaseInv, FlushInv,
        SealInv, DiskInv, Opening, Sealing, Superseded, Windows, OnDisk,
        clock, disk, catalog, flush, seal
<1>0. Next
  OBVIOUS
<1>1. CASE UNCHANGED disk
  BY <1>1
<1>2. CASE FlushOpen
  BY <1>2 DEF FlushOpen, Unused
<1>3. CASE FlushInsert \/ FlushInsertFails
  BY <1>3 DEF FlushInsert, FlushInsertFails, IsOpen
<1>4. CASE SealDropFile \/ SealRename \/ SealUnlink
  BY <1>4 DEF SealDropFile, SealRename, SealUnlink
<1>5. ASSUME NEW w \in Windows, RecoverOrphan(w)
      PROVE  OnDisk(v) \subseteq OnDisk(v)'
  BY <1>5 DEF RecoverOrphan
<1>6. \/ UNCHANGED disk \/ FlushOpen \/ FlushInsert \/ FlushInsertFails
      \/ SealDropFile \/ SealRename \/ SealUnlink
      \/ \E w \in Windows : RecoverOrphan(w)
  BY ONLY <1>0 DEF Next, FlushStep, SealStep, RecoverStep, NextWindow,
     GraceElapses, FlushBegin, FlushLookup, FlushEnsureRow, FlushPublish,
     FlushRoute, FlushPick, FlushOpenFails, FlushPanics, SealTick, SealDetach,
     SealCount, SealDropRow, SealExport, SealMark, SealFails, Crash, Close,
     GoDown, Start, CatalogLost, RecoverRegister, RecoverMarkLost, RecoverReopen,
     RecoverNextRule
<1>7. QED
  BY ONLY <1>1, <1>2, <1>3, <1>4, <1>5, <1>6

\* Only InsertBatch acknowledges events.
LEMMA WrittenStep == ASSUME Next PROVE written' = written \/ FlushInsert
BY DEF Next, FlushStep, SealStep, RecoverStep, NextWindow, GraceElapses,
   FlushBegin, FlushLookup, FlushOpen, FlushEnsureRow, FlushPublish,
   FlushRoute, FlushPick, FlushOpenFails, FlushInsertFails, FlushPanics,
   SealTick, SealDetach, SealCount, SealDropFile, SealDropRow, SealExport,
   SealRename, SealMark, SealUnlink, SealFails, Crash, Close, GoDown, Start,
   CatalogLost, RecoverOrphan, RecoverRegister, RecoverMarkLost, RecoverReopen,
   RecoverNextRule

\* An acknowledged event stays in a file (InsertBatch, sealOne, Recover).
LEMMA DurableStep == ASSUME PunctualInv, Punctual, Next, TypeInv' PROVE Durable'
<1>1. written' = written \/ FlushInsert
  BY WrittenStep
<1>2. \A w \in Windows : OnDisk(w) \subseteq OnDisk(w)'
  BY OnDiskGrows
<1>3. written \subseteq UNION {OnDisk(w) : w \in Windows}
  BY DEF PunctualInv, Durable
<1>4. ASSUME NEW e \in written PROVE \E w \in Windows : e \in OnDisk(w)'
  BY <1>2, <1>3
<1>5. CASE FlushInsert
  <2>1. PICK t \in Windows : t = target
    BY DEF PunctualInv, TypeInv, TypeOK
  <2>2. groups[target] \subseteq OnDisk(t)'
    <3> USE DEF PunctualInv, TypeInv, TypeOK, FlushInv, Opening
    <3>1. ffile \in Files /\ duck[t] = ffile
      BY <1>5, <2>1 DEF FlushInsert, IsOpen
    <3>2. duck' = duck /\ rows'[ffile] = rows[ffile] \cup groups[target]
      BY <1>5, <3>1 DEF FlushInsert
    <3>3. QED
      BY SegmentsAssumption, <3>1, <3>2 DEF OnDisk
  <2>3. written' = written \cup groups[target]
    BY <1>5 DEF FlushInsert
  <2>4. ASSUME NEW e \in written' PROVE \E w \in Windows : e \in OnDisk(w)'
    BY <1>4, <2>2, <2>3
  <2>5. QED
    BY <2>4 DEF Durable
<1>6. CASE written' = written
  BY <1>4, <1>6 DEF Durable
<1>7. QED
  BY <1>1, <1>5, <1>6

\* The parts together: PunctualInv is inductive.
LEMMA PunctualStep ==
    ASSUME Punctual PROVE PunctualInv /\ [Next]_vars => PunctualInv'
<1> SUFFICES ASSUME PunctualInv, [Next]_vars PROVE PunctualInv'
  OBVIOUS
<1>1. CASE Next
  <2>1. TypeInv'
    BY TypeStep DEF PunctualInv
  <2>2. QED
    BY <1>1, <2>1, PhaseStep, FlushInvStep, SealInvStep, DiskStep, DurableStep
       DEF PunctualInv
<1>2. CASE UNCHANGED vars
  BY <1>2 DEF vars, clock, disk, catalog, flush, seal, PunctualInv, TypeInv,
     TypeOK, SealHolds, PhaseInv, FlushInv, SealInv, DiskInv, Superseded,
     Missing, Empty, OpenSegmentIsActive, SealedRowTrue, Durable, OnDisk
<1>3. QED
  BY <1>1, <1>2

\* The invariant of the manager in a punctual environment.
THEOREM PunctualAlways == ASSUME Punctual PROVE Spec => []PunctualInv
<1>1. Init => PunctualInv
  BY PunctualInit
<1>2. PunctualInv /\ [Next]_vars => PunctualInv'
  BY PunctualStep
<1>3. QED
  BY <1>1, <1>2, PTL DEF Spec

\* Events acknowledged by InsertBatch survive sealing, failing calls, crashes
\* and interrupted recoveries, for any number of each (Manager, Recover).
THEOREM DurableAlways == ASSUME Punctual PROVE Spec => []Durable
<1>1. PunctualInv => Durable
  BY DEF PunctualInv
<1>2. QED
  BY <1>1, PunctualAlways, PTL

\* A sealed row always has its Parquet file, and its row count and checksum
\* are that file's (sealOne, MarkSegmentSealed, registerSealedFromDisk).
THEOREM SealedRowTrueAlways == ASSUME Punctual PROVE Spec => []SealedRowTrue
<1>1. PunctualInv => SealedRowTrue
  BY DEF PunctualInv
<1>2. QED
  BY <1>1, PunctualAlways, PTL

\* Flush never inserts through a connection sealOne has closed, and its file
\* is the one at the segment's path (Flush, openOrCreate, sealOne).
THEOREM NeverWritesClosedAlways ==
    ASSUME Punctual PROVE Spec => []NeverWritesClosed
<1>1. PunctualInv => NeverWritesClosed
  BY DEF PunctualInv, FlushInv, NeverWritesClosed, IsOpen, TypeInv, TypeOK
<1>2. QED
  BY <1>1, PunctualAlways, PTL

\* A segment open for writing has an active row (openOrCreate, Recover).
THEOREM OpenSegmentIsActiveAlways ==
    ASSUME Punctual PROVE Spec => []OpenSegmentIsActive
<1>1. PunctualInv => OpenSegmentIsActive
  BY DEF PunctualInv
<1>2. QED
  BY <1>1, PunctualAlways, PTL

\* A step that would write a Parquet file finds none in its place.
LEMMA ParquetKept ==
    ASSUME PunctualInv, Next, NEW w \in Windows, parquet[w] # None
    PROVE  parquet'[w] = parquet[w]
<1>1. parquet' = parquet \/ SealRename
  BY DEF Next, FlushStep, SealStep, RecoverStep, NextWindow, GraceElapses,
     FlushBegin, FlushLookup, FlushOpen, FlushEnsureRow, FlushPublish,
     FlushRoute, FlushPick, FlushInsert, FlushOpenFails, FlushInsertFails,
     FlushPanics, SealTick, SealDetach, SealCount, SealDropFile, SealDropRow,
     SealExport, SealMark, SealUnlink, SealFails, Crash, Close, GoDown, Start,
     CatalogLost, RecoverOrphan, RecoverRegister, RecoverMarkLost, RecoverReopen,
     RecoverNextRule, disk
<1>2. CASE SealRename
  BY <1>2 DEF SealRename, PunctualInv, SealInv, Sealing, TypeInv, TypeOK
<1>3. QED
  BY <1>1, <1>2

\* No sealed Parquet file is ever written again (sealOne's rename).
THEOREM SealedImmutableAlways == ASSUME Punctual PROVE Spec => SealedImmutable
<1>1. PunctualInv /\ [Next]_vars
      => [\A w \in Windows : parquet[w] # None => parquet'[w] = parquet[w]]_vars
  BY ParquetKept
<1>2. QED
  BY <1>1, PunctualAlways, PTL DEF Spec, SealedImmutable

\* A DuckDB file leaves its path only when nothing is lost by it: the order
\* of sealOne (export, rename, catalog, delete) and the orphan rule of Recover.
THEOREM CatalogBeforeDeleteAlways ==
    ASSUME Punctual PROVE Spec => CatalogBeforeDelete
<1> DEFINE Deleted(w) == duck[w] # None /\ duck'[w] = None
           Allowed(w) ==
              \/ rows[duck[w]] = {}
              \/ /\ parquet[w] # None /\ rows[duck[w]] \subseteq parquet[w]
                 /\ state[w] = "sealed" \/ orphan'[w] = rows[duck[w]]
<1>1. PunctualInv /\ [Next]_vars
      => [\A w \in Windows : Deleted(w) => Allowed(w)]_vars
  <2> SUFFICES ASSUME PunctualInv, Next, NEW w \in Windows, Deleted(w)
               PROVE  Allowed(w)
    OBVIOUS
  <2> USE SegmentsAssumption DEF PunctualInv, TypeInv, TypeOK
  <2>1. \/ duck' = duck \/ FlushOpen \/ SealDropFile \/ SealUnlink
        \/ \E v \in Windows : RecoverOrphan(v)
    BY ONLY Next DEF Next, FlushStep, SealStep, RecoverStep, NextWindow,
       GraceElapses, FlushBegin, FlushLookup, FlushEnsureRow, FlushPublish,
       FlushRoute, FlushPick, FlushInsert, FlushOpenFails, FlushInsertFails,
       FlushPanics, SealTick, SealDetach, SealCount, SealDropRow, SealExport,
       SealRename, SealMark, SealFails, Crash, Close, GoDown, Start,
     CatalogLost, RecoverRegister, RecoverMarkLost, RecoverReopen, RecoverNextRule, disk
  <2>2. CASE FlushOpen
    BY <2>2 DEF FlushOpen
  <2>3. CASE SealDropFile
    BY <2>3 DEF SealDropFile, SealInv, Sealing
  <2>4. CASE SealUnlink
    BY <2>4 DEF SealUnlink, SealInv, Sealing
  <2>5. ASSUME NEW v \in Windows, RecoverOrphan(v) PROVE Allowed(w)
    BY <2>5 DEF RecoverOrphan, Superseded, DiskInv
  <2>6. CASE duck' = duck
    BY <2>6
  <2>7. QED
    BY <2>1, <2>2, <2>3, <2>4, <2>5, <2>6
<1>2. QED
  BY <1>1, PunctualAlways, PTL DEF Spec, CatalogBeforeDelete

(***************************************************************************)
(* OneHome, in any environment: HomeInv is inductive.  A step that gives   *)
(* no segment a file or an event it did not have keeps it; what is left    *)
(* are the steps that create a file or move events.                        *)
(***************************************************************************)

\* A step that adds nothing to any segment keeps HomeInv.
LEMMA HomeKept ==
    ASSUME HomeInv, TypeInv',
           fpc' = "idle" => todo' = {} /\ groups' = Empty,
           spc' \notin {"rename", "mark", "unlink"} => sexport' = {},
           unseen' = unseen, todo' \subseteq todo,
           \A w \in Windows : FilesOf(w)' \subseteq FilesOf(w),
           \A w \in Windows : Home(w)' \subseteq Home(w)
    PROVE  HomeInv'
<1>1. \A v, w \in Windows : v # w => FilesOf(v)' \cap FilesOf(w)' = {}
  BY DEF HomeInv
<1>2. \A v, w \in Windows : v # w => Home(v)' \cap Home(w)' = {}
  BY DEF HomeInv
<1>3. \A w \in Windows : Home(w)' \cap (unseen' \cup todo') = {}
  BY DEF HomeInv
<1>4. unseen' \cap todo' = {}
  BY DEF HomeInv
<1>5. QED
  BY <1>1, <1>2, <1>3, <1>4 DEF HomeInv

\* No events move and no file is written: only the holders of files change.
LEMMA HomeKeptByHolders ==
    ASSUME HomeInv, TypeInv',
           fpc' = "idle" => todo' = {} /\ groups' = Empty,
           spc' \notin {"rename", "mark", "unlink"} => sexport' = {},
           unseen' = unseen, todo' \subseteq todo, rows' = rows, parquet' = parquet,
           \A w \in Windows : groups'[w] \subseteq groups[w],
           sexport' = {} \/ (sexport' = sexport /\ swin' = swin),
           \A w \in Windows : FilesOf(w)' \subseteq FilesOf(w)
    PROVE  HomeInv'
<1>1. ASSUME NEW w \in Windows PROVE Home(w)' \subseteq Home(w)
  BY DEF Home
<1>2. QED
  BY <1>1, HomeKept

\* An empty data directory and a Flush not yet called (New).
LEMMA HomeInit == Init => HomeInv
<1> SUFFICES ASSUME Init PROVE HomeInv
  OBVIOUS
<1>1. \A w \in Windows : FilesOf(w) = {}
  BY SegmentsAssumption DEF Init, FilesOf
<1>2. \A w \in Windows : Home(w) = {}
  BY <1>1, SegmentsAssumption DEF Init, Home, Empty
<1>3. QED
  BY <1>1, <1>2, TypeInit DEF HomeInv, Init, Empty

\* The clock, the file that Flush looks up, registers, publishes or picks, the
\* seal loop but for its export and rename, failing calls, crashes, Recover.
Handling == \/ NextWindow \/ GraceElapses \/ FlushLookup \/ FlushEnsureRow
            \/ FlushPublish \/ FlushOpenFails \/ FlushPanics
            \/ \E w \in Windows : FlushPick(w)
            \/ SealTick \/ SealDetach \/ SealCount \/ SealDropFile \/ SealDropRow
            \/ SealMark \/ SealUnlink \/ SealFails
            \/ Crash \/ Close \/ CatalogLost \/ Start
            \/ \E w \in Windows : \/ RecoverOrphan(w) \/ RecoverRegister(w)
                                  \/ RecoverMarkLost(w) \/ RecoverReopen(w)
            \/ RecoverNextRule

\* None of them gives a segment a file it did not have.
LEMMA HandlingFiles ==
    ASSUME TypeInv, Handling, NEW w \in Windows, NEW f \in FilesOf(w)'
    PROVE  f \in FilesOf(w)
<1> USE SegmentsAssumption DEF TypeInv, TypeOK, FilesOf, clock, disk, catalog, flush, seal
<1>1. CASE NextWindow \/ GraceElapses
  BY <1>1 DEF NextWindow, GraceElapses
<1>2. CASE FlushLookup \/ FlushEnsureRow
  BY <1>2 DEF FlushLookup, FlushEnsureRow, AfterOpen
<1>3. CASE FlushPublish
  <2>1. CASE active[target] = None
    BY <1>3, <2>1 DEF FlushPublish
  <2>2. CASE active[target] # None
    BY <1>3, <2>2 DEF FlushPublish
  <2>3. QED
    BY <2>1, <2>2
<1>4. CASE FlushOpenFails
  BY <1>4 DEF FlushOpenFails, FlushEnds
<1>5. CASE \E v \in Windows : FlushPick(v)
  BY <1>5 DEF FlushPick
<1>6. CASE FlushPanics \/ Crash \/ Close
  BY <1>6 DEF FlushPanics, Crash, Close, GoDown, FlushEnds, SealReturns
<1>7. CASE SealTick \/ SealCount \/ SealMark
  BY <1>7 DEF SealTick, SealCount, SealMark
<1>8. CASE SealDetach
  <2>1. PICK v \in queue : /\ swin' = v /\ sfile' = active[v]
                           /\ active' = [active EXCEPT ![v] = None]
    BY <1>8 DEF SealDetach
  <2>2. QED
    BY <1>8, <2>1 DEF SealDetach
<1>9. CASE SealDropFile
  BY <1>9 DEF SealDropFile
<1>10. CASE SealDropRow
  BY <1>10 DEF SealDropRow, SealReturns
<1>11. CASE SealUnlink
  BY <1>11 DEF SealUnlink, SealReturns
<1>12. CASE SealFails
  BY <1>12 DEF SealFails, SealReturns
<1>13. CASE CatalogLost \/ Start \/ RecoverNextRule
  BY <1>13 DEF CatalogLost, Start, RecoverNextRule
<1>14. ASSUME NEW v \in Windows,
              \/ RecoverOrphan(v) \/ RecoverRegister(v)
              \/ RecoverMarkLost(v) \/ RecoverReopen(v)
       PROVE  f \in FilesOf(w)
  BY <1>14 DEF RecoverOrphan, RecoverRegister, RecoverMarkLost, RecoverReopen
<1>15. QED
  BY <1>1, <1>2, <1>3, <1>4, <1>5, <1>6, <1>7, <1>8, <1>9, <1>10, <1>11, <1>12,
     <1>13, <1>14 DEF Handling

\* Nor do they move events.
LEMMA HandlingEvents ==
    ASSUME HomeInv, Handling
    PROVE  /\ fpc' = "idle" => todo' = {} /\ groups' = Empty
           /\ spc' \notin {"rename", "mark", "unlink"} => sexport' = {}
           /\ unseen' = unseen /\ todo' \subseteq todo /\ rows' = rows /\ parquet' = parquet
           /\ \A w \in Windows : groups'[w] \subseteq groups[w]
           /\ sexport' = {} \/ (sexport' = sexport /\ swin' = swin)
<1> USE DEF HomeInv, clock, disk, catalog, flush, seal
<1>1. CASE \/ NextWindow \/ GraceElapses \/ CatalogLost \/ Start \/ RecoverNextRule
           \/ FlushLookup \/ FlushEnsureRow \/ FlushPublish
           \/ \E v \in Windows : FlushPick(v)
  BY <1>1 DEF NextWindow, GraceElapses, CatalogLost, Start, RecoverNextRule,
     FlushLookup, FlushEnsureRow, FlushPublish, FlushPick, AfterOpen
<1>2. CASE FlushOpenFails
  BY <1>2 DEF FlushOpenFails, FlushEnds, Empty
<1>3. CASE FlushPanics \/ Crash \/ Close
  BY <1>3 DEF FlushPanics, Crash, Close, GoDown, FlushEnds, SealReturns, Empty
<1>4. CASE SealTick \/ SealDetach \/ SealCount \/ SealDropFile \/ SealMark
  BY <1>4 DEF SealTick, SealDetach, SealCount, SealDropFile, SealMark
<1>5. CASE SealDropRow \/ SealUnlink \/ SealFails
  BY <1>5 DEF SealDropRow, SealUnlink, SealFails, SealReturns
<1>6. CASE \E v \in Windows : \/ RecoverOrphan(v) \/ RecoverRegister(v)
                              \/ RecoverMarkLost(v) \/ RecoverReopen(v)
  BY <1>6 DEF RecoverOrphan, RecoverRegister, RecoverMarkLost, RecoverReopen
<1>7. QED
  BY <1>1, <1>2, <1>3, <1>4, <1>5, <1>6 DEF Handling

\* So they keep HomeInv.
LEMMA HandlingKeepsHome == ASSUME HomeInv, TypeInv', Handling PROVE HomeInv'
<1>1. TypeInv
  BY DEF HomeInv
<1>2. \A w \in Windows : FilesOf(w)' \subseteq FilesOf(w)
  BY <1>1, HandlingFiles
<1>3. QED
  BY <1>2, HandlingEvents, HomeKeptByHolders

\* Flush takes a batch: its events are in no segment yet.
LEMMA BeginKeepsHome ==
    ASSUME HomeInv, TypeInv', NEW b \in SUBSET unseen, FlushBegin(b)
    PROVE  HomeInv'
<1>1. /\ todo = {} /\ todo' = b /\ unseen' = unseen \ b /\ fpc' = "lookup"
      /\ UNCHANGED <<active, duck, rows, parquet, groups, ffile, sfile, swin,
                     spc, sexport>>
      /\ fpc = "idle"
  BY DEF FlushBegin, HomeInv, disk, seal
<1>2. \A w \in Windows : FilesOf(w)' = FilesOf(w)
  BY <1>1 DEF FilesOf
<1>3. \A w \in Windows : Home(w)' = Home(w)
  BY <1>1, <1>2 DEF Home
<1>4. unseen' \cup todo' = unseen
  BY <1>1
<1>5. QED
  BY <1>1, <1>2, <1>3, <1>4 DEF HomeInv

\* openOrCreate: the file at the path, or a new and empty one.
LEMMA OpenKeepsHome == ASSUME HomeInv, TypeInv', FlushOpen PROVE HomeInv'
<1> USE SegmentsAssumption DEF TypeInv, TypeOK
<1>1. /\ fpc' = "row"
      /\ UNCHANGED <<active, parquet, unseen, todo, groups, target, spc, swin,
                     sfile, sexport>>
  BY DEF FlushOpen, seal
<1>2. CASE duck[target] = None
  <2>1. PICK f \in Files : /\ Unused(f) /\ ffile' = f
                           /\ duck' = [duck EXCEPT ![target] = f]
                           /\ rows' = [rows EXCEPT ![f] = {}]
    BY <1>2 DEF FlushOpen
  <2>2. ASSUME NEW w \in Windows
        PROVE  f \notin FilesOf(w) /\ FilesOf(w)' \subseteq FilesOf(w) \cup {f}
    BY <1>1, <2>1, <2>2 DEF FilesOf, Unused, HomeInv
  <2>3. ASSUME NEW w \in Windows, w # target
        PROVE  FilesOf(w)' \subseteq FilesOf(w)
    BY <1>1, <2>1, <2>3 DEF FilesOf, Unused, HomeInv
  <2>4. ASSUME NEW w \in Windows PROVE Home(w)' \subseteq Home(w)
    BY <1>1, <2>1, <2>2 DEF Home, HomeInv
  <2>5. ASSUME NEW v \in Windows, NEW w \in Windows, v # w
        PROVE  FilesOf(v)' \cap FilesOf(w)' = {}
    <3>1. FilesOf(v) \cap FilesOf(w) = {}
      BY <2>5 DEF HomeInv
    <3>2. v # target \/ w # target
      BY <2>5
    <3>3. QED
      BY <2>2, <2>3, <3>1, <3>2
  <2>6. \A w \in Windows : Home(w)' \cap (unseen' \cup todo') = {}
    BY <1>1, <2>4 DEF HomeInv
  <2>7. \A v, w \in Windows : v # w => Home(v)' \cap Home(w)' = {}
    BY <2>4 DEF HomeInv
  <2>8. QED
    BY <1>1, <2>5, <2>6, <2>7 DEF HomeInv
<1>3. CASE duck[target] # None
  <2>1. ffile' = duck[target] /\ UNCHANGED <<duck, rows>>
    BY <1>3 DEF FlushOpen
  <2>2. ASSUME NEW w \in Windows PROVE FilesOf(w)' \subseteq FilesOf(w)
    BY <1>1, <1>3, <2>1 DEF FilesOf, HomeInv
  <2>3. /\ fpc' = "idle" => todo' = {} /\ groups' = Empty
        /\ spc' \notin {"rename", "mark", "unlink"} => sexport' = {}
    BY <1>1 DEF HomeInv
  <2>4. QED
    BY <1>1, <2>1, <2>2, <2>3, HomeKeptByHolders
<1>4. QED
  BY <1>2, <1>3

\* resolveTarget: an event goes from the batch to one group.
LEMMA RouteKeepsHome ==
    ASSUME HomeInv, TypeInv', NEW e \in Events, FlushRoute(e) PROVE HomeInv'
<1> USE DEF TypeInv, TypeOK
<1>1. /\ e \in todo /\ todo' = todo \ {e} /\ fpc = "route"
      /\ fpc' \in {"pick", "route"}
      /\ UNCHANGED <<active, duck, rows, parquet, unseen, target, ffile, spc,
                     swin, sfile, sexport>>
  BY DEF FlushRoute, disk, seal
<1>2. PICK t \in Windows : groups' = [groups EXCEPT ![t] = @ \cup {e}]
  <2>1. EventWindow[e] \in Windows /\ cur \in Windows
    BY SegmentsAssumption DEF HomeInv
  <2>2. QED
    BY <2>1 DEF FlushRoute
<1>3. \A w \in Windows : FilesOf(w)' \subseteq FilesOf(w)
  BY <1>1 DEF FilesOf
<1>4. ASSUME NEW w \in Windows
      PROVE  /\ Home(w)' \subseteq Home(w) \cup {e}
             /\ w # t => Home(w)' \subseteq Home(w)
             /\ e \notin Home(w)
  <2>1. groups'[w] \subseteq groups[w] \cup {e} /\ (w # t => groups'[w] = groups[w])
    BY <1>2 DEF HomeInv
  <2>2. e \notin Home(w)
    BY <1>1 DEF HomeInv
  <2>3. QED
    BY <1>1, <1>3, <2>1, <2>2 DEF Home
<1>5. \A w \in Windows : Home(w)' \cap (unseen' \cup todo') = {}
  BY <1>1, <1>4 DEF HomeInv
<1>6. ASSUME NEW v \in Windows, NEW w \in Windows, v # w
      PROVE  Home(v)' \cap Home(w)' = {}
  <2>1. Home(v) \cap Home(w) = {} /\ (v # t \/ w # t)
    BY <1>6 DEF HomeInv
  <2>2. QED
    BY <1>4, <2>1
<1>7. \A v, w \in Windows : v # w => FilesOf(v)' \cap FilesOf(w)' = {}
  BY <1>3 DEF HomeInv
<1>8. QED
  BY <1>1, <1>5, <1>6, <1>7 DEF HomeInv

\* InsertBatch: a group, or what a failing call left of it, goes to the file
\* of its segment, which no other segment owns.
LEMMA InsertKeepsHome ==
    ASSUME HomeInv, TypeInv', FlushInsert \/ FlushInsertFails PROVE HomeInv'
<1> USE DEF TypeInv, TypeOK
<1>1. /\ fpc = "insert" /\ ffile \in Files
      /\ UNCHANGED <<active, duck, parquet, unseen, spc, swin, sfile, sexport>>
      /\ target \in Windows
  BY DEF FlushInsert, FlushInsertFails, IsOpen, seal, HomeInv
<1>2. PICK kept \in SUBSET groups[target] :
         rows' = [rows EXCEPT ![ffile] = @ \cup kept]
  BY DEF FlushInsert, FlushInsertFails
<1>3. /\ fpc' \in {"pick", "idle"} /\ todo' \subseteq todo
      /\ fpc' = "idle" => todo' = {} /\ groups' = Empty
      /\ \A w \in Windows : groups'[w] \subseteq groups[w]
  BY DEF FlushInsert, FlushInsertFails, FlushEnds, Empty, HomeInv
<1>4. \A w \in Windows : FilesOf(w)' \subseteq FilesOf(w)
  BY <1>1, <1>3 DEF FilesOf
<1>5. \A w \in Windows : ffile \in FilesOf(w) => w = target
  BY <1>1 DEF FilesOf, HomeInv
<1>6. ASSUME NEW w \in Windows PROVE Home(w)' \subseteq Home(w)
  <2>1. ASSUME NEW f \in FilesOf(w)', NEW e \in rows'[f]
        PROVE  e \in rows[f] \/ e \in groups[w]
    <3>1. f \in FilesOf(w) /\ f \in Files
      BY <1>4 DEF FilesOf
    <3>2. CASE f # ffile
      BY <1>2, <2>1, <3>1, <3>2 DEF HomeInv
    <3>3. CASE f = ffile
      BY <1>1, <1>2, <1>5, <2>1, <3>1, <3>3 DEF HomeInv
    <3>4. QED
      BY <3>2, <3>3
  <2>2. QED
    BY <1>1, <1>3, <1>4, <2>1 DEF Home
<1>7. spc' \notin {"rename", "mark", "unlink"} => sexport' = {}
  BY <1>1 DEF HomeInv
<1>8. QED
  BY <1>1, <1>3, <1>4, <1>6, <1>7, HomeKept

\* The export reads the segment's file, the rename puts it at its place.
LEMMA ExportKeepsHome ==
    ASSUME HomeInv, TypeInv', SealExport \/ SealRename PROVE HomeInv'
<1> USE SegmentsAssumption DEF TypeInv, TypeOK
<1>1. /\ UNCHANGED <<active, duck, rows, unseen, todo, groups, target, ffile,
                     fpc, swin, sfile>>
      /\ spc' \in {"rename", "mark"} /\ spc \in {"export", "rename"}
  BY DEF SealExport, SealRename, flush, disk
<1>2. \A w \in Windows : FilesOf(w)' \subseteq FilesOf(w)
  BY <1>1 DEF FilesOf
<1>3. ASSUME NEW w \in Windows PROVE Home(w)' \subseteq Home(w)
  <2>1. CASE SealExport
    <3>1. sfile \in Files /\ swin \in Windows /\ sexport' = rows[sfile]
          /\ parquet' = parquet
      BY <2>1 DEF SealExport, HomeInv, SealHolds, Sealing, disk
    <3>2. sfile \in FilesOf(swin)
      BY <3>1 DEF FilesOf
    <3>3. QED
      BY <1>1, <1>2, <3>1, <3>2 DEF Home
  <2>2. CASE SealRename
    <3>1. /\ swin \in Windows /\ sexport' = sexport
          /\ parquet' = [parquet EXCEPT ![swin] = sexport]
      BY <2>2 DEF SealRename, HomeInv
    <3>2. parquet'[w] = IF w = swin THEN sexport ELSE parquet[w]
      BY <3>1 DEF HomeInv
    <3>3. QED
      BY <1>1, <1>2, <3>1, <3>2 DEF Home
  <2>3. QED
    BY <2>1, <2>2
<1>4. fpc' = "idle" => todo' = {} /\ groups' = Empty
  BY <1>1 DEF HomeInv
<1>5. QED
  BY <1>1, <1>2, <1>3, <1>4, HomeKept

\* HomeInv is inductive.
LEMMA HomeStep == HomeInv /\ [Next]_vars => HomeInv'
<1> SUFFICES ASSUME HomeInv, [Next]_vars PROVE HomeInv'
  OBVIOUS
<1>1. TypeInv'
  BY TypeStep DEF HomeInv
<1>2. CASE Next
  <2>1. \/ Handling \/ FlushOpen \/ FlushInsert \/ FlushInsertFails
        \/ SealExport \/ SealRename
        \/ \E b \in SUBSET unseen : FlushBegin(b)
        \/ \E e \in Events : FlushRoute(e)
    BY ONLY <1>2 DEF Next, FlushStep, SealStep, RecoverStep, Handling
  <2>2. QED
    BY <1>1, <2>1, HandlingKeepsHome, BeginKeepsHome, OpenKeepsHome,
       RouteKeepsHome, InsertKeepsHome, ExportKeepsHome
<1>3. CASE UNCHANGED vars
  BY <1>3 DEF vars, clock, disk, catalog, flush, seal, HomeInv, TypeInv, TypeOK,
     SealHolds, FilesOf, Home
<1>4. QED
  BY <1>2, <1>3

\* No event is ever in the files of two windows, late events, a Flush that
\* races the seal loop, partly failed batches, crashes and interrupted
\* recoveries included (Flush, resolveTarget, sealOne, Recover).
THEOREM OneHomeAlways == Spec => []OneHome
<1>1. HomeInv => OneHome
  <2> SUFFICES ASSUME HomeInv, NEW v \in Windows, NEW w \in Windows, v # w
               PROVE  OnDisk(v) \cap OnDisk(w) = {}
    BY DEF OneHome
  <2>1. ASSUME NEW u \in Windows PROVE OnDisk(u) \subseteq Home(u)
    BY SegmentsAssumption DEF HomeInv, TypeInv, TypeOK, OnDisk, Home, FilesOf
  <2>2. QED
    BY <2>1 DEF HomeInv
<1>2. QED
  BY <1>1, HomeInit, HomeStep, PTL DEF Spec

(***************************************************************************)
(* What a query can reach, in a punctual environment.                      *)
(***************************************************************************)

\* No file with events loses its row: the catalog is lost only while the
\* process is down, and Recover registers before it goes on.
LEMMA RegisteredStep ==
    ASSUME PunctualInv, RegisteredInv, Next PROVE RegisteredInv'
<1> USE SegmentsAssumption DEF PunctualInv, TypeInv, TypeOK, SealHolds, PhaseInv,
        RegisteredInv, DiskInv, clock, disk, catalog, flush, seal
<1>0. Next
  OBVIOUS
<1>1. CASE \/ NextWindow \/ GraceElapses \/ FlushLookup \/ FlushPublish
           \/ FlushOpenFails \/ SealTick \/ SealDetach \/ SealCount \/ SealExport
           \/ SealFails
           \/ \E b \in SUBSET unseen : FlushBegin(b)
           \/ \E e \in Events : FlushRoute(e)
           \/ \E w \in Windows : FlushPick(w)
  BY <1>1 DEF NextWindow, GraceElapses, FlushLookup, FlushPublish, FlushOpenFails,
     SealTick, SealDetach, SealCount, SealExport, SealFails, FlushBegin,
     FlushRoute, FlushPick
<1>2. CASE FlushPanics \/ Crash \/ Close \/ CatalogLost \/ Start
  BY <1>2 DEF FlushPanics, Crash, Close, GoDown, CatalogLost, Start
<1>3. CASE FlushOpen
  <2>1. CASE duck[target] = None
    <3>1. PICK f \in Files : /\ Unused(f)
                             /\ duck' = [duck EXCEPT ![target] = f]
                             /\ rows' = [rows EXCEPT ![f] = {}]
      BY <1>3, <2>1 DEF FlushOpen
    <3>2. ASSUME NEW w \in Windows, w # target
          PROVE  duck'[w] = duck[w] /\ (duck[w] # None => rows'[duck[w]] = rows[duck[w]])
      BY <3>1, <3>2 DEF Unused
    <3>3. rows'[duck'[target]] = {}
      BY <3>1
    <3>4. QED
      BY <1>3, <3>2, <3>3 DEF FlushOpen
  <2>2. CASE duck[target] # None
    BY <1>3, <2>2 DEF FlushOpen
  <2>3. QED
    BY <2>1, <2>2
<1>4. CASE FlushEnsureRow
  BY <1>4 DEF FlushEnsureRow
<1>5. CASE FlushInsert \/ FlushInsertFails
  <2>1. /\ UNCHANGED <<duck, parquet, state, phase>>
        /\ \A f \in Files : f # ffile => rows'[f] = rows[f]
        /\ ffile \in Files /\ ffile = duck[target] /\ active[target] = ffile
    BY <1>5 DEF FlushInsert, FlushInsertFails, IsOpen, FlushInv
  <2>2. state[target] = "active"
    BY <2>1 DEF OpenSegmentIsActive
  <2>3. QED
    BY <2>1, <2>2
<1>6. CASE SealDropFile \/ SealMark \/ SealUnlink
  BY <1>6 DEF SealDropFile, SealMark, SealUnlink
<1>7. CASE SealRename
  BY <1>7 DEF SealRename, SealInv, Sealing
<1>8. CASE SealDropRow
  <2>1. /\ parquet[swin] = None
        /\ rows[sfile] = {}
        /\ active[swin] = None /\ state[swin] = "active" /\ swin \in Windows
    BY <1>8 DEF SealDropRow, SealInv, Sealing
  <2>2. duck[swin] = None \/ rows[duck[swin]] = {}
    BY <1>8 DEF SealDropRow, SealInv, Sealing
  <2>3. QED
    BY <1>8, <2>1, <2>2 DEF SealDropRow
<1>9. ASSUME NEW w \in Windows,
             \/ RecoverOrphan(w) \/ RecoverRegister(w)
             \/ RecoverMarkLost(w) \/ RecoverReopen(w)
      PROVE  RegisteredInv'
  BY <1>9 DEF RecoverOrphan, RecoverRegister, RecoverMarkLost, RecoverReopen
<1>10. CASE RecoverNextRule
  BY <1>10 DEF RecoverNextRule, Unregistered
<1>11. QED
  BY ONLY <1>0, <1>1, <1>2, <1>3, <1>4, <1>5, <1>6, <1>7, <1>8, <1>9, <1>10
     DEF Next, FlushStep, SealStep, RecoverStep

\* So it holds always.
LEMMA RegisteredAlways == ASSUME Punctual PROVE Spec => []RegisteredInv
<1>1. Init => RegisteredInv
  BY DEF Init, RegisteredInv
<1>2. PunctualInv /\ RegisteredInv /\ [Next]_vars => RegisteredInv'
  <2>1. CASE UNCHANGED vars
    BY <2>1 DEF vars, clock, disk, catalog, flush, seal, RegisteredInv
  <2>2. QED
    BY <2>1, RegisteredStep
<1>3. QED
  BY <1>1, <1>2, PunctualAlways, PTL DEF Spec

\* Until something fails, a file with events stays in the hands of the map or
\* of the seal loop until its Parquet file is marked (openOrCreate, sealOne).
LEMMA ServedStep ==
    ASSUME PunctualInv, ServedInv, Next, TypeInv' PROVE ServedInv'
<1> USE SegmentsAssumption DEF PunctualInv, TypeInv, TypeOK, SealHolds,
        DiskInv, clock, disk, catalog, flush, seal
<1>0. Next
  OBVIOUS
<1> SUFFICES ASSUME faults' = 0, restarts' = 0 PROVE ServedInv'
  BY DEF ServedInv
<1>1. faults = 0 /\ restarts = 0
  <2>1. /\ faults' = faults \/ faults' = faults + 1
        /\ restarts' = restarts \/ restarts' = restarts + 1
    BY ONLY <1>0 DEF Next, FlushStep, SealStep, RecoverStep, NextWindow,
       GraceElapses, FlushBegin, FlushLookup, FlushOpen, FlushEnsureRow,
       FlushPublish, FlushRoute, FlushPick, FlushInsert, FlushOpenFails,
       FlushInsertFails, FlushPanics, SealTick, SealDetach, SealCount,
       SealDropFile, SealDropRow, SealExport, SealRename, SealMark, SealUnlink,
       SealFails, Crash, Close, GoDown, Start, CatalogLost, RecoverOrphan,
       RecoverRegister, RecoverMarkLost, RecoverReopen, RecoverNextRule, Faulty
  <2>2. QED
    BY <2>1
<1> USE DEF ServedInv
<1>2. CASE \/ NextWindow \/ GraceElapses \/ FlushLookup \/ FlushEnsureRow
           \/ FlushOpenFails \/ SealTick \/ SealCount \/ SealExport
           \/ \E b \in SUBSET unseen : FlushBegin(b)
           \/ \E e \in Events : FlushRoute(e)
           \/ \E w \in Windows : FlushPick(w)
  BY <1>1, <1>2 DEF NextWindow, GraceElapses, FlushLookup, FlushEnsureRow,
     FlushOpenFails, SealTick, SealCount, SealExport, FlushBegin, FlushRoute,
     FlushPick
<1>3. CASE FlushPanics
  BY <1>3 DEF FlushPanics, IsOpen, FlushInv
<1>4. CASE \/ Crash \/ Close \/ CatalogLost \/ Start \/ FlushInsertFails \/ SealFails
  BY <1>1, <1>4 DEF Crash, Close, CatalogLost, Start, FlushInsertFails, SealFails,
     Faulty
<1>5. CASE FlushOpen
  <2>1. CASE duck[target] = None
    <3>1. PICK f \in Files : /\ Unused(f)
                             /\ duck' = [duck EXCEPT ![target] = f]
                             /\ rows' = [rows EXCEPT ![f] = {}]
      BY <1>5, <2>1 DEF FlushOpen
    <3>2. ASSUME NEW w \in Windows, w # target
          PROVE  duck'[w] = duck[w] /\ (duck[w] # None => rows'[duck[w]] = rows[duck[w]])
      BY <3>1, <3>2 DEF Unused
    <3>3. rows'[duck'[target]] = {}
      BY <3>1
    <3>4. phase = "running"
      BY <1>5 DEF FlushOpen, PhaseInv
    <3>5. QED
      BY <1>1, <1>5, <3>2, <3>3, <3>4 DEF FlushOpen
  <2>2. CASE duck[target] # None
    BY <1>1, <1>5, <2>2 DEF FlushOpen
  <2>3. QED
    BY <2>1, <2>2
<1>6. CASE FlushPublish
  <2>1. ffile = duck[target] /\ target \in Windows
    BY <1>6 DEF FlushPublish, FlushInv
  <2>2. QED
    BY <1>1, <1>6, <2>1 DEF FlushPublish
<1>7. CASE FlushInsert
  <2>1. /\ UNCHANGED <<duck, parquet, state, phase, active, sfile, spc, swin>>
        /\ \A f \in Files : f # ffile => rows'[f] = rows[f]
        /\ ffile \in Files /\ ffile = duck[target] /\ active[target] = ffile
    BY <1>7 DEF FlushInsert, IsOpen, FlushInv
  <2>2. QED
    BY <1>1, <2>1
<1>8. CASE SealDetach
  <2>1. PICK v \in queue : /\ swin' = v /\ sfile' = active[v] /\ spc' = "count"
                           /\ active' = [active EXCEPT ![v] = None]
    BY <1>8 DEF SealDetach
  <2>2. active[v] # None /\ v \in Windows
    BY <1>8, <2>1
  <2>3. active[v] = duck[v]
    BY <2>2
  <2>4. sfile = None
    BY <1>8 DEF SealDetach, Sealing
  <2>5. QED
    BY <1>1, <1>8, <2>1, <2>2, <2>3, <2>4 DEF SealDetach
<1>9. CASE SealDropFile
  BY <1>1, <1>9 DEF SealDropFile, SealInv, Sealing
<1>10. CASE SealDropRow
  <2>1. /\ parquet[swin] = None /\ rows[sfile] = {}
        /\ active[swin] = None /\ state[swin] = "active" /\ swin \in Windows
        /\ duck[swin] = sfile \/ duck[swin] = None
    BY <1>10 DEF SealDropRow, SealInv, Sealing
  <2>2. QED
    BY <1>1, <1>10, <2>1 DEF SealDropRow, SealReturns
<1>11. CASE SealRename
  <2>1. /\ parquet' = [parquet EXCEPT ![swin] = sexport] /\ swin \in Windows
        /\ spc = "rename" /\ spc' = "mark"
        /\ UNCHANGED <<phase, duck, rows, active, sfile, state, swin>>
    BY <1>11 DEF SealRename
  <2>2. phase = "running"
    BY <2>1 DEF PhaseInv
  <2>3. QED
    BY <1>1, <2>1, <2>2
<1>12. CASE SealMark
  BY <1>1, <1>12 DEF SealMark, SealInv, Sealing
<1>13. CASE SealUnlink
  <2>1. /\ duck[swin] = sfile /\ swin \in Windows /\ sfile # None
        /\ \A w \in Windows : duck[w] = sfile => w = swin
    BY <1>13 DEF SealUnlink, SealInv, Sealing
  <2>2. duck' = [duck EXCEPT ![swin] = None]
    BY <1>1, <1>13 DEF SealUnlink, Faulty
  <2>3. QED
    BY <1>1, <1>13, <2>1, <2>2 DEF SealUnlink, SealReturns
<1>14. ASSUME NEW w \in Windows,
              \/ RecoverOrphan(w) \/ RecoverRegister(w)
              \/ RecoverMarkLost(w) \/ RecoverReopen(w)
       PROVE  ServedInv'
  BY <1>1, <1>14 DEF RecoverOrphan, RecoverRegister, RecoverMarkLost, RecoverReopen,
     Superseded, Unregistered, Missing, Unopened
<1>15. CASE RecoverNextRule
  BY <1>1, <1>15 DEF RecoverNextRule
<1>16. QED
  BY ONLY <1>0, <1>2, <1>3, <1>4, <1>5, <1>6, <1>7, <1>8, <1>9, <1>10, <1>11,
     <1>12, <1>13, <1>14, <1>15 DEF Next, FlushStep, SealStep, RecoverStep

\* Until a call fails or the process goes down, every acknowledged event is in
\* reach of a query, but for the segment being sealed (QueryActive, sealOne).
THEOREM QueryableAlways == ASSUME Punctual PROVE Spec => []Queryable
<1>1. Init => ServedInv
  BY SegmentsAssumption DEF Init, ServedInv
<1>2. PunctualInv /\ PunctualInv' /\ ServedInv /\ [Next]_vars => ServedInv'
  <2>1. CASE UNCHANGED vars
    BY <2>1 DEF vars, clock, disk, catalog, flush, seal, ServedInv
  <2>2. QED
    BY <2>1, ServedStep DEF PunctualInv
<1>3. PunctualInv /\ ServedInv => Queryable
  <2> SUFFICES ASSUME PunctualInv, ServedInv, faults = 0, restarts = 0,
                      NEW e \in written
               PROVE  \/ \E w \in Windows : e \in Served(w)
                      \/ sfile # None /\ e \in rows[sfile]
    BY DEF Queryable
  <2> USE SegmentsAssumption DEF PunctualInv, TypeInv, TypeOK, SealHolds
  <2>1. PICK w \in Windows : e \in OnDisk(w)
    BY DEF Durable
  <2>2. CASE duck[w] # None /\ e \in rows[duck[w]]
    <3>1. active[w] = duck[w] \/ sfile = duck[w]
      BY <2>2 DEF ServedInv
    <3>2. CASE active[w] = duck[w]
      BY <2>2, <3>2 DEF OpenSegmentIsActive, Served
    <3>3. CASE sfile = duck[w]
      BY <2>2, <3>3
    <3>4. QED
      BY <3>1, <3>2, <3>3
  <2>3. CASE parquet[w] # None /\ e \in parquet[w]
    <3>1. CASE state[w] = "sealed"
      BY <2>3, <3>1 DEF Served
    <3>2. CASE spc = "mark" /\ swin = w
      BY <2>3, <3>2 DEF SealInv, Sealing
    <3>3. QED
      BY <2>3, <3>1, <3>2 DEF ServedInv
  <2>4. QED
    BY <2>1, <2>2, <2>3 DEF OnDisk
<1>4. QED
  BY <1>1, <1>2, <1>3, PunctualAlways, PTL DEF Spec

(***************************************************************************)
(* What Recover hands over, in any environment.                            *)
(***************************************************************************)

\* Nobody takes up a segment that Recover has marked lost: the clock is past
\* its window, and only an open segment takes events that are late.
LEMMA AbandonedStep ==
    ASSUME ReconcileInv, Next, TypeInv', NEW w \in Windows, Abandoned(w)
    PROVE  Abandoned(w)'
<1> USE SegmentsAssumption DEF ReconcileInv, TypeInv, TypeOK, PhaseInv, Abandoned,
        Windows, Opening, Sealing, clock, disk, catalog, flush, seal
<1>0. Next
  OBVIOUS
<1>1. CASE NextWindow \/ GraceElapses
  BY <1>1 DEF NextWindow, GraceElapses
<1>2. ASSUME NEW b \in SUBSET unseen, FlushBegin(b) PROVE Abandoned(w)'
  BY <1>2 DEF FlushBegin, Empty
<1>3. CASE FlushLookup \/ FlushOpen \/ FlushEnsureRow \/ FlushPublish
  BY <1>3 DEF FlushLookup, FlushOpen, FlushEnsureRow, FlushPublish, AfterOpen
<1>4. ASSUME NEW e \in Events, FlushRoute(e) PROVE Abandoned(w)'
  BY <1>4 DEF FlushRoute
<1>5. ASSUME NEW v \in Windows, FlushPick(v) PROVE Abandoned(w)'
  BY <1>5 DEF FlushPick
<1>6. CASE FlushInsert
  <2>1. /\ UNCHANGED <<now, duck, active, queue, spc, swin>>
        /\ \/ fpc' = "idle"
           \/ /\ groups' = [groups EXCEPT ![target] = {}] /\ fpc' = "pick"
              /\ UNCHANGED <<cur, target>>
    BY <1>6 DEF FlushInsert, FlushEnds
  <2>2. /\ w < now' /\ duck'[w] = None /\ active'[w] = None
        /\ w \notin queue' /\ (spc' \in Sealing => swin' # w)
    BY ONLY <2>1, Abandoned(w) DEF Abandoned, Sealing
  <2>3. CASE fpc' = "idle"
    BY ONLY <2>2, <2>3 DEF Abandoned, Opening
  <2>4. CASE /\ groups' = [groups EXCEPT ![target] = {}] /\ fpc' = "pick"
             /\ UNCHANGED <<cur, target>>
    <3>1. fpc = "insert" /\ groups \in [Windows -> SUBSET Events]
      BY ONLY <1>6, ReconcileInv DEF FlushInsert, ReconcileInv, TypeInv, TypeOK
    <3>2. cur # w /\ groups[w] = {} /\ target # w
      BY ONLY <3>1, Abandoned(w) DEF Abandoned, Opening
    <3>3. cur' # w /\ groups'[w] = {} /\ target' # w
      BY ONLY <2>4, <3>1, <3>2, w \in Windows
    <3>4. QED
      BY ONLY <2>2, <2>4, <3>3 DEF Abandoned, Opening
  <2>5. QED
    BY ONLY <2>1, <2>3, <2>4
<1>7. CASE FlushOpenFails \/ FlushInsertFails
  BY <1>7 DEF FlushOpenFails, FlushInsertFails, FlushEnds
<1>8. CASE SealTick \/ SealDetach \/ SealCount \/ SealExport \/ SealRename \/ SealMark
  BY <1>8 DEF SealTick, SealableNow, SealDetach, SealCount, SealExport, SealRename,
     SealMark
<1>9. CASE SealDropFile \/ SealDropRow \/ SealUnlink \/ SealFails
  BY <1>9 DEF SealDropFile, SealDropRow, SealUnlink, SealFails, SealReturns
<1>10. CASE FlushPanics \/ Crash \/ Close \/ CatalogLost \/ Start
  BY <1>10 DEF FlushPanics, Crash, Close, GoDown, FlushEnds, SealReturns,
     CatalogLost, Start
<1>11. ASSUME NEW v \in Windows,
              \/ RecoverOrphan(v) \/ RecoverRegister(v)
              \/ RecoverMarkLost(v) \/ RecoverReopen(v)
       PROVE  Abandoned(w)'
  BY <1>11 DEF RecoverOrphan, RecoverRegister, RecoverMarkLost, RecoverReopen,
     Unopened
<1>12. CASE RecoverNextRule
  BY <1>12 DEF RecoverNextRule
<1>13. QED
  BY ONLY <1>0, <1>1, <1>2, <1>3, <1>4, <1>5, <1>6, <1>7, <1>8, <1>9, <1>10,
     <1>11, <1>12 DEF Next, FlushStep, SealStep, RecoverStep

\* What ReconcileInv says of the rows.
RowInv(w) == /\ state[w] = "sealed" => parquet[w] # None
             /\ state[w] = "active" => duck[w] # None \/ w < now
             /\ parquet[w] # None => w < now

\* Every statement on the catalog, and every removal, keeps it.
LEMMA RowStep ==
    ASSUME ReconcileInv, Next, TypeInv', NEW w \in Windows PROVE RowInv(w)'
<1> USE SegmentsAssumption DEF ReconcileInv, TypeInv, TypeOK, PhaseInv, RowInv,
        Windows, Opening, Sealing, clock, disk, catalog, flush, seal
<1>0. Next
  OBVIOUS
<1>1. CASE UNCHANGED <<now, state, parquet, duck>>
  BY <1>1
<1>2. CASE NextWindow
  BY <1>2 DEF NextWindow
<1>3. CASE FlushOpen
  BY <1>3 DEF FlushOpen
<1>4. CASE FlushEnsureRow
  BY <1>4 DEF FlushEnsureRow
<1>5. CASE SealDropFile \/ SealUnlink
  BY <1>5 DEF SealDropFile, SealUnlink
<1>6. CASE SealRename
  BY <1>6 DEF SealRename
<1>7. CASE SealDropRow
  BY <1>7 DEF SealDropRow
<1>8. CASE SealMark
  <2>1. CASE swin = w
    BY <1>8, <2>1 DEF SealMark
  <2>2. CASE swin # w
    BY <1>8, <2>2 DEF SealMark
  <2>3. QED
    BY <2>1, <2>2
<1>9. CASE CatalogLost
  BY <1>9 DEF CatalogLost
<1>10. ASSUME NEW v \in Windows,
              RecoverOrphan(v) \/ RecoverRegister(v) \/ RecoverMarkLost(v)
       PROVE  RowInv(w)'
  BY <1>10 DEF RecoverOrphan, RecoverRegister, RecoverMarkLost, Superseded,
     Unregistered
<1>11. \/ UNCHANGED <<now, state, parquet, duck>> \/ NextWindow \/ FlushOpen
       \/ FlushEnsureRow \/ SealDropFile \/ SealUnlink \/ SealRename
       \/ SealDropRow \/ SealMark \/ CatalogLost
       \/ \E v \in Windows : RecoverOrphan(v) \/ RecoverRegister(v) \/ RecoverMarkLost(v)
  BY ONLY <1>0 DEF Next, FlushStep, SealStep, RecoverStep, GraceElapses, FlushBegin,
     FlushLookup, FlushPublish, FlushRoute, FlushPick, FlushInsert, FlushOpenFails,
     FlushInsertFails, FlushPanics, SealTick, SealDetach, SealCount, SealExport,
     SealFails, Crash, Close, GoDown, Start, RecoverReopen, RecoverNextRule,
     clock, disk, catalog
<1>12. QED
  BY ONLY <1>1, <1>2, <1>3, <1>4, <1>5, <1>6, <1>7, <1>8, <1>9, <1>10, <1>11

\* The rest of it: the control of the two goroutines and of Recover.
LEMMA ControlStep ==
    ASSUME ReconcileInv, Next, TypeInv'
    PROVE  /\ (fpc = "idle" => groups = Empty)'
           /\ (\A w \in queue : w < horizon)'
           /\ (spc \in Sealing => swin < horizon)'
           /\ (spc = "mark" => parquet[swin] # None)'
           /\ (fpc = "row" => duck[target] # None \/ target < now)'
           /\ (phase = "reopen" => \A w \in Windows : active[w] \in {None, duck[w]})'
<1> DEFINE Control ==
      /\ fpc = "idle" => groups = Empty
      /\ \A w \in queue : w < horizon
      /\ spc \in Sealing => swin < horizon
      /\ spc = "mark" => parquet[swin] # None
      /\ fpc = "row" => duck[target] # None \/ target < now
      /\ phase = "reopen" => \A w \in Windows : active[w] \in {None, duck[w]}
<1> SUFFICES Control'
  OBVIOUS
<1> USE SegmentsAssumption DEF ReconcileInv, TypeInv, TypeOK, PhaseInv,
        Windows, Opening, Sealing, clock, disk, catalog, flush, seal
<1>0. Next
  OBVIOUS
<1>1. CASE NextWindow \/ GraceElapses
  BY <1>1 DEF NextWindow, GraceElapses
<1>2. CASE \/ FlushLookup \/ FlushOpen \/ FlushEnsureRow \/ FlushPublish
           \/ \E b \in SUBSET unseen : FlushBegin(b)
           \/ \E e \in Events : FlushRoute(e)
           \/ \E w \in Windows : FlushPick(w)
  BY <1>2 DEF FlushBegin, FlushLookup, FlushOpen, FlushEnsureRow, FlushPublish,
     FlushRoute, FlushPick, AfterOpen
<1>3. CASE FlushInsert \/ FlushInsertFails \/ FlushOpenFails
  BY <1>3 DEF FlushInsert, FlushInsertFails, FlushOpenFails, FlushEnds
<1>4. CASE SealTick \/ SealDetach \/ SealCount \/ SealExport \/ SealRename \/ SealMark
  BY <1>4 DEF SealTick, SealableNow, SealDetach, SealCount, SealExport, SealRename,
     SealMark
<1>5. CASE SealDropFile \/ SealDropRow \/ SealUnlink \/ SealFails
  BY <1>5 DEF SealDropFile, SealDropRow, SealUnlink, SealFails, SealReturns
<1>6. CASE FlushPanics \/ Crash \/ Close \/ CatalogLost \/ Start
  BY <1>6 DEF FlushPanics, Crash, Close, GoDown, FlushEnds, SealReturns,
     CatalogLost, Start
<1>7. CASE RecoverStep
  BY <1>7 DEF RecoverStep, RecoverOrphan, RecoverRegister, RecoverMarkLost,
     RecoverReopen, RecoverNextRule
<1>8. QED
  BY ONLY <1>0, <1>1, <1>2, <1>3, <1>4, <1>5, <1>6, <1>7 DEF Next, FlushStep, SealStep

\* Only Recover marks a row lost, and then the segment is abandoned.
LEMMA LostStep ==
    ASSUME ReconcileInv, Next, TypeInv', NEW w \in Windows, state'[w] = "lost"
    PROVE  Abandoned(w)'
<1>1. CASE state[w] = "lost"
  BY <1>1, AbandonedStep DEF ReconcileInv
<1>2. CASE state[w] # "lost"
  <2> USE SegmentsAssumption DEF ReconcileInv, TypeInv, TypeOK, PhaseInv
  <2>1. \/ state' = state \/ FlushEnsureRow \/ SealDropRow \/ SealMark \/ CatalogLost
        \/ \E v \in Windows : RecoverRegister(v) \/ RecoverMarkLost(v)
    BY ONLY Next DEF Next, FlushStep, SealStep, RecoverStep, NextWindow,
       GraceElapses, FlushBegin, FlushLookup, FlushOpen, FlushPublish, FlushRoute,
       FlushPick, FlushInsert, FlushOpenFails, FlushInsertFails, FlushPanics,
       SealTick, SealDetach, SealCount, SealDropFile, SealExport, SealRename,
       SealUnlink, SealFails, Crash, Close, GoDown, Start, RecoverOrphan,
       RecoverReopen, RecoverNextRule, catalog
  <2>2. ~(FlushEnsureRow \/ SealDropRow \/ SealMark \/ CatalogLost)
    <3>1. ~FlushEnsureRow /\ ~SealDropRow /\ ~CatalogLost
      BY <1>2 DEF FlushEnsureRow, SealDropRow, CatalogLost
    <3>2. ~SealMark
      BY <1>2 DEF SealMark, catalog
    <3>3. QED
      BY <3>1, <3>2
  <2>3. \A v \in Windows : ~RecoverRegister(v)
    BY <1>2 DEF RecoverRegister
  <2>4. RecoverMarkLost(w)
    BY <1>2, <2>1, <2>2, <2>3 DEF RecoverMarkLost
  <2>5. QED
    BY <2>4 DEF RecoverMarkLost, Missing, Abandoned, Opening, Sealing, clock, disk,
       flush, seal
<1>3. QED
  BY <1>1, <1>2

\* ReconcileInv is inductive.
LEMMA ReconcileStep == ReconcileInv /\ [Next]_vars => ReconcileInv'
<1> SUFFICES ASSUME ReconcileInv, [Next]_vars PROVE ReconcileInv'
  OBVIOUS
<1>1. CASE Next
  <2>1. TypeInv' /\ PhaseInv'
    BY <1>1, TypeStep, PhaseStep DEF ReconcileInv
  <2>2. \A w \in Windows : RowInv(w)' /\ (state[w] = "lost" => Abandoned(w))'
    BY <1>1, <2>1, RowStep, LostStep
  <2>3. QED
    BY <1>1, <2>1, <2>2, ControlStep DEF ReconcileInv, RowInv
<1>2. CASE UNCHANGED vars
  BY <1>2 DEF vars, clock, disk, catalog, flush, seal, ReconcileInv, TypeInv,
     TypeOK, SealHolds, PhaseInv, Superseded, Missing, Empty, Abandoned
<1>3. QED
  BY <1>1, <1>2

\* Catalog, directory and map agree when Recover hands over, wherever earlier
\* processes and recoveries were cut and however late events were (Recover).
THEOREM RecoveryReconcilesAlways == Spec => RecoveryReconciles
<1> DEFINE Agree(w) == /\ active[w] = duck[w]
                       /\ state[w] = "active" <=> active[w] # None
                       /\ state[w] = "sealed" => parquet[w] # None
<1>1. ReconcileInv /\ [Next]_vars
      => [phase = "reopen" /\ phase' = "running" => \A w \in Windows : Agree(w)]_vars
  <2> SUFFICES ASSUME ReconcileInv, Next, phase = "reopen", phase' = "running",
                      NEW w \in Windows
               PROVE  Agree(w)
    OBVIOUS
  <2>1. RecoverNextRule
    BY DEF Next, FlushStep, SealStep, RecoverStep, NextWindow, GraceElapses,
       FlushBegin, FlushLookup, FlushOpen, FlushEnsureRow, FlushPublish,
       FlushRoute, FlushPick, FlushInsert, FlushOpenFails, FlushInsertFails,
       FlushPanics, SealTick, SealDetach, SealCount, SealDropFile, SealDropRow,
       SealExport, SealRename, SealMark, SealUnlink, SealFails, Crash, Close,
       GoDown, Start, CatalogLost, RecoverOrphan, RecoverRegister, RecoverMarkLost,
       RecoverReopen
  <2>2. ~Unopened(w) /\ ~Missing(w)
    BY <2>1 DEF RecoverNextRule, ReconcileInv, PhaseInv
  <2>3. ~Superseded(w) /\ (duck[w] # None => state[w] # "none")
    BY DEF ReconcileInv, PhaseInv
  <2>4. active[w] = duck[w]
    BY <2>2 DEF Unopened, ReconcileInv
  <2>5. /\ state[w] \in {"none", "active", "sealed", "lost"}
        /\ state[w] = "sealed" => parquet[w] # None
        /\ state[w] = "lost" => duck[w] = None
    BY DEF ReconcileInv, TypeInv, TypeOK, Abandoned
  <2>6. QED
    BY <2>2, <2>3, <2>4, <2>5 DEF Missing, Superseded
<1>2. Init => ReconcileInv
  <2> SUFFICES ASSUME Init PROVE ReconcileInv
    OBVIOUS
  <2>1. TypeInv
    BY TypeInit
  <2>2. PhaseInv
    BY SegmentsAssumption DEF Init, PhaseInv, Superseded, Windows
  <2>3. QED
    BY <2>1, <2>2 DEF Init, ReconcileInv, Sealing
<1>3. QED
  BY <1>1, <1>2, ReconcileStep, PTL DEF Spec, RecoveryReconciles

(***************************************************************************)
(* Segments implements EventStore.  A segment's events are those of its    *)
(* files; where there are two, they hold the same.                         *)
(***************************************************************************)
mapped == <<[w \in Windows |-> OnDisk(w)], {w \in Windows : parquet[w] # None}, written>>

\* No events move: the store does not see the step.
LEMMA StoreStutters ==
    ASSUME \A w \in Windows : OnDisk(w)' = OnDisk(w),
           \A w \in Windows : parquet'[w] # None <=> parquet[w] # None,
           written' = written
    PROVE  UNCHANGED mapped
<1>1. [w \in Windows |-> OnDisk(w)]' = [w \in Windows |-> OnDisk(w)]
  OBVIOUS
<1>2. {w \in Windows : parquet[w] # None}' = {w \in Windows : parquet[w] # None}
  OBVIOUS
<1>3. QED
  BY <1>1, <1>2 DEF mapped

\* InsertBatch, whole or cut, adds part of a group to the segment it was
\* routed to, which is not sealed and alone has those events.
LEMMA StoreInserts ==
    ASSUME PunctualInv, OneHome', NEW t \in Windows, t = target,
           NEW batch \in SUBSET groups[t], fpc = "insert",
           rows' = [rows EXCEPT ![ffile] = @ \cup batch], UNCHANGED <<duck, parquet>>,
           written' \in {written, written \cup batch}
    PROVE  Store!Insert(t, batch)
<1> USE SegmentsAssumption DEF PunctualInv, TypeInv, TypeOK
<1>1. /\ ffile \in Files /\ active[t] = ffile /\ duck[t] = ffile /\ parquet[t] = None
  BY DEF FlushInv, DiskInv
<1>2. \A w \in Windows \ {t} : duck[w] # ffile
  BY <1>1 DEF DiskInv
<1>3. rows'[ffile] = rows[ffile] \cup batch
  BY <1>1
<1>4. \A f \in Files \ {ffile} : rows'[f] = rows[f]
  OBVIOUS
<1>5. OnDisk(t)' = OnDisk(t) \cup batch
  <2>1. OnDisk(t) = rows[ffile]
    BY <1>1 DEF OnDisk
  <2>2. OnDisk(t)' = rows'[ffile]
    BY <1>1 DEF OnDisk
  <2>3. QED
    BY <1>3, <2>1, <2>2
<1>6. \A w \in Windows \ {t} : OnDisk(w)' = OnDisk(w)
  BY <1>2, <1>4 DEF OnDisk
<1>7. [w \in Windows |-> OnDisk(w)]'
      = [[w \in Windows |-> OnDisk(w)] EXCEPT ![t] = @ \cup batch]
  BY ONLY <1>5, <1>6
<1>8. \A v \in Windows \ {t} : OnDisk(v) \cap batch = {}
  <2>1. \A v \in Windows \ {t} : OnDisk(v)' \cap OnDisk(t)' = {}
    BY DEF OneHome
  <2>2. QED
    BY ONLY <1>5, <1>6, <2>1
<1>9. QED
  BY <1>1, <1>7, <1>8 DEF Store!Insert

\* The rename of sealOne puts the segment's events in place as they are.
LEMMA StoreSeals ==
    ASSUME PunctualInv, SealRename, NEW t \in Windows, t = swin PROVE Store!Seal(t)
<1> USE SegmentsAssumption DEF PunctualInv, TypeInv, TypeOK
<1>1. /\ parquet[t] = None /\ duck[t] = sfile
      /\ sfile # None /\ sexport = rows[sfile] /\ sexport # None
  BY DEF SealRename, SealInv, Sealing, SealHolds
<1>2. /\ parquet' = [parquet EXCEPT ![t] = sexport]
      /\ UNCHANGED <<duck, rows, written>>
  BY DEF SealRename
<1>3. \A w \in Windows : OnDisk(w)' = OnDisk(w)
  BY <1>1, <1>2 DEF OnDisk
<1>4. [w \in Windows |-> OnDisk(w)]' = [w \in Windows |-> OnDisk(w)]
  BY <1>3
<1>5. {w \in Windows : parquet[w] # None}' = {w \in Windows : parquet[w] # None} \cup {t}
  BY <1>1, <1>2
<1>6. QED
  BY <1>1, <1>2, <1>4, <1>5 DEF Store!Seal

\* Every step is one of the store, or changes nothing it sees.
LEMMA StoreStep ==
    PunctualInv /\ OneHome' /\ [Next]_vars => [Store!Next]_mapped
<1> SUFFICES ASSUME PunctualInv, OneHome', [Next]_vars
             PROVE  Store!Next \/ UNCHANGED mapped
  OBVIOUS
<1> USE SegmentsAssumption DEF PunctualInv, TypeInv, TypeOK
<1>0. target \in Windows /\ swin \in Windows
  OBVIOUS
<1>1. CASE FlushInsert
  <2>1. PICK t \in Windows, batch \in SUBSET Events : t = target /\ batch = groups[t]
    BY <1>0
  <2>2. Store!Insert(t, batch)
    BY <1>1, <2>1, StoreInserts DEF FlushInsert
  <2>3. QED
    BY ONLY <2>2 DEF Store!Next
<1>2. CASE FlushInsertFails
  <2>1. PICK t \in Windows, kept \in SUBSET Events :
           /\ t = target /\ kept \subseteq groups[t]
           /\ rows' = [rows EXCEPT ![ffile] = @ \cup kept]
    BY <1>0, <1>2 DEF FlushInsertFails
  <2>2. Store!Insert(t, kept)
    BY <1>2, <2>1, StoreInserts DEF FlushInsertFails
  <2>3. QED
    BY ONLY <2>2 DEF Store!Next
<1>3. CASE SealRename
  <2>1. PICK t \in Windows : t = swin
    BY <1>0
  <2>2. Store!Seal(t)
    BY <1>3, <2>1, StoreSeals
  <2>3. QED
    BY ONLY <2>2 DEF Store!Next
<1>4. CASE FlushOpen
  <2>1. \A w \in Windows : OnDisk(w)' = OnDisk(w)
    BY <1>4 DEF FlushOpen, Unused, OnDisk
  <2>2. QED
    BY <1>4, <2>1, StoreStutters DEF FlushOpen
<1>5. CASE SealDropFile
  <2>1. \A w \in Windows : OnDisk(w)' = OnDisk(w)
    BY <1>5 DEF SealDropFile, SealInv, Sealing, OnDisk
  <2>2. QED
    BY <1>5, <2>1, StoreStutters DEF SealDropFile
<1>6. CASE SealUnlink
  <2>1. \A w \in Windows : OnDisk(w)' = OnDisk(w)
    BY <1>6 DEF SealUnlink, SealInv, Sealing, SealHolds, OnDisk
  <2>2. QED
    BY <1>6, <2>1, StoreStutters DEF SealUnlink
<1>7. ASSUME NEW v \in Windows, RecoverOrphan(v) PROVE UNCHANGED mapped
  <2>1. \A w \in Windows : OnDisk(w)' = OnDisk(w)
    BY <1>7 DEF RecoverOrphan, Superseded, DiskInv, OnDisk
  <2>2. QED
    BY <1>7, <2>1, StoreStutters DEF RecoverOrphan
<1>8. CASE UNCHANGED <<duck, rows, parquet, written>>
  BY <1>8, StoreStutters DEF OnDisk
<1>9. \/ UNCHANGED <<duck, rows, parquet, written>>
      \/ FlushInsert \/ FlushInsertFails \/ FlushOpen
      \/ SealRename \/ SealDropFile \/ SealUnlink
      \/ \E v \in Windows : RecoverOrphan(v)
  BY ONLY [Next]_vars DEF Next, FlushStep, SealStep, RecoverStep, NextWindow,
     GraceElapses, FlushBegin, FlushLookup, FlushEnsureRow, FlushPublish,
     FlushRoute, FlushPick, FlushOpenFails, FlushPanics, SealTick, SealDetach,
     SealCount, SealDropRow, SealExport, SealMark, SealFails, Crash, Close,
     GoDown, Start, CatalogLost, RecoverRegister, RecoverMarkLost, RecoverReopen,
     RecoverNextRule, disk, vars
<1>10. QED
  BY <1>1, <1>2, <1>3, <1>4, <1>5, <1>6, <1>7, <1>8, <1>9

\* Flush, seal, failures, crashes and recovery, in any interleaving, are the
\* store: a segment gains events until sealed and loses none, no two share an
\* event, and acknowledged events are in one (Manager.Flush, sealOne, Recover).
THEOREM SegmentsImplementStore == ASSUME Punctual PROVE Spec => IsEventStore
<1>1. Init => Store!Init
  BY SegmentsAssumption DEF Init, Store!Init, OnDisk
<1>2. PunctualInv /\ OneHome' /\ [Next]_vars
      => [Store!Next]_<<[w \in Windows |-> OnDisk(w)],
                        {w \in Windows : parquet[w] # None}, written>>
  BY StoreStep DEF mapped
<1>3. QED
  BY <1>1, <1>2, PunctualAlways, OneHomeAlways, PTL
     DEF Spec, IsEventStore, Store!Spec, Store!vars
=============================================================================
