-------------------------- MODULE LifecycleProofs ---------------------------
(***************************************************************************)
(* Proofs about Lifecycle, for any number of workers: the commit marker,   *)
(* the last copy of a sealed segment's data, and the copy behind every     *)
(* archived row.                                                           *)
(***************************************************************************)
EXTENDS Lifecycle, TLAPS

\* What a worker is after it took up a task, and that the others stay.
LEMMA BeginWork ==
    ASSUME TypeOK, NEW w \in Workers, NEW task \in AllTasks, NEW label \in Labels,
           NEW plan \in Plans, Begin(w, task, label, row, plan)
    PROVE  /\ work' \in [Workers -> Work]
           /\ work'[w].at = label /\ work'[w].task = task
           /\ work'[w].snap = row /\ work'[w].plan = plan
           /\ \A v \in Workers : v # w => work'[v] = work[v]
BY DEF Begin, TypeOK, Work

\* A worker that goes on keeps its task, its snapshot and its plan.
LEMMA GotoWork ==
    ASSUME TypeOK, NEW w \in Workers, NEW label \in Labels, Goto(w, label)
    PROVE  /\ work' \in [Workers -> Work]
           /\ work'[w].at = label /\ work'[w].task = work[w].task
           /\ work'[w].snap = work[w].snap /\ work'[w].plan = work[w].plan
           /\ \A v \in Workers : v # w => work'[v] = work[v]
BY DEF Goto, TypeOK, Work

\* A worker that returns is idle and remembers nothing.
LEMMA ReturnWork ==
    ASSUME TypeOK, NEW w \in Workers, Return(w)
    PROVE  /\ work' \in [Workers -> Work]
           /\ work'[w].at = "idle" /\ work'[w].task = "none"
           /\ work'[w].snap = NoRow /\ work'[w].plan = "none"
           /\ \A v \in Workers : v # w => work'[v] = work[v]
<1>1. Idle \in Work
  BY DEF Idle, Work, Labels, Plans, NoRow, Row
<1>2. work'[w] = Idle
  BY DEF Return, TypeOK
<1>3. QED
  BY <1>1, <1>2 DEF Return, TypeOK, Idle

\* The catalog statements write rows of the table's shape.
LEMMA RowShape ==
    ASSUME NEW r \in Row, NEW state \in {"none", "sealed", "archived", "rehydrated", "lost"},
           NEW path \in {"none", "sealed", "rehydrated"}, NEW ref \in BOOLEAN,
           NEW evict \in {"null", "later", "due"}
    PROVE  /\ NoRow \in Row
           /\ [r EXCEPT !.state = state, !.ref = ref] \in Row
           /\ [r EXCEPT !.state = state, !.path = path, !.evict = evict] \in Row
           /\ [NoRow EXCEPT !.state = state, !.path = path, !.evict = evict] \in Row
           /\ [r EXCEPT !.evict = evict] \in Row
           /\ [r EXCEPT !.state = state] \in Row
BY DEF Row, NoRow

\* A step of one worker leaves the shapes when it does so for that worker, for
\* the row and for the files.
LEMMA WorkerType ==
    ASSUME TypeInv, NEW w \in Workers, work' \in [Workers -> Work],
           \A v \in Workers : v # w => work'[v] = work[v],
           PlanFits(work'[w].at, work'[w].plan),
           row' \in Row, files' \subseteq {"sealed", "rehydrated"},
           remote' \in BOOLEAN, origin' = origin, up' = up,
           faults' \in Nat, restarts' = restarts
    PROVE  TypeInv'
<1>1. TypeOK'
  BY DEF TypeInv, TypeOK
<1>2. PlanInv'
  BY DEF TypeInv, PlanInv
<1>3. QED
  BY <1>1, <1>2 DEF TypeInv

\* What TypeInv says of one worker and of the row.
LEMMA Shapes ==
    ASSUME TypeInv, NEW w \in Workers
    PROVE  /\ TypeOK /\ work[w] \in Work /\ row \in Row
           /\ files \subseteq {"sealed", "rehydrated"} /\ remote \in BOOLEAN
           /\ faults \in Nat /\ PlanFits(work[w].at, work[w].plan)
BY DEF TypeInv, TypeOK, PlanInv

\* Taking up a task with a plan its first step understands.
LEMMA BeginType ==
    ASSUME TypeInv, NEW w \in Workers, NEW task \in AllTasks, NEW label \in Labels,
           NEW plan \in Plans, PlanFits(label, plan),
           Begin(w, task, label, row, plan),
           UNCHANGED <<row, files, remote, origin, up, faults, restarts>>
    PROVE  TypeInv'
BY BeginWork, Shapes, WorkerType

\* Going on with a plan the next step understands.
LEMMA GotoType ==
    ASSUME TypeInv, NEW w \in Workers, NEW label \in Labels, Goto(w, label),
           PlanFits(label, work[w].plan), row' = row,
           files' \subseteq {"sealed", "rehydrated"}, remote' \in BOOLEAN,
           UNCHANGED <<origin, up, faults, restarts>>
    PROVE  TypeInv'
BY GotoWork, Shapes, WorkerType

\* Returning with a well formed row.
LEMMA ReturnType ==
    ASSUME TypeInv, NEW w \in Workers, Return(w), row' \in Row,
           files' \subseteq {"sealed", "rehydrated"}, remote' \in BOOLEAN,
           faults' \in Nat, UNCHANGED <<origin, up, restarts>>
    PROVE  TypeInv'
<1>1. PlanFits("idle", "none")
  BY DEF PlanFits
<1>2. QED
  BY <1>1, ReturnWork, Shapes, WorkerType

\* The labels, tasks and plans the handlers use.
LEMMA Names ==
    /\ {"load", "upload", "mark", "remove", "clear", "check", "start", "bump",
        "retrieve", "rehydrated", "rename", "insert", "acquire", "open", "read"}
          \subseteq Labels
    /\ {"retain", "archive", "rehydrate", "sweep", "delete", "import", "query"}
          \subseteq AllTasks
    /\ {"none", "archive", "archived", "lost", "later", "null"} \subseteq Plans
BY DEF Labels, AllTasks, Plans

\* Every task is taken up with a plan its steps understand.
LEMMA BeginsType ==
    ASSUME TypeInv, NEW w \in Workers, Begins(w) PROVE TypeInv'
<1>1. CASE RetainPlan(w)
  <2>1. Decide(row) \in Plans /\ PlanFits("load", Decide(row))
    BY DEF Decide, Plans, PlanFits
  <2>2. QED
    BY <1>1, <2>1, BeginType, Names DEF RetainPlan
<1>2. CASE ArchiveSelect(w)
  <2>1. PlanFits("upload", "none")
    BY DEF PlanFits
  <2>2. QED
    BY <1>2, <2>1, BeginType, Names DEF ArchiveSelect
<1>3. EvictPlan(row) \in Plans /\ PlanFits("check", EvictPlan(row))
  BY DEF EvictPlan, Plans, PlanFits
<1>4. CASE Sweep(w)
  BY <1>3, <1>4, BeginType, Names DEF Sweep
<1>5. CASE DeleteRehydrated(w)
  BY <1>3, <1>5, BeginType, Names DEF DeleteRehydrated
<1>6. ASSUME NEW evict \in {"later", "null"}
      PROVE evict \in Plans /\ PlanFits("start", evict) /\ PlanFits("rename", evict)
  BY DEF PlanFits, Plans
<1>7. ASSUME NEW evict \in {"later", "null"}, RehydrateSelect(w, evict)
      PROVE TypeInv'
  BY <1>6, <1>7, BeginType, Names DEF RehydrateSelect
<1>8. ASSUME NEW evict \in {"later", "null"}, ImportCheck(w, evict)
      PROVE TypeInv'
  BY <1>6, <1>8, BeginType, Names DEF ImportCheck
<1>9. CASE QueryList(w)
  <2>1. PlanFits("acquire", "none")
    BY DEF PlanFits
  <2>2. QED
    BY <1>9, <2>1, BeginType, Names DEF QueryList
<1>10. CASE AdminRehydrate(w)
  <2>1. "later" \in Plans /\ PlanFits("retrieve", "later")
    BY DEF PlanFits, Plans
  <2>2. QED
    BY <1>10, <2>1, BeginType, Names DEF AdminRehydrate
<1>11. QED
  BY <1>1, <1>2, <1>4, <1>5, <1>7, <1>8, <1>9, <1>10 DEF Begins

\* Every step of a worker leaves a well formed row and a usable plan.
LEMMA ContinuesType ==
    ASSUME TypeInv, NEW w \in Workers, Continues(w) PROVE TypeInv'
<1>0. /\ TypeOK /\ work[w] \in Work /\ row \in Row
      /\ files \subseteq {"sealed", "rehydrated"} /\ remote \in BOOLEAN
      /\ faults \in Nat /\ PlanFits(work[w].at, work[w].plan)
  BY Shapes
<1> USE DEF At
<1>1. CASE RetainLoad(w)
  <2>1. CASE Return(w)
    BY <1>0, <1>1, <2>1, ReturnType DEF RetainLoad
  <2>2. ASSUME NEW label \in {"remove", "upload"},
               work' = [work EXCEPT ![w].at = label, ![w].snap = row],
               label = "remove" => work[w].plan # "archive"
        PROVE TypeInv'
    <3>1. /\ work' \in [Workers -> Work]
          /\ work'[w].at = label /\ work'[w].plan = work[w].plan
          /\ \A v \in Workers : v # w => work'[v] = work[v]
      BY <1>0, <2>2, Names DEF TypeOK, Work
    <3>2. work[w].plan \in {"archive", "archived", "lost"}
      BY <1>0, <1>1 DEF RetainLoad, PlanFits
    <3>3. PlanFits(work'[w].at, work'[w].plan)
      BY <2>2, <3>1, <3>2 DEF PlanFits
    <3>4. QED
      BY <1>0, <1>1, <3>1, <3>3, WorkerType DEF RetainLoad
  <2>3. QED
    BY <1>1, <2>1, <2>2 DEF RetainLoad
<1>2. CASE Upload(w)
  <2>1. CASE Return(w)
    BY <1>0, <1>2, <2>1, ReturnType DEF Upload
  <2>2. CASE Goto(w, "mark")
    <3>1. PlanFits("mark", work[w].plan) /\ remote' \in BOOLEAN
      BY <1>0, <1>2 DEF Upload, PlanFits
    <3>2. QED
      BY <1>0, <1>2, <2>2, <3>1, GotoType, Names DEF Upload
  <2>3. QED
    BY <1>2, <2>1, <2>2 DEF Upload
<1>3. CASE MarkArchived(w)
  <2>1. row' \in Row
    <3>1. row.ref \in BOOLEAN
      BY <1>0 DEF Row
    <3>2. PICK ref \in BOOLEAN :
             row' = [row EXCEPT !.state = "archived", !.ref = ref]
      BY <1>3, <3>1 DEF MarkArchived
    <3>3. QED
      BY <1>0, <3>2, RowShape
  <2>2. CASE Return(w)
    BY <1>0, <1>3, <2>1, <2>2, ReturnType DEF MarkArchived
  <2>3. CASE work' = [work EXCEPT ![w].at = "remove", ![w].plan = "archived"]
    <3>1. /\ work' \in [Workers -> Work]
          /\ work'[w].at = "remove" /\ work'[w].plan = "archived"
          /\ \A v \in Workers : v # w => work'[v] = work[v]
      BY <1>0, <2>3, Names DEF TypeOK, Work
    <3>2. PlanFits("remove", "archived")
      BY DEF PlanFits
    <3>3. QED
      BY <1>0, <1>3, <2>1, <3>1, <3>2, WorkerType DEF MarkArchived
  <2>4. QED
    BY <1>3, <2>2, <2>3 DEF MarkArchived
<1>4. CASE Remove(w)
  <2>1. PlanFits("clear", work[w].plan) /\ files' \subseteq {"sealed", "rehydrated"}
    BY <1>0, <1>4 DEF Remove, PlanFits
  <2>2. QED
    BY <1>0, <1>4, <2>1, GotoType, Names DEF Remove
<1>5. CASE ClearLocalFile(w)
  <2>1. work[w].plan \in {"archived", "lost"}
    BY <1>0, <1>5 DEF ClearLocalFile, PlanFits
  <2>2. row' \in Row
    BY <1>0, <1>5, <2>1, RowShape DEF ClearLocalFile
  <2>3. QED
    BY <1>0, <1>5, <2>2, ReturnType DEF ClearLocalFile
<1>6. CASE CheckBusy(w)
  <2>1. PlanFits("remove", work[w].plan)
    BY <1>0, <1>6 DEF CheckBusy, PlanFits
  <2>2. QED
    BY <1>0, <1>6, <2>1, ReturnType, GotoType, Names DEF CheckBusy
<1>7. CASE RehydrateStart(w)
  <2>1. Goto(w, "bump") \/ Goto(w, "retrieve")
    BY <1>7 DEF RehydrateStart
  <2>2. PlanFits("bump", work[w].plan) /\ PlanFits("retrieve", work[w].plan)
    BY <1>0, <1>7 DEF RehydrateStart, PlanFits
  <2>3. QED
    BY <1>0, <1>7, <2>1, <2>2, GotoType, Names DEF RehydrateStart
<1>8. CASE SetEvictAfter(w)
  <2>1. work[w].plan \in {"later", "null"}
    BY <1>0, <1>8 DEF SetEvictAfter, PlanFits
  <2>2. row' \in Row
    BY <1>0, <1>8, <2>1, RowShape DEF SetEvictAfter
  <2>3. QED
    BY <1>0, <1>8, <2>2, ReturnType DEF SetEvictAfter
<1>9. CASE Retrieve(w)
  <2>1. files' \subseteq {"sealed", "rehydrated"}
    BY <1>0, <1>9 DEF Retrieve
  <2>2. CASE Goto(w, "rehydrated")
    <3>1. PlanFits("rehydrated", work[w].plan)
      BY <1>0, <1>9 DEF Retrieve, PlanFits
    <3>2. QED
      BY <1>0, <1>9, <2>1, <2>2, <3>1, GotoType, Names DEF Retrieve
  <2>3. CASE Return(w)
    BY <1>0, <1>9, <2>1, <2>3, ReturnType DEF Retrieve
  <2>4. QED
    BY <1>9, <2>2, <2>3 DEF Retrieve
<1>10. CASE MarkRehydrated(w)
  <2>1. work[w].plan \in {"later", "null"}
    BY <1>0, <1>10 DEF MarkRehydrated, PlanFits
  <2>2. row' \in Row
    BY <1>0, <1>10, <2>1, RowShape DEF MarkRehydrated
  <2>3. QED
    BY <1>0, <1>10, <2>2, ReturnType DEF MarkRehydrated
<1>11. CASE ImportRename(w)
  <2>1. PlanFits("insert", work[w].plan) /\ files' \subseteq {"sealed", "rehydrated"}
    BY <1>0, <1>11 DEF ImportRename, PlanFits
  <2>2. QED
    BY <1>0, <1>11, <2>1, GotoType, Names DEF ImportRename
<1>12. CASE ImportInsert(w)
  <2>1. work[w].plan \in {"later", "null"}
    BY <1>0, <1>12 DEF ImportInsert, PlanFits
  <2>2. row' \in Row
    BY <1>0, <1>12, <2>1, RowShape DEF ImportInsert
  <2>3. files' \subseteq {"sealed", "rehydrated"}
    BY <1>0, <1>12 DEF ImportInsert
  <2>4. QED
    BY <1>0, <1>12, <2>2, <2>3, ReturnType DEF ImportInsert
<1>13. CASE QueryAcquire(w) \/ QueryOpen(w) \/ QueryRelease(w)
  <2>1. Goto(w, "open") \/ Goto(w, "read") \/ Return(w)
    BY <1>13 DEF QueryAcquire, QueryOpen, QueryRelease
  <2>2. UNCHANGED <<row, files, remote, origin, up, faults, restarts>>
    BY <1>13 DEF QueryAcquire, QueryOpen, QueryRelease
  <2>3. PlanFits("open", work[w].plan) /\ PlanFits("read", work[w].plan)
    BY DEF PlanFits
  <2>4. QED
    BY <1>0, <2>1, <2>2, <2>3, ReturnType, GotoType, Names
<1>14. QED
  BY <1>1, <1>2, <1>3, <1>4, <1>5, <1>6, <1>7, <1>8, <1>9, <1>10, <1>11, <1>12,
     <1>13 DEF Continues

\* So do the failures, the clock, crashes and restarts.
LEMMA TypeStep == TypeInv /\ [Next]_vars => TypeInv'
<1> SUFFICES ASSUME TypeInv, [Next]_vars PROVE TypeInv'
  OBVIOUS
<1>0. TypeOK /\ PlanInv /\ row \in Row
  BY DEF TypeInv, TypeOK
<1>1. ASSUME NEW w \in Workers, RetrieveFails(w) \/ ImportFails(w) \/ WorkerFails(w)
      PROVE TypeInv'
  <2>1. /\ Return(w) /\ UNCHANGED <<row, remote, origin, up, restarts>>
        /\ faults' = faults + 1 /\ files' \subseteq files
    BY <1>1 DEF RetrieveFails, ImportFails, WorkerFails, Faulty
  <2>2. /\ files' \subseteq {"sealed", "rehydrated"} /\ faults' \in Nat
        /\ row' \in Row /\ remote' \in BOOLEAN
    BY <1>0, <2>1 DEF TypeOK
  <2>3. QED
    BY <2>1, <2>2, ReturnType
<1>2. CASE TTLElapses
  <2>1. row' \in Row
    BY <1>0, <1>2, RowShape DEF TTLElapses
  <2>2. QED
    BY <1>0, <1>2, <2>1 DEF TTLElapses, TypeInv, TypeOK, PlanInv
<1>3. CASE Crash
  <2>1. Idle \in Work /\ Idle.at = "idle"
    BY DEF Idle, Work, Labels, Plans, NoRow, Row
  <2>2. /\ work' \in [Workers -> Work]
        /\ \A w \in Workers : work'[w].at = "idle"
    BY <1>3, <2>1 DEF Crash
  <2>3. restarts' \in Nat /\ faults' \in Nat
    BY <1>0, <1>3 DEF Crash, TypeOK
  <2>4. TypeOK'
    BY <1>0, <1>3, <2>2, <2>3 DEF Crash, TypeOK
  <2>5. PlanInv'
    BY <2>2 DEF PlanInv, PlanFits
  <2>6. QED
    BY <2>4, <2>5 DEF TypeInv
<1>4. CASE Restart
  <2>1. row' \in Row
    BY <1>0, <1>4, RowShape DEF Restart
  <2>2. QED
    BY <1>0, <1>4, <2>1 DEF Restart, TypeInv, TypeOK, PlanInv
<1>5. CASE UNCHANGED vars
  BY <1>0, <1>5 DEF vars, TypeInv, TypeOK, PlanInv
<1>6. QED
  BY <1>1, <1>2, <1>3, <1>4, <1>5, BeginsType, ContinuesType DEF Next

\* The states a behaviour starts from are well formed and keep the promises.
LEMMA InitInv == Init => TypeInv /\ CopyInv
<1>1. NoRow \in Row /\ Idle \in Work /\ SealedRow \in Row /\ ArchivedRow \in Row
  BY DEF Idle, Work, Labels, Plans, NoRow, SealedRow, ArchivedRow, Row
<1>2. /\ Idle.at = "idle" /\ ~Idle.snap.ref
      /\ ~SealedRow.ref /\ SealedRow.state = "sealed" /\ ~NoRow.ref
  BY DEF Idle, NoRow, SealedRow
<1> SUFFICES ASSUME Init PROVE TypeInv /\ CopyInv
  OBVIOUS
<1>3. \A w \in Workers : work[w] = Idle
  BY DEF Init
<1>4. TypeInv
  <2>1. work \in [Workers -> Work]
    BY <1>1 DEF Init
  <2>2. row \in Row /\ files \subseteq {"sealed", "rehydrated"} /\ remote \in BOOLEAN
        /\ origin \in {"seal", "import"}
    BY <1>1 DEF Init
  <2>3. QED
    BY <1>2, <1>3, <2>1, <2>2 DEF Init, TypeInv, TypeOK, PlanInv, PlanFits, Idle
<1>5. CommitInv
  BY <1>2, <1>3, <1>4 DEF Init, CommitInv, ReferenceIsCommitted
<1>6. QED
  BY <1>2, <1>3, <1>4, <1>5 DEF Init, CopyInv

\* In every reachable state row, files and workers are well formed.
THEOREM LifecycleTypeCorrect == Spec => []TypeOK
<1>1. Spec => []TypeInv
  BY InitInv, TypeStep, PTL DEF Spec
<1>2. TypeInv => TypeOK
  BY DEF TypeInv
<1>3. QED
  BY <1>1, <1>2, PTL

\* A step of one worker keeps CopyInv when it does so for that worker, for the
\* row and for the files, and the archive loses nothing.
LEMMA WorkerKeeps ==
    ASSUME CopyInv, TypeInv', NEW w \in Workers,
           \A v \in Workers : v # w => work'[v] = work[v],
           origin' = origin, remote => remote', row'.ref => remote',
           work'[w].snap.ref => remote',
           work'[w].at \in {"mark", "rehydrated"} => remote',
           ArchiveFirst /\ origin = "seal" =>
              /\ "sealed" \in files' \/ remote'
              /\ row'.state # "sealed" => remote'
              /\ \/ work'[w].at \in {"check", "remove", "clear"}
                 \/ work'[w].at = "load" /\ work'[w].plan # "archive"
                 => remote'
    PROVE  CopyInv'
<1>1. CommitInv'
  BY DEF CopyInv, CommitInv, ReferenceIsCommitted
<1>2. QED
  BY <1>1 DEF CopyInv

\* A task is taken up from what the row says, and the row knows of the copy.
LEMMA BeginCopy ==
    ASSUME CopyInv, TypeInv', NEW w \in Workers, NEW task \in AllTasks,
           NEW label \in Labels, NEW plan \in Plans,
           Begin(w, task, label, row, plan),
           UNCHANGED <<row, files, remote, origin>>,
           label \notin {"mark", "rehydrated"},
           \/ label \notin {"load", "check", "remove", "clear"}
           \/ label = "load" /\ plan = "archive"
           \/ ArchiveFirst => row.state # "sealed" \/ row.ref
    PROVE  CopyInv'
<1>1. TypeOK /\ (row.ref => remote)
  BY DEF CopyInv, CommitInv, TypeInv, ReferenceIsCommitted
<1>2. /\ work'[w].at = label /\ work'[w].snap = row /\ work'[w].plan = plan
      /\ \A v \in Workers : v # w => work'[v] = work[v]
  BY <1>1, BeginWork
<1>3. ArchiveFirst /\ origin = "seal" =>
         ("sealed" \in files \/ remote) /\ (row.state # "sealed" => remote)
  BY DEF CopyInv
<1>4. QED
  BY <1>1, <1>2, <1>3, WorkerKeeps

\* Whichever task it is.
LEMMA BeginsCopy ==
    ASSUME CopyInv, TypeInv', NEW w \in Workers, Begins(w) PROVE CopyInv'
<1>1. CASE RetainPlan(w)
  <2>1. /\ Decide(row) \in Plans
        /\ Decide(row) = "archive" \/ (ArchiveFirst => row.state # "sealed" \/ row.ref)
    BY DEF Decide, Plans
  <2>2. QED
    BY <1>1, <2>1, BeginCopy, Names DEF RetainPlan
<1>2. CASE ArchiveSelect(w)
  BY <1>2, BeginCopy, Names DEF ArchiveSelect
<1>3. EvictPlan(row) \in Plans
  BY DEF EvictPlan, Plans
<1>4. CASE Sweep(w)
  BY <1>3, <1>4, BeginCopy, Names DEF Sweep
<1>5. CASE DeleteRehydrated(w)
  BY <1>3, <1>5, BeginCopy, Names DEF DeleteRehydrated
<1>6. ASSUME NEW evict \in {"later", "null"}
      PROVE evict \in Plans
  BY DEF Plans
<1>7. ASSUME NEW evict \in {"later", "null"}, RehydrateSelect(w, evict)
      PROVE CopyInv'
  BY <1>6, <1>7, BeginCopy, Names DEF RehydrateSelect
<1>8. ASSUME NEW evict \in {"later", "null"}, ImportCheck(w, evict)
      PROVE CopyInv'
  BY <1>6, <1>8, BeginCopy, Names DEF ImportCheck
<1>9. CASE QueryList(w)
  BY <1>9, BeginCopy, Names DEF QueryList
<1>10. CASE AdminRehydrate(w)
  BY <1>10, BeginCopy, Names DEF AdminRehydrate
<1>11. QED
  BY <1>1, <1>2, <1>4, <1>5, <1>7, <1>8, <1>9, <1>10 DEF Begins

\* Each step of archiving, removing, rehydrating, importing and querying.
LEMMA ContinuesCopy ==
    ASSUME CopyInv, TypeInv', NEW w \in Workers, Continues(w) PROVE CopyInv'
<1> USE DEF CopyInv, CommitInv, TypeInv, ReferenceIsCommitted, At
<1>0. ~NoRow.ref /\ row \in Row /\ work[w] \in Work
  BY DEF NoRow, TypeOK
<1>1. CASE RetainLoad(w)
  <2>1. CASE Return(w)
    BY <1>0, <1>1, <2>1, ReturnWork, WorkerKeeps DEF RetainLoad
  <2>2. ASSUME NEW label \in {"remove", "upload"},
               work' = [work EXCEPT ![w].at = label, ![w].snap = row],
               label = "remove" => work[w].plan # "archive"
        PROVE CopyInv'
    <3>1. /\ work'[w].at = label /\ work'[w].snap = row
          /\ \A v \in Workers : v # w => work'[v] = work[v]
      BY <2>2 DEF TypeOK, Work
    <3>2. QED
      BY <1>1, <2>2, <3>1, WorkerKeeps DEF RetainLoad
  <2>3. QED
    BY <1>1, <2>1, <2>2 DEF RetainLoad
<1>2. CASE Upload(w)
  <2>1. CASE Return(w)
    BY <1>0, <1>2, <2>1, ReturnWork, WorkerKeeps DEF Upload
  <2>2. CASE remote' /\ Goto(w, "mark")
    BY <1>2, <2>2, GotoWork, WorkerKeeps DEF Upload, Labels
  <2>3. QED
    BY <1>2, <2>1, <2>2 DEF Upload
<1>3. CASE MarkArchived(w)
  <2>1. remote /\ remote'
    BY <1>3 DEF MarkArchived
  <2>2. \A v \in Workers : v # w => work'[v] = work[v]
    BY <1>3, ReturnWork DEF MarkArchived, TypeOK
  <2>3. QED
    BY <1>3, <2>1, <2>2, WorkerKeeps DEF MarkArchived
<1>4. CASE Remove(w)
  BY <1>4, GotoWork, WorkerKeeps DEF Remove, Labels
<1>5. CASE ClearLocalFile(w)
  <2>1. row'.ref = row.ref
    BY <1>0, <1>5 DEF ClearLocalFile, Row
  <2>2. QED
    BY <1>0, <1>5, <2>1, ReturnWork, WorkerKeeps DEF ClearLocalFile
<1>6. CASE CheckBusy(w)
  BY <1>0, <1>6, ReturnWork, GotoWork, WorkerKeeps DEF CheckBusy, Labels
<1>7. CASE RehydrateStart(w)
  <2>1. Goto(w, "bump") \/ Goto(w, "retrieve")
    BY <1>7 DEF RehydrateStart
  <2>2. QED
    BY <1>7, <2>1, GotoWork, WorkerKeeps DEF RehydrateStart, Labels
<1>8. CASE SetEvictAfter(w)
  <2>1. row'.ref = row.ref /\ row'.state = row.state
    BY <1>0, <1>8 DEF SetEvictAfter, Row
  <2>2. QED
    BY <1>0, <1>8, <2>1, ReturnWork, WorkerKeeps DEF SetEvictAfter
<1>9. CASE Retrieve(w)
  <2>1. CASE Return(w)
    BY <1>0, <1>9, <2>1, ReturnWork, WorkerKeeps DEF Retrieve
  <2>2. CASE remote /\ Goto(w, "rehydrated") /\ files' = files \cup {"rehydrated"}
    BY <1>9, <2>2, GotoWork, WorkerKeeps DEF Retrieve, Labels
  <2>3. QED
    BY <1>9, <2>1, <2>2 DEF Retrieve
<1>10. CASE MarkRehydrated(w)
  <2>1. remote /\ remote'
    BY <1>10 DEF MarkRehydrated
  <2>2. QED
    BY <1>10, <2>1, ReturnWork, WorkerKeeps DEF MarkRehydrated
<1>11. CASE ImportRename(w)
  BY <1>11, GotoWork, WorkerKeeps DEF ImportRename, Labels
<1>12. CASE ImportInsert(w)
  <2>1. /\ "sealed" \in files => "sealed" \in files'
        /\ row.state = "none" => ~row'.ref
        /\ row.state # "none" => row' = row
    BY <1>12 DEF ImportInsert, NoRow
  <2>2. QED
    BY <1>0, <1>12, <2>1, ReturnWork, WorkerKeeps DEF ImportInsert
<1>13. CASE QueryAcquire(w) \/ QueryOpen(w) \/ QueryRelease(w)
  <2>1. Goto(w, "open") \/ Goto(w, "read") \/ Return(w)
    BY <1>13 DEF QueryAcquire, QueryOpen, QueryRelease
  <2>2. UNCHANGED <<row, files, remote, origin>>
    BY <1>13 DEF QueryAcquire, QueryOpen, QueryRelease
  <2>3. QED
    BY <1>0, <2>1, <2>2, ReturnWork, GotoWork, WorkerKeeps DEF Labels
<1>14. QED
  BY <1>1, <1>2, <1>3, <1>4, <1>5, <1>6, <1>7, <1>8, <1>9, <1>10, <1>11, <1>12,
     <1>13 DEF Continues

\* Failures, the clock, crashes and the lost rows of Recover.
LEMMA CopyStep == CopyInv /\ [Next]_vars => CopyInv'
<1> SUFFICES ASSUME CopyInv, [Next]_vars PROVE CopyInv'
  OBVIOUS
<1>0. TypeInv /\ TypeInv' /\ ~NoRow.ref /\ row \in Row
  BY TypeStep DEF CopyInv, CommitInv, NoRow, TypeInv, TypeOK
<1> USE DEF CopyInv, CommitInv, ReferenceIsCommitted
<1>1. ASSUME NEW w \in Workers, RetrieveFails(w) \/ ImportFails(w) \/ WorkerFails(w)
      PROVE CopyInv'
  <2>1. /\ Return(w) /\ UNCHANGED <<row, remote, origin>>
        /\ "sealed" \in files => "sealed" \in files'
    BY <1>1 DEF RetrieveFails, ImportFails, WorkerFails
  <2>2. TypeOK
    BY <1>0 DEF TypeInv
  <2>3. QED
    BY <1>0, <2>1, <2>2, ReturnWork, WorkerKeeps
<1>2. CASE TTLElapses
  <2>1. row'.ref = row.ref /\ row'.state = row.state
    BY <1>0, <1>2 DEF TTLElapses, Row
  <2>2. QED
    BY <1>0, <1>2, <2>1 DEF TTLElapses
<1>3. CASE Crash
  <2>1. \A w \in Workers : work'[w].at = "idle" /\ ~work'[w].snap.ref
    BY <1>0, <1>3 DEF Crash, Idle
  <2>2. QED
    BY <1>0, <1>3, <2>1 DEF Crash
<1>4. CASE Restart
  <2>1. /\ row'.ref = row.ref
        /\ row'.state = row.state \/ "sealed" \notin files
    BY <1>0, <1>4 DEF Restart, Row
  <2>2. QED
    BY <1>0, <1>4, <2>1 DEF Restart
<1>5. CASE UNCHANGED vars
  BY <1>0, <1>5 DEF vars
<1>6. QED
  BY <1>0, <1>1, <1>2, <1>3, <1>4, <1>5, BeginsCopy, ContinuesCopy DEF Next

\* Whoever overlaps, fails or crashes: behind every row, worker and removal of
\* a sealed segment there is a file or a committed copy.
THEOREM CopyInvAlways == Spec => []CopyInv
<1>1. Init => CopyInv
  BY InitInv
<1>2. QED
  BY <1>1, CopyStep, PTL DEF Spec

\* With archive_before_delete the data of a sealed segment is never gone, for
\* any number of passes, jobs, evictions and queries at once.
THEOREM LastCopyKeptAlways == Spec => []LastCopyKept
<1>1. CopyInv => LastCopyKept
  BY DEF CopyInv, LastCopyKept
<1>2. QED
  BY <1>1, CopyInvAlways, PTL

\* An archive reference in the catalog is always that of a committed copy.
THEOREM ReferenceIsCommittedAlways == Spec => []ReferenceIsCommitted
<1>1. CopyInv => ReferenceIsCommitted
  BY DEF CopyInv, CommitInv
<1>2. QED
  BY <1>1, CopyInvAlways, PTL

\* Both together: what the archive stands for, whatever overlaps or fails.
THEOREM CopiesTrueAlways == Spec => []CopiesTrue
  BY LastCopyKeptAlways, ReferenceIsCommittedAlways, PTL DEF CopiesTrue

(***************************************************************************)
(* The promise of the state archived.                                      *)
(***************************************************************************)

\* A step of one worker keeps ArchivedInv when it does so for that worker and
\* the row, and nothing leaves the archive.
LEMMA WorkerVouches ==
    ASSUME ArchivedInv, CommitInv', NEW w \in Workers,
           \A v \in Workers : v # w => work'[v] = work[v],
           origin' = origin, remote => remote',
           Vouched /\ row'.state = "archived" => remote',
           /\ Vouched /\ work'[w].at \in {"load", "check", "remove", "clear"}
           /\ work'[w].plan = "archived"
           => remote',
           origin = "seal" =>
              /\ row'.state # "none"
              /\ row'.state = "rehydrated" => remote'
              /\ work'[w].at \notin {"rename", "insert"}
    PROVE  ArchivedInv'
BY DEF ArchivedInv, ArchivedHasCopy, Vouched

\* A task taken up from what the row says.
LEMMA BeginVouches ==
    ASSUME ArchivedInv, CommitInv', NEW w \in Workers, NEW task \in AllTasks,
           NEW label \in Labels, NEW plan \in Plans,
           Begin(w, task, label, row, plan),
           UNCHANGED <<row, files, remote, origin>>,
           label \in {"rename", "insert"} => row.state = "none",
           /\ Vouched /\ label \in {"load", "check", "remove", "clear"}
           /\ plan = "archived"
           => remote
    PROVE  ArchivedInv'
<1>1. TypeOK
  BY DEF ArchivedInv, CommitInv, TypeInv
<1>2. /\ work'[w].at = label /\ work'[w].plan = plan
      /\ \A v \in Workers : v # w => work'[v] = work[v]
  BY <1>1, BeginWork
<1>3. /\ Vouched /\ row.state = "archived" => remote
      /\ origin = "seal" =>
            row.state # "none" /\ (row.state = "rehydrated" => remote)
  BY DEF ArchivedInv, ArchivedHasCopy
<1>4. QED
  BY <1>2, <1>3, WorkerVouches

\* Whichever task it is: a plan to archive comes from an archived row, from a
\* rehydrated row of a segment sealed here, or from a recorded reference.
LEMMA BeginsVouches ==
    ASSUME ArchivedInv, CommitInv', NEW w \in Workers, Begins(w)
    PROVE  ArchivedInv'
<1>1. CASE RetainPlan(w)
  <2>1. Decide(row) \in Plans
    BY DEF Decide, Plans
  <2>2. Vouched /\ Decide(row) = "archived" => remote
    BY <1>1 DEF RetainPlan, Free, Decide, ArchivedInv, ArchivedHasCopy, Vouched
  <2>3. QED
    BY <1>1, <2>1, <2>2, BeginVouches, Names DEF RetainPlan
<1>2. CASE ArchiveSelect(w)
  BY <1>2, BeginVouches, Names DEF ArchiveSelect
<1>3. EvictPlan(row) \in Plans /\ (EvictPlan(row) = "archived" => remote)
  BY DEF EvictPlan, Plans, ArchivedInv, CommitInv, ReferenceIsCommitted
<1>4. CASE Sweep(w)
  BY <1>3, <1>4, BeginVouches, Names DEF Sweep
<1>5. CASE DeleteRehydrated(w)
  BY <1>3, <1>5, BeginVouches, Names DEF DeleteRehydrated
<1>6. ASSUME NEW evict \in {"later", "null"}
      PROVE evict \in Plans
  BY DEF Plans
<1>7. ASSUME NEW evict \in {"later", "null"}, RehydrateSelect(w, evict)
      PROVE ArchivedInv'
  BY <1>6, <1>7, BeginVouches, Names DEF RehydrateSelect
<1>8. ASSUME NEW evict \in {"later", "null"}, ImportCheck(w, evict)
      PROVE ArchivedInv'
  BY <1>6, <1>8, BeginVouches, Names DEF ImportCheck
<1>9. CASE QueryList(w)
  BY <1>9, BeginVouches, Names DEF QueryList
<1>10. CASE AdminRehydrate(w)
  BY <1>10, BeginVouches, Names DEF AdminRehydrate
<1>11. QED
  BY <1>1, <1>2, <1>4, <1>5, <1>7, <1>8, <1>9, <1>10 DEF Begins

\* Each step of the tasks.
LEMMA ContinuesVouches ==
    ASSUME ArchivedInv, CommitInv', NEW w \in Workers, Continues(w)
    PROVE  ArchivedInv'
<1> USE DEF ArchivedInv, ArchivedHasCopy, CommitInv, TypeInv, At
<1>0. row \in Row /\ work[w] \in Work /\ NoRow.state = "none"
  BY DEF NoRow, TypeOK
<1>1. CASE RetainLoad(w)
  <2>1. CASE Return(w)
    BY <1>1, <2>1, ReturnWork, WorkerVouches DEF RetainLoad
  <2>2. ASSUME NEW label \in {"remove", "upload"},
               work' = [work EXCEPT ![w].at = label, ![w].snap = row]
        PROVE ArchivedInv'
    <3>1. /\ work'[w].at = label /\ work'[w].plan = work[w].plan
          /\ \A v \in Workers : v # w => work'[v] = work[v]
      BY <2>2 DEF TypeOK, Work
    <3>2. QED
      BY <1>1, <2>2, <3>1, WorkerVouches DEF RetainLoad
  <2>3. QED
    BY <1>1, <2>1, <2>2 DEF RetainLoad
<1>2. CASE Upload(w)
  <2>1. CASE Return(w)
    BY <1>2, <2>1, ReturnWork, WorkerVouches DEF Upload
  <2>2. CASE remote' /\ Goto(w, "mark")
    BY <1>2, <2>2, GotoWork, WorkerVouches DEF Upload, Labels
  <2>3. QED
    BY <1>2, <2>1, <2>2 DEF Upload
<1>3. CASE MarkArchived(w)
  <2>1. remote /\ remote' /\ row'.state = "archived"
    BY <1>0, <1>3 DEF MarkArchived, Row
  <2>2. /\ \A v \in Workers : v # w => work'[v] = work[v]
        /\ work'[w].at \in {"remove", "idle"}
    BY <1>3, ReturnWork DEF MarkArchived, TypeOK, Work
  <2>3. QED
    BY <1>3, <2>1, <2>2, WorkerVouches DEF MarkArchived
<1>4. CASE Remove(w)
  BY <1>4, GotoWork, WorkerVouches DEF Remove, Labels
<1>5. CASE ClearLocalFile(w)
  <2>1. row'.state = work[w].plan /\ work[w].plan \in {"archived", "lost"}
    BY <1>0, <1>5 DEF ClearLocalFile, Row, PlanInv, PlanFits
  <2>2. QED
    BY <1>5, <2>1, ReturnWork, WorkerVouches DEF ClearLocalFile
<1>6. CASE CheckBusy(w)
  BY <1>6, ReturnWork, GotoWork, WorkerVouches DEF CheckBusy, Labels
<1>7. CASE RehydrateStart(w)
  <2>1. Goto(w, "bump") \/ Goto(w, "retrieve")
    BY <1>7 DEF RehydrateStart
  <2>2. QED
    BY <1>7, <2>1, GotoWork, WorkerVouches DEF RehydrateStart, Labels
<1>8. CASE SetEvictAfter(w)
  <2>1. row'.state = row.state
    BY <1>0, <1>8 DEF SetEvictAfter, Row
  <2>2. QED
    BY <1>8, <2>1, ReturnWork, WorkerVouches DEF SetEvictAfter
<1>9. CASE Retrieve(w)
  <2>1. CASE Return(w)
    BY <1>9, <2>1, ReturnWork, WorkerVouches DEF Retrieve
  <2>2. CASE Goto(w, "rehydrated")
    BY <1>9, <2>2, GotoWork, WorkerVouches DEF Retrieve, Labels
  <2>3. QED
    BY <1>9, <2>1, <2>2 DEF Retrieve
<1>10. CASE MarkRehydrated(w)
  <2>1. remote /\ remote' /\ row'.state = "rehydrated"
    BY <1>0, <1>10 DEF MarkRehydrated, Row
  <2>2. QED
    BY <1>10, <2>1, ReturnWork, WorkerVouches DEF MarkRehydrated
<1>11. CASE ImportRename(w)
  BY <1>11, GotoWork, WorkerVouches DEF ImportRename, Labels
<1>12. CASE ImportInsert(w)
  <2>1. /\ origin # "seal"
        /\ row.state = "none" => row'.state = "rehydrated"
        /\ row.state # "none" => row' = row
    BY <1>12 DEF ImportInsert, NoRow
  <2>2. QED
    BY <1>12, <2>1, ReturnWork, WorkerVouches DEF ImportInsert
<1>13. CASE QueryAcquire(w) \/ QueryOpen(w) \/ QueryRelease(w)
  <2>1. Goto(w, "open") \/ Goto(w, "read") \/ Return(w)
    BY <1>13 DEF QueryAcquire, QueryOpen, QueryRelease
  <2>2. UNCHANGED <<row, files, remote, origin>>
    BY <1>13 DEF QueryAcquire, QueryOpen, QueryRelease
  <2>3. QED
    BY <2>1, <2>2, ReturnWork, GotoWork, WorkerVouches DEF Labels
<1>14. QED
  BY <1>1, <1>2, <1>3, <1>4, <1>5, <1>6, <1>7, <1>8, <1>9, <1>10, <1>11, <1>12,
     <1>13 DEF Continues

\* Failures, the clock, crashes and the lost rows of Recover.
LEMMA ArchivedStep ==
    ASSUME ArchivedInv, CopyInv, CopyInv', [Next]_vars PROVE ArchivedInv'
<1>0. /\ CommitInv' /\ TypeOK /\ row \in Row
      /\ ArchivedInv /\ [Next]_vars
  BY DEF CopyInv, CommitInv, TypeInv, TypeOK
<1> USE DEF ArchivedInv, ArchivedHasCopy, Vouched
<1>1. ASSUME NEW w \in Workers, RetrieveFails(w) \/ ImportFails(w) \/ WorkerFails(w)
      PROVE ArchivedInv'
  <2>1. Return(w) /\ UNCHANGED <<row, remote, origin>>
    BY <1>1 DEF RetrieveFails, ImportFails, WorkerFails
  <2>2. QED
    BY <1>0, <2>1, ReturnWork, WorkerVouches
<1>2. CASE TTLElapses
  <2>1. row'.state = row.state
    BY <1>0, <1>2 DEF TTLElapses, Row
  <2>2. QED
    BY <1>0, <1>2, <2>1 DEF TTLElapses
<1>3. CASE Crash
  <2>1. \A w \in Workers : work'[w].at = "idle"
    BY <1>3 DEF Crash, Idle
  <2>2. QED
    BY <1>0, <1>3, <2>1 DEF Crash
<1>4. CASE Restart
  <2>1. row'.state = row.state \/ row'.state = "lost"
    BY <1>0, <1>4 DEF Restart, Row
  <2>2. QED
    BY <1>0, <1>4, <2>1 DEF Restart
<1>5. CASE UNCHANGED vars
  BY <1>0, <1>5 DEF vars
<1>6. QED
  BY <1>0, <1>1, <1>2, <1>3, <1>4, <1>5, BeginsVouches, ContinuesVouches DEF Next

\* An archived row of a segment that was sealed here has its copy, whichever of
\* retention, archive jobs, rehydrate jobs, sweeps, deletions and imports
\* overlap, fail or crash, and whatever plan of theirs is carried out late.
THEOREM SealedHereHasCopyAlways == Spec => []SealedHereHasCopy
<1>1. Init => ArchivedInv
  <2> SUFFICES ASSUME Init PROVE ArchivedInv
    OBVIOUS
  <2>1. CommitInv
    BY InitInv DEF CopyInv
  <2>2. /\ row.state = "archived" => remote
        /\ row.state # "rehydrated"
        /\ origin = "seal" => row.state # "none"
    <3>1. /\ SealedRow.state = "sealed" /\ ArchivedRow.state = "archived"
          /\ NoRow.state = "none"
      BY DEF SealedRow, ArchivedRow, NoRow
    <3>2. QED
      BY <3>1 DEF Init
  <2>3. \A w \in Workers : work[w].at = "idle"
    BY DEF Init, Idle
  <2>4. QED
    BY <2>1, <2>2, <2>3 DEF ArchivedInv, ArchivedHasCopy
<1>2. ArchivedInv /\ CopyInv /\ CopyInv' /\ [Next]_vars => ArchivedInv'
  BY ArchivedStep
<1>3. ArchivedInv => SealedHereHasCopy
  BY DEF ArchivedInv, SealedHereHasCopy, Vouched
<1>4. QED
  BY <1>1, <1>2, <1>3, CopyInvAlways, PTL DEF Spec

=============================================================================
