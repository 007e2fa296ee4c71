----------------------------- MODULE Lifecycle ------------------------------
(***************************************************************************)
(* The life of one segment after it was sealed, or of one imported         *)
(* segment: retention (src/internal/retention), the archive and rehydrate  *)
(* jobs, the evictor, the DELETE handler and the import handler            *)
(* (src/internal/api) working on the same catalog row, the same files and  *)
(* the same archive copy while queries read them.                          *)
(*                                                                         *)
(* Every statement, file call and backend call of these goroutines names   *)
(* one segment, so one segment is enough: a job or a pass over many is a   *)
(* worker that holds its snapshot of the row for longer.  Nothing locks a  *)
(* row across two statements.  Which segments a policy selects, and when a *)
(* TTL is over, is left open; the segment is older than the hour retention *)
(* protects.                                                               *)
(***************************************************************************)
EXTENDS Naturals, FiniteSets

CONSTANTS
    Workers,        \* goroutines: loops, handlers and jobs
    Tasks,          \* what they are asked to do in a behaviour
    ArchiveFirst,   \* retention.archive_before_delete, with a backend wired
    Script,         \* TRUE: the script backend, FALSE: S3
    MaxFaults,      \* bound: failing statements, file and backend calls
    MaxRestarts     \* bound: crashes of the process

AllTasks == {"retain", "archive", "rehydrate", "sweep", "delete", "import",
             "query"}

ASSUME LifecycleAssumption ==
    /\ Tasks \subseteq AllTasks
    /\ ArchiveFirst \in BOOLEAN /\ Script \in BOOLEAN
    /\ MaxFaults \in Nat /\ MaxRestarts \in Nat

VARIABLES
    row,        \* the catalog row: state, directory of local_path, whether
                \* s3_url or archive_ref is set, evict_after
    files,      \* directories that hold the segment's Parquet file
    remote,     \* a committed copy is in the archive
    origin,     \* history: how the segment came to be
    work,       \* worker -> where it is, what for, its snapshot and its plan
    up,
    faults, restarts

vars == <<row, files, remote, origin, work, up, faults, restarts>>

Row == [state : {"none", "sealed", "archived", "rehydrated", "lost"},
        path  : {"none", "sealed", "rehydrated"},
        ref   : BOOLEAN,
        evict : {"null", "later", "due"}]

NoRow       == [state |-> "none", path |-> "none", ref |-> FALSE, evict |-> "null"]
SealedRow   == [NoRow EXCEPT !.state = "sealed", !.path = "sealed"]
ArchivedRow == [NoRow EXCEPT !.state = "archived", !.ref = TRUE]

Idle == [at |-> "idle", task |-> "none", snap |-> NoRow, plan |-> "none"]

Init ==
    /\ \/ row = SealedRow /\ files = {"sealed"} /\ remote = FALSE /\ origin = "seal"
       \/ row = ArchivedRow /\ files = {} /\ remote = TRUE /\ origin = "seal"
       \/ /\ "import" \in Tasks
          /\ row = NoRow /\ files = {} /\ remote = FALSE /\ origin = "import"
    /\ work = [w \in Workers |-> Idle]
    /\ up = TRUE /\ faults = 0 /\ restarts = 0

Faulty == faults < MaxFaults /\ faults' = faults + 1

Free(w, task) == up /\ task \in Tasks /\ work[w].at = "idle"
At(w, label)  == up /\ work[w].at = label

Begin(w, task, label, snap, plan) ==
    work' = [work EXCEPT ![w] = [at |-> label, task |-> task, snap |-> snap,
                                 plan |-> plan]]
Goto(w, label) == work' = [work EXCEPT ![w].at = label]
Return(w)      == work' = [work EXCEPT ![w] = Idle]

\* IsSegmentBusy: queries between acquireSegment and its release.
Busy == \E q \in Workers : work[q].at \in {"open", "read"}

(***************************************************************************)
(* Retention: plan lists the local segments and decides, Run executes the  *)
(* plan later, reading the row again but keeping the planned next state.   *)
(***************************************************************************)
\* Mutant: a sealed segment is deleted although it has to be archived first.
DecideDeletes(r) == IF r.state = "sealed" THEN "lost" ELSE "archived"

Decide(r) ==
    IF r.state = "sealed"
    THEN IF ArchiveFirst /\ ~r.ref THEN "archive" ELSE "lost"
    ELSE "archived"

RetainPlan(w) ==
    /\ Free(w, "retain")
    /\ row.state \in {"sealed", "archived", "rehydrated"} /\ row.path # "none"
    /\ Begin(w, "retain", "load", row, Decide(row))
    /\ UNCHANGED <<row, files, remote, origin, up, faults, restarts>>

RetainLoad(w) ==
    /\ At(w, "load")
    /\ IF work[w].plan # "archive"
       THEN work' = [work EXCEPT ![w].at = "remove", ![w].snap = row]
       ELSE IF row.path = "none"
       THEN Return(w)
       ELSE work' = [work EXCEPT ![w].at = "upload", ![w].snap = row]
    /\ UNCHANGED <<row, files, remote, origin, up, faults, restarts>>

(***************************************************************************)
(* The archive job works from the rows its handler listed.                 *)
(***************************************************************************)
ArchiveSelect(w) ==
    /\ Free(w, "archive")
    /\ row.state = "sealed" /\ row.path # "none"
    /\ Begin(w, "archive", "upload", row, "none")
    /\ UNCHANGED <<row, files, remote, origin, up, faults, restarts>>

\* Mutant: the error of a failed archive is not looked at.
UploadUnchecked(w) ==
    /\ At(w, "upload")
    /\ \/ work[w].snap.path \in files /\ remote' = TRUE /\ UNCHANGED faults
       \/ Faulty /\ UNCHANGED remote
    /\ Goto(w, "mark")
    /\ UNCHANGED <<row, files, origin, up, restarts>>

\* Backend.Archive: fails without a file, commits with the manifest.
Upload(w) ==
    /\ At(w, "upload")
    /\ IF work[w].snap.path \in files
       THEN remote' = TRUE /\ Goto(w, "mark")
       ELSE Return(w) /\ UNCHANGED remote
    /\ UNCHANGED <<row, files, origin, up, faults, restarts>>

\* MarkSegmentArchived.  A script need not print a reference.
MarkArchived(w) ==
    /\ At(w, "mark")
    /\ \E ref \in IF Script THEN {row.ref, TRUE} ELSE {TRUE} :
          row' = [row EXCEPT !.state = "archived", !.ref = ref]
    /\ IF work[w].task = "retain"
       THEN work' = [work EXCEPT ![w].at = "remove", ![w].plan = "archived"]
       ELSE Return(w)
    /\ UNCHANGED <<files, remote, origin, up, faults, restarts>>

\* Mutant: a file already gone is an error.
RemoveInsists(w) ==
    /\ At(w, "remove")
    /\ files' = files \ {work[w].snap.path}
    /\ IF work[w].snap.path \in files THEN Goto(w, "clear") ELSE Return(w)
    /\ UNCHANGED <<row, remote, origin, up, faults, restarts>>

\* os.Remove of the snapshot's file, then ClearLocalFile: retention, the
\* evictor and the DELETE handler end the same way.
Remove(w) ==
    /\ At(w, "remove")
    /\ files' = files \ {work[w].snap.path}
    /\ Goto(w, "clear")
    /\ UNCHANGED <<row, remote, origin, up, faults, restarts>>

ClearLocalFile(w) ==
    /\ At(w, "clear")
    /\ row' = [row EXCEPT !.state = work[w].plan, !.path = "none",
                          !.evict = "null"]
    /\ Return(w)
    /\ UNCHANGED <<files, remote, origin, up, faults, restarts>>

(***************************************************************************)
(* Eviction: the sweep and the DELETE handler read the row, ask whether a  *)
(* query is in flight, then remove what the row they read says.            *)
(***************************************************************************)
EvictPlan(r) == IF r.ref THEN "archived" ELSE "lost"

Sweep(w) ==
    /\ Free(w, "sweep")
    /\ row.state = "rehydrated" /\ row.evict = "due"
    /\ Begin(w, "sweep", "check", row, EvictPlan(row))
    /\ UNCHANGED <<row, files, remote, origin, up, faults, restarts>>

DeleteRehydrated(w) ==
    /\ Free(w, "delete")
    /\ row.state = "rehydrated"
    /\ Begin(w, "delete", "check", row, EvictPlan(row))
    /\ UNCHANGED <<row, files, remote, origin, up, faults, restarts>>

CheckBusy(w) ==
    /\ At(w, "check")
    /\ IF Busy THEN Return(w) ELSE Goto(w, "remove")
    /\ UNCHANGED <<row, files, remote, origin, up, faults, restarts>>

(***************************************************************************)
(* The rehydrate job: plan holds the evict_after it will write.            *)
(***************************************************************************)
RehydrateSelect(w, evict) ==
    /\ Free(w, "rehydrate")
    /\ row.state # "none"
    /\ Begin(w, "rehydrate", "start", row, evict)
    /\ UNCHANGED <<row, files, remote, origin, up, faults, restarts>>

\* The admin page fetches whatever has a copy, its file in place or not.
AdminRehydrate(w) ==
    /\ Free(w, "rehydrate")
    /\ row.ref
    /\ Begin(w, "rehydrate", "retrieve", row, "later")
    /\ UNCHANGED <<row, files, remote, origin, up, faults, restarts>>

\* Already local, by the snapshot and by the file: only the TTL changes.
RehydrateStart(w) ==
    /\ At(w, "start")
    /\ LET s == work[w].snap
       IN  IF s.state = "rehydrated" /\ s.path \in files
           THEN Goto(w, "bump") ELSE Goto(w, "retrieve")
    /\ UNCHANGED <<row, files, remote, origin, up, faults, restarts>>

SetEvictAfter(w) ==
    /\ At(w, "bump")
    /\ row' = [row EXCEPT !.evict = work[w].plan]
    /\ Return(w)
    /\ UNCHANGED <<files, remote, origin, up, faults, restarts>>

\* Backend.Retrieve, checked against its manifest and renamed into place.
Retrieve(w) ==
    /\ At(w, "retrieve")
    /\ IF remote
       THEN files' = files \cup {"rehydrated"} /\ Goto(w, "rehydrated")
       ELSE Return(w) /\ files' = IF Script THEN files \ {"rehydrated"} ELSE files
    /\ UNCHANGED <<row, remote, origin, up, faults, restarts>>

\* A failing script's output is removed from its place.
RetrieveFails(w) ==
    /\ At(w, "retrieve") /\ Faulty
    /\ files' = IF Script THEN files \ {"rehydrated"} ELSE files
    /\ Return(w)
    /\ UNCHANGED <<row, remote, origin, up, restarts>>

MarkRehydrated(w) ==
    /\ At(w, "rehydrated")
    /\ row' = [row EXCEPT !.state = "rehydrated", !.path = "rehydrated",
                          !.evict = work[w].plan]
    /\ Return(w)
    /\ UNCHANGED <<files, remote, origin, up, faults, restarts>>

(***************************************************************************)
(* Import (handler or watched directory): no row yet, rename, insert.  A   *)
(* failing insert, a second row of the same id included, removes the file. *)
(***************************************************************************)
ImportCheck(w, evict) ==
    /\ Free(w, "import")
    /\ row.state = "none"
    /\ Begin(w, "import", "rename", row, evict)
    /\ UNCHANGED <<row, files, remote, origin, up, faults, restarts>>

ImportRename(w) ==
    /\ At(w, "rename")
    /\ files' = files \cup {"rehydrated"}
    /\ Goto(w, "insert")
    /\ UNCHANGED <<row, remote, origin, up, faults, restarts>>

ImportInsert(w) ==
    /\ At(w, "insert")
    /\ IF row.state = "none"
       THEN /\ row' = [NoRow EXCEPT !.state = "rehydrated", !.path = "rehydrated",
                                    !.evict = work[w].plan]
            /\ UNCHANGED files
       ELSE files' = files \ {"rehydrated"} /\ UNCHANGED row
    /\ Return(w)
    /\ UNCHANGED <<remote, origin, up, faults, restarts>>

\* The manifest's rename fails, or the insert.
ImportFails(w) ==
    /\ (At(w, "rename") \/ At(w, "insert")) /\ Faulty
    /\ files' = files \ {"rehydrated"}
    /\ Return(w)
    /\ UNCHANGED <<row, remote, origin, up, restarts>>

(***************************************************************************)
(* A query: the row is listed, the segment acquired, its file opened and   *)
(* read, the segment released.  A missing file fails the query.            *)
(***************************************************************************)
QueryList(w) ==
    /\ Free(w, "query")
    /\ row.state \notin {"none", "lost"}
    /\ Begin(w, "query", "acquire", row, "none")
    /\ UNCHANGED <<row, files, remote, origin, up, faults, restarts>>

QueryAcquire(w) ==
    /\ At(w, "acquire")
    /\ Goto(w, "open")
    /\ UNCHANGED <<row, files, remote, origin, up, faults, restarts>>

QueryOpen(w) ==
    /\ At(w, "open")
    /\ IF work[w].snap.path \in files THEN Goto(w, "read") ELSE Return(w)
    /\ UNCHANGED <<row, files, remote, origin, up, faults, restarts>>

QueryRelease(w) ==
    /\ At(w, "read")
    /\ Return(w)
    /\ UNCHANGED <<row, files, remote, origin, up, faults, restarts>>

(***************************************************************************)
(* A statement, file or backend call fails, or the job is cancelled: the   *)
(* worker reports it and gives up what is left.                            *)
(***************************************************************************)
WorkerFails(w) ==
    /\ up /\ Faulty
    /\ work[w].at \in {"load", "upload", "mark", "remove", "clear",
                       "start", "bump", "retrieve", "rehydrated", "rename"}
    /\ Return(w)
    /\ UNCHANGED <<row, files, remote, origin, up, restarts>>

TTLElapses ==
    /\ row.evict = "later"
    /\ row' = [row EXCEPT !.evict = "due"]
    /\ UNCHANGED <<files, remote, origin, work, up, faults, restarts>>

Crash ==
    /\ up /\ restarts < MaxRestarts
    /\ up' = FALSE /\ restarts' = restarts + 1
    /\ work' = [w \in Workers |-> Idle]
    /\ UNCHANGED <<row, files, remote, origin, faults>>

\* Recover: of the rows treated here only a sealed one can miss its file.
Restart ==
    /\ ~up /\ up' = TRUE
    /\ row' = IF row.state = "sealed" /\ "sealed" \notin files
              THEN [row EXCEPT !.state = "lost"] ELSE row
    /\ UNCHANGED <<files, remote, origin, work, faults, restarts>>

Begins(w) ==
    \/ RetainPlan(w) \/ ArchiveSelect(w) \/ Sweep(w) \/ DeleteRehydrated(w)
    \/ \E evict \in {"later", "null"} :
          RehydrateSelect(w, evict) \/ ImportCheck(w, evict)
    \/ AdminRehydrate(w) \/ QueryList(w)

Continues(w) ==
    \/ RetainLoad(w) \/ Upload(w) \/ MarkArchived(w) \/ Remove(w)
    \/ ClearLocalFile(w) \/ CheckBusy(w)
    \/ RehydrateStart(w) \/ SetEvictAfter(w) \/ Retrieve(w) \/ MarkRehydrated(w)
    \/ ImportRename(w) \/ ImportInsert(w)
    \/ QueryAcquire(w) \/ QueryOpen(w) \/ QueryRelease(w)

Next == \/ \E w \in Workers : \/ Begins(w) \/ Continues(w)
                              \/ RetrieveFails(w) \/ ImportFails(w)
                              \/ WorkerFails(w)
        \/ TTLElapses \/ Crash \/ Restart

Spec == Init /\ [][Next]_vars

(***************************************************************************)
(* Goroutines go on, the evictor sweeps again, the process is restarted.   *)
(***************************************************************************)
FairSpec == /\ Spec
            /\ \A w \in Workers : WF_vars(Continues(w))
            /\ SF_vars(\E w \in Workers : Sweep(w))
            /\ WF_vars(Restart)

(***************************************************************************)
(*                              PROPERTIES                                 *)
(***************************************************************************)
Labels == {"idle", "load", "upload", "mark", "remove", "clear", "check",
           "start", "bump", "retrieve", "rehydrated", "rename", "insert",
           "acquire", "open", "read"}

Plans == {"none", "archive", "archived", "lost", "later", "null"}

Work == [at : Labels, task : AllTasks \cup {"none"}, snap : Row, plan : Plans]

\* Shapes of the row, the files and the workers' control (the states of the
\* segments table and the control flow of the handlers and loops).
TypeOK ==
    /\ row \in Row /\ files \subseteq {"sealed", "rehydrated"}
    /\ remote \in BOOLEAN /\ origin \in {"seal", "import"} /\ up \in BOOLEAN
    /\ work \in [Workers -> Work]
    /\ faults \in Nat /\ restarts \in Nat

\* With archive_before_delete the data of a sealed segment is never gone:
\* concurrent passes, jobs, evictions, failures and crashes leave its Parquet
\* file or a committed archive copy (archiveThenDelete, decide, execute).
LastCopyKept == ArchiveFirst /\ origin = "seal" => "sealed" \in files \/ remote

\* A recorded reference is that of a committed copy: "the manifest is the
\* commit marker - the catalog only marks the segment archived after".
ReferenceIsCommitted == row.ref => remote

\* What the archive stands for: the last copy is kept, and a reference is true
\* (evaluator.go:151-192, archive.go:151-202).
CopiesTrue == LastCopyKept /\ ReferenceIsCommitted

\* The state archived promises a copy: "rehydrated -> archived ... (the archive
\* ref still points at the off-disk copy)".
ArchivedHasCopy == row.state = "archived" => remote

\* A segment that was sealed here is called archived only while its copy is
\* committed, though retention, the sweep and the DELETE handler write that
\* state from a plan older than their statement, without asking the backend,
\* and jobs, failures and crashes come in between (decide, evictRehydratedSegment,
\* ClearLocalFile, MarkSegmentArchived).  Of an imported one retention makes an
\* archived row without a copy.
SealedHereHasCopy == origin = "seal" => ArchivedHasCopy

\* A rehydrated segment whose TTL is over is evicted, after a failed eviction
\* and a crash between its two steps too (Sweep, Evict), or its TTL is moved or
\* something else takes it, unless queries are in flight when the sweep comes:
\* those may keep it for as long as they overlap.
Due == row.state = "rehydrated" /\ row.path = "rehydrated" /\ row.evict = "due"
EventuallyEvicted == Due ~> ~Due \/ Busy

\* What a reader may expect of a due file, and an archive job that overlaps the
\* rehydrate job breaks: the row becomes archived with the file and the TTL in
\* place, and the sweep selects rehydrated rows only.
DueFileEvicted ==
    row.path = "rehydrated" /\ row.evict = "due"
        ~> row.path = "none" \/ row.evict # "due" \/ Busy

(***************************************************************************)
(* The inductive invariants behind the theorems of LifecycleProofs.        *)
(***************************************************************************)
\* A worker carries the plan its next steps need.
PlanFits(at, plan) ==
    /\ at \in {"check", "remove", "clear"} => plan \in {"archived", "lost"}
    /\ at = "load" => plan \in {"archive", "archived", "lost"}
    /\ at \in {"start", "bump", "retrieve", "rehydrated", "rename", "insert"} =>
          plan \in {"later", "null"}

PlanInv == \A w \in Workers : PlanFits(work[w].at, work[w].plan)

TypeInv == TypeOK /\ PlanInv

\* What every worker and the row know of the copy in the archive.
CommitInv ==
    /\ TypeInv /\ ReferenceIsCommitted
    /\ \A w \in Workers : work[w].snap.ref \/ work[w].at \in {"mark", "rehydrated"}
                          => remote

\* With archive_before_delete a worker on its way to a removal, and a row that
\* is no longer sealed, stand for a committed copy.
CopyInv ==
    /\ CommitInv
    /\ ArchiveFirst /\ origin = "seal" =>
          /\ "sealed" \in files \/ remote
          /\ row.state # "sealed" => remote
          /\ \A w \in Workers :
                \/ work[w].at \in {"check", "remove", "clear"}
                \/ work[w].at = "load" /\ work[w].plan # "archive"
                => remote

\* Retention turns a rehydrated row into an archived one without asking for a
\* copy: only a segment that was sealed here is known to have one by then.
Vouched == origin = "seal"

\* What every plan to archive the row, and every rehydrated row that was sealed
\* here, stand for.
ArchivedInv ==
    /\ CommitInv
    /\ Vouched =>
          /\ ArchivedHasCopy
          /\ \A w \in Workers :
                /\ work[w].at \in {"load", "check", "remove", "clear"}
                /\ work[w].plan = "archived"
                => remote
    /\ origin = "seal" =>
          /\ row.state # "none"
          /\ row.state = "rehydrated" => remote
          /\ \A w \in Workers : work[w].at \notin {"rename", "insert"}
=============================================================================
