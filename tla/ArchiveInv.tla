----------------------------- MODULE ArchiveInv ------------------------------
(***************************************************************************)
(* The inductive invariant behind the safety properties of ArchiveJobs and *)
(* the refinement of ArchiveStore.  Its idea: nothing in the bucket or the *)
(* script's store is taken back, so what a call has seen there stays true  *)
(* however many steps of others come between; what it knows of the script  *)
(* stays true because it holds the mutex; and a job's row trails what its  *)
(* goroutine has done.                                                     *)
(***************************************************************************)
EXTENDS ArchiveJobs

Uploading == {"head", "upload", "parts", "check", "commit"}
Running   == {"run", "exit"}
Reading   == {"manifest", "get", "copy", "rename", "digest"}

Call == [at : {"idle", "lock", "done"} \cup Uploading \cup Running \cup Reading,
         mode : Modes \cup {None}, seg : Segs \cup {0}, part : Nat,
         seen : {None, "new"}, fd : Callers \cup {None}, body : {None, "old", "new"},
         res : {None, "ok", "failed", "unsupported"}]

File == [content : {None, "part", "old", "new"}, opener : Callers \cup {None}]

Job == [state : {None, "pending", "running", "completed", "failed"},
        type : {None, "archive", "rehydrate"}, todo : Seq(Segs), progress : Nat,
        at : {"none", "start", "next", "calling", "mark", "progress", "finish", "end"},
        done : Nat, snap : SUBSET Segs, failed : BOOLEAN]

BucketType ==
    /\ objects \in [Segs -> {NoObject, Object("old", "old"), Object("new", "new")}]
    /\ manifests \in [Segs -> {None, "new"}]
    /\ pending \in Int /\ leaks \in Int
    /\ walk \in [at : {"idle", "list"}, pos : Nat, seen : SUBSET Nat]

ScriptType ==
    /\ supports \in SUBSET Modes /\ kept \in SUBSET Segs
    /\ caps \in [Modes -> {"yes", "no", "unknown"}] /\ refusals \in [Modes -> Nat]

FileType ==
    /\ final \in [Segs -> Callers \cup {None}] /\ temp \in [Segs -> Callers \cup {None}]
    /\ text \in [Segs -> [Callers -> File]]

TypeInv ==
    /\ kind \in {"s3", "script"}
    /\ BucketType /\ ScriptType /\ FileType
    /\ lock \in Callers \cup {None} /\ call \in [Callers -> Call]
    /\ rows \in [Segs -> {"sealed", "archived", "rehydrated"}]
    /\ job \in [Jobs -> Job]

\* The mutex is held exactly by the call between its Lock and its return.
LockInv == \A c \in Callers : lock = c <=> call[c].at \in Uploading \cup Running

\* A call is of the backend's kind, and what it has found is still there.
CallTrue(c) ==
    /\ call[c].at # "idle" => call[c].seg \in Segs /\ call[c].mode \in Modes
    /\ call[c].at = "lock" => kind = "script" \/ call[c].mode = "archive"
    /\ call[c].at \in Uploading => kind = "s3" /\ call[c].mode = "archive"
    /\ call[c].at \in Reading => kind = "s3" /\ call[c].mode = "retrieve"
    /\ call[c].at \in Running => kind = "script" /\ caps[call[c].mode] # "no"
    /\ call[c].at \in {"check", "commit"} => objects[call[c].seg] = Object("new", "new")
    /\ call[c].at \in {"get", "copy", "rename", "digest"} =>
          call[c].seen = "new" /\ manifests[call[c].seg] = "new"
    /\ call[c].at \in {"copy", "rename"} => call[c].fd \in Callers /\ call[c].body = "new"
    /\ call[c].at = "done" /\ call[c].res = "ok" /\ call[c].mode # "verify" =>
          Committed(call[c].seg)

\* Verify requests run the script's verify; the rest are calls of jobs.
CallersInv ==
    /\ \A v \in Verifiers : call[v].at # "idle" => kind = "script" /\ call[v].mode = "verify"
    /\ \A j \in Jobs :
          /\ job[j].at = "calling" <=> call[j].at # "idle"
          /\ job[j].at = "calling" =>
                /\ call[j].seg = Current(j)
                /\ call[j].mode = IF job[j].type = "archive" THEN "archive" ELSE "retrieve"

CallInv == \A c \in Callers : CallTrue(c)

\* A mode that was refused is known not to be implemented.
KnownInv ==
    /\ "archive" \in supports
    /\ \A m \in Modes :
          /\ caps[m] = "no" => m \notin supports
          /\ caps[m] = "yes" => m \in supports
          /\ refusals[m] <= 1
          /\ refusals[m] = 1 => caps[m] = "no"

\* A manifest that a listing has seen has its object listed once the listing
\* has passed the object's key.
WalkInv ==
    \A s \in Segs : 2 * s - 1 \in walk.seen =>
       /\ manifests[s] # None
       /\ 2 * s <= walk.pos => 2 * s \in walk.seen

\* The goroutine is in the middle of a segment exactly before the list's end,
\* and has committed what it has passed.
JobTrue(j) ==
    /\ job[j].at = "none" <=> job[j].type = None
    /\ job[j].at = "none" => job[j] = NoJob
    /\ \A i, k \in DOMAIN job[j].todo : i < k => job[j].todo[i] < job[j].todo[k]
    /\ job[j].progress <= job[j].done
    /\ job[j].done <= Len(job[j].todo)
    /\ job[j].at \in {"calling", "mark", "progress", "finish"} => job[j].done < Len(job[j].todo)
    /\ job[j].failed => job[j].done < Len(job[j].todo) /\ job[j].at \in {"finish", "end"}
    /\ job[j].at = "finish" => job[j].failed
    /\ job[j].type = "archive" => job[j].snap = {}
    /\ job[j].at = "mark" => Committed(Current(j))
    /\ job[j].type = "archive" =>
          /\ \A i \in 1..job[j].done : rows[job[j].todo[i]] # "sealed"
          /\ job[j].at = "progress" => rows[Current(j)] # "sealed"

\* The row says less than the goroutine has done, and its end only once the
\* goroutine is at its end.
RowTrue(j) ==
    /\ Live(j) => job[j].state \in {"pending", "running"}
    /\ job[j].state = "completed" => job[j].at = "end" /\ job[j].done = Len(job[j].todo)
    /\ job[j].state = "failed" => job[j].at = "end" /\ job[j].done < Len(job[j].todo)
    /\ job[j].at = "end" /\ j \notin stranded => job[j].state \in {"completed", "failed"}

JobInv == \A j \in Jobs : JobTrue(j) /\ RowTrue(j)

\* A row that says archived or rehydrated has its committed copy.
RowsInv == \A s \in Segs : rows[s] # "sealed" => Committed(s)

\* A job's download of a segment has created its file.
Downloaded(j, s) ==
    \E i \in DOMAIN job[j].todo :
       /\ job[j].todo[i] = s /\ i <= job[j].done + 1
       /\ i = job[j].done + 1 =>
             \/ job[j].at \in {"mark", "progress", "finish", "end"}
             \/ call[j].at \in {"copy", "rename", "digest", "done"}

\* A file has one name, the name of a job that has begun its download.
FileInv ==
    kind = "s3" => \A s \in Segs :
       /\ final[s] # None => final[s] # temp[s]
       /\ \A j \in Jobs : j \in {final[s], temp[s]} => Downloaded(j, s)
       /\ {final[s], temp[s]} \subseteq Jobs \cup {None}

Retrieving(s) == \E c \in Callers :
    In(c, "exit") /\ call[c].mode = "retrieve" /\ call[c].seg = s

Whole(s) == Content(s) = "new" \/ s \in marred \/ Retrieving(s)

\* The file of a rehydrated segment is whole from the digest on.
ServedInv ==
    /\ \A s \in Segs : rows[s] = "rehydrated" => Whole(s)
    /\ \A c \in Callers : In(c, "done") /\ call[c].res = "ok" /\ call[c].mode = "retrieve" =>
          Whole(call[c].seg)
    /\ \A j \in Jobs : JobAt(j, "mark") /\ job[j].type = "rehydrate" => Whole(Current(j))

\* What a job was created for as rehydrated, and what it has just dealt with,
\* has left sealed; a stranded job has no goroutine.
SnapTrue(j) ==
    /\ \A s \in job[j].snap : rows[s] # "sealed"
    /\ job[j].at = "progress" => rows[Current(j)] # "sealed"
    /\ j \in stranded => job[j].at = "end"

ForwardInv == \A j \in Jobs : SnapTrue(j)

Inv == /\ TypeInv /\ LockInv /\ CallInv /\ CallersInv /\ KnownInv
       /\ CommitMarker /\ LeaksExplained /\ WalkInv
       /\ JobInv /\ RowsInv /\ FileInv /\ ServedInv
=============================================================================
