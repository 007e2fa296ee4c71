---------------------------- MODULE ArchiveJobs -----------------------------
(***************************************************************************)
(* Archive and rehydrate jobs: the handlers that select the segments       *)
(* (src/internal/api/archive.go, rehydrate.go), the job manager            *)
(* (src/internal/jobs/manager.go) and the goroutine of each job, calling   *)
(* the backends while another job and the verify handler call them too.    *)
(* The rows of jobs and segments outlive the process; its goroutines and   *)
(* what it knew of the script do not.                                      *)
(***************************************************************************)
EXTENDS Backends, Sequences, SequencesExt

CONSTANTS
    Jobs,
    Verifiers       \* requests for a verify

ASSUME JobsAssumption == Callers = Jobs \cup Verifiers /\ Jobs \cap Verifiers = {}

VARIABLES
    rows,       \* segment -> its state in the catalog
    job,        \* job -> its row and its goroutine
    stranded    \* history: jobs whose end was not written, or cut by a crash

jobVars == <<rows, job, stranded>>
vars    == <<backendVars, jobVars>>

\* state, todo and progress are the row; at, done, snap and failed the goroutine.
NoJob == [state |-> None, type |-> None, todo |-> <<>>, progress |-> 0,
          at |-> "none", done |-> 0, snap |-> {}, failed |-> FALSE]

Init ==
    /\ \E done \in {{}, Segs} :
          /\ BackendInit(done)
          /\ rows = [s \in Segs |-> IF s \in done THEN "archived" ELSE "sealed"]
    /\ job = [j \in Jobs |-> NoJob]
    /\ stranded = {}

JobAt(j, label) == job[j].at = label
Moves(j, label) == job' = [job EXCEPT ![j].at = label]
Fails(j) == job' = [job EXCEPT ![j].at = "finish", ![j].failed = TRUE]
Current(j) == job[j].todo[job[j].done + 1]

\* What ListSegments may answer: segments in the order of their keys.
Listings == {q \in BoundedSeq(Segs, Cardinality(Segs)) :
                \A i, k \in DOMAIN q : i < k => q[i] < q[k]}

\* InsertJob and the goroutine; snap has the segments that were rehydrated.
Created(j, type, list) ==
    /\ job[j] = NoJob /\ list # <<>>
    /\ job' = [job EXCEPT ![j] = [NoJob EXCEPT
                  !.state = "pending", !.type = type, !.at = "start", !.todo = list,
                  !.snap = {s \in Segs : Contains(list, s) /\ rows[s] = "rehydrated"}]]
    /\ UNCHANGED <<backendVars, rows, stranded>>

\* handleArchive: one sealed segment, or those older than some age.
HandleArchive(j) ==
    /\ caps["archive"] # "no"
    /\ \E list \in Listings :
          /\ \A s \in Segs : Contains(list, s) => rows[s] = "sealed"
          /\ Created(j, "archive", list)

\* handleRehydrate: one segment, whatever its state, or those of a time range
\* that have an archive copy.
HandleRehydrate(j) ==
    /\ caps["retrieve"] # "no"
    /\ \E list \in Listings :
          /\ Len(list) = 1 \/ \A s \in Segs : Contains(list, s) => rows[s] # "sealed"
          /\ Created(j, "rehydrate", list)

\* Manager.Start; its error is only logged.
Start(j) ==
    /\ JobAt(j, "start")
    /\ \/ job' = [job EXCEPT ![j].state = "running", ![j].at = "next"] /\ UNCHANGED trouble
       \/ Moves(j, "next") /\ Faulty
    /\ UNCHANGED <<kind, bucket, lock, call, script, output, walk, rows, stranded>>

\* The next segment: a rehydrated one that has its file only gets a new TTL,
\* by a statement that may fail.
NextSegment(j) ==
    /\ JobAt(j, "next") /\ job[j].done < Len(job[j].todo)
    /\ IF Current(j) \in job[j].snap /\ final[Current(j)] # None
       THEN /\ UNCHANGED call
            /\ \/ Moves(j, "progress") /\ UNCHANGED trouble
               \/ Fails(j) /\ Faulty
       ELSE /\ Calls(j, IF job[j].type = "archive" THEN "archive" ELSE "retrieve", Current(j))
            /\ Moves(j, "calling") /\ UNCHANGED trouble
    /\ UNCHANGED <<kind, bucket, lock, script, output, walk, rows, stranded>>

ReturnedUnchecked(j) ==     \* mutant: the error of a backend call is not looked at
    /\ JobAt(j, "calling") /\ In(j, "done")
    /\ Moves(j, "mark")
    /\ call' = [call EXCEPT ![j] = NoCall]
    /\ UNCHANGED <<kind, bucket, lock, script, output, walk, trouble, rows, stranded>>

Returned(j) ==
    /\ JobAt(j, "calling") /\ In(j, "done")
    /\ IF call[j].res = "ok" THEN Moves(j, "mark") ELSE Fails(j)
    /\ call' = [call EXCEPT ![j] = NoCall]
    /\ UNCHANGED <<kind, bucket, lock, script, output, walk, trouble, rows, stranded>>

MarkErrorLogged(j) ==     \* mutant: a failing mark is logged and the job goes on
    /\ JobAt(j, "mark") /\ Faulty
    /\ Moves(j, "progress")
    /\ UNCHANGED <<kind, bucket, lock, call, script, output, walk, rows, stranded>>

\* MarkSegmentArchived, MarkSegmentRehydrated.
Mark(j) ==
    /\ JobAt(j, "mark")
    /\ \/ /\ rows' = [rows EXCEPT ![Current(j)] = IF job[j].type = "archive"
                                                  THEN "archived" ELSE "rehydrated"]
          /\ Moves(j, "progress") /\ UNCHANGED trouble
       \/ /\ Faulty /\ Fails(j)
          /\ UNCHANGED rows
    /\ UNCHANGED <<kind, bucket, lock, call, script, output, walk, stranded>>

ProgressEarly(j) ==     \* mutant: the last segment's progress is the total
    /\ JobAt(j, "progress")
    /\ job' = [job EXCEPT ![j].at = "next", ![j].done = @ + 1,
                          ![j].progress = Len(job[j].todo)]
    /\ UNCHANGED <<backendVars, rows, stranded>>

\* UpdateProgress; its error is ignored.
Progress(j) ==
    /\ JobAt(j, "progress")
    /\ \/ /\ job' = [job EXCEPT ![j].at = "next", ![j].done = @ + 1,
                                ![j].progress = job[j].done + 1]
          /\ UNCHANGED trouble
       \/ job' = [job EXCEPT ![j].at = "next", ![j].done = @ + 1] /\ Faulty
    /\ UNCHANGED <<kind, bucket, lock, call, script, output, walk, rows, stranded>>

Done(j) == \/ JobAt(j, "finish")
           \/ JobAt(j, "next") /\ job[j].done = Len(job[j].todo)

\* Manager.Fail or Complete, without the job's context; a failing statement
\* is only logged.
Finish(j) ==
    /\ Done(j)
    /\ \/ /\ job' = [job EXCEPT ![j].at = "end",
                          ![j].state = IF job[j].failed THEN "failed" ELSE "completed"]
          /\ UNCHANGED <<trouble, stranded>>
       \/ /\ Faulty /\ Moves(j, "end")
          /\ stranded' = stranded \cup {j}
    /\ UNCHANGED <<kind, bucket, lock, call, script, output, walk, rows>>

\* handleArchiveVerify with the script, of one segment: one run of it, like
\* the run with --all; the S3 backend's is Verify.
VerifyCall(v) ==
    /\ kind = "script" /\ call[v] = NoCall /\ Faulty
    /\ caps["verify"] # "no"
    /\ \E s \in Segs : Calls(v, "verify", s)
    /\ UNCHANGED <<kind, bucket, lock, script, output, walk, jobVars>>

\* The answer; a failing run is part of it.
VerifyReturns(v) ==
    /\ In(v, "done")
    /\ call' = [call EXCEPT ![v] = NoCall]
    /\ UNCHANGED <<kind, bucket, lock, script, output, walk, trouble, jobVars>>

Live(j) == job[j].at \notin {"none", "end"}

\* The process is killed and starts again; nothing looks at the jobs table.
Restart ==
    /\ BackendRestarts
    /\ stranded' = stranded \cup {j \in Jobs : Live(j)}
    /\ job' = [j \in Jobs |-> IF Live(j) THEN [job[j] EXCEPT !.at = "end"] ELSE job[j]]
    /\ UNCHANGED rows

Goroutine(j) ==
    \/ Start(j) \/ NextSegment(j) \/ Returned(j) \/ Mark(j) \/ Progress(j) \/ Finish(j)
    \/ BackendStep(j) /\ UNCHANGED jobVars
    \/ BackendFault(j) /\ UNCHANGED jobVars

VerifyRun(v) ==
    \/ (Lock(v) \/ ScriptStarts(v) \/ ScriptExits(v)) /\ UNCHANGED <<walk, jobVars>>
    \/ VerifyReturns(v)

Next ==
    \/ \E j \in Jobs : HandleArchive(j) \/ HandleRehydrate(j) \/ Goroutine(j)
    \/ \E v \in Verifiers : VerifyCall(v) \/ VerifyRun(v)
    \/ (Verify \/ ProbeAgain) /\ UNCHANGED jobVars
    \/ Restart

\* A goroutine that can go on does, runs of the script end by themselves or
\* by their timeout, and the mutex is handed on.
Fairness ==
    /\ \A j \in Jobs : WF_vars(Goroutine(j))
    /\ \A v \in Verifiers : SF_vars(VerifyRun(v))

Spec == Init /\ [][Next]_vars /\ Fairness
-----------------------------------------------------------------------------
(* Properties. *)

\* Type invariant.
TypeOK ==
    /\ lock \in Callers \cup {None}
    /\ \A c \in Callers : lock = c => call[c].at \notin {"idle", "lock", "done"}
    /\ \A s \in Segs : rows[s] \in {"sealed", "archived", "rehydrated"}
    /\ \A j \in Jobs : job[j].done <= Len(job[j].todo) /\ job[j].at \in
          {"none", "start", "next", "calling", "mark", "progress", "finish", "end"}

\* The manifest is the commit marker: whenever it is there its object is whole,
\* in the bucket, and of the digest it records, through failing requests and
\* crashes; only while another's copy under the key is replaced it is not.
CommitMarker ==
    \A s \in Segs : manifests[s] = "new" => objects[s] = Object("new", "new")

\* A Verify that runs while segments are archived never reports a manifest
\* whose object is missing: objects are put first and listed last
\* (s3.go:476-516).
NeverDangling == Dangling = {}

\* An upload is left unfinished in the bucket only by a crash, a failing abort
\* or completion, or a creation whose answer was lost (s3.go:304-372).
LeaksExplained ==
    pending = leaks + Cardinality({c \in Callers : In(c, "parts")})

\* A segment the catalog calls rehydrated has its whole file in place, while
\* other jobs retrieve the same segment, fail or die: what takes it away is a
\* script's run in progress or gone wrong, or two downloads that share the
\* temporary name, one of which puts in place what the other is still writing
\* (s3.go:420-433, script.go:370-374).
RehydratedServed ==
    \A s \in Segs : rows[s] = "rehydrated" =>
       \/ Content(s) = "new"
       \/ s \in marred
       \/ \E c \in Callers : In(c, "exit") /\ call[c].mode = "retrieve" /\ call[c].seg = s

\* What the process knows of the script is so, and between two probes, which
\* forget what runs have told, no mode is run twice to be refused, however calls
\* wait for each other and for the probe (script.go:200-228, 264, 647).
CapsSound ==
    \A m \in Modes :
       /\ caps[m] = "no" => m \notin supports
       /\ caps[m] = "yes" => m \in supports
       /\ refusals[m] <= 1

\* A finished job tells the truth: completed means every segment of it went
\* through, failed that one did not, and the progress shown never runs ahead.
JobOutcomeTrue ==
    \A j \in Jobs :
       /\ job[j].progress <= job[j].done
       /\ job[j].state = "completed" =>
             /\ job[j].done = Len(job[j].todo)
             /\ job[j].type = "archive" => \A s \in Segs :
                   Contains(job[j].todo, s) => Committed(s) /\ rows[s] # "sealed"
       /\ job[j].state = "failed" => job[j].done < Len(job[j].todo)

\* A job shown as pending or running has a goroutine at work, unless the
\* process died or the statement that ends the job failed.
RunningIsLive ==
    \A j \in Jobs \ stranded : job[j].state \in {"pending", "running"} => Live(j)

\* What may follow what in the state of a job's row; Start's statement may fail.
Follows == {<<None, "pending">>, <<"pending", "running">>}
              \cup {"pending", "running"} \X {"completed", "failed"}

GoesForward(j) ==
    /\ job[j].state # None => job'[j].type = job[j].type /\ job'[j].todo = job[j].todo
    /\ job'[j].state # job[j].state => <<job[j].state, job'[j].state>> \in Follows
    /\ job'[j].progress >= job[j].progress
    /\ job'[j].done # job[j].done =>
          /\ job'[j].done = job[j].done + 1
          /\ Committed(Current(j)) /\ rows[Current(j)] # "sealed"
    /\ j \in stranded => job'[j] = job[j]

\* A job only goes forward, whatever statements fail and jobs overlap: what it
\* is to do is fixed, its state and progress never go back, it counts its
\* segments one by one, each only with its copy committed and its row marked,
\* and what a crash or a failing statement stranded is never touched again
\* (manager.go:108-260, archive.go:159-202).
JobsForward == [][\A j \in Jobs : GoesForward(j)]_vars

\* What the bucket holds and what the process knows of the script.
BackendsTrue == CommitMarker /\ NeverDangling /\ LeaksExplained /\ CapsSound

\* What the rows of the jobs say of their work (manager.go:170-260).
JobsTrue == TypeOK /\ JobOutcomeTrue /\ RunningIsLive

Archived == {s \in Segs : rows[s] # "sealed"}

Store == INSTANCE ArchiveStore WITH committed <- {s \in Segs : Committed(s)},
                                    archived <- Archived

\* The jobs and backends implement the promise of archiving.
StoreSpec == Store!Spec

\* Every job comes to an end: no failure, timeout or waiting for the backend's
\* mutex holds it up.
JobEnds ==
    \A j \in Jobs :
       job[j].state = "pending" ~> job[j].state \in {"completed", "failed"} \/ j \in stranded
=============================================================================
