------------------------------ MODULE Backends ------------------------------
(***************************************************************************)
(* The archive backends (src/internal/archive): S3, whose Archive uploads  *)
(* the Parquet object, verifies it and commits it with a manifest object,  *)
(* and the script, whose modes are found out by probing and by running it. *)
(* A caller makes one call at a time; a call is a chain of requests,       *)
(* system calls or script runs, each a step that other callers' may come   *)
(* between, unless the backend's mutex keeps them out.                     *)
(*                                                                         *)
(* Contents are told apart as the segment's own ("new", which the catalog  *)
(* has the digest of) and another's under the same key ("old").  The       *)
(* output directory has a final and a temporary name per segment; a name   *)
(* leads to the file that a caller created, and the file lives on without  *)
(* the name.  The bucket keeps the metadata of objects.                    *)
(***************************************************************************)
EXTENDS Naturals, FiniteSets

CONSTANTS
    Segs,           \* 1..n, in the order of their keys
    Big,            \* those above the multipart threshold
    Callers,        \* goroutines that call the backend
    Parts,          \* of a multipart upload
    MaxTrouble      \* bound: failing requests, runs, probes and statements,
                    \* restarts and verifies, together

ASSUME BackendsAssumption ==
    /\ Cardinality(Segs) \in Nat /\ Segs = 1..Cardinality(Segs) /\ Big \subseteq Segs
    /\ IsFiniteSet(Callers) /\ "none" \notin Callers
    /\ Parts \in Nat \ {0} /\ MaxTrouble \in Nat

VARIABLES
    kind,           \* archive.backend
    objects,        \* segment -> its Parquet object in the bucket
    manifests,      \* segment -> the digest its manifest object records
    pending,        \* multipart uploads neither completed nor aborted
    lock,           \* S3Backend.mu or ScriptBackend.mu
    call,           \* caller -> the call it is in
    supports,       \* the modes the script implements
    probes,         \* the script implements --probe
    caps,           \* the cached capabilities
    refusals,       \* history: runs of a mode since the last probe that exited 64
    kept,           \* segments the script's own store has
    final, temp,    \* segment -> the file under its final and temporary name
    text,           \* segment, creator -> that file's content and last opener
    marred,         \* history: outputs that a failing run of the script removed
                    \* or left, or a download replaced by an unfinished one
    leaks,          \* history: events that leave an upload behind
    walk,           \* a Verify of the bucket: last key listed, keys seen
    trouble

bucket == <<objects, manifests, pending, leaks>>
script == <<supports, probes, caps, refusals, kept, marred>>
output == <<final, temp, text>>
backendVars == <<kind, bucket, lock, call, script, output, walk, trouble>>

Modes == {"archive", "retrieve", "verify"}
None  == "none"

NoCall == [at |-> "idle", mode |-> None, seg |-> 0, part |-> 0, seen |-> None,
           fd |-> None, body |-> None, res |-> None]

NoWalk == [at |-> "idle", pos |-> 0, seen |-> {}]

NoObject == [content |-> None, tag |-> None]
Object(content, tag) == [content |-> content, tag |-> tag]

\* A mode is asked for with --probe: any other end of the run, of a script that
\* does not know the flag or of a run that fails or is cut, tells nothing.
Answer(mode)  == IF mode \in supports THEN "yes" ELSE "no"
Unclear(mode) == IF mode = "archive" THEN "yes" ELSE "unknown"

\* Probe asks for every mode, in vain for those of cut.
Probed(cut) == [m \in Modes |-> IF probes /\ m \notin cut THEN Answer(m) ELSE Unclear(m)]

Cuts == IF kind = "script" THEN SUBSET Modes ELSE {{}}

\* The archive has the segments of done; the bucket may hold another content
\* under the keys of others, left behind before its manifest was put.
BackendInit(done) ==
    /\ kind \in {"s3", "script"}
    /\ \E old \in {{}, Big \ done} :
          objects = [s \in Segs |-> IF kind # "s3" THEN NoObject
                                    ELSE IF s \in done THEN Object("new", "new")
                                    ELSE IF s \in old THEN Object("old", "old") ELSE NoObject]
    /\ manifests = [s \in Segs |-> IF kind = "s3" /\ s \in done THEN "new" ELSE None]
    /\ kept = IF kind = "script" THEN done ELSE {}
    /\ pending = 0 /\ leaks = 0
    /\ lock = None
    /\ call = [c \in Callers |-> NoCall]
    /\ supports \in IF kind = "s3" THEN {Modes} ELSE {Modes, {"archive"}}
    /\ probes \in IF kind = "s3" THEN {TRUE} ELSE BOOLEAN
    /\ \E cut \in Cuts :
          caps = Probed(cut) /\ trouble = IF cut = {} THEN 0 ELSE 1
    /\ refusals = [m \in Modes |-> 0]
    /\ final = [s \in Segs |-> None] /\ temp = final
    /\ text = [s \in Segs |-> [c \in Callers |-> [content |-> None, opener |-> None]]]
    /\ marred = {}
    /\ walk = NoWalk
    /\ trouble <= MaxTrouble

-----------------------------------------------------------------------------
Faulty == trouble < MaxTrouble /\ trouble' = trouble + 1

In(c, label) == call[c].at = label
Goto(c, label) == call' = [call EXCEPT ![c].at = label]
Unlocks(c) == lock' = IF lock = c THEN None ELSE lock

ReturnsLocked(c, res) ==    \* mutant: a failing call keeps the lock
    /\ call' = [call EXCEPT ![c].at = "done", ![c].res = res]
    /\ IF res = "ok" THEN Unlocks(c) ELSE UNCHANGED lock

Returns(c, res) ==
    /\ call' = [call EXCEPT ![c].at = "done", ![c].res = res]
    /\ Unlocks(c)

\* An operation starts: the S3 backend's Retrieve takes no lock.
Calls(c, mode, s) ==
    call' = [call EXCEPT ![c] = [NoCall EXCEPT !.at = IF kind = "s3" /\ mode = "retrieve"
                                                      THEN "manifest" ELSE "lock",
                                               !.mode = mode, !.seg = s]]

\* b.mu.Lock; a mode known to be unsupported is not run.
Lock(c) ==
    /\ In(c, "lock") /\ lock = None
    /\ IF caps[call[c].mode] = "no"
       THEN Returns(c, "unsupported")
       ELSE lock' = c /\ Goto(c, IF kind = "s3" THEN "head" ELSE "run")
    /\ UNCHANGED <<kind, bucket, script, output, trouble>>

-----------------------------------------------------------------------------
(* S3Backend.Archive. *)

\* An object with the segment's digest, or with none, spares the upload.
HeadObject(c) ==
    /\ In(c, "head")
    /\ LET o == objects[call[c].seg]
       IN  Goto(c, IF o # NoObject /\ o.tag # "old" THEN "commit" ELSE "upload")
    /\ UNCHANGED <<kind, bucket, lock, script, output, trouble>>

Stored(s) == objects' = [objects EXCEPT ![s] = Object("new", "new")]

UploadSingle(c) ==
    /\ In(c, "upload") /\ call[c].seg \notin Big
    /\ Stored(call[c].seg) /\ Goto(c, "check")
    /\ UNCHANGED <<kind, manifests, pending, leaks, lock, script, output, trouble>>

CreateMultipart(c) ==
    /\ In(c, "upload") /\ call[c].seg \in Big
    /\ pending' = pending + 1
    /\ Goto(c, "parts")
    /\ UNCHANGED <<kind, objects, manifests, leaks, lock, script, output, trouble>>

UploadPart(c) ==
    /\ In(c, "parts") /\ call[c].part < Parts
    /\ call' = [call EXCEPT ![c].part = @ + 1]
    /\ UNCHANGED <<kind, bucket, lock, script, output, trouble>>

\* A part, or the read of it, fails: the upload is aborted, and the abort's
\* own error ignored.
PartFails(c) ==
    /\ In(c, "parts") /\ call[c].part < Parts /\ Faulty
    /\ \/ pending' = pending - 1 /\ UNCHANGED leaks
       \/ leaks' = leaks + 1 /\ UNCHANGED pending
    /\ Returns(c, "failed")
    /\ UNCHANGED <<kind, objects, manifests, script, output>>

CompleteMultipart(c) ==
    /\ In(c, "parts") /\ call[c].part = Parts
    /\ Stored(call[c].seg) /\ pending' = pending - 1
    /\ Goto(c, "check")
    /\ UNCHANGED <<kind, manifests, leaks, lock, script, output, trouble>>

CompleteUnchecked(c) == \* mutant: the error of a failing completion is lost
    /\ In(c, "parts") /\ call[c].part = Parts /\ Faulty
    /\ Goto(c, "commit")
    /\ leaks' = leaks + 1
    /\ UNCHANGED <<kind, objects, manifests, pending, lock, script, output>>

\* A failing completion is not aborted; the bucket may have done it.
CompleteFails(c) ==
    /\ In(c, "parts") /\ call[c].part = Parts /\ Faulty
    /\ \/ Stored(call[c].seg) /\ pending' = pending - 1 /\ UNCHANGED leaks
       \/ leaks' = leaks + 1 /\ UNCHANGED <<objects, pending>>
    /\ Returns(c, "failed")
    /\ UNCHANGED <<kind, manifests, script, output>>

CheckUpload(c) ==
    /\ In(c, "check")
    /\ IF objects[call[c].seg].tag # "old"
       THEN Goto(c, "commit") /\ UNCHANGED lock ELSE Returns(c, "failed")
    /\ UNCHANGED <<kind, bucket, script, output, trouble>>

\* The manifest object commits the archive.
PutManifest(c) ==
    /\ In(c, "commit")
    /\ manifests' = [manifests EXCEPT ![call[c].seg] = "new"]
    /\ Returns(c, "ok")
    /\ UNCHANGED <<kind, objects, pending, leaks, script, output, trouble>>

\* Any other request fails; a write may have happened all the same, an upload
\* of which the caller never learns the id among them.
RequestFails(c) ==
    /\ call[c].at \in {"head", "upload", "check", "commit"} /\ Faulty
    /\ \/ UNCHANGED bucket
       \/ In(c, "upload") /\ call[c].seg \notin Big /\ Stored(call[c].seg)
          /\ UNCHANGED <<manifests, pending, leaks>>
       \/ In(c, "commit") /\ manifests' = [manifests EXCEPT ![call[c].seg] = "new"]
          /\ UNCHANGED <<objects, pending, leaks>>
       \/ In(c, "upload") /\ call[c].seg \in Big
          /\ pending' = pending + 1 /\ leaks' = leaks + 1
          /\ UNCHANGED <<objects, manifests>>
    /\ Returns(c, "failed")
    /\ UNCHANGED <<kind, script, output>>

-----------------------------------------------------------------------------
(* S3Backend.Retrieve and downloadObject. *)

\* The manifest object, downloaded and read.
GetManifest(c) ==
    /\ In(c, "manifest")
    /\ IF manifests[call[c].seg] = None
       THEN Returns(c, "failed")
       ELSE /\ call' = [call EXCEPT ![c].at = "get", ![c].seen = manifests[call[c].seg]]
            /\ UNCHANGED lock
    /\ UNCHANGED <<kind, bucket, script, output, trouble>>

Opened(s, f, c, content) ==
    text' = [text EXCEPT ![s][f] = [content |-> content, opener |-> c]]

\* GetObject, then os.Create of the temporary name, which truncates a file
\* another retrieve of the segment is writing.
CreateTemp(c) ==
    /\ In(c, "get")
    /\ LET s == call[c].seg
           f == IF temp[s] = None THEN c ELSE temp[s]
       IN  /\ objects[s] # NoObject
           /\ temp' = [temp EXCEPT ![s] = f]
           /\ Opened(s, f, c, "part")
           /\ call' = [call EXCEPT ![c].at = "copy", ![c].fd = f,
                                   ![c].body = objects[s].content]
    /\ UNCHANGED <<kind, bucket, lock, script, final, trouble>>

\* io.Copy and Close; what another opened since has a hole until it is done.
CopyObject(c) ==
    /\ In(c, "copy")
    /\ LET s == call[c].seg
       IN  text' = [text EXCEPT ![s][call[c].fd] =
                      IF @.opener = c THEN [@ EXCEPT !.content = call[c].body] ELSE @]
    /\ Goto(c, "rename")
    /\ UNCHANGED <<kind, bucket, lock, script, final, temp, trouble>>

\* The copy fails: the temporary name is removed, whoever's it is.
CopyFails(c) ==
    /\ In(c, "copy") /\ Faulty
    /\ temp' = [temp EXCEPT ![call[c].seg] = None]
    /\ Returns(c, "failed")
    /\ UNCHANGED <<kind, bucket, script, final, text>>

Content(s) == IF final[s] = None THEN None ELSE text[s][final[s]].content

\* The temporary name may lead to what another retrieve is still writing.
RenameTemp(c) ==
    /\ In(c, "rename")
    /\ LET s == call[c].seg
       IN  IF temp[s] = None
           THEN Returns(c, "failed") /\ UNCHANGED <<final, temp, marred>>
           ELSE /\ final' = [final EXCEPT ![s] = temp[s]]
                /\ temp' = [temp EXCEPT ![s] = None]
                /\ marred' = IF Content(s) = "new" /\ text[s][temp[s]].content # "new"
                             THEN marred \cup {s} ELSE marred
                /\ Goto(c, "digest") /\ UNCHANGED lock
    /\ UNCHANGED <<kind, bucket, supports, probes, caps, refusals, kept, text, trouble>>

DigestSkipped(c) ==     \* mutant: the download is not checked
    /\ In(c, "digest")
    /\ Returns(c, "ok")
    /\ UNCHANGED <<kind, bucket, script, output, trouble>>

\* The digest of what the final name leads to, against the manifest.
Digest(c) ==
    /\ In(c, "digest")
    /\ Returns(c, IF Content(call[c].seg) = call[c].seen THEN "ok" ELSE "failed")
    /\ UNCHANGED <<kind, bucket, script, output, trouble>>

\* A download fails before it wrote anything, or the digest's read.
RetrieveFails(c) ==
    /\ call[c].at \in {"manifest", "get", "digest"} /\ Faulty
    /\ Returns(c, "failed")
    /\ UNCHANGED <<kind, bucket, script, output>>

-----------------------------------------------------------------------------
(* ScriptBackend: one run at a time. *)

\* What a run of a mode for a segment may end with; "garbled" is an exit 0
\* whose output does not match its manifest.
Exits(mode, s) ==
    IF mode \notin supports THEN {"64", "error"}
    ELSE IF mode = "retrieve" /\ s \notin kept THEN {"absent"}
    ELSE {"0", "error", "timeout"} \cup IF mode = "retrieve" THEN {"garbled"} ELSE {}

Costs(exit) == IF exit \in {"0", "64", "absent"} THEN UNCHANGED trouble ELSE Faulty

RecordCap(mode, exit) ==
    caps' = [caps EXCEPT ![mode] = IF exit \in {"0", "garbled"} THEN "yes"
                                   ELSE IF exit = "64" THEN "no" ELSE @]

ResultOf(exit) ==
    IF exit = "0" THEN "ok" ELSE IF exit = "64" THEN "unsupported" ELSE "failed"

\* The script is started; a retrieve may write its output in place.
ScriptStarts(c) ==
    /\ In(c, "run")
    /\ \/ UNCHANGED output
       \/ /\ call[c].mode = "retrieve" /\ "retrieve" \in supports
          /\ final' = [final EXCEPT ![call[c].seg] = c]
          /\ Opened(call[c].seg, c, c, "part")
          /\ UNCHANGED temp
    /\ Goto(c, "exit")
    /\ UNCHANGED <<kind, bucket, lock, script, trouble>>

Refused(mode, exit) ==
    refusals' = [refusals EXCEPT ![mode] = @ + IF exit = "64" THEN 1 ELSE 0]

\* archive and verify: the store has the segment after exit 0, and may have it
\* after a failure.
ScriptExits(c) ==
    /\ In(c, "exit") /\ call[c].mode # "retrieve"
    /\ \E exit \in Exits(call[c].mode, call[c].seg) :
          /\ Costs(exit)
          /\ RecordCap(call[c].mode, exit) /\ Refused(call[c].mode, exit)
          /\ kept' \in IF call[c].mode = "verify" \/ exit = "64" THEN {kept}
                       ELSE IF exit = "0" THEN {kept \cup {call[c].seg}}
                       ELSE {kept, kept \cup {call[c].seg}}
          /\ Returns(c, ResultOf(exit))
    /\ UNCHANGED <<kind, bucket, supports, probes, marred, output>>

\* retrieve: a failing run's output is removed; output that does not match
\* its manifest stays.
ScriptRetrieved(c) ==
    /\ In(c, "exit") /\ call[c].mode = "retrieve"
    /\ \E exit \in Exits("retrieve", call[c].seg) :
          LET s == call[c].seg
          IN  /\ Costs(exit)
              /\ RecordCap("retrieve", exit) /\ Refused("retrieve", exit)
              /\ final' = [final EXCEPT ![s] = IF exit \in {"0", "garbled"} THEN c ELSE None]
              /\ Opened(s, c, c, IF exit = "0" THEN "new" ELSE "part")
              /\ marred' = IF exit = "0" THEN marred ELSE marred \cup {s}
              /\ Returns(c, ResultOf(exit))
    /\ UNCHANGED <<kind, bucket, supports, probes, kept, temp>>

\* The admin page's test: the script is probed anew, and what its runs had told
\* is forgotten.  The mutex is held throughout, and nothing changes before the
\* last answer, so it is one step.
ProbeAgain ==
    /\ kind = "script" /\ lock = None
    /\ \E cut \in Cuts :
          /\ caps' = Probed(cut)
          /\ IF cut = {} THEN UNCHANGED trouble ELSE Faulty
    /\ refusals' = [m \in Modes |-> 0]
    /\ UNCHANGED <<kind, bucket, lock, call, supports, probes, kept, marred, output, walk>>

-----------------------------------------------------------------------------
(* S3Backend.Verify lists the keys in order, page by page, then compares.  *)
(* A segment's manifest has the key before its Parquet object.             *)

Keys == 1..2 * Cardinality(Segs)
Exists(k) == \E s \in Segs : \/ k = 2 * s - 1 /\ manifests[s] # None
                             \/ k = 2 * s /\ objects[s] # NoObject

\* DanglingManifests of a listing that is complete.
Complete == walk.pos = 2 * Cardinality(Segs)
Dangling == {s \in Segs : Complete /\ 2 * s - 1 \in walk.seen /\ 2 * s \notin walk.seen}

VerifyBegins ==
    /\ kind = "s3" /\ walk.at = "idle"
    /\ walk' = [NoWalk EXCEPT !.at = "list"] /\ Faulty

ListPage ==
    /\ walk.at = "list"
    /\ \E last \in Keys :
          /\ walk.pos < last
          /\ walk' = [walk EXCEPT !.pos = last,
                        !.seen = @ \cup {k \in walk.pos + 1..last : Exists(k)}]

\* The comparison is answered, or a page failed.
VerifyEnds ==
    /\ walk.at = "list"
    /\ walk' = NoWalk

-----------------------------------------------------------------------------
BackendStep(c) ==
    /\ \/ Lock(c)
       \/ HeadObject(c) \/ UploadSingle(c) \/ CreateMultipart(c) \/ UploadPart(c)
       \/ CompleteMultipart(c) \/ CheckUpload(c) \/ PutManifest(c)
       \/ GetManifest(c) \/ CreateTemp(c) \/ CopyObject(c) \/ RenameTemp(c) \/ Digest(c)
       \/ ScriptStarts(c) \/ ScriptExits(c) \/ ScriptRetrieved(c)
    /\ UNCHANGED walk

BackendFault(c) ==
    /\ PartFails(c) \/ CompleteFails(c) \/ RequestFails(c) \/ CopyFails(c) \/ RetrieveFails(c)
    /\ UNCHANGED walk

Verify ==
    /\ \/ VerifyBegins
       \/ (ListPage \/ VerifyEnds) /\ UNCHANGED trouble
    /\ UNCHANGED <<kind, bucket, lock, call, script, output>>

\* The process ends: calls and locks are gone, an upload in progress is left
\* behind, and the next process probes the script.
BackendRestarts ==
    /\ leaks' = leaks + Cardinality({c \in Callers : In(c, "parts")})
    /\ call' = [c \in Callers |-> NoCall]
    /\ lock' = None
    /\ \E cut \in Cuts : caps' = Probed(cut)
    /\ refusals' = [m \in Modes |-> 0]
    /\ walk' = NoWalk
    /\ Faulty
    /\ marred' = marred \cup {call[c].seg : c \in {d \in Callers :
                                 In(d, "exit") /\ call[d].mode = "retrieve"}}
    /\ UNCHANGED <<kind, objects, manifests, pending, supports, probes, kept, output>>

\* What a retrieve gets back.
Committed(s) ==
    \/ kind = "s3" /\ objects[s].content = "new" /\ manifests[s] = "new"
    \/ kind = "script" /\ s \in kept
=============================================================================
