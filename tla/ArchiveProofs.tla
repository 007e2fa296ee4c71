---------------------------- MODULE ArchiveProofs -----------------------------
(***************************************************************************)
(* Proofs about ArchiveJobs, for any number of jobs, verify requests,      *)
(* segments, parts and failures, with either backend: the invariant of     *)
(* ArchiveInv is inductive, and with it what the bucket, the script's      *)
(* store, the files and the rows of the jobs promise; and the jobs and     *)
(* backends implement ArchiveStore, step by step.                          *)
(***************************************************************************)
EXTENDS ArchiveInv, FiniteSetTheorems, TLAPS

Labels == {"idle", "lock", "done"} \cup Uploading \cup Running \cup Reading

\* The other calls stay, and this one is for the same segment and mode.
Kept(c) ==
    /\ call' \in [Callers -> Call]
    /\ \A d \in Callers : d # c => call'[d] = call[d]
    /\ call'[c].mode = call[c].mode /\ call'[c].seg = call[c].seg

\* A call that goes on remembers what it found.
LEMMA GotoKeeps ==
    ASSUME call \in [Callers -> Call], NEW c \in Callers, NEW label \in Labels, Goto(c, label)
    PROVE  /\ Kept(c) /\ call'[c].at = label /\ call'[c].seen = call[c].seen
           /\ call'[c].fd = call[c].fd /\ call'[c].body = call[c].body
BY DEF Goto, Kept, Call, Labels

\* A call that returns has its result, and gives the mutex back.
LEMMA ReturnKeeps ==
    ASSUME call \in [Callers -> Call], lock \in Callers \cup {None}, NEW c \in Callers,
           NEW res \in {"ok", "failed", "unsupported"}, Returns(c, res)
    PROVE  /\ Kept(c) /\ call'[c].at = "done" /\ call'[c].res = res
           /\ lock' = IF lock = c THEN None ELSE lock
BY ZenonT(30) DEF Returns, Unlocks, Kept, Call

\* What a call remembers is of the shape of a call.
LEMMA CallShape ==
    ASSUME NEW r \in Call, NEW label \in Labels, NEW fd \in Callers \cup {None},
           NEW seen \in {None, "new"}, NEW body \in {None, "old", "new"}
    PROVE  /\ [r EXCEPT !.part = r.part + 1] \in Call
           /\ [r EXCEPT !.at = label, !.seen = seen] \in Call
           /\ [r EXCEPT !.at = label, !.fd = fd, !.body = body] \in Call
<1>1. [r EXCEPT !.part = r.part + 1] \in Call
  BY DEF Call
<1>2. [r EXCEPT !.at = label, !.seen = seen] \in Call
  BY DEF Call, Labels
<1>3. [r EXCEPT !.fd = fd] \in Call
  BY DEF Call
<1>4. \A q \in Call : [q EXCEPT !.at = label, !.body = body] \in Call
  BY DEF Call, Labels
<1>5. [r EXCEPT !.at = label, !.fd = fd, !.body = body]
         = [[r EXCEPT !.fd = fd] EXCEPT !.at = label, !.body = body]
  BY DEF Call
<1>6. QED
  BY <1>1, <1>2, <1>3, <1>4, <1>5

\* A call that goes on and remembers more.
LEMMA RecordKeeps ==
    ASSUME call \in [Callers -> Call], NEW c \in Callers, NEW rec \in Call,
           rec.mode = call[c].mode, rec.seg = call[c].seg, call' = [call EXCEPT ![c] = rec]
    PROVE  Kept(c) /\ call'[c] = rec
BY DEF Kept

\* A script's run that ends returns one of the three results.
LEMMA ResultsOfRuns ==
    ASSUME NEW exit PROVE ResultOf(exit) \in {"ok", "failed", "unsupported"}
BY DEF ResultOf

\* What a step of a call may be.
Steps(c) == BackendStep(c) \/ BackendFault(c)

\* The steps of a call change that call only, and hold the mutex exactly while
\* they are between Lock and the return.
LEMMA CallMoves ==
    ASSUME TypeInv, LockInv, CallInv, NEW c \in Callers, Steps(c)
    PROVE  /\ Kept(c) /\ LockInv' /\ lock' \in Callers \cup {None}
           /\ call[c].at \notin {"idle", "done"} /\ call'[c].at # "idle"
<1> USE BackendsAssumption DEF TypeInv, LockInv, In, None
<1> DEFINE Goal == /\ Kept(c) /\ LockInv' /\ lock' \in Callers \cup {None}
                   /\ call[c].at \notin {"idle", "done"} /\ call'[c].at # "idle"
<1>a. ASSUME NEW res \in {"ok", "failed", "unsupported"}, Returns(c, res),
             call[c].at \notin {"idle", "done"}
      PROVE  Goal
  <2>1. /\ Kept(c) /\ call'[c].at = "done"
        /\ lock' = IF lock = c THEN None ELSE lock
    BY <1>a, ReturnKeeps
  <2>2. QED
    BY <2>1, <1>a DEF Kept, Uploading, Running
<1>b. ASSUME NEW label \in Labels, Goto(c, label), UNCHANGED lock,
             call[c].at \notin {"idle", "done"}, label # "idle",
             call[c].at \in Uploading \cup Running <=> label \in Uploading \cup Running
      PROVE  Goal
  <2>1. /\ Kept(c) /\ call'[c].at = label
    BY <1>b, GotoKeeps
  <2>2. QED
    BY <2>1, <1>b DEF Kept
<1>1. CASE Lock(c)
  <2>1. CASE Returns(c, "unsupported")
    BY <2>1, <1>1, <1>a DEF Lock
  <2>2. CASE lock' = c /\ Goto(c, IF kind = "s3" THEN "head" ELSE "run")
    <3>1. Kept(c) /\ call'[c].at \in {"head", "run"}
      BY <2>2, GotoKeeps DEF Labels, Uploading, Running
    <3>2. QED
      BY <3>1, <2>2, <1>1 DEF Kept, Uploading, Running, Lock
  <2>3. QED
    BY <1>1, <2>1, <2>2 DEF Lock
<1>2. CASE HeadObject(c)
  BY <1>2, <1>b DEF HeadObject, Labels, Uploading, Running
<1>3. CASE UploadSingle(c) \/ CreateMultipart(c) \/ CompleteMultipart(c)
  BY <1>3, <1>b DEF UploadSingle, CreateMultipart, CompleteMultipart, Labels, Uploading, Running
<1>4. CASE UploadPart(c)
  <2>1. Kept(c) /\ call'[c].at = call[c].at /\ call[c].at = "parts"
    <3> DEFINE rec == [call[c] EXCEPT !.part = call[c].part + 1]
    <3>1. rec \in Call
      <4>1. call[c] \in Call /\ "copy" \in Labels
        BY DEF Labels, Reading
      <4>2. QED
        BY <4>1, CallShape
    <3>a. rec.mode = call[c].mode /\ rec.seg = call[c].seg /\ rec.at = call[c].at
      BY DEF Call
    <3>2. call' = [call EXCEPT ![c] = rec]
      BY <1>4 DEF UploadPart
    <3> HIDE DEF rec
    <3>3. QED
      BY <3>1, <3>a, <3>2, <1>4, RecordKeeps DEF UploadPart
  <2>2. QED
    BY <2>1, <1>4 DEF Kept, UploadPart
<1>5. CASE CheckUpload(c)
  BY <1>5, <1>a, <1>b DEF CheckUpload, Labels, Uploading, Running
<1>6. CASE PutManifest(c)
  BY <1>6, <1>a DEF PutManifest
<1>7. CASE GetManifest(c)
  <2>1. CASE Returns(c, "failed")
    BY <2>1, <1>7, <1>a DEF GetManifest
  <2>2. CASE call' = [call EXCEPT ![c].at = "get", ![c].seen = manifests[call[c].seg]]
             /\ UNCHANGED lock /\ manifests[call[c].seg] # None
    <3>1. Kept(c) /\ call'[c].at = "get" /\ call[c].at = "manifest"
      <4> DEFINE rec == [call[c] EXCEPT !.at = "get", !.seen = manifests[call[c].seg]]
      <4>1. call[c].at = "manifest" /\ call[c].seg \in Segs
        BY <1>7 DEF GetManifest, CallInv, CallTrue
      <4>2. manifests[call[c].seg] = "new"
        BY <4>1, <2>2 DEF BucketType
      <4>3. rec \in Call
        <5>1. call[c] \in Call /\ "get" \in Labels
          BY DEF Labels, Reading
        <5>2. QED
          BY <4>2, <5>1, CallShape
      <4>a. rec.mode = call[c].mode /\ rec.seg = call[c].seg /\ rec.at = "get"
        BY DEF Call
      <4>4. call' = [call EXCEPT ![c] = rec]
        BY <2>2
      <4> HIDE DEF rec
      <4>5. QED
        BY <4>1, <4>3, <4>a, <4>4, RecordKeeps
    <3>2. QED
      BY <3>1, <2>2 DEF Kept, Uploading, Running
  <2>3. QED
    BY <1>7, <2>1, <2>2 DEF GetManifest
<1>8. CASE CreateTemp(c)
  <2>1. Kept(c) /\ call'[c].at = "copy" /\ call[c].at = "get" /\ lock' = lock
    <3> DEFINE s == call[c].seg
               f == IF temp[s] = None THEN c ELSE temp[s]
               rec == [call[c] EXCEPT !.at = "copy", !.fd = f, !.body = objects[s].content]
    <3>1. call[c].at = "get" /\ s \in Segs
      BY <1>8 DEF CreateTemp, CallInv, CallTrue
    <3>2. objects[s].content \in {None, "old", "new"}
      BY <3>1 DEF BucketType, Object, NoObject
    <3>3. f \in Callers
      BY <3>1 DEF FileType
    <3>4. rec \in Call
      <4>1. call[c] \in Call /\ "copy" \in Labels
        BY DEF Labels, Reading
      <4> HIDE DEF f
      <4>2. QED
        BY <3>2, <3>3, <4>1, CallShape
    <3>a. rec.mode = call[c].mode /\ rec.seg = call[c].seg /\ rec.at = "copy"
      BY DEF Call
    <3>5. call' = [call EXCEPT ![c] = rec] /\ lock' = lock
      BY <1>8 DEF CreateTemp
    <3> HIDE DEF rec
    <3>6. QED
      BY <3>1, <3>4, <3>a, <3>5, RecordKeeps
  <2>2. QED
    BY <2>1 DEF Kept, Uploading, Running
<1>9. CASE CopyObject(c) \/ ScriptStarts(c)
  BY <1>9, <1>b DEF CopyObject, ScriptStarts, Labels, Uploading, Running, Reading
<1>10. CASE RenameTemp(c)
  BY <1>10, <1>a, <1>b DEF RenameTemp, Labels, Uploading, Running, Reading
<1>11. CASE Digest(c)
  BY <1>11, <1>a DEF Digest
<1>12. CASE ScriptExits(c) \/ ScriptRetrieved(c)
  BY <1>12, <1>a, ResultsOfRuns DEF ScriptExits, ScriptRetrieved
<1>13. CASE BackendFault(c)
  BY <1>13, <1>a
     DEF BackendFault, PartFails, CompleteFails, RequestFails, CopyFails, RetrieveFails
<1>14. QED
  BY <1>1, <1>2, <1>3, <1>4, <1>5, <1>6, <1>7, <1>8, <1>9, <1>10, <1>11, <1>12, <1>13
     DEF Steps, BackendStep

-----------------------------------------------------------------------------
(* What a step of a call changes. *)

\* Most steps change the call alone.
Quiet == UNCHANGED <<kind, bucket, script, output, walk>>

LEMMA QuietSteps ==
    ASSUME NEW c \in Callers, Steps(c)
    PROVE  \/ Quiet
           \/ UploadSingle(c) \/ CreateMultipart(c) \/ CompleteMultipart(c) \/ PutManifest(c)
           \/ CreateTemp(c) \/ CopyObject(c) \/ RenameTemp(c)
           \/ ScriptStarts(c) \/ ScriptExits(c) \/ ScriptRetrieved(c)
           \/ PartFails(c) \/ CompleteFails(c) \/ RequestFails(c) \/ CopyFails(c)
BY DEF Steps, BackendStep, BackendFault, Quiet, Lock, HeadObject, UploadPart, CheckUpload,
       GetManifest, Digest, RetrieveFails, bucket, script, output

\* What is in the bucket or the script's store is replaced by the segment's own
\* or stays.
Grows ==
    /\ kind' = kind
    /\ \A s \in Segs : objects'[s] = objects[s] \/ objects'[s] = Object("new", "new")
    /\ \A s \in Segs : manifests'[s] = manifests[s] \/ manifests'[s] = "new"
    /\ kept \subseteq kept'

\* So a committed segment stays so (ArchiveStore takes nothing back).
LEMMA CommittedStays ==
    ASSUME Grows, NEW s \in Segs, Committed(s)
    PROVE  Committed(s)'
BY DEF Grows, Committed, Object

\* A file that is opened is a file.
LEMMA OpenedShape ==
    ASSUME FileType, NEW s \in Segs, NEW f \in Callers, NEW c \in Callers,
           NEW content \in {"part", "new"}, Opened(s, f, c, content)
    PROVE  text' \in [Segs -> [Callers -> File]]
BY DEF FileType, Opened, File

\* The steps of a call keep the shapes of the bucket, the script's store and
\* the files, and take nothing back.
LEMMA StoreMoves ==
    ASSUME TypeInv, CallInv, NEW c \in Callers, Steps(c)
    PROVE  Grows /\ walk' = walk /\ BucketType' /\ ScriptType' /\ FileType'
<1> USE DEF None
<1> DEFINE Goal == Grows /\ walk' = walk /\ BucketType' /\ ScriptType' /\ FileType'
<1>w. walk' = walk
  BY DEF Steps, BackendStep, BackendFault
<1>c. call[c] \in Call /\ (call[c].at # "idle" => call[c].seg \in Segs)
  BY DEF TypeInv, CallInv, CallTrue
<1>b. BucketType /\ ScriptType /\ FileType
  BY DEF TypeInv
<1>1. ASSUME UNCHANGED <<kind, manifests, script>>, pending' \in Int, leaks' \in Int,
             UNCHANGED objects \/ (Stored(call[c].seg) /\ call[c].seg \in Segs)
      PROVE  Grows /\ BucketType' /\ ScriptType'
  BY <1>1, <1>w, <1>b DEF Grows, BucketType, ScriptType, script, Stored
<1>2. CASE Quiet
  BY <1>2, <1>b DEF Quiet, Grows, BucketType, ScriptType, FileType, bucket, script, output
<1>3. CASE UploadSingle(c) \/ CreateMultipart(c) \/ CompleteMultipart(c) \/ PartFails(c)
           \/ CompleteFails(c)
  <2>1. /\ UNCHANGED <<kind, manifests, script, output>>
        /\ UNCHANGED objects \/ (Stored(call[c].seg) /\ call[c].seg \in Segs)
    BY <1>3, <1>c
       DEF UploadSingle, CreateMultipart, CompleteMultipart, PartFails, CompleteFails, In
  <2>2. pending' \in Int /\ leaks' \in Int
    BY <1>3, <1>b DEF UploadSingle, CreateMultipart, CompleteMultipart, PartFails,
                      CompleteFails, BucketType
  <2>3. QED
    BY <2>1, <2>2, <1>1, <1>w, <1>b DEF FileType, output
<1>4. CASE PutManifest(c)
  BY <1>4, <1>c, <1>w, <1>b
     DEF PutManifest, In, Grows, BucketType, ScriptType, FileType, script, output
<1>5. CASE RequestFails(c)
  <2>1. UNCHANGED <<kind, script, output>> /\ (In(c, "upload") \/ In(c, "commit") => call[c].seg \in Segs)
    BY <1>5, <1>c DEF RequestFails, In
  <2>2. CASE UNCHANGED manifests
    <3>1. pending' \in Int /\ leaks' \in Int
      BY <1>5, <1>b DEF RequestFails, BucketType, bucket
    <3>2. UNCHANGED objects \/ (Stored(call[c].seg) /\ call[c].seg \in Segs)
      BY <1>5, <2>1 DEF RequestFails, bucket
    <3>3. QED
      BY <2>1, <2>2, <3>1, <3>2, <1>1, <1>w, <1>b DEF FileType, output
  <2>3. CASE ~UNCHANGED manifests
    <3>1. /\ In(c, "commit") /\ manifests' = [manifests EXCEPT ![call[c].seg] = "new"]
          /\ UNCHANGED <<objects, pending, leaks>>
      BY <1>5, <2>3 DEF RequestFails, bucket
    <3>2. QED
      BY <2>1, <3>1, <1>w, <1>b DEF Grows, BucketType, ScriptType, FileType, script, output
  <2>4. QED
    BY <2>2, <2>3
<1>6. ASSUME UNCHANGED <<kind, bucket, supports, caps, refusals, kept>>
      PROVE  Grows /\ BucketType' /\ ScriptType'
  BY <1>6, <1>w, <1>b DEF Grows, BucketType, ScriptType, bucket
<1>7. CASE CreateTemp(c)
  <2>1. call[c].seg \in Segs
    BY <1>7, <1>c DEF CreateTemp, In
  <2>2. FileType'
    BY <1>7, <2>1, <1>b DEF CreateTemp, FileType, Opened, File
  <2>3. QED
    BY <1>7, <1>6, <1>w, <2>2 DEF CreateTemp, script
<1>8. CASE CopyObject(c)
  <2>1. call[c].seg \in Segs /\ call[c].fd \in Callers /\ call[c].body = "new"
    BY <1>8, <1>c DEF CopyObject, In, CallInv, CallTrue
  <2>2. FileType'
    BY <1>8, <2>1, <1>b DEF CopyObject, FileType, File
  <2>3. QED
    BY <1>8, <1>6, <1>w, <2>2 DEF CopyObject, script
<1>9. CASE RenameTemp(c) \/ CopyFails(c)
  <2>1. call[c].seg \in Segs
    BY <1>9, <1>c DEF RenameTemp, CopyFails, In
  <2>2. FileType'
    BY <1>9, <2>1, <1>b DEF RenameTemp, CopyFails, FileType
  <2>3. QED
    BY <1>9, <1>6, <1>w, <2>2 DEF RenameTemp, CopyFails, script
<1>10. CASE ScriptStarts(c)
  <2>1. call[c].seg \in Segs
    BY <1>10, <1>c DEF ScriptStarts, In
  <2>2. FileType'
    <3>1. CASE UNCHANGED output
      BY <3>1, <1>b DEF FileType, output
    <3>2. CASE ~UNCHANGED output
      <4>1. /\ final' = [final EXCEPT ![call[c].seg] = c] /\ temp' = temp
            /\ Opened(call[c].seg, c, c, "part")
        BY <3>2, <1>10 DEF ScriptStarts
      <4>2. text' \in [Segs -> [Callers -> File]]
        BY <4>1, <2>1, <1>b, OpenedShape
      <4>3. QED
        BY <4>1, <4>2, <2>1, <1>b DEF FileType
    <3>3. QED
      BY <3>1, <3>2
  <2>3. QED
    BY <1>10, <1>6, <1>w, <2>2 DEF ScriptStarts, script
<1>11. CASE ScriptExits(c) \/ ScriptRetrieved(c)
  <2>1. call[c].seg \in Segs /\ call[c].mode \in Modes
    BY <1>11, <1>c DEF ScriptExits, ScriptRetrieved, In, CallInv, CallTrue
  <2>2. Grows /\ BucketType'
    BY <1>11, <1>w, <1>b DEF ScriptExits, ScriptRetrieved, Grows, BucketType, bucket
  <2>3. FileType'
    <3>1. CASE ScriptExits(c)
      BY <3>1, <1>b DEF ScriptExits, FileType, output
    <3>2. CASE ScriptRetrieved(c)
      <4>1. PICK exit : /\ final' = [final EXCEPT ![call[c].seg] =
                                       IF exit \in {"0", "garbled"} THEN c ELSE None]
                        /\ Opened(call[c].seg, c, c, IF exit = "0" THEN "new" ELSE "part")
        BY <3>2 DEF ScriptRetrieved
      <4>2. text' \in [Segs -> [Callers -> File]]
        BY <4>1, <2>1, <1>b, OpenedShape
      <4>3. QED
        BY <4>1, <4>2, <3>2, <2>1, <1>b DEF FileType, ScriptRetrieved
    <3>3. QED
      BY <1>11, <3>1, <3>2
  <2>4. \E mode \in Modes : \E exit : RecordCap(mode, exit) /\ Refused(mode, exit)
    <3>1. CASE ScriptExits(c)
      BY <3>1, <2>1 DEF ScriptExits
    <3>2. CASE ScriptRetrieved(c)
      BY <3>2 DEF ScriptRetrieved, Modes
    <3>3. QED
      BY <1>11, <3>1, <3>2
  <2>5. caps' \in [Modes -> {"yes", "no", "unknown"}] /\ refusals' \in [Modes -> Nat]
    BY <2>4, <1>b DEF RecordCap, Refused, ScriptType
  <2>6. supports' = supports /\ kept' \in SUBSET Segs
    BY <1>11, <2>1, <1>b DEF ScriptExits, ScriptRetrieved, ScriptType
  <2>7. QED
    BY <2>2, <2>3, <2>5, <2>6, <1>w, <1>b DEF ScriptType
<1>12. QED
  BY <1>2, <1>3, <1>4, <1>5, <1>7, <1>8, <1>9, <1>10, <1>11, QuietSteps

-----------------------------------------------------------------------------
(* What the calls know stays true. *)

\* What is known of a mode changes only at the end of a run, which holds the
\* mutex.
LEMMA CapsMove ==
    ASSUME TypeInv, NEW c \in Callers, Steps(c)
    PROVE  \/ UNCHANGED <<supports, caps, refusals>>
           \/ /\ In(c, "exit") /\ supports' = supports
              /\ \E exit \in Exits(call[c].mode, call[c].seg) :
                    RecordCap(call[c].mode, exit) /\ Refused(call[c].mode, exit)
<1>1. CASE Quiet
  BY <1>1 DEF Quiet, script
<1>2. CASE UploadSingle(c) \/ CreateMultipart(c) \/ CompleteMultipart(c) \/ PutManifest(c)
           \/ CreateTemp(c) \/ CopyObject(c) \/ ScriptStarts(c)
           \/ PartFails(c) \/ CompleteFails(c) \/ RequestFails(c) \/ CopyFails(c)
  BY <1>2 DEF UploadSingle, CreateMultipart, CompleteMultipart, PutManifest, CreateTemp,
       CopyObject, ScriptStarts, PartFails, CompleteFails, RequestFails, CopyFails, script
<1>3. CASE RenameTemp(c)
  BY <1>3 DEF RenameTemp
<1>4. CASE ScriptExits(c)
  BY <1>4 DEF ScriptExits
<1>5. CASE ScriptRetrieved(c)
  BY <1>5 DEF ScriptRetrieved
<1>6. QED
  BY <1>1, <1>2, <1>3, <1>4, <1>5, QuietSteps

\* What the process knows of the script stays true: a run's exit tells only
\* what the script implements, and a mode known to be refused is not run.
LEMMA KnownStep ==
    ASSUME TypeInv, CallInv, KnownInv, NEW c \in Callers, Steps(c)
    PROVE  KnownInv'
<1>1. CASE UNCHANGED <<supports, caps, refusals>>
  BY <1>1 DEF KnownInv
<1>2. ASSUME In(c, "exit"), supports' = supports,
             NEW exit \in Exits(call[c].mode, call[c].seg),
             RecordCap(call[c].mode, exit), Refused(call[c].mode, exit)
      PROVE  KnownInv'
  <2>1. call[c].mode \in Modes /\ caps[call[c].mode] # "no"
    BY <1>2 DEF In, CallInv, CallTrue, Running
  <2>2. refusals[call[c].mode] = 0
    BY <2>1 DEF KnownInv, TypeInv, ScriptType
  <2>3. /\ exit = "64" => call[c].mode \notin supports
        /\ exit \in {"0", "garbled"} => call[c].mode \in supports
    BY <1>2 DEF Exits
  <2>4. caps' = [caps EXCEPT ![call[c].mode] =
                   IF exit \in {"0", "garbled"} THEN "yes" ELSE IF exit = "64" THEN "no" ELSE @]
    BY <1>2 DEF RecordCap
  <2>5. refusals' = [refusals EXCEPT ![call[c].mode] = IF exit = "64" THEN 1 ELSE 0]
    BY <1>2, <2>1, <2>2 DEF Refused, TypeInv, ScriptType
  <2>6. QED
    BY <1>2, <2>1, <2>2, <2>3, <2>4, <2>5 DEF KnownInv, TypeInv, ScriptType
<1>3. QED
  BY <1>1, <1>2, CapsMove

\* A call that waits keeps its truth while another goes on.
LEMMA OthersTrue ==
    ASSUME TypeInv, LockInv, CallInv, NEW c \in Callers, Steps(c),
           NEW d \in Callers, d # c
    PROVE  CallTrue(d)'
<1>1. call'[d] = call[d] /\ Grows
  BY CallMoves, StoreMoves DEF Kept
<1>2. call[d].at \in Running => caps'[call[d].mode] = caps[call[d].mode]
  BY CapsMove DEF LockInv, In, Running
<1>3. CallTrue(d)
  BY DEF CallInv
<1>4. call[d].at # "idle" => (Committed(call[d].seg) => Committed(call[d].seg)')
  BY <1>1, <1>3, CommittedStays DEF CallTrue
<1>5. call[d].at # "idle" => call[d].seg \in Segs
  BY <1>3 DEF CallTrue
<1>6. /\ call[d].at \in {"check", "commit"} => objects'[call[d].seg] = Object("new", "new")
      /\ call[d].at \in {"get", "copy", "rename", "digest"} => manifests'[call[d].seg] = "new"
  BY <1>1, <1>3, <1>5 DEF CallTrue, Grows
<1>7. call[d].at = "done" /\ call[d].res = "ok" /\ call[d].mode # "verify" =>
         Committed(call[d].seg)'
  BY <1>3, <1>4 DEF CallTrue
<1>8. kind' = kind
  BY <1>1 DEF Grows
<1> HIDE DEF Committed
<1>9. QED
  BY <1>1, <1>2, <1>3, <1>6, <1>7, <1>8 DEF CallTrue

\* The step of a call keeps what that call has found true: an upload checked is
\* in the bucket, a manifest read stays, and a result of "ok" means committed.
LEMMA OwnTrue ==
    ASSUME TypeInv, LockInv, CallInv, CommitMarker, NEW c \in Callers, Steps(c)
    PROVE  CallTrue(c)'
<1> DEFINE s == call[c].seg
<1>k. Kept(c) /\ Grows /\ call[c].at \notin {"idle", "done"}
  BY CallMoves, StoreMoves
<1>s. s \in Segs /\ call[c].mode \in Modes /\ CallTrue(c)
  BY <1>k DEF CallInv, CallTrue
<1>p. call'[c].seg = s /\ call'[c].mode = call[c].mode /\ kind' = kind
  BY <1>k DEF Kept, Grows
<1>t. call \in [Callers -> Call] /\ lock \in Callers \cup {None}
  BY DEF TypeInv
<1>o. /\ objects[s] = Object("new", "new") => objects'[s] = Object("new", "new")
      /\ manifests[s] = "new" => manifests'[s] = "new"
  BY <1>k, <1>s DEF Grows
<1>f. CASE call'[c].at = "done" /\ call'[c].res # "ok"
  BY <1>f, <1>s, <1>p DEF CallTrue, Uploading, Reading, Running
<1>1. CASE Lock(c)
  <2>1. CASE Returns(c, "unsupported")
    BY <2>1, <1>t, <1>f, ReturnKeeps
  <2>2. CASE Goto(c, "head") /\ kind = "s3" /\ In(c, "lock") /\ call[c].mode = "archive"
    <3>1. call'[c].at = "head"
      BY <2>2, <1>t, GotoKeeps DEF Labels, Uploading
    <3>2. QED
      BY <3>1, <2>2, <1>s, <1>p DEF CallTrue, Uploading, Reading, Running
  <2>3. CASE Goto(c, "run") /\ kind # "s3" /\ caps[call[c].mode] # "no" /\ caps' = caps
    <3>1. call'[c].at = "run"
      BY <2>3, <1>t, GotoKeeps DEF Labels, Running
    <3>2. QED
      BY <3>1, <2>3, <1>s, <1>p DEF CallTrue, Uploading, Reading, Running, TypeInv
  <2>4. QED
    <3>1. kind = "s3" => call[c].mode = "archive"
      BY <1>1, <1>s DEF Lock, In, CallTrue
    <3>2. QED
      BY <1>1, <2>1, <2>2, <2>3, <3>1 DEF Lock, script
<1>2. CASE HeadObject(c)
  <2>1. In(c, "head") /\ (Goto(c, "commit") \/ Goto(c, "upload"))
    BY <1>2 DEF HeadObject
  <2>2. Goto(c, "commit") => objects[s] = Object("new", "new")
    <3>1. Goto(c, "commit") => objects[s] # NoObject /\ objects[s].tag # "old"
      <4>1. ~(Goto(c, "commit") /\ Goto(c, "upload"))
        BY <1>t DEF Goto, Call
      <4>2. QED
        BY <1>2, <4>1 DEF HeadObject
    <3>2. QED
      BY <3>1, <1>s DEF TypeInv, BucketType, Object
  <2>3. call'[c].at = "commit" \/ call'[c].at = "upload"
    BY <2>1, <1>t, GotoKeeps DEF Labels, Uploading
  <2>4. call'[c].at = "commit" => objects'[s] = Object("new", "new")
    <3>1. Goto(c, "upload") => call'[c].at = "upload"
      BY <1>t, GotoKeeps DEF Labels, Uploading
    <3>2. QED
      BY <3>1, <2>1, <2>2, <1>o
  <2>5. QED
    BY <2>1, <2>3, <2>4, <1>s, <1>p DEF CallTrue, Uploading, Reading, Running, In
<1>3. CASE UploadSingle(c) \/ CompleteMultipart(c)
  <2>1. call[c].at \in Uploading /\ call'[c].at = "check" /\ Stored(s)
    BY <1>3, <1>t, GotoKeeps DEF UploadSingle, CompleteMultipart, In, Labels, Uploading
  <2>2. objects'[s] = Object("new", "new")
    BY <2>1, <1>s DEF Stored, TypeInv, BucketType
  <2>3. QED
    BY <2>1, <2>2, <1>s, <1>p DEF CallTrue, Uploading, Reading, Running
<1>4. CASE CreateMultipart(c)
  <2>1. call[c].at \in Uploading /\ call'[c].at = "parts"
    BY <1>4, <1>t, GotoKeeps DEF CreateMultipart, In, Labels, Uploading
  <2>2. QED
    BY <2>1, <1>s, <1>p DEF CallTrue, Uploading, Reading, Running
<1>5. CASE UploadPart(c)
  <2>1. call[c].at = "parts" /\ call'[c].at = "parts"
    BY <1>5 DEF UploadPart, In, TypeInv, Call
  <2>2. QED
    BY <2>1, <1>s, <1>p DEF CallTrue, Uploading, Reading, Running
<1>6. CASE CheckUpload(c)
  <2>1. CASE Returns(c, "failed")
    BY <2>1, <1>t, <1>f, ReturnKeeps
  <2>2. CASE Goto(c, "commit")
    <3>1. call[c].at = "check" /\ call'[c].at = "commit"
      BY <2>2, <1>6, <1>t, GotoKeeps DEF CheckUpload, In, Labels, Uploading
    <3>2. QED
      BY <3>1, <1>s, <1>p, <1>o DEF CallTrue, Uploading, Reading, Running
  <2>3. QED
    BY <1>6, <2>1, <2>2 DEF CheckUpload
<1>7. CASE PutManifest(c)
  <2>1. call[c].at = "commit" /\ call'[c].at = "done"
    BY <1>7, <1>t, ReturnKeeps DEF PutManifest, In
  <2>2. kind = "s3" /\ objects'[s] = Object("new", "new")
    BY <2>1, <1>s, <1>o DEF CallTrue, Uploading
  <2>3. manifests'[s] = "new"
    BY <1>7, <1>s DEF PutManifest, TypeInv, BucketType
  <2>4. Committed(s)'
    BY <2>2, <2>3, <1>p DEF Committed, Object
  <2>5. QED
    BY <2>1, <2>4, <1>s, <1>p DEF CallTrue, Uploading, Reading, Running
<1>8. CASE GetManifest(c)
  <2>1. CASE Returns(c, "failed")
    BY <2>1, <1>t, <1>f, ReturnKeeps
  <2>2. CASE manifests[s] # None
             /\ call' = [call EXCEPT ![c].at = "get", ![c].seen = manifests[s]]
    <3>1. manifests[s] = "new"
      BY <2>2, <1>s DEF TypeInv, BucketType
    <3>2. call[c].at = "manifest" /\ call'[c].at = "get" /\ call'[c].seen = "new"
      BY <3>1, <2>2, <1>8, <1>t DEF GetManifest, In, Call
    <3>3. QED
      BY <3>1, <3>2, <1>s, <1>p, <1>o DEF CallTrue, Uploading, Reading, Running
  <2>3. QED
    BY <1>8, <2>1, <2>2 DEF GetManifest
<1>9. CASE CreateTemp(c)
  <2>1. call[c].at = "get" /\ call[c].seen = "new" /\ manifests[s] = "new"
    BY <1>9, <1>s DEF CreateTemp, In, CallTrue
  <2>2. objects[s].content = "new"
    BY <2>1, <1>s DEF CommitMarker, Object
  <2>3. (IF temp[s] = None THEN c ELSE temp[s]) \in Callers
    BY <1>s DEF TypeInv, FileType
  <2>4. /\ call'[c].at = "copy" /\ call'[c].body = "new" /\ call'[c].fd \in Callers
        /\ call'[c].seen = "new"
    BY <2>1, <2>2, <2>3, <1>9, <1>t DEF CreateTemp, Call
  <2>5. QED
    BY <2>1, <2>4, <1>s, <1>p, <1>o DEF CallTrue, Uploading, Reading, Running
<1>10. CASE CopyObject(c)
  <2>1. /\ call[c].at = "copy" /\ call'[c].at = "rename" /\ call'[c].seen = call[c].seen
        /\ call'[c].fd = call[c].fd /\ call'[c].body = call[c].body
    BY <1>10, <1>t, GotoKeeps DEF CopyObject, In, Labels, Reading
  <2>2. QED
    BY <2>1, <1>s, <1>p, <1>o DEF CallTrue, Uploading, Reading, Running
<1>11. CASE RenameTemp(c)
  <2>1. CASE Returns(c, "failed")
    BY <2>1, <1>t, <1>f, ReturnKeeps
  <2>2. CASE Goto(c, "digest")
    <3>1. call[c].at = "rename" /\ call'[c].at = "digest" /\ call'[c].seen = call[c].seen
      BY <2>2, <1>11, <1>t, GotoKeeps DEF RenameTemp, In, Labels, Reading
    <3>2. QED
      BY <3>1, <1>s, <1>p, <1>o DEF CallTrue, Uploading, Reading, Running
  <2>3. QED
    BY <1>11, <2>1, <2>2 DEF RenameTemp
<1>12. CASE Digest(c)
  <2>1. call[c].at = "digest" /\ call'[c].at = "done"
    BY <1>12, <1>t, ReturnKeeps DEF Digest, In
  <2>2. kind = "s3" /\ manifests[s] = "new"
    BY <2>1, <1>s DEF CallTrue, Reading
  <2>3. Committed(s)'
    BY <2>2, <1>s, <1>p, <1>o DEF Committed, CommitMarker, Object
  <2>4. QED
    BY <2>1, <2>3, <1>s, <1>p DEF CallTrue, Uploading, Reading, Running
<1>13. CASE ScriptStarts(c)
  <2>1. call[c].at = "run" /\ call'[c].at = "exit" /\ caps' = caps
    BY <1>13, <1>t, GotoKeeps DEF ScriptStarts, In, Labels, Running, script
  <2>2. QED
    BY <2>1, <1>s, <1>p DEF CallTrue, Uploading, Reading, Running
<1>14. CASE ScriptExits(c)
  <2>1. PICK exit \in Exits(call[c].mode, s) :
           /\ Returns(c, ResultOf(exit))
           /\ kept' \in IF call[c].mode = "verify" \/ exit = "64" THEN {kept}
                        ELSE IF exit = "0" THEN {kept \cup {s}} ELSE {kept, kept \cup {s}}
    BY <1>14 DEF ScriptExits
  <2>2. call[c].at = "exit" /\ call'[c].at = "done" /\ call'[c].res = ResultOf(exit)
    BY <2>1, <1>14, <1>t, ReturnKeeps, ResultsOfRuns DEF ScriptExits, In
  <2>3. kind = "script"
    BY <2>2, <1>s DEF CallTrue, Running
  <2>4. call'[c].res = "ok" /\ call[c].mode # "verify" => Committed(s)'
    BY <2>1, <2>2, <2>3, <1>p DEF ResultOf, Committed
  <2>5. QED
    BY <2>2, <2>4, <1>s, <1>p DEF CallTrue, Uploading, Reading, Running
<1>15. CASE ScriptRetrieved(c)
  <2>1. PICK exit \in Exits("retrieve", s) : Returns(c, ResultOf(exit))
    BY <1>15 DEF ScriptRetrieved
  <2>2. call[c].at = "exit" /\ call'[c].at = "done" /\ call'[c].res = ResultOf(exit)
    BY <2>1, <1>15, <1>t, ReturnKeeps, ResultsOfRuns DEF ScriptRetrieved, In
  <2>3. kind = "script" /\ kept' = kept
    BY <2>2, <1>15, <1>s DEF CallTrue, Running, ScriptRetrieved
  <2>4. call'[c].res = "ok" => Committed(s)'
    BY <2>1, <2>2, <2>3, <1>p DEF ResultOf, Committed, Exits
  <2>5. QED
    BY <2>2, <2>4, <1>s, <1>p DEF CallTrue, Uploading, Reading, Running
<1>16. CASE BackendFault(c)
  BY <1>16, <1>f, <1>t, ReturnKeeps
     DEF BackendFault, PartFails, CompleteFails, RequestFails, CopyFails, RetrieveFails
<1>17. QED
  BY <1>1, <1>2, <1>3, <1>4, <1>5, <1>6, <1>7, <1>8, <1>9, <1>10, <1>11, <1>12, <1>13,
     <1>14, <1>15, <1>16 DEF Steps, BackendStep

\* So the steps of one call keep what all calls have found true.
LEMMA CallsStep ==
    ASSUME TypeInv, LockInv, CallInv, CommitMarker, NEW c \in Callers, Steps(c)
    PROVE  CallInv'
BY OwnTrue, OthersTrue DEF CallInv

-----------------------------------------------------------------------------
(* The bucket. *)

\* Only a call about to commit, whose object is there, puts a manifest.
LEMMA MarkerStep ==
    ASSUME TypeInv, CallInv, CommitMarker, NEW c \in Callers, Steps(c)
    PROVE  CommitMarker'
<1>1. Grows
  BY StoreMoves
<1>2. /\ call[c].at = "commit" => objects[call[c].seg] = Object("new", "new")
      /\ call[c].at # "idle" => call[c].seg \in Segs
  BY DEF CallInv, CallTrue
<1>3. ASSUME UNCHANGED manifests PROVE CommitMarker'
  BY <1>1, <1>3 DEF CommitMarker, Grows
<1>4. ASSUME In(c, "commit"), manifests' = [manifests EXCEPT ![call[c].seg] = "new"]
      PROVE  CommitMarker'
  BY <1>1, <1>2, <1>4 DEF CommitMarker, Grows, In, TypeInv, BucketType
<1>5. \/ UNCHANGED manifests
      \/ In(c, "commit") /\ manifests' = [manifests EXCEPT ![call[c].seg] = "new"]
  <2>1. CASE Quiet
    BY <2>1 DEF Quiet, bucket
  <2>2. CASE UploadSingle(c) \/ CreateMultipart(c) \/ CompleteMultipart(c) \/ PartFails(c)
             \/ CompleteFails(c) \/ PutManifest(c) \/ RequestFails(c)
    BY <2>2 DEF UploadSingle, CreateMultipart, CompleteMultipart, PartFails, CompleteFails,
         PutManifest, RequestFails, bucket
  <2>3. CASE CreateTemp(c) \/ CopyObject(c) \/ CopyFails(c) \/ RenameTemp(c) \/ ScriptStarts(c)
             \/ ScriptExits(c) \/ ScriptRetrieved(c)
    BY <2>3 DEF CreateTemp, CopyObject, CopyFails, RenameTemp, ScriptStarts, ScriptExits,
         ScriptRetrieved, bucket
  <2>4. QED
    BY <2>1, <2>2, <2>3, QuietSteps
<1>6. QED
  BY <1>3, <1>4, <1>5

InParts == {c \in Callers : In(c, "parts")}

\* How the number of uploads in parts follows one call.
LEMMA PartsMove ==
    ASSUME NEW c \in Callers, Kept(c)
    PROVE  /\ Cardinality(InParts) \in Nat
           /\ (In(c, "parts") <=> In(c, "parts")') => Cardinality(InParts') = Cardinality(InParts)
           /\ ~In(c, "parts") /\ In(c, "parts")' =>
                 Cardinality(InParts') = Cardinality(InParts) + 1
           /\ In(c, "parts") /\ ~In(c, "parts")' =>
                 Cardinality(InParts') = Cardinality(InParts) - 1
<1>f. IsFiniteSet(InParts) /\ IsFiniteSet(InParts')
  BY BackendsAssumption, FS_Subset DEF InParts
<1>0. Cardinality(InParts) \in Nat
  BY <1>f, FS_CardinalityType
<1>1. (In(c, "parts") <=> In(c, "parts")') => InParts' = InParts
  BY DEF InParts, In, Kept
<1>2. ~In(c, "parts") /\ In(c, "parts")' => InParts' = InParts \cup {c} /\ c \notin InParts
  BY DEF InParts, In, Kept
<1>3. In(c, "parts") /\ ~In(c, "parts")' => InParts' = InParts \ {c} /\ c \in InParts
  BY DEF InParts, In, Kept
<1>4. /\ c \notin InParts => Cardinality(InParts \cup {c}) = Cardinality(InParts) + 1
      /\ c \in InParts => Cardinality(InParts \ {c}) = Cardinality(InParts) - 1
  BY <1>f, FS_AddElement, FS_RemoveElement
<1>5. QED
  BY <1>0, <1>1, <1>2, <1>3, <1>4

\* An upload that begins is pending; when its call leaves it, it is completed,
\* aborted or counted as left behind.
LEMMA LeaksStep ==
    ASSUME TypeInv, LockInv, CallInv, LeaksExplained, NEW c \in Callers, Steps(c)
    PROVE  LeaksExplained'
<1> DEFINE N == Cardinality(InParts)
<1>e. /\ LeaksExplained <=> pending = leaks + N
      /\ LeaksExplained' <=> pending' = leaks' + N'
  BY DEF LeaksExplained, InParts
<1>k. Kept(c)
  BY CallMoves
<1>n. /\ N \in Nat
      /\ (In(c, "parts") <=> In(c, "parts")') => N' = N
      /\ ~In(c, "parts") /\ In(c, "parts")' => N' = N + 1
      /\ In(c, "parts") /\ ~In(c, "parts")' => N' = N - 1
  BY <1>k, PartsMove
<1>t. call \in [Callers -> Call] /\ lock \in Callers \cup {None}
      /\ pending \in Int /\ leaks \in Int
  BY DEF TypeInv, BucketType
<1> HIDE DEF N
<1>q. ASSUME UNCHANGED <<pending, leaks>>, In(c, "parts") <=> In(c, "parts")'
      PROVE  LeaksExplained'
  BY <1>q, <1>e, <1>n
<1>d. ASSUME NEW res \in {"ok", "failed", "unsupported"}, Returns(c, res)
      PROVE  ~In(c, "parts")'
  BY <1>d, <1>t, ReturnKeeps DEF In
<1>g. ASSUME NEW label \in Labels, Goto(c, label), label # "parts"
      PROVE  ~In(c, "parts")'
  BY <1>g, <1>t, GotoKeeps DEF In
<1>1. CASE CreateMultipart(c)
  <2>1. ~In(c, "parts") /\ In(c, "parts")'
    BY <1>1, <1>t, GotoKeeps DEF CreateMultipart, In, Labels, Uploading
  <2>2. QED
    BY <2>1, <1>1, <1>n, <1>e, <1>t DEF CreateMultipart
<1>2. CASE CompleteMultipart(c)
  <2>1. In(c, "parts") /\ ~In(c, "parts")'
    BY <1>2, <1>g DEF CompleteMultipart, Labels, Uploading
  <2>2. QED
    BY <2>1, <1>2, <1>n, <1>e, <1>t DEF CompleteMultipart
<1>3. CASE PartFails(c) \/ CompleteFails(c)
  <2>1. In(c, "parts") /\ ~In(c, "parts")'
    BY <1>3, <1>d DEF PartFails, CompleteFails
  <2>2. \/ pending' = pending - 1 /\ leaks' = leaks
        \/ pending' = pending /\ leaks' = leaks + 1
    BY <1>3 DEF PartFails, CompleteFails
  <2>3. QED
    BY <2>1, <2>2, <1>n, <1>e, <1>t
<1>4. CASE UploadSingle(c) \/ PutManifest(c)
  BY <1>4, <1>q, <1>d, <1>g DEF UploadSingle, PutManifest, In, Labels, Uploading
<1>10. CASE RequestFails(c)
  <2>1. ~In(c, "parts") /\ ~In(c, "parts")'
    BY <1>10, <1>d DEF RequestFails, In
  <2>2. \/ pending' = pending /\ leaks' = leaks
        \/ pending' = pending + 1 /\ leaks' = leaks + 1
    BY <1>10 DEF RequestFails, bucket
  <2>3. QED
    BY <2>1, <2>2, <1>n, <1>e, <1>t
<1>5. CASE CreateTemp(c)
  <2>1. In(c, "get") /\ In(c, "copy")' /\ UNCHANGED bucket
    BY <1>5, <1>t DEF CreateTemp, In, Call
  <2>2. QED
    BY <2>1, <1>q DEF In, bucket
<1>6. CASE CopyObject(c) \/ CopyFails(c) \/ RenameTemp(c) \/ ScriptStarts(c)
           \/ ScriptExits(c) \/ ScriptRetrieved(c)
  <2>1. UNCHANGED bucket /\ ~In(c, "parts")
    BY <1>6 DEF CopyObject, CopyFails, RenameTemp, ScriptStarts, ScriptExits, ScriptRetrieved, In
  <2>2. ~In(c, "parts")'
    BY <1>6, <1>d, <1>g, ResultsOfRuns
       DEF CopyObject, CopyFails, RenameTemp, ScriptStarts, ScriptExits, ScriptRetrieved,
           Labels, Reading, Running
  <2>3. QED
    BY <2>1, <2>2, <1>q DEF bucket
<1>7. CASE UploadPart(c)
  <2>1. In(c, "parts") /\ In(c, "parts")' /\ UNCHANGED bucket
    BY <1>7, <1>t DEF UploadPart, In, Call
  <2>2. QED
    BY <2>1, <1>q DEF bucket
<1>8. CASE Lock(c) \/ HeadObject(c) \/ CheckUpload(c) \/ Digest(c) \/ RetrieveFails(c)
  <2>1. UNCHANGED bucket /\ ~In(c, "parts")
    BY <1>8 DEF Lock, HeadObject, CheckUpload, Digest, RetrieveFails, In
  <2>2. ~In(c, "parts")'
    BY <1>8, <1>d, <1>g
       DEF Lock, HeadObject, CheckUpload, Digest, RetrieveFails, Labels, Uploading, Running
  <2>3. QED
    BY <2>1, <2>2, <1>q DEF bucket
<1>9. CASE GetManifest(c)
  <2>1. UNCHANGED bucket /\ In(c, "manifest")
    BY <1>9 DEF GetManifest
  <2>2. call' = [call EXCEPT ![c].at = "get", ![c].seen = manifests[call[c].seg]]
           => ~In(c, "parts")'
    BY <1>t DEF In, Call
  <2>3. ~In(c, "parts")'
    BY <1>9, <2>2, <1>d DEF GetManifest
  <2>4. QED
    BY <2>1, <2>3, <1>q DEF bucket, In
<1>11. QED
  BY <1>1, <1>2, <1>3, <1>4, <1>5, <1>6, <1>7, <1>8, <1>9, <1>10 DEF Steps, BackendStep, BackendFault

-----------------------------------------------------------------------------
(* The downloaded files. *)

\* A download that has created its file goes on to its result.
LEMMA DownloadsGoOn ==
    ASSUME TypeInv, NEW c \in Callers, Steps(c), call[c].at \in {"copy", "rename", "digest"}
    PROVE  call'[c].at \in {"copy", "rename", "digest", "done"}
<1>t. call \in [Callers -> Call] /\ lock \in Callers \cup {None}
  BY DEF TypeInv
<1>1. CASE BackendFault(c)
  BY <1>1, <1>t, ReturnKeeps
     DEF BackendFault, PartFails, CompleteFails, RequestFails, CopyFails, RetrieveFails
<1>2. CASE CopyObject(c) \/ RenameTemp(c) \/ Digest(c)
  BY <1>2, <1>t, ReturnKeeps, GotoKeeps DEF CopyObject, RenameTemp, Digest, Labels, Reading
<1>3. CASE Lock(c) \/ HeadObject(c) \/ UploadSingle(c) \/ CreateMultipart(c) \/ UploadPart(c)
       \/ CompleteMultipart(c) \/ CheckUpload(c) \/ PutManifest(c)
       \/ GetManifest(c) \/ CreateTemp(c) \/ ScriptStarts(c) \/ ScriptExits(c) \/ ScriptRetrieved(c)
  BY <1>3 DEF Lock, HeadObject, UploadSingle, CreateMultipart, UploadPart, CompleteMultipart,
       CheckUpload, PutManifest, GetManifest, CreateTemp, ScriptStarts, ScriptExits,
       ScriptRetrieved, In
<1>4. QED
  BY <1>1, <1>2, <1>3 DEF Steps, BackendStep

\* So does a job whose download of a segment has created its file.
LEMMA DownloadedStays ==
    ASSUME TypeInv, LockInv, CallInv, NEW c \in Callers, Steps(c), UNCHANGED job,
           NEW j \in Jobs, NEW s \in Segs, Downloaded(j, s)
    PROVE  Downloaded(j, s)'
<1>1. \A d \in Callers : d # c => call'[d] = call[d]
  BY CallMoves DEF Kept
<1>2. j \in Callers
  BY JobsAssumption
<1>3. call[j].at \in {"copy", "rename", "digest", "done"} =>
         call'[j].at \in {"copy", "rename", "digest", "done"}
  <2>1. CASE j = c
    BY <2>1, DownloadsGoOn, CallMoves
  <2>2. CASE j # c
    BY <2>2, <1>1, <1>2
  <2>3. QED
    BY <2>1, <2>2
<1>4. QED
  BY <1>3 DEF Downloaded

\* A job in a call is at the segment of the call, which comes once in its list.
LEMMA CallingJob ==
    ASSUME TypeInv, CallersInv, JobInv, NEW j \in Jobs, call[j].at # "idle"
    PROVE  /\ job[j].at = "calling" /\ call[j].seg = Current(j)
           /\ job[j].done + 1 \in DOMAIN job[j].todo
           /\ \A i \in DOMAIN job[j].todo :
                 job[j].todo[i] = call[j].seg => i = job[j].done + 1
<1>1. job[j].at = "calling" /\ call[j].seg = Current(j)
  BY DEF CallersInv
<1>2. job[j].todo \in Seq(Segs) /\ job[j].done \in Nat
  BY DEF TypeInv, Job
<1>3. job[j].done < Len(job[j].todo)
  BY <1>1 DEF JobInv, JobTrue
<1>4. \A i, k \in DOMAIN job[j].todo : i < k => job[j].todo[i] < job[j].todo[k]
  BY DEF JobInv, JobTrue
<1>5. job[j].done + 1 \in DOMAIN job[j].todo /\ DOMAIN job[j].todo \subseteq Nat
  BY <1>2, <1>3
<1>6. \A i \in DOMAIN job[j].todo : job[j].todo[i] \in Int
  BY <1>2, BackendsAssumption
<1>7. QED
  BY <1>1, <1>2, <1>4, <1>5, <1>6 DEF Current

\* A retrieve opens a file that is new, or that another has at the temporary
\* name: never the one in place.
LEMMA TempIsNotFinal ==
    ASSUME TypeInv, CallInv, CallersInv, JobInv, FileInv, NEW c \in Callers, CreateTemp(c),
           NEW s, s = call[c].seg, NEW f, f = IF temp[s] = None THEN c ELSE temp[s]
    PROVE  /\ kind = "s3" /\ s \in Segs /\ c \in Jobs
           /\ job[c].at = "calling" /\ s = Current(c) /\ job[c].done + 1 \in DOMAIN job[c].todo
           /\ final[s] # None => final[s] # f
<1>1. call[c].at = "get" /\ s \in Segs /\ call[c].mode = "retrieve" /\ kind = "s3"
  BY DEF CreateTemp, In, CallInv, CallTrue, Reading
<1>2. c \in Jobs
  BY <1>1, JobsAssumption DEF CallersInv
<1>3. /\ job[c].at = "calling" /\ s = Current(c) /\ job[c].done + 1 \in DOMAIN job[c].todo
      /\ \A i \in DOMAIN job[c].todo : job[c].todo[i] = s => i = job[c].done + 1
  BY <1>1, <1>2, CallingJob
<1>4. ~Downloaded(c, s)
  BY <1>1, <1>3 DEF Downloaded
<1>5. QED
  BY <1>1, <1>2, <1>3, <1>4 DEF FileInv

\* The steps of a call leave every file one name, that of a job that has
\* begun its download.
LEMMA FilesStep ==
    ASSUME TypeInv, LockInv, CallInv, CallersInv, JobInv, FileInv,
           NEW c \in Callers, Steps(c), UNCHANGED job
    PROVE  FileInv'
<1>s. PICK s : s = call[c].seg
  OBVIOUS
<1>k. kind' = kind /\ FileType /\ FileType'
  BY StoreMoves DEF Grows, TypeInv
<1>d. \A j \in Jobs : \A x \in Segs : Downloaded(j, x) => Downloaded(j, x)'
  BY DownloadedStays
<1>n. None \notin Callers
  BY BackendsAssumption DEF None
<1>0. CASE kind # "s3"
  BY <1>0, <1>k DEF FileInv
<1>1. CASE UNCHANGED <<final, temp>>
  BY <1>1, <1>k, <1>d DEF FileInv
<1>2. CASE CreateTemp(c) /\ kind = "s3"
  <2>f. PICK f : f = IF temp[s] = None THEN c ELSE temp[s]
    OBVIOUS
  <2>1. /\ s \in Segs /\ c \in Jobs
        /\ job[c].at = "calling" /\ s = Current(c) /\ job[c].done + 1 \in DOMAIN job[c].todo
        /\ final[s] # None => final[s] # f
    BY <1>2, <1>s, <2>f, TempIsNotFinal
  <2>3. temp' = [temp EXCEPT ![s] = f] /\ final' = final /\ call'[c].at = "copy"
    BY <1>2, <1>s, <2>f DEF CreateTemp, TypeInv, Call
  <2>6. Downloaded(c, s)'
    <3>1. job[c].done \in Nat
      BY <2>1 DEF TypeInv, Job
    <3>2. /\ job[c].todo[job[c].done + 1] = s
          /\ call'[c].at \in {"copy", "rename", "digest", "done"}
      BY <2>1, <2>3, <1>s DEF Current
    <3>3. QED
      BY <2>1, <3>1, <3>2 DEF Downloaded
  <2>8. f \in Jobs /\ Downloaded(f, s)'
    <3>1. CASE temp[s] = None
      BY <3>1, <2>1, <2>6, <2>f
    <3>2. CASE temp[s] # None
      <4>1. temp[s] \in Jobs /\ Downloaded(temp[s], s)
        BY <3>2, <1>2, <2>1 DEF FileInv
      <4>2. QED
        BY <4>1, <3>2, <1>d, <2>1, <2>f
    <3>3. QED
      BY <3>1, <3>2
  <2>9. \A x \in Segs : temp'[x] = IF x = s THEN f ELSE temp[x]
    BY <2>1, <2>3 DEF FileType, TypeInv
  <2>10. QED
    <3>1. CASE UNCHANGED kind
      <4> SUFFICES ASSUME NEW x \in Segs
                   PROVE  /\ final'[x] # None => final'[x] # temp'[x]
                          /\ \A j \in Jobs : j \in {final'[x], temp'[x]} => Downloaded(j, x)'
                          /\ {final'[x], temp'[x]} \subseteq Jobs \cup {None}
        BY DEF FileInv
      <4>1. /\ final[x] # None => final[x] # temp[x]
            /\ \A j \in Jobs : j \in {final[x], temp[x]} => Downloaded(j, x)'
            /\ final[x] \in Jobs \cup {None} /\ temp[x] \in Jobs \cup {None}
        BY <1>2, <1>d DEF FileInv
      <4>2. CASE x = s
        BY <4>1, <4>2, <2>1, <2>3, <2>8, <2>9
      <4>3. CASE x # s
        BY <4>1, <4>3, <2>3, <2>9
      <4>4. QED
        BY <4>2, <4>3
    <3>2. QED
      BY <3>1, <1>k
<1>3. CASE CopyFails(c) /\ kind = "s3"
  <2>1. temp' = [temp EXCEPT ![s] = None] /\ final' = final
    BY <1>3, <1>s DEF CopyFails
  <2>2. \A x \in Segs : temp'[x] = IF x = s THEN None ELSE temp[x]
    BY <2>1 DEF FileType, TypeInv
  <2>3. None \notin Jobs
    BY <1>n, JobsAssumption
  <2>4. QED
    BY <1>3, <1>d, <2>1, <2>2, <2>3 DEF FileInv
<1>4. CASE RenameTemp(c) /\ ~UNCHANGED <<final, temp>> /\ kind = "s3"
  <2>1. /\ final' = [final EXCEPT ![s] = temp[s]] /\ temp' = [temp EXCEPT ![s] = None]
        /\ temp[s] # None
    BY <1>4, <1>s DEF RenameTemp
  <2>2. \A x \in Segs : /\ temp'[x] = IF x = s THEN None ELSE temp[x]
                        /\ final'[x] = IF x = s THEN temp[x] ELSE final[x]
    BY <2>1 DEF FileType, TypeInv
  <2>3. None \notin Jobs
    BY <1>n, JobsAssumption
  <2>4. QED
    BY <1>4, <1>d, <2>1, <2>2, <2>3 DEF FileInv
<1>5. CASE ScriptStarts(c) \/ ScriptExits(c) \/ ScriptRetrieved(c)
  <2>1. kind = "script"
    BY <1>5 DEF ScriptStarts, ScriptExits, ScriptRetrieved, In, CallInv, CallTrue, Running
  <2>2. QED
    BY <2>1, <1>0
<1>6. CASE UploadSingle(c) \/ CreateMultipart(c) \/ CompleteMultipart(c) \/ PutManifest(c)
           \/ PartFails(c) \/ CompleteFails(c) \/ RequestFails(c) \/ CopyObject(c) \/ Quiet
  BY <1>6, <1>1 DEF UploadSingle, CreateMultipart, CompleteMultipart, PutManifest, PartFails,
       CompleteFails, RequestFails, CopyObject, Quiet, output
<1>7. QED
  BY <1>0, <1>1, <1>2, <1>3, <1>4, <1>5, <1>6, QuietSteps

\* A run that has started ends.
LEMMA ExitSteps ==
    ASSUME NEW c \in Callers, Steps(c), In(c, "exit")
    PROVE  ScriptExits(c) \/ ScriptRetrieved(c)
BY DEF Steps, BackendStep, BackendFault, Lock, HeadObject, UploadSingle, CreateMultipart,
       UploadPart, CompleteMultipart, CheckUpload, PutManifest, GetManifest, CreateTemp,
       CopyObject, RenameTemp, Digest, ScriptStarts, PartFails, CompleteFails, RequestFails,
       CopyFails, RetrieveFails, In

\* A run of the script that retrieves a segment goes on until it ends.
LEMMA RetrievingStays ==
    ASSUME TypeInv, LockInv, CallInv, NEW c \in Callers, Steps(c), NEW s \in Segs,
           Retrieving(s), ~(ScriptRetrieved(c) /\ call[c].seg = s)
    PROVE  Retrieving(s)'
<1>1. PICK d \in Callers : In(d, "exit") /\ call[d].mode = "retrieve" /\ call[d].seg = s
  BY DEF Retrieving
<1>2. d # c
  BY <1>1, ExitSteps DEF ScriptExits
<1>3. call'[d] = call[d]
  BY <1>2, CallMoves DEF Kept
<1>4. QED
  BY <1>1, <1>3 DEF Retrieving, In

\* A whole file stays whole under the steps of a call, up to a script's run in
\* progress or gone wrong and a download that replaces it.
LEMMA WholeStays ==
    ASSUME TypeInv, LockInv, CallInv, CallersInv, JobInv, FileInv,
           NEW c \in Callers, Steps(c), NEW s \in Segs, Whole(s)
    PROVE  Whole(s)'
<1>n. None \notin Callers
  BY BackendsAssumption DEF None
<1>t. FileType /\ FileType' /\ kind' = kind
  BY StoreMoves DEF TypeInv, Grows
<1>r. CASE ScriptRetrieved(c) /\ call[c].seg = s
  <2>1. PICK exit : /\ final' = [final EXCEPT ![s] = IF exit \in {"0", "garbled"} THEN c ELSE None]
                    /\ Opened(s, c, c, IF exit = "0" THEN "new" ELSE "part")
                    /\ marred' = IF exit = "0" THEN marred ELSE marred \cup {s}
    BY <1>r DEF ScriptRetrieved
  <2>2. CASE exit = "0"
    <3>1. final'[s] = c /\ text'[s][c].content = "new"
      BY <2>1, <2>2, <1>t DEF FileType, Opened
    <3>2. QED
      BY <3>1, <1>n DEF Whole, Content
  <2>3. CASE exit # "0"
    BY <2>1, <2>3 DEF Whole
  <2>4. QED
    BY <2>2, <2>3
<1> SUFFICES ASSUME ~(ScriptRetrieved(c) /\ call[c].seg = s)
             PROVE  Whole(s)'
  BY <1>r
<1>w. ASSUME marred \subseteq marred', Content(s) = "new" => Content(s)' = "new" \/ s \in marred'
      PROVE  Whole(s)'
  BY <1>w, RetrievingStays DEF Whole
<1>1. CASE UNCHANGED output /\ UNCHANGED marred
  BY <1>1, <1>w DEF output, Content
<1>2. CASE CreateTemp(c)
  <2>1. PICK q, f : /\ q = call[c].seg /\ f = IF temp[q] = None THEN c ELSE temp[q]
                    /\ Opened(q, f, c, "part")
    BY <1>2 DEF CreateTemp
  <2>2. q \in Segs /\ (final[q] # None => final[q] # f)
    BY <1>2, <2>1, TempIsNotFinal
  <2>3. final' = final /\ marred' = marred
    BY <1>2 DEF CreateTemp, script
  <2>4. final[s] # None => text'[s][final[s]] = text[s][final[s]]
    BY <2>1, <2>2, <1>t DEF Opened, FileType
  <2>5. QED
    BY <2>3, <2>4, <1>w DEF Content
<1>3. CASE CopyObject(c)
  <2>1. PICK q : q = call[c].seg
    OBVIOUS
  <2>2. q \in Segs /\ call[c].fd \in Callers /\ call[c].body = "new"
    BY <1>3, <2>1 DEF CopyObject, In, CallInv, CallTrue
  <2>3. /\ final' = final /\ marred' = marred
        /\ text' = [text EXCEPT ![q][call[c].fd] =
                       IF @.opener = c THEN [@ EXCEPT !.content = call[c].body] ELSE @]
    BY <1>3, <2>1 DEF CopyObject, script
  <2>4. \A x \in Callers : text[s][x].content = "new" => text'[s][x].content = "new"
    BY <2>2, <2>3, <1>t DEF FileType, File
  <2>5. QED
    BY <2>3, <2>4, <1>w, <1>t DEF Content, FileType
<1>4. CASE CopyFails(c) \/ ScriptExits(c)
  BY <1>4, <1>w DEF CopyFails, ScriptExits, Content, script, output
<1>5. CASE RenameTemp(c)
  <2>1. PICK q : q = call[c].seg
    OBVIOUS
  <2>2. q \in Segs
    BY <1>5, <2>1 DEF RenameTemp, In, CallInv, CallTrue
  <2>3. CASE UNCHANGED <<final, marred, text>>
    BY <2>3, <1>w DEF Content
  <2>4. CASE /\ final' = [final EXCEPT ![q] = temp[q]] /\ temp[q] # None /\ text' = text
             /\ marred' = IF Content(q) = "new" /\ text[q][temp[q]].content # "new"
                          THEN marred \cup {q} ELSE marred
    <3>1. final'[s] = IF s = q THEN temp[q] ELSE final[s]
      BY <2>2, <2>4, <1>t DEF FileType
    <3>2. QED
      BY <2>4, <3>1, <1>w DEF Content
  <2>5. QED
    BY <1>5, <2>1, <2>3, <2>4 DEF RenameTemp
<1>6. CASE ScriptStarts(c) /\ ~UNCHANGED output
  <2>1. PICK q : q = call[c].seg
    OBVIOUS
  <2>2. q \in Segs /\ marred' = marred
    BY <1>6, <2>1 DEF ScriptStarts, In, CallInv, CallTrue, script
  <2>3. /\ final' = [final EXCEPT ![q] = c] /\ Opened(q, c, c, "part")
        /\ call[c].mode = "retrieve"
    BY <1>6, <2>1 DEF ScriptStarts
  <2>4. CASE s = q
    <3>1. call'[c].at = "exit" /\ call'[c].mode = "retrieve" /\ call'[c].seg = s
      BY <1>6, <2>1, <2>3, <2>4, GotoKeeps DEF ScriptStarts, Labels, Running, TypeInv, Kept
    <3>2. QED
      BY <3>1 DEF Whole, Retrieving, In
  <2>5. CASE s # q
    <3>1. final'[s] = final[s] /\ text'[s] = text[s]
      BY <2>2, <2>3, <2>5, <1>t DEF FileType, Opened
    <3>2. QED
      BY <3>1, <2>2, <1>w DEF Content
  <2>6. QED
    BY <2>4, <2>5
<1>7. CASE ScriptRetrieved(c)
  <2>1. PICK q, exit : /\ q = call[c].seg
                       /\ final' = [final EXCEPT ![q] = IF exit \in {"0", "garbled"} THEN c ELSE None]
                       /\ Opened(q, c, c, IF exit = "0" THEN "new" ELSE "part")
                       /\ marred' = IF exit = "0" THEN marred ELSE marred \cup {q}
    BY <1>7 DEF ScriptRetrieved
  <2>2. q # s
    BY <2>1, <1>7
  <2>3. final'[s] = final[s] /\ text'[s] = text[s]
    BY <2>1, <2>2, <1>t DEF FileType, Opened
  <2>4. QED
    BY <2>1, <2>3, <1>w DEF Content
<1>8. CASE UploadSingle(c) \/ CreateMultipart(c) \/ CompleteMultipart(c) \/ PutManifest(c)
           \/ PartFails(c) \/ CompleteFails(c) \/ RequestFails(c) \/ Quiet
           \/ (ScriptStarts(c) /\ UNCHANGED output)
  BY <1>8, <1>1 DEF UploadSingle, CreateMultipart, CompleteMultipart, PutManifest, PartFails,
       CompleteFails, RequestFails, ScriptStarts, Quiet, script
<1>9. QED
  BY <1>2, <1>3, <1>4, <1>5, <1>6, <1>7, <1>8, QuietSteps

\* A retrieve that returns "ok" leaves the whole file in place.
LEMMA OkIsWhole ==
    ASSUME TypeInv, LockInv, CallInv, NEW c \in Callers, Steps(c), NEW s, s = call[c].seg,
           In(c, "done")', call'[c].res = "ok", call[c].mode = "retrieve"
    PROVE  Whole(s)'
<1>t. call \in [Callers -> Call] /\ lock \in Callers \cup {None} /\ FileType
  BY DEF TypeInv
<1>n. None \notin Callers
  BY BackendsAssumption DEF None
<1>f. ASSUME NEW res \in {"failed", "unsupported"}, Returns(c, res)
      PROVE  FALSE
  BY <1>f, <1>t, ReturnKeeps
<1>g. ASSUME NEW label \in Labels, label # "done", Goto(c, label)
      PROVE  FALSE
  BY <1>g, <1>t, GotoKeeps DEF In
<1>1. CASE Digest(c)
  <2>1. In(c, "digest") /\ Returns(c, IF Content(s) = call[c].seen THEN "ok" ELSE "failed")
        /\ UNCHANGED output
    BY <1>1 DEF Digest
  <2>2. call[c].seen = "new"
    BY <2>1 DEF In, CallInv, CallTrue
  <2>3. Content(s) = "new"
    BY <2>1, <2>2, <1>f
  <2>4. QED
    BY <2>1, <2>3 DEF Whole, Content, output
<1>2. CASE ScriptRetrieved(c)
  <2>1. PICK exit : /\ final' = [final EXCEPT ![s] = IF exit \in {"0", "garbled"} THEN c ELSE None]
                    /\ Opened(s, c, c, IF exit = "0" THEN "new" ELSE "part")
                    /\ Returns(c, ResultOf(exit))
    BY <1>2 DEF ScriptRetrieved
  <2>2. exit = "0"
    BY <2>1, <1>f DEF ResultOf
  <2>3. s \in Segs
    BY <1>2 DEF ScriptRetrieved, In, CallInv, CallTrue
  <2>4. final'[s] = c /\ text'[s][c].content = "new"
    BY <2>1, <2>2, <2>3, <1>t DEF FileType, Opened
  <2>5. QED
    BY <2>4, <1>n DEF Whole, Content
<1>3. CASE BackendFault(c)
  BY <1>3, <1>f DEF BackendFault, PartFails, CompleteFails, RequestFails, CopyFails, RetrieveFails
<1>4. CASE HeadObject(c) \/ UploadSingle(c) \/ CreateMultipart(c) \/ CompleteMultipart(c)
           \/ CheckUpload(c) \/ CopyObject(c) \/ RenameTemp(c) \/ ScriptStarts(c) \/ Lock(c)
  BY <1>4, <1>f, <1>g DEF HeadObject, UploadSingle, CreateMultipart, CompleteMultipart,
       CheckUpload, CopyObject, RenameTemp, ScriptStarts, Lock, Labels, Uploading, Running, Reading
<1>5. CASE UploadPart(c) \/ CreateTemp(c)
  BY <1>5, <1>t DEF UploadPart, CreateTemp, In, Call
<1>6. CASE GetManifest(c)
  BY <1>6, <1>f, <1>t DEF GetManifest, In, Call
<1>7. CASE PutManifest(c) \/ ScriptExits(c)
  BY <1>7 DEF PutManifest, ScriptExits, In, CallInv, CallTrue, Uploading
<1>8. QED
  BY <1>1, <1>2, <1>3, <1>4, <1>5, <1>6, <1>7 DEF Steps, BackendStep

\* The steps of a call keep the files of rehydrated segments, and of downloads
\* that have returned, whole.
LEMMA ServedStep ==
    ASSUME TypeInv, LockInv, CallInv, CallersInv, JobInv, FileInv, ServedInv,
           NEW c \in Callers, Steps(c), UNCHANGED <<job, rows>>
    PROVE  ServedInv'
<1>w. \A s \in Segs : Whole(s) => Whole(s)'
  BY WholeStays
<1>1. \A s \in Segs : rows'[s] = "rehydrated" => Whole(s)'
  BY <1>w DEF ServedInv
<1>2. ASSUME NEW d \in Callers, In(d, "done")', call'[d].res = "ok", call'[d].mode = "retrieve",
             NEW s, s = call'[d].seg
      PROVE  Whole(s)'
  <2>1. CASE d = c
    BY <2>1, <1>2, CallMoves, OkIsWhole DEF Kept
  <2>2. CASE d # c
    <3>1. call'[d] = call[d]
      BY <2>2, CallMoves DEF Kept
    <3>2. s \in Segs /\ Whole(s)
      BY <3>1, <1>2 DEF ServedInv, In, CallInv, CallTrue
    <3>3. QED
      BY <3>2, <1>w
  <2>3. QED
    BY <2>1, <2>2
<1>3. ASSUME NEW j \in Jobs, JobAt(j, "mark")', job'[j].type = "rehydrate",
             NEW s, s = Current(j)'
      PROVE  Whole(s)'
  <2>1. s = Current(j) /\ JobAt(j, "mark") /\ job[j].type = "rehydrate"
    BY <1>3 DEF Current, JobAt
  <2>2. s \in Segs
    BY <2>1 DEF JobInv, JobTrue, JobAt, Current, TypeInv, Job
  <2>3. QED
    BY <2>1, <2>2, <1>w DEF ServedInv
<1>4. QED
  BY <1>1, <1>2, <1>3 DEF ServedInv

\* The steps of a call keep the invariant.
LEMMA CallStep ==
    ASSUME Inv, NEW c \in Callers, Steps(c), UNCHANGED jobVars
    PROVE  Inv'
<1> USE DEF Inv
<1>j. UNCHANGED <<rows, job, stranded>>
  BY DEF jobVars
<1>k. /\ Kept(c) /\ LockInv' /\ lock' \in Callers \cup {None}
      /\ call[c].at \notin {"idle", "done"} /\ call'[c].at # "idle"
  BY CallMoves
<1>s. Grows /\ walk' = walk /\ BucketType' /\ ScriptType' /\ FileType'
  BY StoreMoves
<1>c. \A s \in Segs : Committed(s) => Committed(s)'
  BY <1>s, CommittedStays
<1>1. TypeInv'
  BY <1>j, <1>k, <1>s DEF TypeInv, Kept, Grows
<1>2. CallersInv'
  <2>1. /\ c \in Verifiers => kind = "script" /\ call[c].mode = "verify"
        /\ \A j \in Jobs : j \in Callers
        /\ \A v \in Verifiers : v \in Callers
    BY <1>k, JobsAssumption DEF CallersInv
  <2>2. \A d \in Callers : /\ call'[d].at # "idle" <=> call[d].at # "idle"
                           /\ call'[d].seg = call[d].seg /\ call'[d].mode = call[d].mode
    BY <1>k DEF Kept
  <2>3. \A j \in Jobs : Current(j)' = Current(j)
    BY <1>j DEF Current
  <2>4. QED
    BY <1>j, <1>s, <2>1, <2>2, <2>3 DEF CallersInv, Grows
<1>3. JobInv'
  <2> SUFFICES ASSUME NEW j \in Jobs PROVE JobTrue(j)' /\ RowTrue(j)'
    BY DEF JobInv
  <2>1. RowTrue(j)'
    BY <1>j DEF JobInv, RowTrue, Live
  <2>2. JobTrue(j) /\ Current(j)' = Current(j)
    BY <1>j DEF JobInv, Current
  <2>3. job[j].at = "mark" => Current(j) \in Segs
    BY <2>2 DEF JobTrue, Current, TypeInv, Job
  <2>4. job[j].at = "mark" => Committed(Current(j))'
    <3>1. PICK s : s = Current(j)
      OBVIOUS
    <3>2. job[j].at = "mark" => Committed(s)'
      BY <3>1, <2>2, <2>3, <1>c DEF JobTrue
    <3>3. QED
      BY <3>1, <3>2, <2>2
  <2>5. JobTrue(j)'
    BY <1>j, <2>2, <2>4 DEF JobTrue
  <2>6. QED
    BY <2>1, <2>5
<1>4. RowsInv'
  BY <1>j, <1>c DEF RowsInv
<1>5. WalkInv'
  BY <1>s DEF WalkInv, Grows, None
<1>6. QED
  BY <1>1, <1>2, <1>3, <1>4, <1>5, <1>j, <1>k, CallsStep, KnownStep, MarkerStep, LeaksStep,
     FilesStep, ServedStep

-----------------------------------------------------------------------------
(* The steps of the jobs. *)

\* A file stays whole while neither the outputs nor the runs change.
LEMMA WholeFrame ==
    ASSUME UNCHANGED <<output, marred>>, NEW s, Whole(s),
           \A c \in Callers : In(c, "exit") => call'[c] = call[c]
    PROVE  Whole(s)'
BY DEF Whole, Retrieving, Content, In, output

\* The work of one job on its row and its call, while nothing of the backend
\* moves: what has to be shown of the job itself.
LEMMA JobStep ==
    ASSUME Inv, NEW j \in Jobs, UNCHANGED <<kind, bucket, lock, script, output, walk>>,
           job' \in [Jobs -> Job], \A k \in Jobs : k # j => job'[k] = job[k],
           stranded \subseteq stranded',
           call' \in [Callers -> Call], \A d \in Callers : d # j => call'[d] = call[d],
           call[j].at \in {"idle", "done"}, call'[j].at \in {"idle", "lock", "manifest"},
           CallTrue(j)', job'[j].at = "calling" <=> call'[j].at # "idle",
           job'[j].at = "calling" =>
              /\ call'[j].seg = Current(j)'
              /\ call'[j].mode = IF job'[j].type = "archive" THEN "archive" ELSE "retrieve",
           rows' \in [Segs -> {"sealed", "archived", "rehydrated"}],
           \A s \in Segs : rows[s] # "sealed" => rows'[s] # "sealed",
           JobTrue(j)', RowTrue(j)', RowsInv',
           \A s \in Segs : Downloaded(j, s) => Downloaded(j, s)',
           \A s \in Segs : rows'[s] = "rehydrated" => Whole(s),
           JobAt(j, "mark")' /\ job'[j].type = "rehydrate" =>
              \E s \in Segs : s = Current(j)' /\ Whole(s)
    PROVE  Inv'
<1> USE DEF Inv
<1>c. j \in Callers /\ \A v \in Verifiers : v \in Callers /\ v # j
  BY JobsAssumption
<1>u. /\ UNCHANGED <<objects, manifests, pending, leaks, supports, probes, caps, refusals, kept,
                     marred, final, temp, text>>
  BY DEF bucket, script, output
<1>1. TypeInv'
  BY <1>u DEF TypeInv, BucketType, ScriptType, FileType
<1>2. LockInv'
  BY DEF LockInv, Uploading, Running
<1>3. CallInv'
  <2>1. ASSUME NEW d \in Callers, d # j PROVE CallTrue(d)'
    <3>1. CallTrue(d) /\ call'[d] = call[d]
      BY <2>1 DEF CallInv
    <3>2. Committed(call[d].seg)' <=> Committed(call'[d].seg)
      BY <1>u, <3>1 DEF Committed
    <3>3. QED
      BY <1>u, <3>1, <3>2 DEF CallTrue, Committed
  <2>2. QED
    BY <2>1 DEF CallInv
<1>4. CallersInv'
  <2>1. \A k \in Jobs : k # j => Current(k)' = Current(k) /\ call'[k] = call[k]
    BY JobsAssumption DEF Current
  <2>2. QED
    BY <1>c, <2>1 DEF CallersInv
<1>5. KnownInv' /\ CommitMarker' /\ WalkInv'
  BY <1>u DEF KnownInv, CommitMarker, WalkInv
<1>6. LeaksExplained'
  <2>1. InParts' = InParts
    BY <1>c DEF InParts, In
  <2>2. QED
    BY <1>u, <2>1 DEF LeaksExplained, InParts
<1>7. JobInv'
  <2>1. ASSUME NEW k \in Jobs, k # j PROVE JobTrue(k)' /\ RowTrue(k)'
    <3>1. job'[k] = job[k] /\ JobTrue(k) /\ RowTrue(k) /\ Current(k)' = Current(k)
      BY <2>1 DEF JobInv, Current
    <3>2. RowTrue(k)'
      BY <3>1 DEF RowTrue, Live
    <3>3. Committed(Current(k)) => Committed(Current(k))'
      BY <1>u, <3>1 DEF Committed
    <3>4. job[k].todo \in Seq(Segs) /\ job[k].done \in Nat
      BY DEF TypeInv, Job
    <3>5. \A i \in 1..job[k].done : job[k].todo[i] \in Segs
      BY <3>1, <3>4 DEF JobTrue
    <3>6. job[k].at = "progress" => Current(k) \in Segs
      BY <3>1, <3>4 DEF JobTrue, Current
    <3>7. JobTrue(k)'
      BY <3>1, <3>3, <3>5, <3>6 DEF JobTrue
    <3>8. QED
      BY <3>2, <3>7
  <2>2. QED
    BY <2>1 DEF JobInv
<1>8. FileInv'
  <2>1. \A k \in Jobs : \A s \in Segs : Downloaded(k, s) => Downloaded(k, s)'
    <3>1. ASSUME NEW k \in Jobs, k # j, NEW s \in Segs, Downloaded(k, s) PROVE Downloaded(k, s)'
      <4>1. job'[k] = job[k] /\ call'[k] = call[k]
        BY <3>1, JobsAssumption
      <4>2. QED
        BY <4>1, <3>1 DEF Downloaded
    <3>2. QED
      BY <3>1
  <2>2. QED
    BY <1>u, <2>1 DEF FileInv
<1>9. ServedInv'
  <2>1. \A c \in Callers : In(c, "exit") => call'[c] = call[c]
    BY DEF In
  <2>2. ASSUME NEW s, Whole(s) PROVE Whole(s)'
    BY <2>1, <2>2, <1>u, WholeFrame
  <2>3. \A s \in Segs : rows'[s] = "rehydrated" => Whole(s)'
    BY <2>2
  <2>4. ASSUME NEW c \in Callers, In(c, "done")', call'[c].res = "ok", call'[c].mode = "retrieve",
               NEW s, s = call'[c].seg
        PROVE  Whole(s)'
    <3>1. call'[c] = call[c]
      BY <2>4 DEF In
    <3>2. QED
      BY <3>1, <2>4, <2>2 DEF ServedInv, In
  <2>5. ASSUME NEW k \in Jobs, JobAt(k, "mark")', job'[k].type = "rehydrate",
               NEW s, s = Current(k)'
        PROVE  Whole(s)'
    <3>1. CASE k = j
      BY <3>1, <2>5, <2>2
    <3>2. CASE k # j
      <4>1. s = Current(k) /\ JobAt(k, "mark") /\ job[k].type = "rehydrate"
        BY <3>2, <2>5 DEF Current, JobAt
      <4>2. QED
        BY <4>1, <2>2 DEF ServedInv
    <3>3. QED
      BY <3>1, <3>2
  <2>6. QED
    BY <2>3, <2>4, <2>5 DEF ServedInv
<1>10. QED
  BY <1>1, <1>2, <1>3, <1>4, <1>5, <1>6, <1>7, <1>8, <1>9

\* What a job's row and goroutine become is of the shape of a job.
LEMMA JobShape ==
    ASSUME NEW r \in Job, NEW n \in Nat, NEW m \in Nat, NEW flag \in BOOLEAN,
           NEW label \in {"none", "start", "next", "calling", "mark", "progress", "finish", "end"},
           NEW state \in {None, "pending", "running", "completed", "failed"}
    PROVE  /\ [r EXCEPT !.at = label] \in Job
           /\ [r EXCEPT !.at = label, !.failed = flag] \in Job
           /\ [r EXCEPT !.at = label, !.state = state] \in Job
           /\ [r EXCEPT !.at = label, !.done = n] \in Job
           /\ [r EXCEPT !.at = label, !.done = n, !.progress = m] \in Job
<1>1. [r EXCEPT !.at = label] \in Job
  BY DEF Job
<1>2. [r EXCEPT !.at = label, !.failed = flag] \in Job
  BY DEF Job
<1>3. [r EXCEPT !.at = label, !.state = state] \in Job
  BY DEF Job
<1>4. [r EXCEPT !.at = label, !.done = n] \in Job
  BY DEF Job
<1>5. \A q \in Job : [q EXCEPT !.progress = m] \in Job
  BY DEF Job
<1>6. [r EXCEPT !.at = label, !.done = n, !.progress = m]
         = [[r EXCEPT !.at = label, !.done = n] EXCEPT !.progress = m]
  BY DEF Job
<1>7. QED
  BY <1>1, <1>2, <1>3, <1>4, <1>5, <1>6

\* What a job that goes on, or fails, becomes.
LEMMA MovesJob ==
    ASSUME job \in [Jobs -> Job], NEW j \in Jobs,
           NEW label \in {"none", "start", "next", "calling", "mark", "progress", "finish", "end"},
           Moves(j, label)
    PROVE  /\ job' \in [Jobs -> Job] /\ \A k \in Jobs : k # j => job'[k] = job[k]
           /\ job'[j] = [job[j] EXCEPT !.at = label]
BY JobShape DEF Moves

LEMMA FailsJob ==
    ASSUME job \in [Jobs -> Job], NEW j \in Jobs, Fails(j)
    PROVE  /\ job' \in [Jobs -> Job] /\ \A k \in Jobs : k # j => job'[k] = job[k]
           /\ job'[j] = [job[j] EXCEPT !.at = "finish", !.failed = TRUE]
<1>1. job' = [job EXCEPT ![j] = [job[j] EXCEPT !.at = "finish", !.failed = TRUE]]
  BY DEF Fails
<1>2. [job[j] EXCEPT !.at = "finish", !.failed = TRUE] \in Job
  BY JobShape
<1>3. QED
  BY <1>1, <1>2

\* A step of a job outside its calls.
LEMMA JobAlone ==
    ASSUME Inv, NEW j \in Jobs,
           UNCHANGED <<kind, bucket, lock, call, script, output, walk>>,
           job' \in [Jobs -> Job], \A k \in Jobs : k # j => job'[k] = job[k],
           stranded \subseteq stranded',
           job[j].at # "calling", job'[j].at \notin {"calling", "mark"},
           rows' \in [Segs -> {"sealed", "archived", "rehydrated"}],
           \A s \in Segs : rows[s] # "sealed" => rows'[s] # "sealed",
           JobTrue(j)', RowTrue(j)', RowsInv',
           \A s \in Segs : Downloaded(j, s) => Downloaded(j, s)',
           \A s \in Segs : rows'[s] = "rehydrated" => Whole(s)
    PROVE  Inv'
<1>1. call[j].at = "idle" /\ j \in Callers
  BY JobsAssumption DEF Inv, CallersInv
<1>2. CallTrue(j)'
  <2>1. CallTrue(j)
    BY <1>1 DEF Inv, CallInv
  <2>2. QED
    BY <1>1, <2>1 DEF CallTrue, Uploading, Reading, Running
<1>3. call' \in [Callers -> Call] /\ \A d \in Callers : d # j => call'[d] = call[d]
  BY DEF Inv, TypeInv
<1>4. call'[j].at = "idle"
  BY <1>1
<1>5. JobAt(j, "mark")' => FALSE
  BY DEF JobAt
<1>6. QED
  BY <1>1, <1>2, <1>3, <1>4, <1>5, JobStep

\* The rows that stay as they are have their copy and their file.
LEMMA RowsStay ==
    ASSUME Inv, UNCHANGED <<kind, bucket, script, rows>>
    PROVE  /\ rows' \in [Segs -> {"sealed", "archived", "rehydrated"}] /\ RowsInv'
           /\ \A s \in Segs : rows[s] # "sealed" => rows'[s] # "sealed"
           /\ \A s \in Segs : rows'[s] = "rehydrated" => Whole(s)
<1>1. \A s \in Segs : Committed(s) => Committed(s)'
  BY DEF Committed, bucket, script
<1>2. QED
  BY <1>1 DEF Inv, TypeInv, RowsInv, ServedInv

\* The list of a new job.
LEMMA ListingsAscend ==
    ASSUME NEW q \in Listings
    PROVE  q \in Seq(Segs) /\ \A i, k \in DOMAIN q : i < k => q[i] < q[k]
BY DEF Listings, BoundedSeq, SeqOf

\* A job is created with nothing done.
LEMMA CreatedStep ==
    ASSUME Inv, NEW j \in Jobs, NEW type \in {"archive", "rehydrate"}, NEW list \in Listings,
           Created(j, type, list),
           type = "archive" => \A s \in Segs : Contains(list, s) => rows[s] = "sealed"
    PROVE  Inv'
<1> DEFINE snap == {s \in Segs : Contains(list, s) /\ rows[s] = "rehydrated"}
           rec == [NoJob EXCEPT !.state = "pending", !.type = type, !.at = "start",
                                !.todo = list, !.snap = snap]
<1>l. list \in Seq(Segs) /\ \A i, k \in DOMAIN list : i < k => list[i] < list[k]
  BY ListingsAscend
<1>s. snap \in SUBSET Segs /\ (type = "archive" => snap = {})
  OBVIOUS
<1>1. /\ rec.state = "pending" /\ rec.type = type /\ rec.at = "start" /\ rec.todo = list
      /\ rec.snap = snap /\ rec.done = 0 /\ rec.progress = 0 /\ rec.failed = FALSE
  BY DEF NoJob
<1>2. rec \in Job
  BY <1>l DEF Job, NoJob, None
<1>3. job' = [job EXCEPT ![j] = rec] /\ job[j] = NoJob
      /\ UNCHANGED <<kind, bucket, lock, call, script, output, walk, rows, stranded>>
  BY DEF Created, backendVars
<1> HIDE DEF rec, snap
<1>4. /\ job' \in [Jobs -> Job] /\ \A k \in Jobs : k # j => job'[k] = job[k]
      /\ job'[j] = rec
  BY <1>2, <1>3 DEF Inv, TypeInv
<1>5. JobTrue(j)'
  <2>1. Len(list) \in Nat
    BY <1>l
  <2>2. QED
    BY <1>1, <1>4, <1>l, <1>s, <2>1 DEF JobTrue, None
<1>6. RowTrue(j)'
  BY <1>1, <1>4 DEF RowTrue, Live
<1>7. \A s \in Segs : ~Downloaded(j, s)
  BY <1>3 DEF Downloaded, NoJob
<1>8. job[j].at = "none"
  BY <1>3 DEF NoJob
<1>9. QED
  BY <1>1, <1>3, <1>4, <1>5, <1>6, <1>7, <1>8, RowsStay, JobAlone

\* The goroutine starts, whether or not its row says so.
LEMMA StartStep ==
    ASSUME Inv, NEW j \in Jobs, Start(j)
    PROVE  Inv'
<1>t. job \in [Jobs -> Job] /\ job[j] \in Job /\ JobTrue(j) /\ RowTrue(j) /\ job[j].at = "start"
  BY DEF Inv, TypeInv, JobInv, Start, JobAt
<1>1. /\ job' \in [Jobs -> Job] /\ \A k \in Jobs : k # j => job'[k] = job[k]
      /\ \/ job'[j] = [job[j] EXCEPT !.at = "next"]
         \/ job'[j] = [job[j] EXCEPT !.at = "next", !.state = "running"]
  <2>1. CASE Moves(j, "next")
    BY <2>1, <1>t, MovesJob
  <2>2. CASE job' = [job EXCEPT ![j].state = "running", ![j].at = "next"]
    <3>1. job' = [job EXCEPT ![j] = [job[j] EXCEPT !.at = "next", !.state = "running"]]
      BY <2>2
    <3>2. [job[j] EXCEPT !.at = "next", !.state = "running"] \in Job
      BY <1>t, JobShape
    <3>3. QED
      BY <3>1, <3>2, <1>t
  <2>3. QED
    BY <2>1, <2>2 DEF Start
<1>2. /\ job'[j].at = "next" /\ job'[j].state \in {job[j].state, "running"}
      /\ job'[j].type = job[j].type /\ job'[j].todo = job[j].todo /\ job'[j].done = job[j].done
      /\ job'[j].progress = job[j].progress /\ job'[j].snap = job[j].snap
      /\ job'[j].failed = job[j].failed
  <2>1. CASE job'[j] = [job[j] EXCEPT !.at = "next"]
    BY <2>1, <1>t DEF Job
  <2>2. CASE job'[j] = [job[j] EXCEPT !.at = "next", !.state = "running"]
    BY <2>2, <1>t DEF Job
  <2>3. QED
    BY <2>1, <2>2, <1>1
<1>3. UNCHANGED <<kind, bucket, lock, call, script, output, walk, rows, stranded>>
  BY DEF Start
<1>4. JobTrue(j)'
  BY <1>2, <1>3, <1>t DEF JobTrue
<1>5. RowTrue(j)'
  BY <1>2, <1>3, <1>t DEF RowTrue, Live
<1>6. \A s \in Segs : Downloaded(j, s) => Downloaded(j, s)'
  BY <1>2, <1>3, <1>t DEF Downloaded
<1>7. QED
  BY <1>1, <1>2, <1>3, <1>4, <1>5, <1>6, <1>t, RowsStay, JobAlone

\* The statement that marks a segment: the copy is committed, and a rehydrated
\* one has its file.
LEMMA MarkStep ==
    ASSUME Inv, NEW j \in Jobs, Mark(j)
    PROVE  Inv'
<1>t. job \in [Jobs -> Job] /\ job[j] \in Job /\ JobTrue(j) /\ RowTrue(j) /\ job[j].at = "mark"
  BY DEF Inv, TypeInv, JobInv, Mark, JobAt
<1>u. UNCHANGED <<kind, bucket, lock, call, script, output, walk, stranded>>
  BY DEF Mark
<1>s. PICK s \in Segs : s = Current(j) /\ Committed(s)
  BY <1>t DEF JobTrue, Current, Job
<1>1. CASE Moves(j, "progress") /\ rows' = [rows EXCEPT ![Current(j)] =
             IF job[j].type = "archive" THEN "archived" ELSE "rehydrated"]
  <2>1. /\ job' \in [Jobs -> Job] /\ \A k \in Jobs : k # j => job'[k] = job[k]
        /\ job'[j] = [job[j] EXCEPT !.at = "progress"]
    BY <1>1, <1>t, MovesJob
  <2>2. /\ job'[j].at = "progress" /\ job'[j].state = job[j].state
        /\ job'[j].type = job[j].type /\ job'[j].todo = job[j].todo /\ job'[j].done = job[j].done
        /\ job'[j].progress = job[j].progress /\ job'[j].snap = job[j].snap
        /\ job'[j].failed = job[j].failed
    BY <2>1, <1>t DEF Job
  <2>3. /\ rows' \in [Segs -> {"sealed", "archived", "rehydrated"}]
        /\ \A x \in Segs : rows'[x] = IF x = s THEN IF job[j].type = "archive" THEN "archived"
                                                    ELSE "rehydrated"
                                      ELSE rows[x]
    BY <1>1, <1>s DEF Inv, TypeInv
  <2>4. job[j].type # "archive" => job[j].type = "rehydrate"
    BY <1>t DEF JobTrue, Job
  <2>5. RowsInv'
    <3>1. \A x \in Segs : Committed(x)' <=> Committed(x)
      BY <1>u DEF Committed, bucket, script
    <3>2. QED
      BY <2>3, <3>1, <1>s DEF RowsInv, Inv
  <2>6. \A x \in Segs : rows'[x] = "rehydrated" => Whole(x)
    BY <2>3, <2>4, <1>s, <1>t DEF Inv, ServedInv, JobAt
  <2>7. JobTrue(j)'
    <3>1. Current(j)' = s
      BY <2>2, <1>s DEF Current
    <3>2. \A i \in 1..job[j].done : job[j].todo[i] \in Segs
      BY <1>t DEF JobTrue, Job
    <3>3. QED
      BY <2>2, <2>3, <3>1, <3>2, <1>t DEF JobTrue
  <2>8. RowTrue(j)'
    BY <2>2, <1>u, <1>t DEF RowTrue, Live
  <2>9. \A x \in Segs : Downloaded(j, x) => Downloaded(j, x)'
    BY <2>2, <1>t DEF Downloaded
  <2>10. \A x \in Segs : rows[x] # "sealed" => rows'[x] # "sealed"
    BY <2>3
  <2>11. QED
    BY <2>1, <2>2, <2>3, <2>5, <2>6, <2>7, <2>8, <2>9, <2>10, <1>u, <1>t, JobAlone
<1>2. CASE Fails(j) /\ UNCHANGED rows
  <2>1. /\ job' \in [Jobs -> Job] /\ \A k \in Jobs : k # j => job'[k] = job[k]
        /\ job'[j] = [job[j] EXCEPT !.at = "finish", !.failed = TRUE]
    BY <1>2, <1>t, FailsJob
  <2>2. /\ job'[j].at = "finish" /\ job'[j].state = job[j].state
        /\ job'[j].type = job[j].type /\ job'[j].todo = job[j].todo /\ job'[j].done = job[j].done
        /\ job'[j].progress = job[j].progress /\ job'[j].snap = job[j].snap
        /\ job'[j].failed
    BY <2>1, <1>t DEF Job
  <2>3. JobTrue(j)'
    BY <2>2, <1>2, <1>t DEF JobTrue
  <2>4. RowTrue(j)'
    BY <2>2, <1>u, <1>t DEF RowTrue, Live
  <2>5. \A x \in Segs : Downloaded(j, x) => Downloaded(j, x)'
    BY <2>2, <1>t DEF Downloaded
  <2>6. QED
    BY <2>1, <2>2, <2>3, <2>4, <2>5, <1>2, <1>u, <1>t, RowsStay, JobAlone
<1>3. QED
  BY <1>1, <1>2 DEF Mark

\* The goroutine passes the segment, and its row says so at most.
LEMMA ProgressStep ==
    ASSUME Inv, NEW j \in Jobs, Progress(j)
    PROVE  Inv'
<1>t. job \in [Jobs -> Job] /\ job[j] \in Job /\ JobTrue(j) /\ RowTrue(j)
      /\ job[j].at = "progress"
  BY DEF Inv, TypeInv, JobInv, Progress, JobAt
<1>u. UNCHANGED <<kind, bucket, lock, call, script, output, walk, rows, stranded>>
  BY DEF Progress
<1>n. job[j].done \in Nat /\ job[j].progress \in Nat
  BY <1>t DEF Job
<1>1. PICK rec \in Job :
        /\ job' = [job EXCEPT ![j] = rec]
        /\ \/ rec = [job[j] EXCEPT !.at = "next", !.done = job[j].done + 1]
           \/ rec = [job[j] EXCEPT !.at = "next", !.done = job[j].done + 1,
                                   !.progress = job[j].done + 1]
  <2>1. /\ [job[j] EXCEPT !.at = "next", !.done = job[j].done + 1] \in Job
        /\ [job[j] EXCEPT !.at = "next", !.done = job[j].done + 1,
                          !.progress = job[j].done + 1] \in Job
    <3>1. job[j].done + 1 \in Nat
      BY <1>n
    <3> DEFINE n == job[j].done + 1
    <3> HIDE DEF n
    <3>2. n \in Nat
      BY <3>1 DEF n
    <3>3. /\ [job[j] EXCEPT !.at = "next", !.done = n] \in Job
          /\ [job[j] EXCEPT !.at = "next", !.done = n, !.progress = n] \in Job
      BY <3>2, <1>t, JobShape
    <3>4. QED
      BY <3>3 DEF n
  <2>2. QED
    BY <2>1 DEF Progress
<1>2. /\ job' \in [Jobs -> Job] /\ \A k \in Jobs : k # j => job'[k] = job[k]
      /\ job'[j] = rec
  BY <1>1, <1>t
<1>3. /\ job'[j].at = "next" /\ job'[j].state = job[j].state
      /\ job'[j].type = job[j].type /\ job'[j].todo = job[j].todo
      /\ job'[j].done = job[j].done + 1
      /\ job'[j].progress \in {job[j].progress, job[j].done + 1}
      /\ job'[j].snap = job[j].snap /\ job'[j].failed = job[j].failed
  <2>1. CASE rec = [job[j] EXCEPT !.at = "next", !.done = job[j].done + 1]
    BY <2>1, <1>2, <1>t DEF Job
  <2>2. CASE rec = [job[j] EXCEPT !.at = "next", !.done = job[j].done + 1,
                                  !.progress = job[j].done + 1]
    BY <2>2, <1>2, <1>t DEF Job
  <2>3. QED
    BY <1>1, <2>1, <2>2
<1>4. JobTrue(j)'
  <2>1. job[j].type = "archive" => \A i \in 1..job[j].done + 1 : rows[job[j].todo[i]] # "sealed"
    BY <1>t, <1>n DEF JobTrue, Current
  <2>2. Len(job[j].todo) \in Nat /\ ~job[j].failed
    BY <1>t DEF Job, JobTrue
  <2>3. QED
    BY <2>1, <2>2, <1>3, <1>t, <1>u, <1>n DEF JobTrue
<1>5. RowTrue(j)'
  BY <1>3, <1>u, <1>t DEF RowTrue, Live
<1>6. \A s \in Segs : Downloaded(j, s) => Downloaded(j, s)'
  <2>1. DOMAIN job[j].todo \subseteq Nat
    BY <1>t DEF Job
  <2>2. QED
    BY <2>1, <1>3, <1>n DEF Downloaded
<1>7. QED
  BY <1>2, <1>3, <1>4, <1>5, <1>6, <1>t, <1>u, RowsStay, JobAlone

\* The job ends, and its row tells how, unless the statement fails.
LEMMA FinishStep ==
    ASSUME Inv, NEW j \in Jobs, Finish(j)
    PROVE  Inv'
<1>t. job \in [Jobs -> Job] /\ job[j] \in Job /\ JobTrue(j) /\ RowTrue(j)
  BY DEF Inv, TypeInv, JobInv
<1>d. \/ job[j].at = "finish" /\ job[j].failed /\ job[j].done < Len(job[j].todo)
      \/ job[j].at = "next" /\ ~job[j].failed /\ job[j].done = Len(job[j].todo)
  BY <1>t DEF Finish, Done, JobAt, JobTrue
<1>u. UNCHANGED <<kind, bucket, lock, call, script, output, walk, rows>>
  BY DEF Finish
<1>1. /\ job' \in [Jobs -> Job] /\ \A k \in Jobs : k # j => job'[k] = job[k]
      /\ stranded \subseteq stranded'
      /\ \/ job'[j] = [job[j] EXCEPT !.at = "end"] /\ j \in stranded'
         \/ job'[j] = [job[j] EXCEPT !.at = "end",
                                     !.state = IF job[j].failed THEN "failed" ELSE "completed"]
  <2>1. CASE Moves(j, "end") /\ stranded' = stranded \cup {j}
    BY <2>1, <1>t, MovesJob
  <2>2. CASE job' = [job EXCEPT ![j].at = "end",
                          ![j].state = IF job[j].failed THEN "failed" ELSE "completed"]
             /\ stranded' = stranded
    <3>1. [job[j] EXCEPT !.at = "end",
                         !.state = IF job[j].failed THEN "failed" ELSE "completed"] \in Job
      BY <1>t, JobShape
    <3>2. job' = [job EXCEPT ![j] = [job[j] EXCEPT !.at = "end",
                         !.state = IF job[j].failed THEN "failed" ELSE "completed"]]
      BY <2>2
    <3>3. QED
      BY <3>1, <3>2, <2>2, <1>t
  <2>3. QED
    BY <2>1, <2>2 DEF Finish
<1>2. /\ job'[j].at = "end"
      /\ \/ job'[j].state = job[j].state /\ j \in stranded'
         \/ job'[j].state = IF job[j].failed THEN "failed" ELSE "completed"
      /\ job'[j].type = job[j].type /\ job'[j].todo = job[j].todo /\ job'[j].done = job[j].done
      /\ job'[j].progress = job[j].progress /\ job'[j].snap = job[j].snap
      /\ job'[j].failed = job[j].failed
  BY <1>1, <1>t DEF Job
<1>3. JobTrue(j)'
  BY <1>2, <1>u, <1>t, <1>d DEF JobTrue
<1>4. RowTrue(j)'
  BY <1>2, <1>t, <1>d DEF RowTrue, Live
<1>5. \A s \in Segs : Downloaded(j, s) => Downloaded(j, s)'
  BY <1>2, <1>u, <1>d DEF Downloaded
<1>6. QED
  BY <1>1, <1>2, <1>3, <1>4, <1>5, <1>d, <1>u, RowsStay, JobAlone

\* What an operation's call is when it starts.
LEMMA CallsCall ==
    ASSUME TypeInv, NEW c \in Callers, NEW mode \in Modes, NEW s \in Segs, Calls(c, mode, s)
    PROVE  /\ call' \in [Callers -> Call] /\ \A d \in Callers : d # c => call'[d] = call[d]
           /\ call'[c].at = IF kind = "s3" /\ mode = "retrieve" THEN "manifest" ELSE "lock"
           /\ call'[c].mode = mode /\ call'[c].seg = s
<1> DEFINE at == IF kind = "s3" /\ mode = "retrieve" THEN "manifest" ELSE "lock"
           rec == [NoCall EXCEPT !.at = at, !.mode = mode, !.seg = s]
<1>1. rec \in Call /\ rec.at = at /\ rec.mode = mode /\ rec.seg = s
  BY DEF Call, NoCall, Reading, None
<1>2. call' = [call EXCEPT ![c] = rec]
  BY DEF Calls
<1> HIDE DEF rec
<1>3. QED
  BY <1>1, <1>2 DEF TypeInv

LEMMA NoCallIsIdle ==
    /\ NoCall \in Call /\ NoCall.at = "idle"
BY DEF NoCall, Call, None

\* A call that is just made, or forgotten, has found nothing yet.
LEMMA FreshCallTrue ==
    ASSUME NEW c \in Callers, call'[c].at \in {"idle", "lock", "manifest"},
           call'[c].at # "idle" => call'[c].seg \in Segs /\ call'[c].mode \in Modes,
           call'[c].at = "manifest" => kind' = "s3" /\ call'[c].mode = "retrieve",
           call'[c].at = "lock" => kind' = "script" \/ call'[c].mode = "archive"
    PROVE  CallTrue(c)'
BY DEF CallTrue, Uploading, Reading, Running

\* The goroutine takes up the next segment of its list.
LEMMA NextStep ==
    ASSUME Inv, NEW j \in Jobs, NextSegment(j)
    PROVE  Inv'
<1>t. job \in [Jobs -> Job] /\ job[j] \in Job /\ JobTrue(j) /\ RowTrue(j) /\ job[j].at = "next"
      /\ TypeInv /\ j \in Callers
  BY JobsAssumption DEF Inv, TypeInv, JobInv, NextSegment, JobAt
<1>u. UNCHANGED <<kind, bucket, lock, script, output, walk, rows, stranded>>
      /\ job[j].done < Len(job[j].todo)
  BY DEF NextSegment
<1>s. PICK s \in Segs : s = Current(j)
  BY <1>t, <1>u DEF Current, Job
<1>1. CASE UNCHANGED call /\ Moves(j, "progress") /\ s \in job[j].snap
  <2>1. /\ job' \in [Jobs -> Job] /\ \A k \in Jobs : k # j => job'[k] = job[k]
        /\ job'[j] = [job[j] EXCEPT !.at = "progress"]
    BY <1>1, <1>t, MovesJob
  <2>2. /\ job'[j].at = "progress" /\ job'[j].state = job[j].state
        /\ job'[j].type = job[j].type /\ job'[j].todo = job[j].todo /\ job'[j].done = job[j].done
        /\ job'[j].progress = job[j].progress /\ job'[j].snap = job[j].snap
        /\ job'[j].failed = job[j].failed
    BY <2>1, <1>t DEF Job
  <2>3. job[j].type # "archive"
    BY <1>1, <1>t DEF JobTrue
  <2>4. JobTrue(j)'
    BY <2>2, <2>3, <1>u, <1>t DEF JobTrue
  <2>5. RowTrue(j)'
    BY <2>2, <1>u, <1>t DEF RowTrue, Live
  <2>6. \A x \in Segs : Downloaded(j, x) => Downloaded(j, x)'
    BY <2>2, <1>t DEF Downloaded
  <2>7. QED
    BY <2>1, <2>2, <2>4, <2>5, <2>6, <1>1, <1>u, <1>t, RowsStay, JobAlone
<1>2. CASE UNCHANGED call /\ Fails(j)
  <2>1. /\ job' \in [Jobs -> Job] /\ \A k \in Jobs : k # j => job'[k] = job[k]
        /\ job'[j] = [job[j] EXCEPT !.at = "finish", !.failed = TRUE]
    BY <1>2, <1>t, FailsJob
  <2>2. /\ job'[j].at = "finish" /\ job'[j].state = job[j].state
        /\ job'[j].type = job[j].type /\ job'[j].todo = job[j].todo /\ job'[j].done = job[j].done
        /\ job'[j].progress = job[j].progress /\ job'[j].snap = job[j].snap
        /\ job'[j].failed
    BY <2>1, <1>t DEF Job
  <2>3. JobTrue(j)'
    BY <2>2, <1>u, <1>t DEF JobTrue
  <2>4. RowTrue(j)'
    BY <2>2, <1>u, <1>t DEF RowTrue, Live
  <2>5. \A x \in Segs : Downloaded(j, x) => Downloaded(j, x)'
    BY <2>2, <1>t DEF Downloaded
  <2>6. QED
    BY <2>1, <2>2, <2>3, <2>4, <2>5, <1>2, <1>u, <1>t, RowsStay, JobAlone
<1>3. CASE Calls(j, IF job[j].type = "archive" THEN "archive" ELSE "retrieve", s)
           /\ Moves(j, "calling")
  <2> DEFINE mode == IF job[j].type = "archive" THEN "archive" ELSE "retrieve"
  <2>1. /\ job' \in [Jobs -> Job] /\ \A k \in Jobs : k # j => job'[k] = job[k]
        /\ job'[j] = [job[j] EXCEPT !.at = "calling"]
    BY <1>3, <1>t, MovesJob
  <2>2. /\ job'[j].at = "calling" /\ job'[j].state = job[j].state
        /\ job'[j].type = job[j].type /\ job'[j].todo = job[j].todo /\ job'[j].done = job[j].done
        /\ job'[j].progress = job[j].progress /\ job'[j].snap = job[j].snap
        /\ job'[j].failed = job[j].failed
    BY <2>1, <1>t DEF Job
  <2>3. /\ call' \in [Callers -> Call] /\ \A d \in Callers : d # j => call'[d] = call[d]
        /\ call'[j].at = IF kind = "s3" /\ mode = "retrieve" THEN "manifest" ELSE "lock"
        /\ call'[j].mode = mode /\ call'[j].seg = s
    <3>1. mode \in Modes
      BY DEF Modes
    <3>2. QED
      BY <3>1, <1>3, <1>t, CallsCall
  <2>4. CallTrue(j)'
    <3>1. kind \in {"s3", "script"} /\ kind' = kind
      BY <1>t, <1>u DEF TypeInv
    <3>2. mode \in Modes
      BY DEF Modes
    <3>3. QED
      BY <2>3, <3>1, <3>2, <1>t, FreshCallTrue
  <2>5. Current(j)' = s
    BY <2>2, <1>s DEF Current
  <2>6. JobTrue(j)'
    BY <2>2, <1>u, <1>t DEF JobTrue
  <2>7. RowTrue(j)'
    BY <2>2, <1>u, <1>t DEF RowTrue, Live
  <2>8. \A x \in Segs : Downloaded(j, x) => Downloaded(j, x)'
    <3>1. call[j].at = "idle"
      BY <1>t DEF Inv, CallersInv
    <3>2. QED
      BY <3>1, <2>2, <1>t DEF Downloaded
  <2>9. call[j].at = "idle"
    BY <1>t DEF Inv, CallersInv
  <2>10. ~JobAt(j, "mark")'
    BY <2>2 DEF JobAt
  <2>11. UNCHANGED <<kind, bucket, script, rows>> /\ stranded \subseteq stranded'
    BY <1>u
  <2>12. call'[j].at \in {"idle", "lock", "manifest"} /\ call'[j].at # "idle"
    BY <2>3
  <2>13. call'[j].mode = IF job'[j].type = "archive" THEN "archive" ELSE "retrieve"
    BY <2>2, <2>3
  <2> HIDE DEF mode
  <2>14. QED
    BY <2>1, <2>2, <2>3, <2>4, <2>5, <2>6, <2>7, <2>8, <2>9, <2>10, <2>11, <2>12, <2>13,
       <1>u, RowsStay, JobStep
<1>4. QED
  BY <1>1, <1>2, <1>3, <1>s DEF NextSegment

\* The backend has answered: "ok" means that the copy is committed and that
\* the download is whole.
LEMMA ReturnedStep ==
    ASSUME Inv, NEW j \in Jobs, Returned(j)
    PROVE  Inv'
<1>t. job \in [Jobs -> Job] /\ job[j] \in Job /\ JobTrue(j) /\ RowTrue(j)
      /\ job[j].at = "calling" /\ TypeInv /\ j \in Callers
  BY JobsAssumption DEF Inv, TypeInv, JobInv, Returned, JobAt
<1>u. UNCHANGED <<kind, bucket, lock, script, output, walk, rows, stranded>>
      /\ call' = [call EXCEPT ![j] = NoCall] /\ call[j].at = "done"
  BY DEF Returned, In
<1>c. /\ call' \in [Callers -> Call] /\ \A d \in Callers : d # j => call'[d] = call[d]
      /\ call'[j].at = "idle"
  BY <1>u, <1>t, NoCallIsIdle DEF TypeInv
<1>i. CallTrue(j)'
  BY <1>c, <1>t, FreshCallTrue
<1>s. PICK s \in Segs : s = Current(j) /\ s = call[j].seg
  BY <1>t, <1>u DEF Inv, CallersInv, CallInv, CallTrue
<1>k. CallTrue(j) /\ call[j].mode = IF job[j].type = "archive" THEN "archive" ELSE "retrieve"
  BY <1>t DEF Inv, CallersInv, CallInv
<1>1. CASE call[j].res = "ok" /\ Moves(j, "mark")
  <2>1. /\ job' \in [Jobs -> Job] /\ \A k \in Jobs : k # j => job'[k] = job[k]
        /\ job'[j] = [job[j] EXCEPT !.at = "mark"]
    BY <1>1, <1>t, MovesJob
  <2>2. /\ job'[j].at = "mark" /\ job'[j].state = job[j].state
        /\ job'[j].type = job[j].type /\ job'[j].todo = job[j].todo /\ job'[j].done = job[j].done
        /\ job'[j].progress = job[j].progress /\ job'[j].snap = job[j].snap
        /\ job'[j].failed = job[j].failed
    BY <2>1, <1>t DEF Job
  <2>3. Current(j)' = s
    BY <2>2, <1>s DEF Current
  <2>4. Committed(s)'
    <3>1. Committed(s)
      BY <1>1, <1>u, <1>s, <1>k DEF CallTrue
    <3>2. QED
      BY <3>1, <1>u DEF Committed, bucket, script
  <2>5. Committed(Current(j))'
    BY <2>3, <2>4 DEF Committed
  <2>6. JobTrue(j)'
    BY <2>2, <2>5, <1>u, <1>t DEF JobTrue
  <2>7. RowTrue(j)'
    BY <2>2, <1>u, <1>t DEF RowTrue, Live
  <2>8. \A x \in Segs : Downloaded(j, x) => Downloaded(j, x)'
    BY <2>2, <1>t DEF Downloaded
  <2>9. job'[j].type = "rehydrate" => \E x \in Segs : x = Current(j)' /\ Whole(x)
    <3>1. job'[j].type = "rehydrate" => Whole(s)
      BY <2>2, <1>1, <1>u, <1>s, <1>k, <1>t DEF Inv, ServedInv, In
    <3>2. QED
      BY <3>1, <2>3
  <2>10. UNCHANGED <<kind, bucket, script, rows>> /\ stranded \subseteq stranded'
    BY <1>u
  <2>11. QED
    BY <2>1, <2>2, <2>6, <2>7, <2>8, <2>9, <2>10, <1>c, <1>i, <1>u, RowsStay, JobStep
<1>2. CASE Fails(j)
  <2>1. /\ job' \in [Jobs -> Job] /\ \A k \in Jobs : k # j => job'[k] = job[k]
        /\ job'[j] = [job[j] EXCEPT !.at = "finish", !.failed = TRUE]
    BY <1>2, <1>t, FailsJob
  <2>2. /\ job'[j].at = "finish" /\ job'[j].state = job[j].state
        /\ job'[j].type = job[j].type /\ job'[j].todo = job[j].todo /\ job'[j].done = job[j].done
        /\ job'[j].progress = job[j].progress /\ job'[j].snap = job[j].snap
        /\ job'[j].failed
    BY <2>1, <1>t DEF Job
  <2>3. JobTrue(j)'
    BY <2>2, <1>u, <1>t DEF JobTrue
  <2>4. RowTrue(j)'
    BY <2>2, <1>u, <1>t DEF RowTrue, Live
  <2>5. \A x \in Segs : Downloaded(j, x) => Downloaded(j, x)'
    BY <2>2, <1>t DEF Downloaded
  <2>6. ~JobAt(j, "mark")'
    BY <2>2 DEF JobAt
  <2>7. UNCHANGED <<kind, bucket, script, rows>> /\ stranded \subseteq stranded'
    BY <1>u
  <2>8. QED
    BY <2>1, <2>2, <2>3, <2>4, <2>5, <2>6, <2>7, <1>c, <1>i, <1>u, RowsStay, JobStep
<1>3. QED
  BY <1>1, <1>2 DEF Returned

-----------------------------------------------------------------------------
(* The other steps. *)

\* A verify request makes its call, or answers.
LEMMA VerifierStep ==
    ASSUME Inv, NEW v \in Verifiers, VerifyCall(v) \/ VerifyReturns(v)
    PROVE  Inv'
<1> USE DEF Inv
<1>u. UNCHANGED <<kind, bucket, lock, script, output, walk, jobVars>>
  BY DEF VerifyCall, VerifyReturns
<1>v. /\ UNCHANGED <<objects, manifests, pending, leaks, supports, probes, caps, refusals, kept,
                     marred, final, temp, text, rows, job, stranded>>
  BY <1>u DEF bucket, script, output, jobVars
<1>c. v \in Callers /\ \A j \in Jobs : j \in Callers /\ j # v
  BY JobsAssumption
<1>1. /\ call' \in [Callers -> Call] /\ \A d \in Callers : d # v => call'[d] = call[d]
      /\ call[v].at \in {"idle", "done"} /\ call'[v].at \in {"idle", "lock"}
      /\ call'[v].at = "lock" => kind = "script" /\ call'[v].mode = "verify"
                                  /\ call'[v].seg \in Segs
  <2>1. CASE VerifyCall(v)
    <3>1. PICK s \in Segs : Calls(v, "verify", s)
      BY <2>1 DEF VerifyCall
    <3>2. call[v].at = "idle" /\ kind = "script"
      BY <2>1, NoCallIsIdle DEF VerifyCall
    <3>3. "verify" \in Modes
      BY DEF Modes
    <3>4. QED
      BY <3>1, <3>2, <3>3, <1>c, CallsCall
  <2>2. CASE VerifyReturns(v)
    BY <2>2, <1>c, NoCallIsIdle DEF VerifyReturns, In, TypeInv
  <2>3. QED
    BY <2>1, <2>2
<1>2. TypeInv'
  BY <1>1, <1>u, <1>v DEF TypeInv, BucketType, ScriptType, FileType
<1>3. LockInv'
  BY <1>1, <1>u DEF LockInv, Uploading, Running
<1>4. CallInv'
  <2>1. CallTrue(v)'
    <3>1. "verify" \in Modes
      BY DEF Modes
    <3>2. QED
      BY <3>1, <1>1, <1>u, <1>c, FreshCallTrue
  <2>2. ASSUME NEW d \in Callers, d # v PROVE CallTrue(d)'
    <3>1. CallTrue(d) /\ call'[d] = call[d]
      BY <2>2, <1>1 DEF CallInv
    <3>2. QED
      BY <1>u, <1>v, <3>1 DEF CallTrue, Committed
  <2>3. QED
    BY <2>1, <2>2 DEF CallInv
<1>5. CallersInv'
  <2>1. \A j \in Jobs : Current(j)' = Current(j) /\ call'[j] = call[j]
    BY <1>1, <1>c, <1>v DEF Current
  <2>2. \A w \in Verifiers : w \in Callers
    BY JobsAssumption
  <2>3. QED
    BY <1>1, <1>u, <1>v, <2>1, <2>2 DEF CallersInv
<1>6. KnownInv' /\ CommitMarker' /\ WalkInv' /\ RowsInv'
  BY <1>u, <1>v DEF KnownInv, CommitMarker, WalkInv, RowsInv, Committed
<1>7. LeaksExplained'
  <2>1. InParts' = InParts
    BY <1>1 DEF InParts, In
  <2>2. QED
    BY <1>v, <2>1 DEF LeaksExplained, InParts
<1>8. JobInv'
  BY <1>u, <1>v DEF JobInv, JobTrue, RowTrue, Live, Committed, Current
<1>9. FileInv'
  <2>1. \A j \in Jobs : \A s \in Segs : Downloaded(j, s) => Downloaded(j, s)'
    BY <1>1, <1>c, <1>v DEF Downloaded
  <2>2. QED
    BY <1>u, <1>v, <2>1 DEF FileInv
<1>10. ServedInv'
  <2>1. ASSUME NEW s, Whole(s) PROVE Whole(s)'
    <3>1. \A c \in Callers : In(c, "exit") => call'[c] = call[c]
      BY <1>1 DEF In
    <3>2. QED
      BY <3>1, <2>1, <1>u, <1>v, WholeFrame
  <2>2. ASSUME NEW c \in Callers, In(c, "done")', call'[c].res = "ok", call'[c].mode = "retrieve",
               NEW s, s = call'[c].seg
        PROVE  Whole(s)'
    <3>1. call'[c] = call[c]
      BY <2>2, <1>1 DEF In
    <3>2. QED
      BY <3>1, <2>1, <2>2 DEF ServedInv, In
  <2>3. ASSUME NEW j \in Jobs, JobAt(j, "mark")', job'[j].type = "rehydrate",
               NEW s, s = Current(j)'
        PROVE  Whole(s)'
    BY <2>1, <2>3, <1>v DEF ServedInv, JobAt, Current
  <2>4. \A s \in Segs : rows'[s] = "rehydrated" => Whole(s)'
    BY <1>v, <2>1 DEF ServedInv
  <2>5. QED
    BY <2>2, <2>3, <2>4 DEF ServedInv
<1>11. QED
  BY <1>2, <1>3, <1>4, <1>5, <1>6, <1>7, <1>8, <1>9, <1>10

\* The walk of a Verify sees the object of every manifest it has seen, as it is
\* listed later and nothing is taken back.
LEMMA ListStep ==
    ASSUME TypeInv, CommitMarker, WalkInv, Verify
    PROVE  WalkInv' /\ walk' \in [at : {"idle", "list"}, pos : Nat, seen : SUBSET Nat]
<1>t. walk \in [at : {"idle", "list"}, pos : Nat, seen : SUBSET Nat] /\ Segs \subseteq Nat
      /\ manifests \in [Segs -> {None, "new"}]
  BY BackendsAssumption DEF TypeInv, BucketType
<1>u. manifests' = manifests /\ objects' = objects
  BY DEF Verify, bucket
<1>0. /\ [NoWalk EXCEPT !.at = "list"].seen = {} /\ NoWalk.seen = {}
      /\ [NoWalk EXCEPT !.at = "list"] \in [at : {"idle", "list"}, pos : Nat, seen : SUBSET Nat]
      /\ NoWalk \in [at : {"idle", "list"}, pos : Nat, seen : SUBSET Nat]
  BY DEF NoWalk
<1>1. CASE VerifyBegins \/ VerifyEnds
  BY <1>1, <1>0 DEF VerifyBegins, VerifyEnds, WalkInv
<1>2. CASE ListPage
  <2>1. PICK last \in Keys :
           /\ walk.pos < last
           /\ walk' = [walk EXCEPT !.pos = last,
                         !.seen = @ \cup {k \in walk.pos + 1..last : Exists(k)}]
    BY <1>2 DEF ListPage
  <2>2. last \in Nat /\ walk.pos \in Nat
    BY <1>t, BackendsAssumption DEF Keys
  <2>3. walk'.pos = last /\ walk'.seen = walk.seen \cup {k \in walk.pos + 1..last : Exists(k)}
    BY <2>1, <1>t
  <2>4. walk' \in [at : {"idle", "list"}, pos : Nat, seen : SUBSET Nat]
    <3> DEFINE new == walk.seen \cup {k \in walk.pos + 1..last : Exists(k)}
    <3>1. new \in SUBSET Nat
      BY <1>t, <2>2
    <3>2. walk' = [walk EXCEPT !.pos = last, !.seen = new]
      BY <2>1, <1>t
    <3> HIDE DEF new
    <3>3. QED
      BY <3>1, <3>2, <2>2, <1>t
  <2>5. ASSUME NEW s \in Segs, 2 * s - 1 \in walk'.seen
        PROVE  manifests[s] # None /\ (2 * s <= last => 2 * s \in walk'.seen)
    <3>1. s \in Nat
      BY <1>t
    <3>2. CASE 2 * s - 1 \in walk.seen
      <4>1. manifests[s] # None /\ (2 * s <= walk.pos => 2 * s \in walk.seen)
        BY <3>2 DEF WalkInv
      <4>2. objects[s] # NoObject
        BY <4>1, <1>t DEF CommitMarker, Object, NoObject, None
      <4>3. Exists(2 * s)
        BY <4>2 DEF Exists
      <4>4. 2 * s > walk.pos /\ 2 * s <= last => 2 * s \in walk.pos + 1..last
        BY <3>1, <2>2
      <4>5. QED
        BY <4>1, <4>3, <4>4, <3>1, <2>2, <2>3
    <3>3. CASE 2 * s - 1 \in walk.pos + 1..last /\ Exists(2 * s - 1)
      <4>1. manifests[s] # None
        <5>1. PICK q \in Segs : \/ 2 * s - 1 = 2 * q - 1 /\ manifests[q] # None
                                \/ 2 * s - 1 = 2 * q
          BY <3>3 DEF Exists
        <5>2. q \in Nat
          BY <1>t
        <5>3. 2 * s - 1 # 2 * q
          BY <3>1, <5>2
        <5>4. 2 * s - 1 = 2 * q - 1 => s = q
          BY <3>1, <5>2
        <5>5. QED
          BY <5>1, <5>3, <5>4
      <4>2. objects[s] # NoObject
        BY <4>1, <1>t DEF CommitMarker, Object, NoObject, None
      <4>3. Exists(2 * s)
        BY <4>2 DEF Exists
      <4>4. 2 * s <= last => 2 * s \in walk.pos + 1..last
        BY <3>1, <3>3, <2>2
      <4>5. QED
        BY <4>1, <4>3, <4>4, <2>3
    <3>4. QED
      BY <2>3, <2>5, <3>2, <3>3
  <2>6. QED
    BY <2>3, <2>4, <2>5, <1>u DEF WalkInv
<1>3. QED
  BY <1>1, <1>2 DEF Verify

LEMMA VerifyStep ==
    ASSUME Inv, Verify, UNCHANGED jobVars
    PROVE  Inv'
<1> USE DEF Inv
<1>u. UNCHANGED <<kind, objects, manifests, pending, leaks, lock, call, supports, probes, caps,
                  refusals, kept, marred, final, temp, text, rows, job, stranded>>
  BY DEF Verify, bucket, script, output, jobVars
<1>1. WalkInv' /\ walk' \in [at : {"idle", "list"}, pos : Nat, seen : SUBSET Nat]
  BY ListStep
<1>2. TypeInv'
  BY <1>1, <1>u DEF TypeInv, BucketType, ScriptType, FileType
<1>3. LockInv' /\ KnownInv' /\ CommitMarker' /\ RowsInv'
  BY <1>u DEF LockInv, KnownInv, CommitMarker, RowsInv, Committed
<1>4. CallInv'
  BY <1>u DEF CallInv, CallTrue, Committed
<1>5. CallersInv'
  BY <1>u DEF CallersInv, Current
<1>6. LeaksExplained'
  BY <1>u DEF LeaksExplained, In
<1>7. JobInv'
  BY <1>u DEF JobInv, JobTrue, RowTrue, Live, Committed, Current
<1>8. FileInv'
  BY <1>u DEF FileInv, Downloaded
<1>9. ServedInv'
  BY <1>u DEF ServedInv, Whole, Retrieving, Content, In, JobAt, Current
<1>10. QED
  BY <1>1, <1>2, <1>3, <1>4, <1>5, <1>6, <1>7, <1>8, <1>9

\* What a probe tells of a mode, whichever of its runs are cut (probeMode).
LEMMA ProbedShape ==
    ASSUME NEW cut
    PROVE  Probed(cut) \in [Modes -> {"yes", "no", "unknown"}]
BY DEF Probed, Answer, Unclear

\* The script is probed anew while no call has the mutex: what runs had told is
\* forgotten, and so are their refusals.
LEMMA ProbeStep ==
    ASSUME Inv, ProbeAgain, UNCHANGED jobVars
    PROVE  Inv'
<1> USE DEF Inv
<1>u. UNCHANGED <<kind, objects, manifests, pending, leaks, lock, call, supports, probes, kept,
                  marred, final, temp, text, walk, rows, job, stranded>>
  BY DEF ProbeAgain, bucket, output, jobVars
<1>k. PICK cut : caps' = Probed(cut)
  BY DEF ProbeAgain
<1>r. refusals' = [m \in Modes |-> 0]
  BY DEF ProbeAgain
<1>1. TypeInv'
  BY <1>u, <1>k, <1>r, ProbedShape
     DEF TypeInv, BucketType, ScriptType, FileType, KnownInv
<1>2. LockInv' /\ CommitMarker' /\ RowsInv' /\ WalkInv'
  BY <1>u DEF LockInv, CommitMarker, RowsInv, Committed, WalkInv
<1>3. KnownInv'
  <2>1. "archive" \in supports'
    BY <1>u DEF KnownInv
  <2>2. \A m \in Modes : refusals'[m] = 0
    BY <1>r
  <2>3. \A m \in Modes : /\ caps'[m] = "no" => m \notin supports'
                         /\ caps'[m] = "yes" => m \in supports'
    BY <1>u, <1>k, <2>1 DEF Probed, Answer, Unclear
  <2>4. QED
    BY <2>1, <2>2, <2>3 DEF KnownInv
<1>4. CallInv'
  <2>1. \A c \in Callers : call[c].at \notin Running
    BY BackendsAssumption DEF ProbeAgain, LockInv, None
  <2>2. QED
    BY <1>u, <2>1 DEF CallInv, CallTrue, Committed
<1>5. CallersInv'
  BY <1>u DEF CallersInv, Current
<1>6. LeaksExplained'
  BY <1>u DEF LeaksExplained, In
<1>7. JobInv'
  BY <1>u DEF JobInv, JobTrue, RowTrue, Live, Committed, Current
<1>8. FileInv'
  BY <1>u DEF FileInv, Downloaded
<1>9. ServedInv'
  BY <1>u DEF ServedInv, Whole, Retrieving, Content, In, JobAt, Current
<1>10. QED
  BY <1>1, <1>2, <1>3, <1>4, <1>5, <1>6, <1>7, <1>8, <1>9

\* The process dies and starts again: the calls and what was known of the
\* script are gone, uploads in parts are left behind, and every goroutine is at
\* its end.
LEMMA RestartStep ==
    ASSUME Inv, Restart
    PROVE  Inv'
<1> USE DEF Inv
<1>u. /\ UNCHANGED <<kind, objects, manifests, pending, supports, probes, kept, final, temp, text,
                     rows>>
      /\ call' = [c \in Callers |-> NoCall] /\ lock' = None
      /\ refusals' = [m \in Modes |-> 0] /\ walk' = NoWalk
      /\ leaks' = leaks + Cardinality(InParts)
      /\ marred' = marred \cup {call[c].seg : c \in {d \in Callers :
                                 In(d, "exit") /\ call[d].mode = "retrieve"}}
      /\ stranded' = stranded \cup {j \in Jobs : Live(j)}
      /\ job' = [j \in Jobs |-> IF Live(j) THEN [job[j] EXCEPT !.at = "end"] ELSE job[j]]
  BY DEF Restart, BackendRestarts, InParts, output
<1>k. PICK cut : caps' = Probed(cut)
  BY DEF Restart, BackendRestarts
<1>n. None \notin Callers
  BY BackendsAssumption DEF None
<1>c. \A c \in Callers : call'[c] = NoCall
  BY <1>u
<1>j. \A j \in Jobs :
         /\ job'[j] \in Job
         /\ job'[j].at = IF Live(j) THEN "end" ELSE job[j].at
         /\ job'[j].state = job[j].state /\ job'[j].type = job[j].type
         /\ job'[j].todo = job[j].todo /\ job'[j].done = job[j].done
         /\ job'[j].progress = job[j].progress /\ job'[j].snap = job[j].snap
         /\ job'[j].failed = job[j].failed
         /\ ~Live(j) => job'[j] = job[j]
  <2> SUFFICES ASSUME NEW j \in Jobs
               PROVE  /\ job'[j] \in Job
                      /\ job'[j].at = IF Live(j) THEN "end" ELSE job[j].at
                      /\ job'[j].state = job[j].state /\ job'[j].type = job[j].type
                      /\ job'[j].todo = job[j].todo /\ job'[j].done = job[j].done
                      /\ job'[j].progress = job[j].progress /\ job'[j].snap = job[j].snap
                      /\ job'[j].failed = job[j].failed
                      /\ ~Live(j) => job'[j] = job[j]
    OBVIOUS
  <2>1. job[j] \in Job /\ job'[j] = IF Live(j) THEN [job[j] EXCEPT !.at = "end"] ELSE job[j]
    BY <1>u DEF TypeInv
  <2>2. CASE Live(j)
    <3>1. job'[j] = [job[j] EXCEPT !.at = "end"]
      BY <2>1, <2>2
    <3>2. [job[j] EXCEPT !.at = "end"] \in Job
      BY <2>1, JobShape
    <3>3. QED
      BY <3>1, <3>2, <2>1, <2>2 DEF Job
  <2>3. CASE ~Live(j)
    BY <2>1, <2>3
  <2>4. QED
    BY <2>2, <2>3
<1>p. InParts \in SUBSET Callers /\ Cardinality(InParts) \in Nat
  BY BackendsAssumption, FS_Subset, FS_CardinalityType DEF InParts
<1>1. TypeInv'
  <2>1. BucketType'
    BY <1>u, <1>p DEF TypeInv, BucketType, NoWalk
  <2>2. ScriptType' /\ FileType'
    BY <1>u, <1>k, ProbedShape DEF TypeInv, ScriptType, FileType, KnownInv
  <2>3. call' \in [Callers -> Call] /\ job' \in [Jobs -> Job]
    <3>1. call' \in [Callers -> Call]
      BY <1>u, NoCallIsIdle
    <3>2. job' \in [Jobs -> Job]
      BY <1>u, <1>j
    <3>3. QED
      BY <3>1, <3>2
  <2>4. QED
    BY <1>u, <2>1, <2>2, <2>3 DEF TypeInv
<1>2. LockInv'
  BY <1>u, <1>c, <1>n, NoCallIsIdle DEF LockInv, Uploading, Running
<1>3. CallInv'
  <2>1. \A c \in Callers : call'[c].at = "idle"
    BY <1>c, NoCallIsIdle
  <2>2. QED
    BY <2>1, FreshCallTrue DEF CallInv
<1>4. CallersInv'
  <2>1. \A c \in Callers : call'[c].at = "idle"
    BY <1>c, NoCallIsIdle
  <2>2. \A j \in Jobs : job'[j].at # "calling"
    BY <1>j DEF Live
  <2>3. QED
    BY <2>1, <2>2, JobsAssumption DEF CallersInv
<1>5. KnownInv'
  <2>1. "archive" \in supports'
    BY <1>u DEF KnownInv
  <2>2. \A m \in Modes : refusals'[m] = 0
    BY <1>u
  <2>3. \A m \in Modes : /\ caps'[m] = "no" => m \notin supports'
                         /\ caps'[m] = "yes" => m \in supports'
    BY <1>u, <1>k, <2>1 DEF Probed, Answer, Unclear
  <2>4. QED
    BY <2>1, <2>2, <2>3 DEF KnownInv
<1>6. CommitMarker' /\ WalkInv' /\ RowsInv'
  BY <1>u DEF CommitMarker, WalkInv, RowsInv, Committed, NoWalk
<1>7. LeaksExplained'
  <2>1. InParts' = {}
    BY <1>c, NoCallIsIdle DEF InParts, In
  <2>2. pending = leaks + Cardinality(InParts)
    BY DEF LeaksExplained, InParts
  <2>3. leaks' \in Int
    BY <1>1 DEF TypeInv, BucketType
  <2>4. pending' = leaks' + Cardinality(InParts')
    BY <1>u, <2>1, <2>2, <2>3, FS_EmptySet
  <2>5. QED
    BY <2>4 DEF LeaksExplained, InParts
<1>8. JobInv'
  <2> SUFFICES ASSUME NEW j \in Jobs PROVE JobTrue(j)' /\ RowTrue(j)'
    BY DEF JobInv
  <2>1. JobTrue(j) /\ RowTrue(j)
    BY DEF JobInv
  <2>2. CASE ~Live(j)
    <3>1. job'[j] = job[j] /\ job[j].at \in {"none", "end"}
      BY <2>2, <1>j DEF Live
    <3>2. QED
      BY <3>1, <2>1, <1>u DEF JobTrue, RowTrue, Live
  <2>3. CASE Live(j)
    <3>1. job'[j].at = "end" /\ j \in stranded'
      BY <2>3, <1>j, <1>u
    <3>2. job[j].at # "none"
      BY <2>3 DEF Live
    <3>3. JobTrue(j)'
      BY <3>1, <3>2, <2>1, <1>j, <1>u DEF JobTrue
    <3>4. RowTrue(j)'
      BY <3>1, <2>1, <2>3, <1>j DEF RowTrue, Live
    <3>5. QED
      BY <3>3, <3>4
  <2>4. QED
    BY <2>2, <2>3
<1>9. FileInv'
  <2>1. ASSUME NEW j \in Jobs, NEW s \in Segs, Downloaded(j, s) PROVE Downloaded(j, s)'
    <3>1. PICK i \in DOMAIN job[j].todo :
             /\ job[j].todo[i] = s /\ i <= job[j].done + 1
             /\ i = job[j].done + 1 =>
                   \/ job[j].at \in {"mark", "progress", "finish", "end"}
                   \/ call[j].at \in {"copy", "rename", "digest", "done"}
      BY <2>1 DEF Downloaded
    <3>2. call[j].at \in {"copy", "rename", "digest", "done"} => job[j].at = "calling"
      BY DEF CallersInv
    <3>3. i = job[j].done + 1 => job'[j].at = "end"
      BY <3>1, <3>2, <1>j DEF Live
    <3>4. QED
      BY <3>1, <3>3, <1>j DEF Downloaded
  <2>2. QED
    BY <1>u, <2>1 DEF FileInv
<1>10. ServedInv'
  <2>1. ASSUME NEW s, Whole(s) PROVE Whole(s)'
    <3>1. CASE Retrieving(s)
      <4>1. s \in marred'
        BY <3>1, <1>u DEF Retrieving
      <4>2. QED
        BY <4>1 DEF Whole
    <3>2. CASE Content(s) = "new" \/ s \in marred
      BY <3>2, <1>u DEF Whole, Content
    <3>3. QED
      BY <2>1, <3>1, <3>2 DEF Whole
  <2>2. \A c \in Callers : ~In(c, "done")'
    BY <1>c, NoCallIsIdle DEF In
  <2>3. \A j \in Jobs : ~JobAt(j, "mark")'
    BY <1>j DEF Live, JobAt
  <2>4. \A s \in Segs : rows'[s] = "rehydrated" => Whole(s)'
    BY <1>u, <2>1 DEF ServedInv
  <2>5. QED
    BY <2>2, <2>3, <2>4 DEF ServedInv
<1>11. QED
  BY <1>1, <1>2, <1>3, <1>4, <1>5, <1>6, <1>7, <1>8, <1>9, <1>10

\* The invariant holds at the start, whatever the archive has.
LEMMA InitInv ==
    ASSUME Init
    PROVE  Inv
<1>1. PICK done \in {{}, Segs} : /\ BackendInit(done)
                                 /\ rows = [s \in Segs |-> IF s \in done THEN "archived" ELSE "sealed"]
  BY DEF Init
<1>2. PICK old \in {{}, Big \ done} :
         objects = [s \in Segs |-> IF kind # "s3" THEN NoObject
                                   ELSE IF s \in done THEN Object("new", "new")
                                   ELSE IF s \in old THEN Object("old", "old") ELSE NoObject]
  BY <1>1 DEF BackendInit
<1>3. /\ kind \in {"s3", "script"}
      /\ manifests = [s \in Segs |-> IF kind = "s3" /\ s \in done THEN "new" ELSE None]
      /\ kept = IF kind = "script" THEN done ELSE {}
      /\ pending = 0 /\ leaks = 0 /\ lock = None
      /\ call = [c \in Callers |-> NoCall]
      /\ supports \in {Modes, {"archive"}} /\ probes \in BOOLEAN
      /\ refusals = [m \in Modes |-> 0]
      /\ final = [s \in Segs |-> None] /\ temp = final
      /\ text = [s \in Segs |-> [c \in Callers |-> [content |-> None, opener |-> None]]]
      /\ walk = NoWalk
  BY <1>1 DEF BackendInit
<1>k. PICK cut : caps = Probed(cut)
  BY <1>1 DEF BackendInit
<1>a. "archive" \in supports
  BY <1>3 DEF Modes
<1>4. job = [j \in Jobs |-> NoJob]
  BY DEF Init
<1>n. None \notin Callers
  BY BackendsAssumption DEF None
<1>c. \A c \in Callers : call[c] = NoCall /\ call[c].at = "idle"
  BY <1>3, NoCallIsIdle
<1>5. TypeInv
  <2>1. BucketType
    BY <1>2, <1>3 DEF BucketType, NoWalk
  <2>2. ScriptType
    BY <1>1, <1>3, <1>k, <1>a, ProbedShape DEF ScriptType, Modes
  <2>3. FileType
    BY <1>3 DEF FileType, File
  <2>4. NoJob \in Job
    <3>1. <<>> \in Seq(Segs)
      OBVIOUS
    <3>2. QED
      BY <3>1 DEF NoJob, Job, None
  <2>5. rows \in [Segs -> {"sealed", "archived", "rehydrated"}]
    BY <1>1
  <2>6. call \in [Callers -> Call] /\ job \in [Jobs -> Job]
    BY <1>3, <1>4, <2>4, NoCallIsIdle
  <2>7. QED
    BY <1>3, <2>1, <2>2, <2>3, <2>5, <2>6 DEF TypeInv
<1>6. LockInv
  BY <1>3, <1>c, <1>n DEF LockInv, Uploading, Running
<1>7. CallInv
  BY <1>c DEF CallInv, CallTrue, Uploading, Reading, Running
<1>8. \A j \in Jobs : job[j] = NoJob /\ job[j].at = "none"
  BY <1>4 DEF NoJob
<1>9. CallersInv
  BY <1>c, <1>8, JobsAssumption DEF CallersInv
<1>10. KnownInv
  <2>1. \A m \in Modes : refusals[m] = 0
    BY <1>3
  <2>2. \A m \in Modes : /\ caps[m] = "no" => m \notin supports
                         /\ caps[m] = "yes" => m \in supports
    BY <1>k, <1>a DEF Probed, Answer, Unclear
  <2>3. QED
    BY <1>a, <2>1, <2>2 DEF KnownInv
<1>11. CommitMarker
  BY <1>2, <1>3 DEF CommitMarker, None
<1>12. LeaksExplained
  <2>1. InParts = {}
    BY <1>c DEF InParts, In
  <2>2. Cardinality(InParts) = 0
    BY <2>1, FS_EmptySet
  <2>3. pending = leaks + Cardinality(InParts)
    BY <1>3, <2>2
  <2>4. QED
    BY <2>3 DEF LeaksExplained, InParts
<1>13. WalkInv
  BY <1>3 DEF WalkInv, NoWalk
<1>14. JobInv
  <2>1. Len(<<>>) = 0 /\ DOMAIN <<>> = {}
    OBVIOUS
  <2>2. QED
    BY <1>8, <2>1 DEF JobInv, JobTrue, RowTrue, NoJob, Live, None
<1>15. RowsInv
  BY <1>1, <1>2, <1>3 DEF RowsInv, Committed, Object
<1>16. FileInv
  BY <1>3, <1>n, JobsAssumption DEF FileInv
<1>17. ServedInv
  BY <1>1, <1>c, <1>8 DEF ServedInv, In, JobAt
<1>18. QED
  BY <1>5, <1>6, <1>7, <1>9, <1>10, <1>11, <1>12, <1>13, <1>14, <1>15, <1>16, <1>17 DEF Inv

\* Nothing moves.
LEMMA StutterStep ==
    ASSUME Inv, UNCHANGED vars
    PROVE  Inv'
<1> USE DEF vars, backendVars, jobVars, bucket, script, output
<1>1. TypeInv' /\ LockInv' /\ CallersInv' /\ KnownInv'
  BY DEF Inv, TypeInv, BucketType, ScriptType, FileType, LockInv, CallersInv, Current, KnownInv
<1>2. CallInv'
  BY DEF Inv, CallInv, CallTrue, Committed
<1>3. CommitMarker' /\ LeaksExplained' /\ WalkInv' /\ RowsInv'
  BY DEF Inv, CommitMarker, LeaksExplained, In, WalkInv, RowsInv, Committed
<1>4. JobInv'
  BY DEF Inv, JobInv, JobTrue, RowTrue, Live, Current, Committed
<1>5. FileInv'
  BY DEF Inv, FileInv, Downloaded
<1>6. ServedInv'
  BY DEF Inv, ServedInv, Whole, Retrieving, Content, In, JobAt, Current
<1>7. QED
  BY <1>1, <1>2, <1>3, <1>4, <1>5, <1>6 DEF Inv

-----------------------------------------------------------------------------
\* One step of anyone: the handlers, the goroutines, the verify requests, the
\* listing of the bucket, a probe of the script, a crash.
LEMMA InvStep == Inv /\ [Next]_vars => Inv'
<1> SUFFICES ASSUME Inv, [Next]_vars PROVE Inv'
  OBVIOUS
<1>1. ASSUME NEW j \in Jobs, HandleArchive(j) PROVE Inv'
  BY <1>1, CreatedStep DEF HandleArchive
<1>2. ASSUME NEW j \in Jobs, HandleRehydrate(j) PROVE Inv'
  BY <1>2, CreatedStep DEF HandleRehydrate
<1>3. ASSUME NEW j \in Jobs, Goroutine(j) PROVE Inv'
  <2>1. CASE BackendStep(j) /\ UNCHANGED jobVars
    BY <2>1, CallStep, JobsAssumption DEF Steps
  <2>2. CASE BackendFault(j) /\ UNCHANGED jobVars
    BY <2>2, CallStep, JobsAssumption DEF Steps
  <2>3. QED
    BY <1>3, <2>1, <2>2, StartStep, NextStep, ReturnedStep, MarkStep, ProgressStep, FinishStep
       DEF Goroutine
<1>4. ASSUME NEW v \in Verifiers, VerifyRun(v) PROVE Inv'
  <2>1. CASE (Lock(v) \/ ScriptStarts(v) \/ ScriptExits(v)) /\ UNCHANGED <<walk, jobVars>>
    BY <2>1, CallStep, JobsAssumption DEF Steps, BackendStep
  <2>2. QED
    BY <1>4, <2>1, VerifierStep DEF VerifyRun
<1>5. CASE UNCHANGED vars
  BY <1>5, StutterStep
<1>6. QED
  BY <1>1, <1>2, <1>3, <1>4, <1>5, VerifierStep, VerifyStep, ProbeStep, RestartStep
     DEF Next

\* The inductive invariant holds of any number of jobs and verify requests over
\* either backend, whatever fails and whenever the process dies.
THEOREM InvAlways == Spec => []Inv
<1>1. Init => Inv
  BY InitInv
<1>2. QED
  BY <1>1, InvStep, PTL DEF Spec

\* What the bucket holds is what its manifests say, through failing requests
\* and crashes: a manifest has its whole object, no listing reports one
\* without, every upload left unfinished has its reason (s3.go:304-372,
\* 476-516), and what the process knows of the script is so, no mode being
\* run twice to be refused between two probes, of which there may be any number
\* at any time (script.go:200-228, 264, 647, ui/admin.go:313-339).
THEOREM BackendsTrueAlways == Spec => []BackendsTrue
<1>1. Inv => BackendsTrue
  <2> SUFFICES ASSUME Inv PROVE BackendsTrue
    OBVIOUS
  <2>1. NeverDangling
    <3> SUFFICES ASSUME NEW s \in Segs, Complete, 2 * s - 1 \in walk.seen
                 PROVE  2 * s \in walk.seen
      BY DEF NeverDangling, Dangling
    <3>1. Cardinality(Segs) \in Nat /\ s \in 1..Cardinality(Segs)
      BY BackendsAssumption
    <3>2. 2 * s <= walk.pos
      BY <3>1 DEF Complete
    <3>3. QED
      BY <3>2 DEF Inv, WalkInv
  <2>2. CapsSound
    BY DEF Inv, KnownInv, CapsSound
  <2>3. QED
    BY <2>1, <2>2 DEF Inv, BackendsTrue
<1>2. QED
  BY <1>1, InvAlways, PTL

\* A segment the catalog calls rehydrated has its whole file in place, for any
\* number of jobs and requests that retrieve it at once, fail or die
\* (s3.go:420-433, script.go:370-374).
THEOREM RehydratedServedAlways == Spec => []RehydratedServed
<1>1. Inv => RehydratedServed
  BY DEF Inv, ServedInv, Whole, Retrieving, RehydratedServed
<1>2. QED
  BY <1>1, InvAlways, PTL

\* The rows of the jobs tell the truth of their work (manager.go:170-260): a
\* completed archive job has every segment committed and marked, a failed one
\* stopped short, and one shown as running is, unless a crash or a failing
\* statement cut it.
THEOREM JobsTrueAlways == Spec => []JobsTrue
<1>1. Inv => JobsTrue
  <2> SUFFICES ASSUME Inv PROVE JobsTrue
    OBVIOUS
  <2>t. \A j \in Jobs : /\ job[j] \in Job /\ JobTrue(j) /\ RowTrue(j)
                        /\ \A i \in DOMAIN job[j].todo : job[j].todo[i] \in Segs
    BY DEF Inv, TypeInv, Job, JobInv
  <2>1. TypeOK
    <3>1. \A c \in Callers : lock = c => call[c].at \notin {"idle", "lock", "done"}
      BY DEF Inv, LockInv, Uploading, Running
    <3>2. \A j \in Jobs : job[j].done <= Len(job[j].todo) /\ job[j].at \in
             {"none", "start", "next", "calling", "mark", "progress", "finish", "end"}
      BY <2>t DEF JobTrue, Job
    <3>3. QED
      BY <3>1, <3>2 DEF TypeOK, Inv, TypeInv
  <2>2. JobOutcomeTrue
    <3> SUFFICES ASSUME NEW j \in Jobs
                 PROVE  /\ job[j].progress <= job[j].done
                        /\ job[j].state = "completed" =>
                              /\ job[j].done = Len(job[j].todo)
                              /\ job[j].type = "archive" => \A s \in Segs :
                                    Contains(job[j].todo, s) =>
                                       Committed(s) /\ rows[s] # "sealed"
                        /\ job[j].state = "failed" => job[j].done < Len(job[j].todo)
      BY DEF JobOutcomeTrue
    <3>1. /\ job[j].progress <= job[j].done
          /\ job[j].state = "completed" => job[j].done = Len(job[j].todo)
          /\ job[j].state = "failed" => job[j].done < Len(job[j].todo)
      BY <2>t DEF JobTrue, RowTrue
    <3>2. ASSUME job[j].state = "completed", job[j].type = "archive", NEW s \in Segs,
                 Contains(job[j].todo, s)
          PROVE  Committed(s) /\ rows[s] # "sealed"
      <4>1. PICK i \in 1..Len(job[j].todo) : job[j].todo[i] = s
        BY <3>2 DEF Contains
      <4>2. i \in 1..job[j].done
        BY <3>1, <3>2, <4>1
      <4>3. rows[s] # "sealed"
        BY <2>t, <3>2, <4>1, <4>2 DEF JobTrue
      <4>4. QED
        BY <4>3 DEF Inv, RowsInv
    <3>3. QED
      BY <3>1, <3>2
  <2>3. RunningIsLive
    BY <2>t DEF RunningIsLive, JobTrue, RowTrue, NoJob, Live, None
  <2>4. QED
    BY <2>1, <2>2, <2>3 DEF JobsTrue
<1>2. QED
  BY <1>1, InvAlways, PTL

-----------------------------------------------------------------------------
(* The jobs and backends implement ArchiveStore. *)

\* A step of a call commits the segment of that call, or none.
LEMMA OneCommits ==
    ASSUME TypeInv, CallInv, NEW c \in Callers, Steps(c),
           NEW s \in Segs, s # call[c].seg
    PROVE  Committed(s)' = Committed(s)
<1>c. call[c].at # "idle" => call[c].seg \in Segs
  BY DEF CallInv, CallTrue
<1>1. \/ UNCHANGED <<kind, objects, manifests, kept>>
      \/ Stored(call[c].seg) /\ UNCHANGED <<kind, manifests, kept>>
      \/ /\ manifests' = [manifests EXCEPT ![call[c].seg] = "new"]
         /\ UNCHANGED <<kind, objects, kept>>
      \/ /\ kept' \in {kept, kept \cup {call[c].seg}}
         /\ UNCHANGED <<kind, objects, manifests>>
  <2> USE DEF bucket, script
  <2>1. CASE Quiet
    BY <2>1 DEF Quiet
  <2>2. CASE UploadSingle(c) \/ CreateMultipart(c) \/ CompleteMultipart(c) \/ PutManifest(c)
    BY <2>2 DEF UploadSingle, CreateMultipart, CompleteMultipart, PutManifest
  <2>3. CASE CreateTemp(c) \/ CopyObject(c) \/ RenameTemp(c) \/ ScriptStarts(c) \/ ScriptRetrieved(c)
    BY <2>3 DEF CreateTemp, CopyObject, RenameTemp, ScriptStarts, ScriptRetrieved
  <2>4. CASE ScriptExits(c)
    BY <2>4 DEF ScriptExits
  <2>5. CASE PartFails(c) \/ CompleteFails(c) \/ RequestFails(c) \/ CopyFails(c)
    BY <2>5 DEF PartFails, CompleteFails, RequestFails, CopyFails
  <2>6. QED
    BY <2>1, <2>2, <2>3, <2>4, <2>5, QuietSteps
<1>2. objects'[s] = objects[s] /\ manifests'[s] = manifests[s] /\ (s \in kept' <=> s \in kept)
      /\ kind' = kind
  BY <1>1 DEF Stored, TypeInv, BucketType
<1>3. QED
  BY <1>2 DEF Committed

\* Every step commits one segment, marks one that is committed, or leaves both.
LEMMA StoreStep ==
    ASSUME Inv, [Next]_vars
    PROVE  [Store!Next]_Store!vars
<1> DEFINE All == {s \in Segs : Committed(s)}
           Stays == All' = All /\ Archived' = Archived
<1>f. UNCHANGED <<kind, objects, manifests, kept>> => All' = All
  BY DEF Committed
<1>a. UNCHANGED rows => Archived' = Archived
  BY DEF Archived
<1>s. Stays => [Store!Next]_Store!vars
  BY DEF Store!vars
<1> USE DEF bucket, script, backendVars
<1>1. ASSUME NEW c \in Callers, Steps(c), UNCHANGED jobVars
      PROVE  [Store!Next]_Store!vars
  <2>1. /\ \A s \in Segs : Committed(s) => Committed(s)'
        /\ \A s \in Segs : s # call[c].seg => Committed(s)' = Committed(s)
        /\ Archived' = Archived
    BY <1>1, <1>a, StoreMoves, CommittedStays, OneCommits DEF Inv, jobVars
  <2>2. CASE call[c].seg \in Segs
    <3>1. PICK s \in Segs : s = call[c].seg
      BY <2>2
    <3>2. All' = All \/ All' = All \cup {s}
      BY <2>1, <3>1
    <3>3. QED
      BY <2>1, <3>2, <1>s DEF Store!Next, Store!Commit
  <2>3. CASE call[c].seg \notin Segs
    BY <2>1, <2>3, <1>s
  <2>4. QED
    BY <2>2, <2>3
<1>2. ASSUME NEW j \in Jobs, Mark(j)
      PROVE  [Store!Next]_Store!vars
  <2>1. All' = All
    BY <1>2, <1>f DEF Mark
  <2>2. PICK s : s = Current(j)
    OBVIOUS
  <2>3. s \in Segs /\ Committed(s)
    BY <1>2, <2>2 DEF Mark, JobAt, Inv, JobInv, JobTrue, Current, TypeInv, Job
  <2>4. Archived' = Archived \/ Archived' = Archived \cup {s}
    BY <1>2, <2>2, <2>3 DEF Mark, Archived, Inv, TypeInv
  <2>5. QED
    BY <2>1, <2>3, <2>4, <1>s DEF Store!Next, Store!Mark
<1>3. ASSUME NEW j \in Jobs, HandleArchive(j) \/ HandleRehydrate(j) \/ Start(j)
                             \/ NextSegment(j) \/ Returned(j) \/ Progress(j) \/ Finish(j)
      PROVE  Stays
  BY <1>3, <1>f, <1>a DEF HandleArchive, HandleRehydrate, Created, Start, NextSegment, Returned,
                          Progress, Finish
<1>4. ASSUME NEW v \in Verifiers, VerifyCall(v) \/ VerifyReturns(v)
      PROVE  Stays
  BY <1>4, <1>f, <1>a DEF VerifyCall, VerifyReturns, jobVars
<1>5. ASSUME ((Verify \/ ProbeAgain) /\ UNCHANGED jobVars) \/ Restart \/ UNCHANGED vars
      PROVE  Stays
  BY <1>5, <1>f, <1>a DEF Verify, ProbeAgain, Restart, BackendRestarts, vars, jobVars
<1>6. ASSUME NEW j \in Jobs, Goroutine(j)
      PROVE  [Store!Next]_Store!vars
  BY <1>6, <1>1, <1>2, <1>3, <1>s, JobsAssumption DEF Goroutine, Steps
<1>7. ASSUME NEW v \in Verifiers, VerifyRun(v)
      PROVE  [Store!Next]_Store!vars
  BY <1>7, <1>1, <1>4, <1>s, JobsAssumption DEF VerifyRun, Steps, BackendStep
<1>8. QED
  BY <1>2, <1>3, <1>4, <1>5, <1>6, <1>7, <1>s DEF Next

\* Archiving keeps its promise (docs/archival.md): a segment is called archived
\* only once a copy that can be retrieved is committed, and neither is taken
\* back, whatever the jobs, requests, failures and crashes do between.
THEOREM ImplementsStore == Spec => StoreSpec
<1>1. Init => Store!Init
  <2> SUFFICES ASSUME Init PROVE Store!Init
    OBVIOUS
  <2>1. RowsInv
    BY InitInv DEF Inv
  <2>2. QED
    BY <2>1 DEF Store!Init, Archived, RowsInv
<1>2. Inv /\ [Next]_vars => [Store!Next]_Store!vars
  BY StoreStep
<1>3. QED
  BY <1>1, <1>2, InvAlways, PTL DEF Spec, StoreSpec, Store!Spec

-----------------------------------------------------------------------------
(* Jobs only go forward. *)

\* A row that left sealed never comes back to it (MarkSegmentArchived,
\* MarkSegmentRehydrated), which the refinement says already.
LEMMA MarkedStays ==
    ASSUME Inv, [Next]_vars, NEW s \in Segs, rows[s] # "sealed"
    PROVE  rows'[s] # "sealed"
<1>1. Archived \subseteq Archived'
  BY StoreStep DEF Store!Next, Store!Commit, Store!Mark, Store!vars
<1>2. QED
  BY <1>1 DEF Archived

\* A job whose row and goroutine stay as they are.
LEMMA IdleForward ==
    ASSUME Inv, ForwardInv, [Next]_vars, NEW j \in Jobs, job'[j] = job[j],
           j \in stranded' => j \in stranded
    PROVE  GoesForward(j) /\ SnapTrue(j)'
<1>t. job[j] \in Job /\ SnapTrue(j)
  BY DEF Inv, TypeInv, ForwardInv
<1>1. GoesForward(j)
  BY <1>t DEF GoesForward, Job
<1>2. SnapTrue(j)'
  <2>1. \A s \in job[j].snap : rows'[s] # "sealed"
    BY <1>t, MarkedStays DEF SnapTrue, Job
  <2>2. ASSUME job[j].at = "progress" PROVE rows'[Current(j)] # "sealed"
    <3>1. Current(j) \in Segs
      BY <1>t, <2>2 DEF Current, Inv, JobInv, JobTrue, Job
    <3>2. QED
      BY <1>t, <2>2, <3>1, MarkedStays DEF SnapTrue
  <2>3. Current(j)' = Current(j)
    BY DEF Current
  <2>4. QED
    BY <1>t, <2>1, <2>2, <2>3 DEF SnapTrue
<1>3. QED
  BY <1>1, <1>2

\* Steps that leave the list, the segments done and the row's progress.
LEMMA StageForward ==
    ASSUME Inv, ForwardInv, [Next]_vars, NEW j \in Jobs,
           j \notin stranded, job[j].at # "none",
           job'[j].type = job[j].type, job'[j].todo = job[j].todo,
           job'[j].progress = job[j].progress, job'[j].done = job[j].done,
           job'[j].snap = job[j].snap,
           job'[j].state # job[j].state => <<job[j].state, job'[j].state>> \in Follows,
           job'[j].at = "progress" => rows'[Current(j)] # "sealed",
           j \in stranded' => job'[j].at = "end"
    PROVE  GoesForward(j) /\ SnapTrue(j)'
<1>t. job[j] \in Job /\ SnapTrue(j)
  BY DEF Inv, TypeInv, ForwardInv
<1>1. GoesForward(j)
  BY <1>t DEF GoesForward, Job
<1>2. Current(j)' = Current(j)
  BY DEF Current
<1>3. \A s \in job[j].snap : rows'[s] # "sealed"
  BY <1>t, MarkedStays DEF SnapTrue, Job
<1>4. SnapTrue(j)'
  BY <1>2, <1>3 DEF SnapTrue
<1>5. QED
  BY <1>1, <1>4

\* A handler's new job (Manager.Create).
LEMMA CreatedForward ==
    ASSUME Inv, ForwardInv, NEW j \in Jobs, NEW type \in {"archive", "rehydrate"},
           NEW list \in Listings, Created(j, type, list)
    PROVE  GoesForward(j) /\ SnapTrue(j)'
<1> DEFINE snap == {s \in Segs : Contains(list, s) /\ rows[s] = "rehydrated"}
           rec == [NoJob EXCEPT !.state = "pending", !.type = type, !.at = "start",
                                !.todo = list, !.snap = snap]
<1>1. /\ rec.state = "pending" /\ rec.at = "start" /\ rec.snap = snap
      /\ rec.done = 0 /\ rec.progress = 0
  BY DEF NoJob
<1>2. job' = [job EXCEPT ![j] = rec] /\ job[j] = NoJob /\ UNCHANGED <<rows, stranded>>
  BY DEF Created
<1>3. \A s \in snap : rows[s] # "sealed"
  OBVIOUS
<1> HIDE DEF rec, snap
<1>4. job'[j] = rec /\ j \notin stranded
  BY <1>2 DEF Inv, TypeInv, ForwardInv, SnapTrue, NoJob
<1>5. /\ NoJob.state = None /\ NoJob.done = 0 /\ NoJob.progress = 0
  BY DEF NoJob
<1>6. GoesForward(j)
  BY <1>1, <1>2, <1>4, <1>5 DEF GoesForward, Follows
<1>7. SnapTrue(j)'
  BY <1>1, <1>2, <1>3, <1>4 DEF SnapTrue
<1>8. QED
  BY <1>6, <1>7

\* The steps of a goroutine that count no segment.
LEMMA GoroutineForward ==
    ASSUME Inv, ForwardInv, [Next]_vars, NEW j \in Jobs,
           Start(j) \/ NextSegment(j) \/ Returned(j) \/ Mark(j) \/ Finish(j)
    PROVE  /\ GoesForward(j) /\ SnapTrue(j)'
           /\ \A k \in Jobs : k # j => job'[k] = job[k]
           /\ stranded' \subseteq stranded \cup {j}
<1>t. /\ job \in [Jobs -> Job] /\ job[j] \in Job /\ JobTrue(j) /\ RowTrue(j)
      /\ SnapTrue(j)
  BY DEF Inv, TypeInv, JobInv, ForwardInv
<1>a. job[j].at \in {"start", "next", "calling", "mark", "finish"}
  BY DEF Start, NextSegment, Returned, Mark, Finish, Done, JobAt
<1>l. /\ j \notin stranded /\ job[j].at # "none"
      /\ job[j].state \in {"pending", "running"}
  BY <1>a, <1>t DEF SnapTrue, RowTrue, Live
<1> DEFINE Same == /\ job'[j].type = job[j].type /\ job'[j].todo = job[j].todo
                   /\ job'[j].progress = job[j].progress /\ job'[j].done = job[j].done
                   /\ job'[j].snap = job[j].snap
           Goal == /\ \A k \in Jobs : k # j => job'[k] = job[k]
                   /\ stranded' \subseteq stranded \cup {j}
                   /\ Same
                   /\ job'[j].state # job[j].state => <<job[j].state, job'[j].state>> \in Follows
                   /\ job'[j].at = "progress" => rows'[Current(j)] # "sealed"
                   /\ j \in stranded' => job'[j].at = "end"
<1>1. ASSUME NEW label \in {"next", "calling", "mark", "progress", "end"}, Moves(j, label),
             label = "progress" => rows'[Current(j)] # "sealed",
             stranded' = stranded \/ (label = "end" /\ stranded' = stranded \cup {j})
      PROVE  Goal
  <2>1. /\ \A k \in Jobs : k # j => job'[k] = job[k]
        /\ job'[j] = [job[j] EXCEPT !.at = label]
    BY <1>1, <1>t, MovesJob
  <2>2. Same /\ job'[j].at = label /\ job'[j].state = job[j].state
    BY <2>1, <1>t DEF Job
  <2>3. stranded' \subseteq stranded \cup {j} /\ (j \in stranded' => label = "end")
    BY <1>1, <1>l
  <2>4. QED
    BY <2>1, <2>2, <2>3, <1>1
<1>2. ASSUME Fails(j), stranded' = stranded
      PROVE  Goal
  <2>1. /\ \A k \in Jobs : k # j => job'[k] = job[k]
        /\ job'[j] = [job[j] EXCEPT !.at = "finish", !.failed = TRUE]
    BY <1>2, <1>t, FailsJob
  <2>2. Same /\ job'[j].at = "finish" /\ job'[j].state = job[j].state
    BY <2>1, <1>t DEF Job
  <2>3. QED
    BY <2>1, <2>2, <1>2, <1>l
<1>s. ASSUME NEW label \in {"next", "end"}, NEW state \in {"running", "completed", "failed"},
             job' = [job EXCEPT ![j] = [job[j] EXCEPT !.at = label, !.state = state]],
             stranded' = stranded
      PROVE  Goal
  <2>1. /\ \A k \in Jobs : k # j => job'[k] = job[k]
        /\ job'[j] = [job[j] EXCEPT !.at = label, !.state = state]
    BY <1>s, <1>t
  <2>2. Same /\ job'[j].at = label /\ job'[j].state = state
    BY <2>1, <1>t DEF Job
  <2>3. state # job[j].state => <<job[j].state, state>> \in Follows
    BY <1>l DEF Follows
  <2>4. QED
    BY <2>1, <2>2, <2>3, <1>s, <1>l
<1> HIDE DEF Goal
<1>3. ASSUME Start(j) PROVE Goal
  <2>1. stranded' = stranded
    BY <1>3 DEF Start
  <2>2. CASE Moves(j, "next")
    BY <2>1, <2>2, <1>1
  <2>3. CASE job' = [job EXCEPT ![j].state = "running", ![j].at = "next"]
    <3>1. job' = [job EXCEPT ![j] = [job[j] EXCEPT !.at = "next", !.state = "running"]]
      BY <2>3
    <3>2. QED
      BY <2>1, <3>1, <1>s
  <2>4. QED
    BY <2>2, <2>3, <1>3 DEF Start
<1>4. ASSUME NextSegment(j) PROVE Goal
  <2>1. rows' = rows /\ stranded' = stranded
    BY <1>4 DEF NextSegment
  <2>2. CASE Current(j) \in job[j].snap /\ final[Current(j)] # None
    <3>1. rows'[Current(j)] # "sealed"
      BY <2>1, <2>2, <1>t DEF SnapTrue
    <3>2. Moves(j, "progress") \/ Fails(j)
      BY <1>4, <2>2 DEF NextSegment
    <3>3. QED
      BY <2>1, <3>1, <3>2, <1>1, <1>2
  <2>3. CASE ~(Current(j) \in job[j].snap /\ final[Current(j)] # None)
    <3>1. Moves(j, "calling")
      BY <1>4, <2>3 DEF NextSegment
    <3>2. QED
      BY <2>1, <3>1, <1>1
  <2>4. QED
    BY <2>2, <2>3
<1>5. ASSUME Returned(j) PROVE Goal
  <2>1. (Moves(j, "mark") \/ Fails(j)) /\ stranded' = stranded
    BY <1>5 DEF Returned
  <2>2. QED
    BY <2>1, <1>1, <1>2
<1>6. ASSUME Mark(j) PROVE Goal
  <2>1. stranded' = stranded
    BY <1>6 DEF Mark
  <2>2. CASE Fails(j)
    BY <2>1, <2>2, <1>2
  <2>3. CASE ~Fails(j)
    <3>1. /\ rows' = [rows EXCEPT ![Current(j)] = IF job[j].type = "archive"
                                                  THEN "archived" ELSE "rehydrated"]
          /\ Moves(j, "progress")
      BY <1>6, <2>3 DEF Mark
    <3>2. Current(j) \in Segs
      BY <1>6, <1>t DEF Mark, JobAt, JobTrue, Current, Job
    <3>3. rows'[Current(j)] # "sealed"
      BY <3>1, <3>2 DEF Inv, TypeInv
    <3>4. QED
      BY <2>1, <3>1, <3>3, <1>1
  <2>4. QED
    BY <2>2, <2>3
<1>7. ASSUME Finish(j) PROVE Goal
  <2>1. CASE Moves(j, "end") /\ stranded' = stranded \cup {j}
    BY <2>1, <1>1
  <2>2. CASE ~(Moves(j, "end") /\ stranded' = stranded \cup {j})
    <3>1. PICK state \in {"completed", "failed"} :
             state = IF job[j].failed THEN "failed" ELSE "completed"
      OBVIOUS
    <3>2. job' = [job EXCEPT ![j].at = "end", ![j].state = state] /\ stranded' = stranded
      BY <1>7, <2>2, <3>1 DEF Finish
    <3>3. job' = [job EXCEPT ![j] = [job[j] EXCEPT !.at = "end", !.state = state]]
      BY <3>2
    <3>4. QED
      BY <3>2, <3>3, <1>s
  <2>3. QED
    BY <2>1, <2>2
<1>8. Goal
  BY <1>3, <1>4, <1>5, <1>6, <1>7
<1>9. GoesForward(j) /\ SnapTrue(j)'
  <2>1. job'[j].at # "progress" \/ rows'[Current(j)] # "sealed"
    BY <1>8 DEF Goal
  <2>2. QED
    BY <1>8, <2>1, <1>l, StageForward DEF Goal
<1>10. QED
  BY <1>8, <1>9 DEF Goal

\* A segment is counted when its copy is committed and its row marked.
LEMMA ProgressForward ==
    ASSUME Inv, ForwardInv, NEW j \in Jobs, Progress(j)
    PROVE  /\ GoesForward(j) /\ SnapTrue(j)'
           /\ \A k \in Jobs : k # j => job'[k] = job[k]
           /\ stranded' = stranded
<1>t. /\ job \in [Jobs -> Job] /\ job[j] \in Job /\ JobTrue(j) /\ SnapTrue(j)
      /\ job[j].at = "progress" /\ rows' = rows /\ stranded' = stranded
  BY DEF Inv, TypeInv, JobInv, ForwardInv, Progress, JobAt
<1>1. \A k \in Jobs : k # j => job'[k] = job[k]
  BY <1>t DEF Progress
<1>2. \/ job'[j] = [job[j] EXCEPT !.at = "next", !.done = job[j].done + 1,
                                  !.progress = job[j].done + 1]
      \/ job'[j] = [job[j] EXCEPT !.at = "next", !.done = job[j].done + 1]
  BY <1>t DEF Progress
<1>3. /\ job'[j].at = "next" /\ job'[j].done = job[j].done + 1
      /\ job'[j].progress \in {job[j].progress, job[j].done + 1}
      /\ job'[j].type = job[j].type /\ job'[j].todo = job[j].todo
      /\ job'[j].state = job[j].state /\ job'[j].snap = job[j].snap
  BY <1>2, <1>t DEF Job
<1>4. /\ job[j].done \in Nat /\ job[j].progress \in Nat /\ job[j].progress <= job[j].done
      /\ j \notin stranded
  BY <1>t DEF JobTrue, Job, SnapTrue
<1>5. Current(j) \in Segs
  BY <1>t DEF JobTrue, Current, Job
<1>6. rows[Current(j)] # "sealed" /\ Committed(Current(j))
  BY <1>t, <1>5 DEF SnapTrue, Inv, RowsInv
<1>7. GoesForward(j)
  BY <1>3, <1>4, <1>6 DEF GoesForward
<1>8. SnapTrue(j)'
  BY <1>3, <1>4, <1>t DEF SnapTrue
<1>9. QED
  BY <1>1, <1>7, <1>8, <1>t

\* A crash strands the jobs at work and moves no other (main.run at startup).
LEMMA RestartForward ==
    ASSUME Inv, ForwardInv, [Next]_vars, Restart, NEW j \in Jobs
    PROVE  GoesForward(j) /\ SnapTrue(j)'
<1>t. job \in [Jobs -> Job] /\ job[j] \in Job /\ SnapTrue(j)
  BY DEF Inv, TypeInv, ForwardInv
<1>1. CASE Live(j)
  <2>1. job'[j] = [job[j] EXCEPT !.at = "end"]
    BY <1>1 DEF Restart
  <2>2. /\ job'[j].at = "end" /\ job'[j].state = job[j].state
        /\ job'[j].type = job[j].type /\ job'[j].todo = job[j].todo
        /\ job'[j].progress = job[j].progress /\ job'[j].done = job[j].done
        /\ job'[j].snap = job[j].snap
    BY <2>1, <1>t DEF Job
  <2>3. j \notin stranded /\ job[j].at # "none"
    BY <1>1, <1>t DEF SnapTrue, Live
  <2>4. QED
    BY <2>2, <2>3, StageForward
<1>2. CASE ~Live(j)
  <2>1. job'[j] = job[j] /\ (j \in stranded' => j \in stranded)
    BY <1>2 DEF Restart
  <2>2. QED
    BY <2>1, IdleForward
<1>3. QED
  BY <1>1, <1>2

\* Every step takes every job forward.
LEMMA ForwardStep ==
    ASSUME Inv, ForwardInv, [Next]_vars, NEW j \in Jobs
    PROVE  GoesForward(j) /\ SnapTrue(j)'
<1>1. CASE UNCHANGED jobVars
  BY <1>1, IdleForward DEF jobVars
<1>2. ASSUME NEW k \in Jobs, HandleArchive(k) \/ HandleRehydrate(k)
      PROVE  GoesForward(j) /\ SnapTrue(j)'
  <2>1. PICK type \in {"archive", "rehydrate"}, list \in Listings : Created(k, type, list)
    BY <1>2 DEF HandleArchive, HandleRehydrate
  <2>2. CASE j = k
    BY <2>1, <2>2, CreatedForward
  <2>3. CASE j # k
    <3>1. job'[j] = job[j] /\ stranded' = stranded
      BY <2>1, <2>3 DEF Created, Inv, TypeInv
    <3>2. QED
      BY <3>1, IdleForward
  <2>4. QED
    BY <2>2, <2>3
<1>3. ASSUME NEW k \in Jobs, Goroutine(k), ~UNCHANGED jobVars
      PROVE  GoesForward(j) /\ SnapTrue(j)'
  <2>1. CASE Progress(k)
    <3>1. CASE j = k
      BY <2>1, <3>1, ProgressForward
    <3>2. CASE j # k
      BY <2>1, <3>2, ProgressForward, IdleForward
    <3>3. QED
      BY <3>1, <3>2
  <2>2. CASE Start(k) \/ NextSegment(k) \/ Returned(k) \/ Mark(k) \/ Finish(k)
    <3>1. CASE j = k
      BY <2>2, <3>1, GoroutineForward
    <3>2. CASE j # k
      <4>1. job'[j] = job[j] /\ (j \in stranded' => j \in stranded)
        BY <2>2, <3>2, GoroutineForward
      <4>2. QED
        BY <4>1, IdleForward
    <3>3. QED
      BY <3>1, <3>2
  <2>3. QED
    BY <1>3, <2>1, <2>2 DEF Goroutine
<1>4. ASSUME NEW v \in Verifiers, VerifyCall(v) \/ VerifyRun(v)
      PROVE  UNCHANGED jobVars
  BY <1>4 DEF VerifyCall, VerifyRun, VerifyReturns
<1>5. QED
  BY <1>1, <1>2, <1>3, <1>4, RestartForward DEF Next, vars

\* What a job found rehydrated or has just marked never comes back to sealed, and
\* nothing works for a stranded job (archive.go:159-202).
THEOREM ForwardAlways == Spec => [](Inv /\ ForwardInv)
<1>1. Init => ForwardInv
  BY DEF Init, ForwardInv, SnapTrue, NoJob
<1>2. Inv /\ ForwardInv /\ [Next]_vars => ForwardInv'
  BY ForwardStep DEF ForwardInv
<1>3. QED
  BY <1>1, <1>2, InvAlways, PTL DEF Spec

\* A job's record and goroutine only go forward (jobs/manager.go).
THEOREM JobsForwardAlways == Spec => JobsForward
<1>1. Inv /\ ForwardInv /\ [Next]_vars => [\A j \in Jobs : GoesForward(j)]_vars
  BY ForwardStep
<1>2. QED
  BY <1>1, ForwardAlways, PTL DEF Spec, JobsForward
=============================================================================
