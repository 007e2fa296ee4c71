------------------------------ MODULE Segments ------------------------------
(***************************************************************************)
(* The segment manager (src/internal/segments): the active-segment write   *)
(* path, the sealing pass and the recovery pass at startup.                *)
(*                                                                         *)
(* Two goroutines of one process run here, the flush goroutine             *)
(* (Manager.Flush) and the seal loop (Manager.SealOnce); they share the    *)
(* map of open segments, the catalog and the data directory, and the code  *)
(* takes the manager's mutex only around single map operations.  Every     *)
(* action is one such critical section, one file-system call, one catalog  *)
(* statement or one DuckDB call; anything may happen between two of them,  *)
(* a crash of the process included.                                        *)
(*                                                                         *)
(* A segment is named by the index of its time window (the code formats    *)
(* the start of the window, which is one to one).  An event is a member of *)
(* Events; EventWindow[e] is the window its timestamp falls in.            *)
(***************************************************************************)
EXTENDS Naturals, FiniteSets

CONSTANTS
    Events,         \* the events handed to Flush during a behaviour
    EventWindow,    \* [Events -> Windows]: the window of an event's timestamp
    MaxWindow,      \* bound: the clock stops in this window
    Files,          \* identities of DuckDB files (one per file ever open at once)
    None,           \* "no file", "no parquet"
    Punctual,       \* environment: TRUE when no event reaches Flush after its
                    \* window's grace and no Flush outlasts its windows' grace
    MaxRestarts,    \* bound: crashes and clean shutdowns
    MaxFaults       \* bound: failing calls (I/O, DuckDB, catalog), losses of the catalog

Windows == 0..MaxWindow

ASSUME SegmentsAssumption ==
    /\ MaxWindow \in Nat
    /\ EventWindow \in [Events -> Windows]
    /\ None \notin Files
    /\ \A S \in SUBSET Events : None # S
    /\ Punctual \in BOOLEAN
    /\ MaxRestarts \in Nat
    /\ MaxFaults \in Nat

VARIABLES
    now,        \* index of the window the wall clock is in
    horizon,    \* windows below it closed at least sealGrace ago
    phase,      \* life of the process: down, the rules of Recover, running
    active,     \* Manager.active: window -> open file
    \* The disk and the catalog survive a crash.
    duck,       \* segments/active/<id>.duckdb: window -> file
    rows,       \* file -> events in it (a file keeps its rows when unlinked)
    parquet,    \* segments/sealed/segment-<id>.parquet: window -> its events
    orphan,     \* orphans/<id>.duckdb: window -> its events
    state,      \* segments.state of the row of a window, "none" without a row
    counted,    \* segments.row_count, kept as the set of events counted
    sha,        \* segments.parquet_sha256, kept as the set of events hashed
    \* The flush goroutine.
    fpc,        \* where Flush is
    unseen,     \* events not yet handed to Flush
    todo,       \* events of the batch not yet routed
    cur,        \* currentID
    groups,     \* target window -> events routed to it, not yet inserted
    target,     \* window whose segment is being opened or written
    ffile,      \* segment the flush goroutine holds a pointer to
    \* The seal loop.
    spc,        \* where SealOnce is
    queue,      \* ids of this pass not yet sealed
    swin,       \* segment being sealed
    sfile,      \* its connection, None once closed
    scount,     \* the rows RowCount saw
    sexport,    \* the rows of the exported temporary file
    \* Bookkeeping.
    written,    \* events InsertBatch acknowledged
    restarts, faults

clock   == <<now, horizon>>
disk    == <<duck, rows, parquet, orphan>>
catalog == <<state, counted, sha>>
flush   == <<fpc, unseen, todo, cur, groups, target, ffile>>
seal    == <<spc, queue, swin, sfile, scount, sexport>>
vars == <<clock, phase, active, disk, catalog, flush, seal,
          written, restarts, faults>>

Empty == [w \in Windows |-> {}]

(***************************************************************************)
(* A connection is open while the map or the seal loop holds it; sealOne   *)
(* closes it when it returns.                                              *)
(***************************************************************************)
IsOpen(f) == f # None /\ (f = sfile \/ \E w \in Windows : active[w] = f)

Unused(f) == /\ f # sfile /\ f # ffile
             /\ \A w \in Windows : active[w] # f /\ duck[w] # f

Init ==
    /\ now = 0 /\ horizon = 0
    /\ phase = "orphan"
    /\ active = [w \in Windows |-> None]
    /\ duck = [w \in Windows |-> None]
    /\ rows = [f \in Files |-> {}]
    /\ parquet = [w \in Windows |-> None]
    /\ orphan = Empty
    /\ state = [w \in Windows |-> "none"]
    /\ counted = Empty /\ sha = Empty
    /\ fpc = "idle" /\ unseen = Events /\ todo = {} /\ cur = 0
    /\ groups = Empty /\ target = 0 /\ ffile = None
    /\ spc = "idle" /\ queue = {} /\ swin = 0 /\ sfile = None
    /\ scount = {} /\ sexport = {}
    /\ written = {} /\ restarts = 0 /\ faults = 0

(***************************************************************************)
(* The wall clock.  A window closes, and some time later its grace is      *)
(* over: the two moments are all SealableNow and SegmentID look at, so the *)
(* lengths of the window and of the grace do not matter.                   *)
(***************************************************************************)
NextWindow ==
    /\ now < MaxWindow
    /\ now' = now + 1
    /\ UNCHANGED <<horizon, phase, active, disk, catalog, flush, seal,
                   written, restarts, faults>>

\* The windows the Flush in progress may write to.
FlushWindows == {cur} \cup {EventWindow[e] : e \in todo}
                      \cup {w \in Windows : groups[w] # {}}

GraceElapses ==
    /\ horizon < now
    /\ Punctual /\ fpc # "idle" => horizon \notin FlushWindows
    /\ horizon' = horizon + 1
    /\ UNCHANGED <<now, phase, active, disk, catalog, flush, seal,
                   written, restarts, faults>>

(***************************************************************************)
(* Manager.Flush.  openOrCreate is called for the current window first and *)
(* then once per group: "lookup", "open", "row" and "publish" are its      *)
(* critical sections, and AfterOpen tells the two call sites apart.        *)
(***************************************************************************)
AfterOpen == IF todo # {} THEN "route" ELSE "insert"

FlushEnds == /\ fpc' = "idle"
             /\ todo' = {} /\ groups' = Empty /\ ffile' = None
             /\ cur' = 0 /\ target' = 0

Faulty == faults < MaxFaults /\ faults' = faults + 1

FlushBegin(batch) ==
    /\ phase = "running" /\ fpc = "idle"
    /\ batch # {}
    /\ Punctual => \A e \in batch : EventWindow[e] >= horizon
    /\ unseen' = unseen \ batch
    /\ todo' = batch
    /\ cur' = now /\ target' = now
    /\ fpc' = "lookup"
    /\ UNCHANGED <<clock, phase, active, disk, catalog, groups, ffile, seal,
                   written, restarts, faults>>

FlushLookup ==
    /\ fpc = "lookup"
    /\ ffile' = active[target]
    /\ fpc' = IF active[target] # None THEN AfterOpen ELSE "open"
    /\ UNCHANGED <<clock, phase, active, disk, catalog, unseen, todo, cur,
                   groups, target, seal, written, restarts, faults>>

\* duckdb.Open creates the file, or opens the one already at the path.
FlushOpen ==
    /\ fpc = "open"
    /\ \/ /\ duck[target] = None
          /\ \E f \in Files :
                /\ Unused(f)
                /\ duck' = [duck EXCEPT ![target] = f]
                /\ rows' = [rows EXCEPT ![f] = {}]
                /\ ffile' = f
       \/ /\ duck[target] # None
          /\ ffile' = duck[target]
          /\ UNCHANGED <<duck, rows>>
    /\ fpc' = "row"
    /\ UNCHANGED <<clock, phase, active, parquet, orphan, catalog, unseen,
                   todo, cur, groups, target, seal, written, restarts, faults>>

\* Mutant: no row is inserted for a new segment.
FlushSkipsRow ==
    /\ fpc = "row"
    /\ fpc' = "publish"
    /\ UNCHANGED <<clock, phase, active, disk, catalog, unseen, todo,
                   cur, groups, target, ffile, seal, written, restarts, faults>>

\* ensureCatalogRow: a row of any state will do.
FlushEnsureRow ==
    /\ fpc = "row"
    /\ state' = [state EXCEPT ![target] = IF @ = "none" THEN "active" ELSE @]
    /\ fpc' = "publish"
    /\ UNCHANGED <<clock, phase, active, disk, counted, sha, unseen, todo,
                   cur, groups, target, ffile, seal, written, restarts, faults>>

\* The map is looked at again under the mutex before the entry is made.
FlushPublish ==
    /\ fpc = "publish"
    /\ active' = [active EXCEPT ![target] = IF @ # None THEN @ ELSE ffile]
    /\ ffile' = active'[target]
    /\ fpc' = AfterOpen
    /\ UNCHANGED <<clock, phase, disk, catalog, unseen, todo, cur, groups,
                   target, seal, written, restarts, faults>>

\* Mutant: a late event is also kept for the current segment.
FlushRouteCopies(e) ==
    /\ fpc = "route" /\ e \in todo
    /\ groups' = [w \in Windows |->
          groups[w] \cup IF w \in {EventWindow[e], cur} THEN {e} ELSE {}]
    /\ todo' = todo \ {e}
    /\ fpc' = IF todo' = {} THEN "pick" ELSE "route"
    /\ UNCHANGED <<clock, phase, active, disk, catalog, unseen, cur, target,
                   ffile, seal, written, restarts, faults>>

\* resolveTarget, one lock acquisition per event.
FlushRoute(e) ==
    /\ fpc = "route" /\ e \in todo
    /\ LET w == EventWindow[e]
           t == IF active[w] # None THEN w ELSE cur
       IN  groups' = [groups EXCEPT ![t] = @ \cup {e}]
    /\ todo' = todo \ {e}
    /\ fpc' = IF todo' = {} THEN "pick" ELSE "route"
    /\ UNCHANGED <<clock, phase, active, disk, catalog, unseen, cur, target,
                   ffile, seal, written, restarts, faults>>

\* Next group, in the order of a Go map iteration.
FlushPick(w) ==
    /\ fpc = "pick" /\ groups[w] # {}
    /\ target' = w
    /\ fpc' = "lookup"
    /\ UNCHANGED <<clock, phase, active, disk, catalog, unseen, todo, cur,
                   groups, ffile, seal, written, restarts, faults>>

FlushInsert ==
    /\ fpc = "insert" /\ IsOpen(ffile)
    /\ rows' = [rows EXCEPT ![ffile] = @ \cup groups[target]]
    /\ written' = written \cup groups[target]
    /\ IF \E w \in Windows \ {target} : groups[w] # {}
       THEN /\ groups' = [groups EXCEPT ![target] = {}]
            /\ fpc' = "pick"
            /\ UNCHANGED <<todo, cur, target, ffile>>
       ELSE FlushEnds
    /\ UNCHANGED <<clock, phase, active, duck, parquet, orphan, catalog,
                   unseen, seal, restarts, faults>>

\* An error of openOrCreate ends Flush; what was routed is dropped.  It is
\* also how a second handle on a file that is still open may be refused.
FlushOpenFails ==
    /\ fpc \in {"open", "row"}
    /\ \/ Faulty
       \/ fpc = "open" /\ IsOpen(duck[target]) /\ UNCHANGED faults
    /\ FlushEnds
    /\ UNCHANGED <<clock, phase, active, disk, catalog, unseen, seal,
                   written, restarts>>

\* InsertBatch fails on a row or at the final flush: any part of the group
\* may have reached the file, the rest of the batch is dropped.
FlushInsertFails ==
    /\ fpc = "insert" /\ IsOpen(ffile)
    /\ Faulty
    /\ \E kept \in SUBSET groups[target] :
          rows' = [rows EXCEPT ![ffile] = @ \cup kept]
    /\ FlushEnds
    /\ UNCHANGED <<clock, phase, active, duck, parquet, orphan, catalog,
                   unseen, seal, written, restarts>>

(***************************************************************************)
(* Manager.SealOnce and sealOne.                                           *)
(***************************************************************************)
\* Mutant: the grace period is forgotten, an open window may be sealed.
SealableWithoutGrace == {w \in Windows : active[w] # None /\ w <= horizon}

SealableNow == {w \in Windows : active[w] # None /\ w < horizon}

\* sealOne returns: the deferred Close runs and SealOnce takes the next id.
SealReturns(rest) ==
    /\ sfile' = None /\ scount' = {} /\ sexport' = {}
    /\ queue' = rest
    /\ swin' = IF rest = {} THEN 0 ELSE swin
    /\ spc' = IF rest = {} THEN "idle" ELSE "detach"

SealTick ==
    /\ phase = "running" /\ spc = "idle"
    /\ SealableNow # {}
    /\ queue' = SealableNow
    /\ spc' = "detach"
    /\ UNCHANGED <<clock, phase, active, disk, catalog, flush, swin, sfile,
                   scount, sexport, written, restarts, faults>>

\* delete(m.active, id): from here on no query and no Flush finds it.
SealDetach ==
    /\ spc = "detach"
    /\ \E w \in queue :
          /\ \A v \in queue : w <= v
          /\ queue' = queue \ {w}
          /\ swin' = w
          /\ sfile' = active[w]
          /\ active' = [active EXCEPT ![w] = None]
          /\ spc' = "count"
    /\ UNCHANGED <<clock, phase, disk, catalog, flush, scount, sexport,
                   written, restarts, faults>>

SealCount ==
    /\ spc = "count"
    /\ scount' = rows[sfile]
    /\ spc' = IF rows[sfile] = {} THEN "dropfile" ELSE "export"
    /\ UNCHANGED <<clock, phase, active, disk, catalog, flush, queue, swin,
                   sfile, sexport, written, restarts, faults>>

\* An empty segment: the file goes first (a failure is ignored), then its row.
SealDropFile ==
    /\ spc = "dropfile"
    /\ \/ duck' = [duck EXCEPT ![swin] = None] /\ UNCHANGED faults
       \/ Faulty /\ UNCHANGED duck
    /\ spc' = "droprow"
    /\ UNCHANGED <<clock, phase, active, rows, parquet, orphan, catalog,
                   flush, queue, swin, sfile, scount, sexport,
                   written, restarts>>

SealDropRow ==
    /\ spc = "droprow"
    /\ state' = [state EXCEPT ![swin] = "none"]
    /\ SealReturns(queue)
    /\ UNCHANGED <<clock, phase, active, disk, counted, sha, flush,
                   written, restarts, faults>>

\* COPY to the temporary file, then its hash and fsync.
SealExport ==
    /\ spc = "export"
    /\ sexport' = rows[sfile]
    /\ spc' = "rename"
    /\ UNCHANGED <<clock, phase, active, disk, catalog, flush, queue, swin,
                   sfile, scount, written, restarts, faults>>

\* Mutant: a failing rename is not noticed.
SealRenameUnchecked ==
    /\ spc = "rename"
    /\ \/ parquet' = [parquet EXCEPT ![swin] = sexport] /\ UNCHANGED faults
       \/ Faulty /\ UNCHANGED parquet
    /\ spc' = "mark"
    /\ UNCHANGED <<clock, phase, active, duck, rows, orphan, catalog, flush,
                   queue, swin, sfile, scount, sexport, written, restarts>>

\* Mutant: the DuckDB file is removed before the catalog is told.
SealRenameSkipsMark ==
    /\ spc = "rename"
    /\ parquet' = [parquet EXCEPT ![swin] = sexport]
    /\ spc' = "unlink"
    /\ UNCHANGED <<clock, phase, active, duck, rows, orphan, catalog, flush,
                   queue, swin, sfile, scount, sexport,
                   written, restarts, faults>>

SealRename ==
    /\ spc = "rename"
    /\ parquet' = [parquet EXCEPT ![swin] = sexport]
    /\ spc' = "mark"
    /\ UNCHANGED <<clock, phase, active, duck, rows, orphan, catalog, flush,
                   queue, swin, sfile, scount, sexport,
                   written, restarts, faults>>

\* MarkSegmentSealed: an UPDATE, which does nothing when the row is gone.
SealMark ==
    /\ spc = "mark"
    /\ IF state[swin] = "none"
       THEN UNCHANGED catalog
       ELSE /\ state' = [state EXCEPT ![swin] = "sealed"]
            /\ counted' = [counted EXCEPT ![swin] = scount]
            /\ sha' = [sha EXCEPT ![swin] = sexport]
    /\ spc' = "unlink"
    /\ UNCHANGED <<clock, phase, active, disk, flush, queue, swin, sfile,
                   scount, sexport, written, restarts, faults>>

\* A failure to remove the DuckDB file is only logged.
SealUnlink ==
    /\ spc = "unlink"
    /\ \/ duck' = [duck EXCEPT ![swin] = None] /\ UNCHANGED faults
       \/ Faulty /\ UNCHANGED duck
    /\ SealReturns(queue)
    /\ UNCHANGED <<clock, phase, active, rows, parquet, orphan, catalog,
                   flush, written, restarts>>

\* Mutant: a failed seal cleans up after itself.
SealFailsAndCleansUp ==
    /\ spc \in {"count", "export"}
    /\ Faulty
    /\ duck' = [duck EXCEPT ![swin] = None]
    /\ SealReturns({})
    /\ UNCHANGED <<clock, phase, active, rows, parquet, orphan, catalog, flush,
                   written, restarts>>

\* An error ends the pass; nothing puts the segment back into the map.
SealFails ==
    /\ spc \in {"count", "droprow", "export", "rename", "mark"}
    /\ Faulty
    /\ SealReturns({})
    /\ UNCHANGED <<clock, phase, active, disk, catalog, flush,
                   written, restarts>>

(***************************************************************************)
(* The end of the process: a crash at any point, Manager.Close once both   *)
(* goroutines have returned, or the nil dereference of InsertBatch on a    *)
(* connection sealOne has closed.                                          *)
(***************************************************************************)
GoDown ==
    /\ phase' = "down"
    /\ active' = [w \in Windows |-> None]
    /\ FlushEnds
    /\ SealReturns({})
    /\ UNCHANGED <<clock, disk, catalog, unseen, written, faults>>

Crash == /\ phase # "down" /\ restarts < MaxRestarts
         /\ restarts' = restarts + 1
         /\ GoDown

Close == /\ phase = "running" /\ restarts < MaxRestarts
         /\ fpc = "idle" /\ spc = "idle"
         /\ restarts' = restarts + 1
         /\ GoDown

FlushPanics == fpc = "insert" /\ ~IsOpen(ffile) /\ GoDown /\ UNCHANGED restarts

\* The catalog file is lost while the process is down (docs: recovery then
\* rebuilds it from the data directory).
CatalogLost ==
    /\ phase = "down" /\ Faulty
    /\ state' = [w \in Windows |-> "none"]
    /\ counted' = Empty /\ sha' = Empty
    /\ UNCHANGED <<clock, phase, active, disk, flush, seal, written, restarts>>

Start ==
    /\ phase = "down" /\ phase' = "orphan"
    /\ UNCHANGED <<clock, active, disk, catalog, flush, seal, written,
                   restarts, faults>>

(***************************************************************************)
(* Manager.Recover, before anything else runs: one action per file or row  *)
(* a rule touches, so that a crash may fall between any two of them.       *)
(***************************************************************************)
Superseded(w) == duck[w] # None /\ parquet[w] # None
Unregistered(w) == state[w] = "none" /\ (duck[w] # None \/ parquet[w] # None)
Missing(w) == \/ state[w] = "active" /\ duck[w] = None
              \/ state[w] = "sealed" /\ parquet[w] = None
\* Mutant: windows from before the startup are not reopened.
UnopenedRecent(w) == duck[w] # None /\ active[w] = None /\ w >= horizon

Unopened(w) == duck[w] # None /\ active[w] = None

\* Mutant: of two files for one segment the wrong one is kept.
RecoverOrphanKeepsDuck(w) ==
    /\ phase = "orphan" /\ Superseded(w)
    /\ orphan' = [orphan EXCEPT ![w] = parquet[w]]
    /\ parquet' = [parquet EXCEPT ![w] = None]
    /\ UNCHANGED <<clock, phase, active, duck, rows, catalog, flush, seal,
                   written, restarts, faults>>

\* Both files: keep the Parquet, move the DuckDB file to orphans/.
RecoverOrphan(w) ==
    /\ phase = "orphan" /\ Superseded(w)
    /\ orphan' = [orphan EXCEPT ![w] = rows[duck[w]]]
    /\ duck' = [duck EXCEPT ![w] = None]
    /\ UNCHANGED <<clock, phase, active, rows, parquet, catalog, flush, seal,
                   written, restarts, faults>>

\* A file without a row: register the DuckDB files as active, then the
\* Parquet files as sealed.
RecoverRegister(w) ==
    /\ phase = "register" /\ Unregistered(w)
    /\ duck[w] = None => \A v \in Windows : duck[v] # None => state[v] # "none"
    /\ IF duck[w] # None
       THEN /\ state' = [state EXCEPT ![w] = "active"]
            /\ UNCHANGED <<counted, sha>>
       ELSE /\ state' = [state EXCEPT ![w] = "sealed"]
            /\ counted' = [counted EXCEPT ![w] = parquet[w]]
            /\ sha' = [sha EXCEPT ![w] = parquet[w]]
    /\ UNCHANGED <<clock, phase, active, disk, flush, seal,
                   written, restarts, faults>>

\* A row without its file: mark it lost.
RecoverMarkLost(w) ==
    /\ phase = "lost" /\ Missing(w)
    /\ state' = [state EXCEPT ![w] = "lost"]
    /\ UNCHANGED <<clock, phase, active, disk, counted, sha, flush, seal,
                   written, restarts, faults>>

\* Reopen the surviving files with openOrCreate.
RecoverReopen(w) ==
    /\ phase = "reopen" /\ Unopened(w)
    /\ active' = [active EXCEPT ![w] = duck[w]]
    /\ UNCHANGED <<clock, phase, disk, catalog, flush, seal,
                   written, restarts, faults>>

RecoverNextRule ==
    /\ \/ /\ phase = "orphan" /\ \A w \in Windows : ~Superseded(w)
          /\ phase' = "register"
       \/ /\ phase = "register" /\ \A w \in Windows : ~Unregistered(w)
          /\ phase' = "lost"
       \/ /\ phase = "lost" /\ \A w \in Windows : ~Missing(w)
          /\ phase' = "reopen"
       \/ /\ phase = "reopen" /\ \A w \in Windows : ~Unopened(w)
          /\ phase' = "running"
    /\ UNCHANGED <<clock, active, disk, catalog, flush, seal,
                   written, restarts, faults>>

FlushStep == \/ FlushLookup \/ FlushOpen \/ FlushEnsureRow \/ FlushPublish
             \/ \E e \in Events : FlushRoute(e)
             \/ \E w \in Windows : FlushPick(w)
             \/ FlushInsert

SealStep == \/ SealDetach \/ SealCount \/ SealDropFile \/ SealDropRow
            \/ SealExport \/ SealRename \/ SealMark \/ SealUnlink

RecoverStep == \/ \E w \in Windows : \/ RecoverOrphan(w) \/ RecoverRegister(w)
                                     \/ RecoverMarkLost(w) \/ RecoverReopen(w)
               \/ RecoverNextRule

Next == \/ NextWindow \/ GraceElapses
        \/ \E batch \in SUBSET unseen : FlushBegin(batch)
        \/ FlushStep \/ FlushOpenFails \/ FlushInsertFails \/ FlushPanics
        \/ SealTick \/ SealStep \/ SealFails
        \/ Crash \/ Close \/ CatalogLost \/ Start \/ RecoverStep

Spec == Init /\ [][Next]_vars

(***************************************************************************)
(* The goroutines keep running and a supervisor restarts a process that    *)
(* went down: nothing is assumed of events, of crashes or of the clock.    *)
(***************************************************************************)
FairSpec == /\ Spec
            /\ WF_vars(FlushStep) /\ WF_vars(SealTick) /\ WF_vars(SealStep)
            /\ WF_vars(RecoverStep) /\ WF_vars(Start)

(***************************************************************************)
(*                              PROPERTIES                                 *)
(***************************************************************************)
\* Every variable keeps its shape; the pcs take only the values the code's
\* control flow has (Manager's fields, the segments table, the data directory).
TypeOK ==
    /\ now \in Windows /\ horizon \in Windows
    /\ phase \in {"down", "orphan", "register", "lost", "reopen", "running"}
    /\ active \in [Windows -> {None} \cup Files]
    /\ duck \in [Windows -> {None} \cup Files]
    /\ rows \in [Files -> SUBSET Events]
    /\ parquet \in [Windows -> {None} \cup SUBSET Events]
    /\ orphan \in [Windows -> SUBSET Events]
    /\ state \in [Windows -> {"none", "active", "sealed", "lost"}]
    /\ counted \in [Windows -> SUBSET Events]
    /\ sha \in [Windows -> SUBSET Events]
    /\ fpc \in {"idle", "lookup", "open", "row", "publish", "route", "pick",
                "insert"}
    /\ unseen \subseteq Events /\ todo \subseteq Events
    /\ cur \in Windows /\ target \in Windows
    /\ groups \in [Windows -> SUBSET Events]
    /\ ffile \in {None} \cup Files
    /\ spc \in {"idle", "detach", "count", "dropfile", "droprow", "export",
                "rename", "mark", "unlink"}
    /\ queue \subseteq Windows /\ swin \in Windows
    /\ sfile \in {None} \cup Files
    /\ scount \subseteq Events /\ sexport \subseteq Events
    /\ written \subseteq Events
    /\ restarts \in Nat /\ faults \in Nat

\* The events in the files of a window that survive a crash.
OnDisk(w) == (IF duck[w] # None THEN rows[duck[w]] ELSE {})
             \cup (IF parquet[w] # None THEN parquet[w] ELSE {})

\* What a query can reach: the executor asks the manager for an active row
\* and reads the Parquet file of a sealed one.
Served(w) == IF state[w] = "active" /\ active[w] # None THEN rows[active[w]]
             ELSE IF state[w] = "sealed" /\ parquet[w] # None THEN parquet[w]
             ELSE {}

\* Every event InsertBatch acknowledged is in a DuckDB or a Parquet file of
\* some window, whatever the flush goroutine, the seal loop, a failing call,
\* a crash or a recovery pass cut short do in between.
Durable == written \subseteq UNION {OnDisk(w) : w \in Windows}

\* A row marked sealed tells the truth: its Parquet file is there, and the
\* row count and the checksum taken before the rename are those of that file.
SealedRowTrue ==
    \A w \in Windows : state[w] = "sealed" =>
        parquet[w] # None /\ counted[w] = parquet[w] /\ sha[w] = parquet[w]

\* The pointer Flush inserts through, fetched in an earlier critical section,
\* is still an open connection, to the file linked at the segment's path.
NeverWritesClosed ==
    fpc = "insert" => IsOpen(ffile) /\ duck[target] = ffile

\* A segment open for writing has an active row: the only rows for which the
\* executor asks the manager, so what is written there can be queried.
OpenSegmentIsActive ==
    \A w \in Windows : active[w] # None => state[w] = "active"

\* No event is in the files of two windows: it is routed once, and neither a
\* partly failed batch nor a recovery pass writes it a second time elsewhere.
OneHome ==
    \A v, w \in Windows : v # w => OnDisk(v) \cap OnDisk(w) = {}

\* Until a call fails or the process goes down, an acknowledged event is in
\* reach of a query except between the moment its segment leaves the map and
\* the end of its sealing (sealOne, QueryActive).
Queryable ==
    faults = 0 /\ restarts = 0 =>
        \A e \in written : \/ \E w \in Windows : e \in Served(w)
                           \/ sfile # None /\ e \in rows[sfile]

\* A sealed Parquet file never changes again ("reopening sealed segments
\* would defeat their immutability"): no later pass renames over it.
SealedImmutable ==
    [][\A w \in Windows : parquet[w] # None => parquet'[w] = parquet[w]]_vars

\* In a punctual environment files, catalog, seal, crashes and recovery together
\* are a store whose segments gain events until they are sealed, lose none,
\* share none, and hold what was acknowledged (Flush, sealOne, Recover).
Store == INSTANCE EventStore WITH content <- [w \in Windows |-> OnDisk(w)],
                                  sealed  <- {w \in Windows : parquet[w] # None},
                                  acked   <- written

IsEventStore == Store!Spec

\* A DuckDB file leaves its path only when it is empty, when its rows are in
\* the Parquet file and the catalog says so, or to become an orphan of an
\* exported segment (the order temp, rename, catalog, delete of sealOne).
CatalogBeforeDelete ==
    [][\A w \in Windows : duck[w] # None /\ duck'[w] = None =>
          \/ rows[duck[w]] = {}
          \/ /\ parquet[w] # None /\ rows[duck[w]] \subseteq parquet[w]
             /\ state[w] = "sealed" \/ orphan'[w] = rows[duck[w]]]_vars

\* When Recover hands over to the goroutines, catalog, directory and map
\* agree, wherever the previous process and earlier recoveries were cut:
\* exactly the files left are open, exactly those rows are active, and every
\* sealed row has its file.
RecoveryReconciles ==
    [][phase = "reopen" /\ phase' = "running" =>
          \A w \in Windows :
              /\ active[w] = duck[w]
              /\ state[w] = "active" <=> active[w] # None
              /\ state[w] = "sealed" => parquet[w] # None]_vars

\* After Recover the Parquet file it kept is the one the catalog serves.
RecoveredParquetServed ==
    [][phase = "reopen" /\ phase' = "running" =>
          \A w \in Windows : parquet[w] # None => state[w] = "sealed"]_vars

\* A segment whose grace is over is eventually sealed, or dropped when empty:
\* SealOnce finds it at some tick and finishes, or a restart takes over, as
\* long as no call fails.
EventuallySealed ==
    \A w \in Windows :
       w < horizon /\ state[w] = "active" ~> state[w] # "active" \/ faults > 0
=============================================================================
