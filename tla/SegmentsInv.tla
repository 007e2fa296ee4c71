----------------------------- MODULE SegmentsInv -----------------------------
(***************************************************************************)
(* The inductive invariant behind the safety properties of Segments for a  *)
(* punctual environment.  Its idea: the flush goroutine only touches       *)
(* windows at or above the horizon and the seal loop only windows below    *)
(* it, so neither sees the other's half-done work, and below the horizon   *)
(* each step of a seal leaves a state that recovery can finish.            *)
(***************************************************************************)
EXTENDS Segments

Sealing == {"count", "dropfile", "droprow", "export", "rename", "mark", "unlink"}
Opening == {"lookup", "open", "row", "publish"}

\* A segment in the pass is in the map until it is detached, and sealOne
\* holds a connection exactly until it returns.
SealHolds == /\ \A w \in queue : active[w] # None
             /\ spc \in Sealing <=> sfile # None

TypeInv == TypeOK /\ SealHolds

\* The goroutines run only after Recover, which opens files only at its end.
PhaseInv ==
    /\ horizon <= now
    /\ phase # "running" => fpc = "idle" /\ spc = "idle" /\ queue = {}
    /\ phase \notin {"reopen", "running"} => \A w \in Windows : active[w] = None
    /\ phase \in {"register", "lost", "reopen"} => \A w \in Windows : ~Superseded(w)
    /\ phase \in {"lost", "reopen"} =>
          \A w \in Windows : duck[w] # None => state[w] # "none"
    /\ phase = "reopen" => \A w \in Windows : ~Missing(w)

\* Flush works at or above the horizon, on the file linked at the path.
FlushInv ==
    /\ fpc # "idle" => /\ cur >= horizon
                       /\ \A e \in todo : EventWindow[e] >= horizon
                       /\ \A w \in Windows : groups[w] # {} => w >= horizon
    /\ fpc = "idle" => groups = Empty
    /\ fpc \in Opening \cup {"insert"} => target = cur \/ groups[target] # {}
    /\ fpc \in {"row", "publish", "insert"} =>
          ffile # None /\ ffile = duck[target]
    /\ fpc = "publish" => state[target] = "active"
    /\ fpc = "insert" => active[target] = ffile

\* The seal loop works below it; what each of its steps may rely on.
SealInv ==
    /\ \A w \in queue : w < horizon
    /\ spc \in Sealing =>
          /\ swin < horizon /\ active[swin] = None
          /\ duck[swin] = sfile \/ (spc = "droprow" /\ duck[swin] = None)
          /\ \A w \in Windows : duck[w] = sfile => w = swin
          /\ spc \notin {"mark", "unlink"} => parquet[swin] = None
          /\ spc \in {"dropfile", "droprow"} => rows[sfile] = {}
          /\ spc \in {"export", "rename", "mark", "unlink"} => scount = rows[sfile]
          /\ spc \in {"rename", "mark", "unlink"} => sexport = rows[sfile]
          /\ spc \in {"mark", "unlink"} => parquet[swin] = rows[sfile]
          /\ state[swin] = IF spc = "unlink" THEN "sealed" ELSE "active"

\* Files, rows and the map.
DiskInv ==
    /\ \A v, w \in Windows : duck[v] # None /\ duck[v] = duck[w] => v = w
    /\ \A w \in Windows :
          /\ active[w] # None => active[w] = duck[w] /\ parquet[w] = None
          /\ parquet[w] # None => w < horizon
          /\ Superseded(w) => rows[duck[w]] = parquet[w]
          /\ duck[w] # None /\ parquet[w] = None => state[w] \in {"none", "active"}
          /\ w >= horizon => \/ state[w] = "none"
                             \/ state[w] = "active" /\ duck[w] # None

PunctualInv ==
    /\ TypeInv /\ PhaseInv /\ FlushInv /\ SealInv /\ DiskInv
    /\ OpenSegmentIsActive /\ SealedRowTrue /\ Durable

(***************************************************************************)
(* The invariant behind OneHome, in any environment.  A segment owns the   *)
(* files the map, the path, the seal loop and Flush hold for it, linked or *)
(* not; no two segments own a file, and no event is on its way to, in a    *)
(* file of or in the export of two of them.                                *)
(***************************************************************************)
FilesOf(w) ==
    {f \in Files : \/ f = duck[w] \/ f = active[w]
                   \/ f = sfile /\ swin = w
                   \/ f = ffile /\ target = w /\ fpc \in {"row", "publish", "insert"}}

Home(w) ==
    {e \in Events : \/ e \in groups[w]
                    \/ parquet[w] # None /\ e \in parquet[w]
                    \/ \E f \in FilesOf(w) : e \in rows[f]
                    \/ swin = w /\ e \in sexport}

HomeInv ==
    /\ TypeInv
    /\ fpc = "idle" => todo = {} /\ groups = Empty
    /\ spc \notin {"rename", "mark", "unlink"} => sexport = {}
    /\ unseen \cap todo = {}
    /\ \A v, w \in Windows : v # w => FilesOf(v) \cap FilesOf(w) = {}
    /\ \A w \in Windows : Home(w) \cap (unseen \cup todo) = {}
    /\ \A v, w \in Windows : v # w => Home(v) \cap Home(w) = {}

(***************************************************************************)
(* The invariant behind RecoveryReconciles, in any environment: a file may *)
(* only be missing under a row of a window that is over, and nobody works  *)
(* on a segment once Recover has marked it lost.                           *)
(***************************************************************************)
Abandoned(w) ==
    /\ w < now /\ duck[w] = None /\ active[w] = None
    /\ w \notin queue /\ (spc \in Sealing => swin # w)
    /\ fpc # "idle" => cur # w /\ groups[w] = {}
    /\ fpc \in Opening \cup {"insert"} => target # w

ReconcileInv ==
    /\ TypeInv /\ PhaseInv
    /\ fpc = "idle" => groups = Empty
    /\ \A w \in queue : w < horizon
    /\ spc \in Sealing => swin < horizon
    /\ spc = "mark" => parquet[swin] # None
    /\ fpc = "row" => duck[target] # None \/ target < now
    /\ phase = "reopen" => \A w \in Windows : active[w] \in {None, duck[w]}
    /\ \A w \in Windows :
          /\ state[w] = "sealed" => parquet[w] # None
          /\ state[w] = "active" => duck[w] # None \/ w < now
          /\ parquet[w] # None => w < now
          /\ state[w] = "lost" => Abandoned(w)

(***************************************************************************)
(* What the catalog and the map know of a file that holds events.          *)
(***************************************************************************)
\* Once Recover has registered what it found, no file with events is without
\* a row.
RegisteredInv ==
    phase \in {"lost", "reopen", "running"} =>
        \A w \in Windows :
            /\ duck[w] # None /\ rows[duck[w]] # {} => state[w] # "none"
            /\ parquet[w] # None => state[w] # "none"

\* Before anything fails, a file with events is open or being sealed, and a
\* Parquet file is marked or about to be.
ServedInv ==
    faults = 0 /\ restarts = 0 =>
        /\ phase # "down"
        /\ phase # "running" =>
              \A w \in Windows : duck[w] = None /\ parquet[w] = None
        /\ \A w \in Windows :
              /\ duck[w] # None /\ rows[duck[w]] # {} =>
                    active[w] = duck[w] \/ sfile = duck[w]
              /\ parquet[w] # None =>
                    state[w] = "sealed" \/ (spc = "mark" /\ swin = w)
=============================================================================
