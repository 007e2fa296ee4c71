---------------------------- MODULE ArchiveStore ----------------------------
(***************************************************************************)
(* What archiving promises (docs/archival.md): a segment is called         *)
(* archived only once a copy that can be retrieved is committed, and       *)
(* neither is ever taken back.                                             *)
(***************************************************************************)
CONSTANT Segs

VARIABLES committed, archived

vars == <<committed, archived>>

Init == committed \subseteq Segs /\ archived \subseteq committed

Commit(s) ==
    /\ committed' = committed \cup {s}
    /\ UNCHANGED archived

Mark(s) ==
    /\ s \in committed
    /\ archived' = archived \cup {s}
    /\ UNCHANGED committed

Next == \E s \in Segs : Commit(s) \/ Mark(s)

Spec == Init /\ [][Next]_vars
=============================================================================
