----------------------------- MODULE EventStore ------------------------------
(***************************************************************************)
(* What the segment manager promises of the events it is handed: a segment *)
(* gains events until it is sealed and loses none, sealing changes nothing *)
(* but that it is sealed, an event is in one segment at most, and what is  *)
(* acknowledged is in one.  Files, their names, the catalog, the order of  *)
(* the steps of a seal, crashes and recovery are not seen.                 *)
(***************************************************************************)
CONSTANTS Windows, Events

VARIABLES
    content,    \* window -> the events of its segment
    sealed,     \* the windows whose segment is sealed
    acked       \* the events acknowledged

vars == <<content, sealed, acked>>

Init ==
    /\ content = [w \in Windows |-> {}]
    /\ sealed = {} /\ acked = {}

\* A batch reaches a segment and is acknowledged, or fails half-way.
Insert(w, batch) ==
    /\ w \notin sealed
    /\ \A v \in Windows \ {w} : content[v] \cap batch = {}
    /\ content' = [content EXCEPT ![w] = @ \cup batch]
    /\ acked' \in {acked, acked \cup batch}
    /\ UNCHANGED sealed

Seal(w) ==
    /\ w \notin sealed
    /\ sealed' = sealed \cup {w}
    /\ UNCHANGED <<content, acked>>

Next == \E w \in Windows : Seal(w) \/ \E batch \in SUBSET Events : Insert(w, batch)

Spec == Init /\ [][Next]_vars
=============================================================================
