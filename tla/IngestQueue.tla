---------------------------- MODULE IngestQueue -----------------------------
(***************************************************************************)
(* What the ingest buffer promises: a bounded first-in first-out queue     *)
(* between the requests and the flush function that takes a request's      *)
(* events whole or not at all, refuses them only for want of room, and     *)
(* hands every event over once, in the order of acceptance.                *)
(***************************************************************************)
EXTENDS Naturals, Sequences

CONSTANTS Requests, Size, Cap

Body(r) == [i \in 1..Size[r] |-> <<r, i>>]

VARIABLES
    outcome,    \* request -> "none", "accepted" or "rejected"
    log,        \* the events accepted, in the order of acceptance
    taken,      \* how many of them left the queue
    handed      \* how many of them the flush function was given

Init ==
    /\ outcome = [r \in Requests |-> "none"]
    /\ log = <<>> /\ taken = 0 /\ handed = 0

Fits(r) == Len(log) - taken + Size[r] <= Cap

Accept(r) ==
    /\ outcome[r] = "none" /\ Fits(r)
    /\ outcome' = [outcome EXCEPT ![r] = "accepted"]
    /\ log' = log \o Body(r)
    /\ UNCHANGED <<taken, handed>>

Reject(r) ==
    /\ outcome[r] = "none" /\ ~Fits(r)
    /\ outcome' = [outcome EXCEPT ![r] = "rejected"]
    /\ UNCHANGED <<log, taken, handed>>

Take == /\ taken = handed
        /\ \E n \in 1..(Len(log) - taken) : taken' = taken + n
        /\ UNCHANGED <<outcome, log, handed>>

HandOver == /\ handed < taken
            /\ handed' = taken
            /\ UNCHANGED <<outcome, log, taken>>

Next == \/ \E r \in Requests : Accept(r) \/ Reject(r)
        \/ Take \/ HandOver

Spec == Init /\ [][Next]_<<outcome, log, taken, handed>>
=============================================================================
