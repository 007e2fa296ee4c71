----------------------------- MODULE TailStream ------------------------------
(***************************************************************************)
(* What a live tail promises each of its clients: a stream of the numbers  *)
(* published since it opened, which may lose numbers but counts them, and  *)
(* which gives its client the others in the order of publication and each  *)
(* once.  A stream that is over gives nothing more.  Channels, queues, the *)
(* writer, filters, the rate cap, status frames, slots and the watchdog    *)
(* are not seen.                                                           *)
(***************************************************************************)
EXTENDS Naturals, Sequences

CONSTANT Clients

VARIABLES
    published,  \* the last number published
    stage,      \* client -> whether its stream is yet to open, open or over
    offered,    \* client -> how many numbers its stream was offered
    way,        \* client -> those on their way
    got,        \* client -> those that arrived
    lost        \* client -> how many are lost

vars == <<published, stage, offered, way, got, lost>>

Init ==
    /\ published = 0
    /\ stage   = [c \in Clients |-> "before"]
    /\ offered = [c \in Clients |-> 0]
    /\ way     = [c \in Clients |-> {}]
    /\ got     = [c \in Clients |-> <<>>]
    /\ lost    = [c \in Clients |-> 0]

Publish == published' > published /\ UNCHANGED <<stage, offered, way, got, lost>>

\* A stream opens, or is over at once for a client that left meanwhile.
Open(c) ==
    /\ stage[c] = "before"
    /\ \E s \in {"open", "over"} : stage' = [stage EXCEPT ![c] = s]
    /\ UNCHANGED <<published, offered, way, got, lost>>

Arrived(c) == {got[c][i] : i \in DOMAIN got[c]}

\* A number above all that are on their way or arrived is offered: it is on
\* its way, or lost.
Offer(c) ==
    /\ stage[c] # "before"
    /\ offered' = [offered EXCEPT ![c] = @ + 1]
    /\ \/ /\ stage[c] = "open"
          /\ \E n \in 1..published :
                /\ \A m \in way[c] \cup Arrived(c) : m < n
                /\ way' = [way EXCEPT ![c] = @ \cup {n}]
          /\ UNCHANGED lost
       \/ lost' = [lost EXCEPT ![c] = @ + 1] /\ UNCHANGED way
    /\ UNCHANGED <<published, stage, got>>

\* The first of what is on its way arrives.
Deliver(c) ==
    /\ \E n \in way[c] :
          /\ \A m \in way[c] : n <= m
          /\ way' = [way EXCEPT ![c] = @ \ {n}]
          /\ got' = [got EXCEPT ![c] = Append(@, n)]
    /\ UNCHANGED <<published, stage, offered, lost>>

\* A number on its way is left out.
Lose(c) ==
    /\ \E n \in way[c] : way' = [way EXCEPT ![c] = @ \ {n}]
    /\ lost' = [lost EXCEPT ![c] = @ + 1]
    /\ UNCHANGED <<published, stage, offered, got>>

\* All that was offered and did not arrive is lost.
End(c) ==
    /\ stage[c] = "open"
    /\ stage' = [stage EXCEPT ![c] = "over"]
    /\ way' = [way EXCEPT ![c] = {}]
    /\ lost' = [lost EXCEPT ![c] = offered[c] - Len(got[c])]
    /\ UNCHANGED <<published, offered, got>>

Next ==
    \/ Publish
    \/ \E c \in Clients : Open(c) \/ Offer(c) \/ Deliver(c) \/ Lose(c) \/ End(c)

Spec == Init /\ [][Next]_vars
=============================================================================
