----------------------------- MODULE LiveTailInv ------------------------------
(***************************************************************************)
(* The inductive invariant behind the safety properties of LiveTail.  Its  *)
(* idea: what a client has been sent, what its writer holds, its queue and *)
(* the frame that waits for room are one line of frames, to which frames   *)
(* are added at one end and from which they leave at the other; the line   *)
(* is in order, each of its events matches the status before it, and where *)
(* a handler stands says what its writer and its subscription are.         *)
(***************************************************************************)
EXTENDS LiveTail

Places == {"idle", "checked", "over", "counted", "await", "subscribe", "loop",
           "wait", "cancel", "leave", "unregister", "release", "done"}

Conn == [at : Places, filter : Filters \cup {""}, capped : BOOLEAN, dropped : Nat,
         count : 0..RateCap, frame : Frames, cancelled : BOOLEAN,
         code : Codes]

Writer == [at : {"none", "idle", "write", "stopped"}, q : Seq(Frames), hand : Seq(Frames),
           err : {"", "net", "slow"}]

Stream == [state : {"none", "open", "closed"}, events : Seq(Nat \ {0}), dropped : Nat]

Here(s) == {c \in Clients : Server(c) = s}

TypeInv ==
    /\ left \in Budgets /\ pressure \in BOOLEAN /\ accepting \in BOOLEAN
    /\ dog \in [at : {"idle", "shed", "cancel"}, over : {"zero", "recent", "sustained"},
                victim : SUBSET Clients]
    /\ slots \in [Servers -> Int]
    /\ DOMAIN registry = Servers /\ \A s \in Servers : registry[s] \in Seq(Here(s))
    /\ conn \in [Clients -> Conn] /\ inbox \in [Clients -> Messages \cup {""}]
    /\ writer \in [Clients -> Writer] /\ sub \in [Clients -> Stream]
    /\ pub \in [last : Nat, first : Nat, next : Nat, todo : SUBSET Clients,
                now : SUBSET Clients]
    /\ subs \subseteq Clients /\ stalled \subseteq Clients /\ gone \subseteq Clients
    /\ told \in [Clients -> Frames] /\ delivered \in [Clients -> Seq(Nat \ {0})]
    /\ offered \in [Clients -> Nat] /\ skipped \in [Clients -> Nat]

Early == {"idle", "checked", "over", "counted", "await"}
Open  == {"loop", "wait"}
Going == Open \cup {"subscribe"}

\* What the handler's place says of its writer, its subscription and its code.
StageTrue(c) ==
    /\ Len(writer[c].q) <= WriteCap /\ Len(sub[c].events) <= SendCap
    /\ Len(writer[c].hand) = IF writer[c].at = "write" THEN 1 ELSE 0
    /\ writer[c].at = "none" => writer[c].q = <<>> /\ writer[c].err = ""
    /\ conn[c].at \in Early => writer[c].at = "none"
    /\ conn[c].at \in Going => writer[c].at # "none"
    /\ conn[c].at \in {"release", "done"} => writer[c].at \in {"none", "stopped"}
    /\ conn[c].at \in Early \cup Going => conn[c].code = 0
    /\ conn[c].at \in {"cancel", "leave", "unregister"} => conn[c].code # 0
    /\ conn[c].at \in Early \cup {"subscribe"} => sub[c].state = "none"
    /\ conn[c].at \in Open \cup {"cancel"} => sub[c].state = "open"
    /\ conn[c].at \in Going => conn[c].filter \in Filters
    /\ told[c].event = 0

\* Nothing is published to a client before it subscribes.
FreshTrue(c) ==
    /\ c \in subs \cup pub.todo => sub[c].state # "none"
    /\ sub[c].state = "none" =>
          /\ sub[c].events = <<>> /\ sub[c].dropped = 0
          /\ offered[c] = 0 /\ skipped[c] = 0 /\ delivered[c] = <<>>
          /\ conn[c].dropped = 0 /\ ~conn[c].capped
          /\ EventsIn(Pipeline(c)) = {}

StageInv == \A c \in Clients : StageTrue(c) /\ FreshTrue(c)

\* The watchdog is shedding one client, and all others are in the registry.
ReachInv ==
    /\ WithinReach
    /\ dog.at = "cancel" => \E c \in Clients : dog.victim = {c}
    /\ dog.at # "cancel" => dog.victim = {}

\* The publisher is in the middle of a batch, with one client at most.
BatchInv ==
    /\ pub.now \subseteq pub.todo
    /\ pub.now = {} => pub.next = pub.first
    /\ pub.first <= pub.next
    /\ pub.todo # {} => 0 < pub.first /\ pub.next <= pub.last

\* A frame tells the filter and, when it is on, the cap.
Tells(f, filter, capped) == f.filter = filter /\ (capped => f.capped)

\* t is the last status before the frames.
LastTells(t, frames, filter, capped) ==
    /\ (\A k \in DOMAIN frames : frames[k].event # 0) => Tells(t, filter, capped)
    /\ \A k \in DOMAIN frames :
          /\ frames[k].event = 0
          /\ \A m \in DOMAIN frames : m > k => frames[m].event # 0
          => Tells(frames[k], filter, capped)

\* The event of a frame is one the subscription of a status matches.
Acks(status, f) == status.filter \in Filters /\ Match(status.filter, f.event)

EventsAcked(t, frames) ==
    \A i \in DOMAIN frames : frames[i].event # 0 =>
       /\ (\A k \in 1..i - 1 : frames[k].event # 0) => Acks(t, frames[i])
       /\ \A k \in 1..i - 1 :
             frames[k].event = 0 /\ (\A m \in k + 1..i - 1 : frames[m].event # 0) =>
                Acks(frames[k], frames[i])

Lined(c) == conn[c].at \in Going /\ writer[c].at # "stopped"

LineInv ==
    \A c \in Clients \ left.html : Lined(c) =>
       /\ LastTells(told[c], Pipeline(c), conn[c].filter, conn[c].capped)
       /\ EventsAcked(told[c], Pipeline(c))

Ascends(numbers) == \A i, j \in DOMAIN numbers : i < j => numbers[i] < numbers[j]

EventsAscend(frames) ==
    \A i, j \in DOMAIN frames :
       i < j /\ frames[i].event # 0 /\ frames[j].event # 0 => frames[i].event < frames[j].event

Below(A, B) == \A a \in A, b \in B : a < b

\* What is published to the client has smaller numbers than this.
Limit(c) == IF c \notin pub.todo THEN pub.last + 1
            ELSE IF c \in pub.now THEN pub.next ELSE pub.first

OrderTrue(c) ==
    LET out == ToSet(delivered[c])
        way == EventsIn(Pipeline(c))
        in  == ToSet(sub[c].events)
    IN /\ Ascends(delivered[c]) /\ EventsAscend(Pipeline(c)) /\ Ascends(sub[c].events)
       /\ Below(out, way) /\ Below(out, in) /\ Below(way, in)
       /\ Below(out \cup way \cup in, {Limit(c)})

OrderInv == \A c \in Clients : OrderTrue(c)

Inv == /\ TypeInv /\ StageInv /\ SlotsTrue /\ ReachInv /\ BatchInv
       /\ LineInv /\ OrderInv /\ EventsAccounted
=============================================================================
