------------------------------- MODULE Ingest -------------------------------
(***************************************************************************)
(* The ingest path (src/internal/ingest/buffer.go): HTTP handlers append   *)
(* request bodies to the in-memory buffer, the flush goroutine drains it   *)
(* on a tick or on a half-full signal and hands each batch to the flush    *)
(* function of main.go, which stores it (Manager.Flush, module Segments)   *)
(* and publishes it to the live tails.  The shutdown sequence of main.go   *)
(* is part of the model: the context the flush goroutine watches is        *)
(* cancelled before the HTTP server is asked to stop.                      *)
(*                                                                         *)
(* The i-th event of request r is <<r, i>>; what an event holds does not   *)
(* matter here.                                                            *)
(***************************************************************************)
EXTENDS Naturals, Sequences, FiniteSets

CONSTANTS
    Requests,   \* ingest requests of a behaviour
    Size,       \* [Requests -> Nat]: events in the body of a request
    Cap,        \* capacity of the buffer, in events
    Batch,      \* events one drain takes at most (main.go passes Cap)
    MaxFaults   \* bound: failing calls of Manager.Flush

ASSUME IngestAssumption ==
    /\ Size \in [Requests -> Nat]
    /\ Cap \in Nat \ {0} /\ Batch \in Nat \ {0}
    /\ MaxFaults \in Nat

VARIABLES
    hpc,        \* request -> where its handler is
    buffer,     \* Buffer.events
    fill,       \* Buffer.fill, the gauge read without the lock
    notify,     \* a token is in Buffer.notify
    fpc,        \* where Flusher.Run is
    final,      \* the flusher is in drainAll
    batch,      \* the batch drained and not yet flushed
    handed,     \* the events given to the flush function, in order
    stored,     \* the events Manager.Flush wrote
    published,  \* the events given to Fanout.Publish, in order
    cancelled,  \* the root context is cancelled
    http,       \* the HTTP server
    up,         \* the process is there
    early,      \* requests accepted before the cancellation
    faults

queue   == <<buffer, fill>>
flusher == <<fpc, final, batch, handed, stored, published, faults>>
proc    == <<cancelled, http, up>>
vars == <<hpc, queue, notify, flusher, proc, early>>

Body(r) == [i \in 1..Size[r] |-> <<r, i>>]
Elements(s) == {s[i] : i \in 1..Len(s)}

Init ==
    /\ hpc = [r \in Requests |-> "new"]
    /\ buffer = <<>> /\ fill = 0 /\ notify = FALSE
    /\ fpc = "select" /\ final = FALSE /\ batch = <<>>
    /\ handed = <<>> /\ stored = {} /\ published = <<>>
    /\ cancelled = FALSE /\ http = "serving" /\ up = TRUE
    /\ early = {} /\ faults = 0

(***************************************************************************)
(* A handler: the request is read and parsed, appended under the buffer's  *)
(* mutex, the signal sent after it is released, the answer written.        *)
(***************************************************************************)
Arrive(r) ==
    /\ up /\ http = "serving" /\ hpc[r] = "new"
    /\ hpc' = [hpc EXCEPT ![r] = "append"]
    /\ UNCHANGED <<queue, notify, flusher, proc, early>>

\* Mutant: half full is taken to be more than half.
BufferAppendSignalsPastHalf(r) ==
    /\ up /\ hpc[r] = "append"
    /\ IF Len(buffer) + Size[r] > Cap
       THEN /\ hpc' = [hpc EXCEPT ![r] = "rejected"]
            /\ UNCHANGED queue
       ELSE /\ buffer' = buffer \o Body(r)
            /\ fill' = Len(buffer')
            /\ hpc' = [hpc EXCEPT ![r] =
                  IF Len(buffer') * 2 > Cap THEN "signal" ELSE "reply"]
    /\ UNCHANGED <<notify, flusher, proc, early>>

\* Mutant: what fits of a body is taken, and the request is accepted.
BufferAppendPartial(r) ==
    /\ up /\ hpc[r] = "append"
    /\ LET room == Cap - Len(buffer)
           n    == IF Size[r] > room THEN room ELSE Size[r]
       IN  buffer' = buffer \o SubSeq(Body(r), 1, n)
    /\ fill' = Len(buffer')
    /\ hpc' = [hpc EXCEPT ![r] = "signal"]
    /\ UNCHANGED <<notify, flusher, proc, early>>

BufferAppend(r) ==
    /\ up /\ hpc[r] = "append"
    /\ IF Len(buffer) + Size[r] > Cap /\ Size[r] > 0
       THEN /\ hpc' = [hpc EXCEPT ![r] = "rejected"]
            /\ UNCHANGED queue
       ELSE /\ buffer' = buffer \o Body(r)
            /\ fill' = Len(buffer')
            /\ hpc' = [hpc EXCEPT ![r] =
                  IF Size[r] > 0 /\ Len(buffer') * 2 >= Cap THEN "signal" ELSE "reply"]
    /\ UNCHANGED <<notify, flusher, proc, early>>

\* A token already there is enough.
Signal(r) ==
    /\ up /\ hpc[r] = "signal"
    /\ notify' = TRUE
    /\ hpc' = [hpc EXCEPT ![r] = "reply"]
    /\ UNCHANGED <<queue, flusher, proc, early>>

\* 202: the client may forget the events.
Reply(r) ==
    /\ up /\ hpc[r] = "reply"
    /\ hpc' = [hpc EXCEPT ![r] = "accepted"]
    /\ early' = IF cancelled THEN early ELSE early \cup {r}
    /\ UNCHANGED <<queue, notify, flusher, proc>>

(***************************************************************************)
(* Flusher.Run: select picks any ready case, a tick may always be ready.   *)
(***************************************************************************)
\* Mutant: a cancelled flusher returns without the final drain.
WakeWithoutFinalDrain ==
    /\ up /\ fpc = "select"
    /\ \/ fpc' = "drain" /\ UNCHANGED <<notify, final>>
       \/ notify /\ notify' = FALSE /\ fpc' = "drain" /\ UNCHANGED final
       \/ cancelled /\ final' = TRUE /\ fpc' = "exited" /\ UNCHANGED notify
    /\ UNCHANGED <<hpc, queue, batch, handed, stored, published, faults, proc,
                   early>>

\* Mutant: the context is not watched.
WakeIgnoresDone ==
    /\ up /\ fpc = "select"
    /\ \/ UNCHANGED notify
       \/ notify /\ notify' = FALSE
    /\ fpc' = "drain"
    /\ UNCHANGED <<hpc, queue, final, batch, handed, stored, published, faults,
                   proc, early>>

Wake ==
    /\ up /\ fpc = "select"
    /\ \/ UNCHANGED <<notify, final>>
       \/ notify /\ notify' = FALSE /\ UNCHANGED final
       \/ cancelled /\ final' = TRUE /\ UNCHANGED notify
    /\ fpc' = "drain"
    /\ UNCHANGED <<hpc, queue, batch, handed, stored, published, faults, proc,
                   early>>

Drain ==
    /\ up /\ fpc = "drain"
    /\ LET n == IF Batch > Len(buffer) THEN Len(buffer) ELSE Batch
       IN  /\ batch' = SubSeq(buffer, 1, n)
           /\ buffer' = SubSeq(buffer, n + 1, Len(buffer))
    /\ fill' = Len(buffer')
    /\ fpc' = IF buffer # <<>> THEN "flush" ELSE IF final THEN "exited" ELSE "select"
    /\ UNCHANGED <<hpc, notify, final, handed, stored, published, faults, proc,
                   early>>

\* Mutant: an error of Manager.Flush ends Flusher.Run.
StoreErrorEndsRun ==
    /\ up /\ fpc = "flush"
    /\ \/ /\ stored' = stored \cup Elements(batch)
          /\ fpc' = "publish" /\ UNCHANGED faults
       \/ /\ faults < MaxFaults /\ faults' = faults + 1
          /\ fpc' = "exited" /\ UNCHANGED stored
    /\ handed' = handed \o batch
    /\ batch' = <<>>
    /\ UNCHANGED <<hpc, queue, notify, final, published, proc, early>>

\* Manager.Flush: an error is logged, and what was not written is gone.  It
\* may also fail because the context it is given is cancelled.
Store ==
    /\ up /\ fpc = "flush"
    /\ \/ stored' = stored \cup Elements(batch) /\ UNCHANGED faults
       \/ /\ \/ cancelled /\ ~final /\ UNCHANGED faults
             \/ faults < MaxFaults /\ faults' = faults + 1
          /\ \E part \in SUBSET Elements(batch) : stored' = stored \cup part
    /\ handed' = handed \o batch
    /\ batch' = <<>>
    /\ fpc' = "publish"
    /\ UNCHANGED <<hpc, queue, notify, final, published, proc, early>>

\* fanout.Publish, whatever Manager.Flush returned.
Publish ==
    /\ up /\ fpc = "publish"
    /\ published' = handed
    /\ fpc' = IF final THEN "drain" ELSE "select"
    /\ UNCHANGED <<hpc, queue, notify, final, batch, handed, stored, faults,
                   proc, early>>

(***************************************************************************)
(* The end of main.run: the signal cancels the context, httpServer.Shutdown*)
(* closes the listener and waits for the handlers, at most five seconds,   *)
(* then the goroutines are waited for and the process exits.               *)
(***************************************************************************)
Cancel ==
    /\ up /\ ~cancelled
    /\ cancelled' = TRUE
    /\ UNCHANGED <<hpc, queue, notify, flusher, http, up, early>>

Shutdown ==
    /\ up /\ cancelled /\ http = "serving"
    /\ http' = "closing"
    /\ UNCHANGED <<hpc, queue, notify, flusher, cancelled, up, early>>

\* All the handlers returned, or the five seconds are over.
ShutdownReturns ==
    /\ up /\ http = "closing"
    /\ http' = "closed"
    /\ UNCHANGED <<hpc, queue, notify, flusher, cancelled, up, early>>

Exit ==
    /\ up /\ http = "closed" /\ fpc = "exited"
    /\ up' = FALSE
    /\ UNCHANGED <<hpc, queue, notify, flusher, cancelled, http, early>>

HandlerStep(r) == Arrive(r) \/ BufferAppend(r) \/ Signal(r) \/ Reply(r)
FlusherStep == Wake \/ Drain \/ Store \/ Publish
MainStep == Shutdown \/ ShutdownReturns \/ Exit

Next == \/ \E r \in Requests : HandlerStep(r)
        \/ FlusherStep \/ Cancel \/ MainStep

Spec == Init /\ [][Next]_vars

(***************************************************************************)
(* The goroutines run; the ticker keeps ticking, but a ready Done is only  *)
(* sure to be chosen when the selects that see it go on for ever.          *)
(***************************************************************************)
Stop == Wake /\ final'

FairSpec == /\ Spec
            /\ \A r \in Requests : WF_vars(BufferAppend(r) \/ Signal(r) \/ Reply(r))
            /\ WF_vars(FlusherStep) /\ SF_vars(Stop) /\ WF_vars(MainStep)

(***************************************************************************)
(*                              PROPERTIES                                 *)
(***************************************************************************)
\* Shapes, the bound Append enforces and the gauge Drain and Append maintain.
TypeOK ==
    /\ hpc \in [Requests -> {"new", "append", "signal", "reply", "accepted",
                             "rejected"}]
    /\ buffer \in Seq(Requests \X Nat) /\ Len(buffer) <= Cap /\ fill = Len(buffer)
    /\ notify \in BOOLEAN /\ final \in BOOLEAN
    /\ fpc \in {"select", "drain", "flush", "publish", "exited"}
    /\ batch \in Seq(Requests \X Nat) /\ Len(batch) <= Batch
    /\ handed \in Seq(Requests \X Nat) /\ published \in Seq(Requests \X Nat)
    /\ stored \subseteq Requests \X Nat
    /\ cancelled \in BOOLEAN /\ up \in BOOLEAN
    /\ http \in {"serving", "closing", "closed"}
    /\ early \subseteq Requests
    /\ faults \in 0..MaxFaults

Outcome(r) == IF hpc[r] \in {"new", "append"} THEN "none"
              ELSE IF hpc[r] = "rejected" THEN "rejected" ELSE "accepted"

Queue == INSTANCE IngestQueue WITH
    outcome <- [r \in Requests |-> Outcome(r)],
    log     <- handed \o batch \o buffer,
    taken   <- Len(handed) + Len(batch),
    handed  <- Len(handed)

\* The buffer and the flusher together are the queue of IngestQueue: bodies
\* enter whole or not at all ("don't accept partial batches"), a 429 means
\* there was no room, and events come out once and in order.
IsQueue == Queue!Spec

\* No wake-up is lost: when the buffer is half full and the flusher is back in
\* select, a token is waiting or a handler is about to put one there.
HalfFullWakes ==
    fpc = "select" /\ Len(buffer) * 2 >= Cap =>
        notify \/ \E r \in Requests : hpc[r] = "signal"

\* A clean exit leaves behind no event acknowledged before the cancellation,
\* even if the flusher was then on its way in or out of a select (drainAll).
EarlyAcceptedIsHanded ==
    ~up => \A r \in early : \A i \in 1..Size[r] : <<r, i>> \in Elements(handed)

\* "Any remaining events at shutdown are flushed one last time": when the
\* process has exited no acknowledged event is left in the buffer.
ShutdownFlushesAll ==
    ~up => \A r \in Requests : hpc[r] = "accepted" =>
              \A i \in 1..Size[r] : <<r, i>> \in Elements(handed)

\* An acknowledged event reaches the flush function, unless the shutdown
\* comes first (the tick and the half-full signal of Flusher.Run).
EventuallyHanded ==
    \A r \in Requests :
        hpc[r] = "accepted" ~>
            \/ cancelled
            \/ \A i \in 1..Size[r] : <<r, i>> \in Elements(handed)

\* A cancelled process exits: the final drain is not kept busy for ever.
ShutdownEnds == cancelled ~> ~up
=============================================================================
