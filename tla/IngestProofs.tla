---------------------------- MODULE IngestProofs ----------------------------
(***************************************************************************)
(* Proofs about Ingest, for any requests, sizes and capacity: the shapes,  *)
(* the refinement of IngestQueue, the wake-up of a half-full buffer and    *)
(* the final drain of what was accepted before the cancellation.           *)
(***************************************************************************)
EXTENDS Ingest, SequenceTheorems, TLAPS

Event == Requests \X Nat

(***************************************************************************)
(* Sequences of events.                                                    *)
(***************************************************************************)
\* A body is a sequence of the request's events.
LEMMA BodyShape ==
    ASSUME NEW r \in Requests
    PROVE  /\ Body(r) \in Seq(Event) /\ Len(Body(r)) = Size[r]
           /\ Size[r] \in Nat
           /\ Elements(Body(r)) = {<<r, i>> : i \in 1..Size[r]}
<1>1. Size[r] \in Nat
  BY IngestAssumption
<1>2. Body(r) \in [1..Size[r] -> Event]
  BY <1>1 DEF Body, Event
<1>3. Body(r) \in Seq(Event) /\ Len(Body(r)) = Size[r]
  BY <1>1, <1>2
<1>4. Elements(Body(r)) = {<<r, i>> : i \in 1..Size[r]}
  BY <1>1, <1>3 DEF Elements, Body
<1>5. QED
  BY <1>1, <1>3, <1>4

\* The events of a concatenation are those of its parts.
LEMMA ElementsConcat ==
    ASSUME NEW s \in Seq(Event), NEW t \in Seq(Event)
    PROVE  Elements(s \o t) = Elements(s) \cup Elements(t)
<1>1. /\ Len(s) \in Nat /\ Len(t) \in Nat /\ Len(s \o t) = Len(s) + Len(t)
      /\ \A i \in 1 .. Len(s) + Len(t) :
            (s \o t)[i] = IF i <= Len(s) THEN s[i] ELSE t[i - Len(s)]
  BY ConcatProperties, LenProperties
<1>2. ASSUME NEW i \in 1..Len(s) PROVE s[i] \in Elements(s \o t)
  <2>1. i \in 1..Len(s \o t) /\ (s \o t)[i] = s[i]
    BY <1>1
  <2>2. QED
    BY <2>1 DEF Elements
<1>3. ASSUME NEW i \in 1..Len(t) PROVE t[i] \in Elements(s \o t)
  <2>1. i + Len(s) \in 1..Len(s \o t) /\ (s \o t)[i + Len(s)] = t[i]
    BY <1>1
  <2>2. QED
    BY <2>1 DEF Elements
<1>4. ASSUME NEW i \in 1..Len(s \o t)
      PROVE (s \o t)[i] \in Elements(s) \cup Elements(t)
  <2>1. CASE i <= Len(s)
    <3>1. i \in 1..Len(s) /\ (s \o t)[i] = s[i]
      BY <1>1, <2>1
    <3>2. QED
      BY <3>1 DEF Elements
  <2>2. CASE ~(i <= Len(s))
    <3>1. i - Len(s) \in 1..Len(t) /\ (s \o t)[i] = t[i - Len(s)]
      BY <1>1, <2>2
    <3>2. QED
      BY <3>1 DEF Elements
  <2>3. QED
    BY <2>1, <2>2
<1>5. QED
  BY <1>2, <1>3, <1>4 DEF Elements

\* A sequence cut in two is the concatenation of its parts.
LEMMA CutAndJoin ==
    ASSUME NEW s \in Seq(Event), NEW n \in 0..Len(s)
    PROVE  /\ SubSeq(s, 1, n) \in Seq(Event) /\ Len(SubSeq(s, 1, n)) = n
           /\ SubSeq(s, n + 1, Len(s)) \in Seq(Event)
           /\ Len(SubSeq(s, n + 1, Len(s))) = Len(s) - n
           /\ SubSeq(s, 1, n) \o SubSeq(s, n + 1, Len(s)) = s
<1> DEFINE a == SubSeq(s, 1, n)
           b == SubSeq(s, n + 1, Len(s))
<1>0. Len(s) \in Nat /\ n \in Nat /\ n <= Len(s) /\ \A i \in 1..Len(s) : s[i] \in Event
  BY LenProperties, ElementOfSeq
<1>1. a \in Seq(Event) /\ Len(a) = n /\ \A i \in 1..n : a[i] = s[i]
  BY <1>0, SubSeqProperties
<1>2. /\ b \in Seq(Event) /\ Len(b) = Len(s) - n
      /\ \A i \in 1..Len(s) - n : b[i] = s[n + i]
  BY <1>0, SubSeqProperties
<1> HIDE DEF a, b
<1>3. /\ a \o b \in Seq(Event) /\ Len(a \o b) = Len(s)
      /\ \A i \in 1..Len(s) : (a \o b)[i] = IF i <= n THEN a[i] ELSE b[i - n]
  <2>1. Len(a) + Len(b) = Len(s)
    BY <1>0, <1>1, <1>2
  <2>2. /\ a \o b \in Seq(Event) /\ Len(a \o b) = Len(a) + Len(b)
        /\ \A i \in 1 .. Len(a) + Len(b) :
              (a \o b)[i] = IF i <= Len(a) THEN a[i] ELSE b[i - Len(a)]
    BY <1>1, <1>2, ConcatProperties
  <2>3. QED
    BY <1>1, <2>1, <2>2
<1>4. ASSUME NEW i \in 1..Len(s) PROVE (a \o b)[i] = s[i]
  <2>1. CASE i <= n
    BY <1>0, <1>1, <1>3, <2>1
  <2>2. CASE ~(i <= n)
    <3>1. i - n \in 1..Len(s) - n /\ n + (i - n) = i
      BY <1>0, <2>2
    <3>2. QED
      BY <1>2, <1>3, <2>2, <3>1
  <2>3. QED
    BY <2>1, <2>2
<1>5. a \o b = s
  BY <1>3, <1>4, SeqEqual
<1>6. QED
  BY <1>1, <1>2, <1>5 DEF a, b

(***************************************************************************)
(* Type correctness.                                                       *)
(***************************************************************************)
\* Only between a drain and the end of its flush is there a batch.
TypeInv == TypeOK /\ (fpc # "flush" => batch = <<>>)

\* What the two branches of Append do to the buffer.
LEMMA AppendShape ==
    ASSUME TypeInv, NEW r \in Requests, BufferAppend(r)
    PROVE  \/ /\ UNCHANGED queue /\ hpc' = [hpc EXCEPT ![r] = "rejected"]
              /\ Len(buffer) + Size[r] > Cap
           \/ /\ buffer' = buffer \o Body(r)
              /\ buffer' \in Seq(Event) /\ Len(buffer') = Len(buffer) + Size[r]
              /\ fill' = Len(buffer') /\ Len(buffer') <= Cap
              /\ hpc' = [hpc EXCEPT ![r] =
                    IF Size[r] > 0 /\ Len(buffer') * 2 >= Cap
                    THEN "signal" ELSE "reply"]
<1>1. /\ buffer \in Seq(Event) /\ Len(buffer) \in Nat /\ Len(buffer) <= Cap
      /\ Cap \in Nat
  BY IngestAssumption, LenProperties DEF TypeInv, TypeOK, Event
<1>2. /\ buffer \o Body(r) \in Seq(Event)
      /\ Len(buffer \o Body(r)) = Len(buffer) + Size[r]
  BY <1>1, BodyShape, ConcatProperties
<1>3. Size[r] \in Nat
  BY BodyShape
<1>4. CASE Len(buffer) + Size[r] > Cap /\ Size[r] > 0
  BY <1>4 DEF BufferAppend
<1>5. CASE ~(Len(buffer) + Size[r] > Cap /\ Size[r] > 0)
  <2>1. /\ buffer' = buffer \o Body(r) /\ fill' = Len(buffer')
        /\ hpc' = [hpc EXCEPT ![r] = IF Size[r] > 0 /\ Len(buffer') * 2 >= Cap
                                     THEN "signal" ELSE "reply"]
    BY <1>5 DEF BufferAppend
  <2>2. Len(buffer') <= Cap
    BY <1>1, <1>2, <1>3, <1>5, <2>1
  <2>3. QED
    BY <1>2, <2>1, <2>2
<1>6. QED
  BY <1>4, <1>5

\* What a drain does to the buffer and the batch.
LEMMA DrainShape ==
    ASSUME TypeInv, Drain
    PROVE  /\ batch = <<>> /\ buffer \in Seq(Event)
           /\ batch' \in Seq(Event) /\ Len(batch') <= Batch
           /\ buffer' \in Seq(Event) /\ batch' \o buffer' = buffer
           /\ Len(batch') + Len(buffer') = Len(buffer)
           /\ Len(buffer) <= Cap /\ Len(buffer) \in Nat
           /\ Len(batch') \in Nat /\ Len(buffer') \in Nat
           /\ Len(buffer') = IF Batch > Len(buffer) THEN 0 ELSE Len(buffer) - Batch
<1> DEFINE n == IF Batch > Len(buffer) THEN Len(buffer) ELSE Batch
<1>1. /\ buffer \in Seq(Event) /\ Len(buffer) \in Nat /\ Len(buffer) <= Cap
      /\ Batch \in Nat \ {0} /\ batch = <<>>
  BY IngestAssumption, LenProperties DEF TypeInv, TypeOK, Event, Drain
<1>2. n \in 0..Len(buffer) /\ n <= Batch
  BY <1>1
<1>3. batch' = SubSeq(buffer, 1, n) /\ buffer' = SubSeq(buffer, n + 1, Len(buffer))
  BY DEF Drain
<1> HIDE DEF n
<1>4. /\ batch' \in Seq(Event) /\ Len(batch') = n
      /\ buffer' \in Seq(Event) /\ Len(buffer') = Len(buffer) - n
      /\ batch' \o buffer' = buffer
  BY <1>1, <1>2, <1>3, CutAndJoin
<1>5. QED
  BY <1>1, <1>2, <1>4 DEF n

\* A process that starts has the shapes.
LEMMA TypeInit == Init => TypeInv
<1> SUFFICES ASSUME Init PROVE TypeInv
  OBVIOUS
<1>1. <<>> \in Seq(Event) /\ Len(<<>>) = 0
  BY EmptySeq
<1>2. Cap \in Nat /\ Batch \in Nat /\ MaxFaults \in Nat
  BY IngestAssumption
<1>3. /\ buffer \in Seq(Event) /\ Len(buffer) <= Cap /\ fill = Len(buffer)
      /\ batch \in Seq(Event) /\ Len(batch) <= Batch
      /\ handed \in Seq(Event) /\ published \in Seq(Event) /\ faults \in 0..MaxFaults
  BY <1>1, <1>2 DEF Init
<1>4. /\ hpc \in [Requests -> {"new", "append", "signal", "reply", "accepted",
                              "rejected"}]
      /\ stored \subseteq Event /\ early \subseteq Requests
  BY DEF Init
<1>5. /\ notify \in BOOLEAN /\ final \in BOOLEAN
      /\ cancelled \in BOOLEAN /\ up \in BOOLEAN
  BY DEF Init
<1>6. QED
  BY <1>3, <1>4, <1>5 DEF Init, TypeInv, TypeOK, Event

\* Each step of a handler, the flusher and main keeps the shapes.
LEMMA TypeStep == TypeInv /\ [Next]_vars => TypeInv'
<1> SUFFICES ASSUME TypeInv, [Next]_vars PROVE TypeInv'
  OBVIOUS
<1>0. TypeOK /\ (fpc # "flush" => batch = <<>>)
  BY DEF TypeInv
<1>1. ASSUME NEW r \in Requests, BufferAppend(r) PROVE TypeInv'
  <2>1. UNCHANGED <<notify, flusher, proc, early>>
    BY <1>1 DEF BufferAppend
  <2>2. /\ buffer' \in Seq(Event) /\ Len(buffer') <= Cap /\ fill' = Len(buffer')
        /\ hpc' \in [Requests -> {"new", "append", "signal", "reply", "accepted",
                                  "rejected"}]
    BY <1>0, <1>1, AppendShape DEF TypeOK, queue, Event
  <2>3. QED
    BY <1>0, <2>1, <2>2 DEF TypeInv, TypeOK, Event, flusher, proc
<1>2. ASSUME NEW r \in Requests, Arrive(r) \/ Signal(r) \/ Reply(r) PROVE TypeInv'
  <2>1. UNCHANGED <<queue, flusher, proc>> /\ notify' \in BOOLEAN
    BY <1>0, <1>2 DEF Arrive, Signal, Reply, TypeOK
  <2>2. /\ hpc' \in [Requests -> {"new", "append", "signal", "reply", "accepted",
                                  "rejected"}]
        /\ early' \subseteq Requests
    BY <1>0, <1>2 DEF Arrive, Signal, Reply, TypeOK
  <2>3. QED
    BY <1>0, <2>1, <2>2 DEF TypeInv, TypeOK, queue, flusher, proc
<1>3. CASE Wake
  <2>1. notify' \in BOOLEAN
    BY <1>0, <1>3 DEF Wake, TypeOK
  <2>2. final' \in BOOLEAN
    BY <1>0, <1>3 DEF Wake, TypeOK
  <2>3. QED
    BY <1>0, <1>3, <2>1, <2>2 DEF Wake, TypeInv, TypeOK, queue, proc
<1>4. CASE Drain
  <2>1. /\ batch' \in Seq(Event) /\ Len(batch') <= Batch
        /\ buffer' \in Seq(Event) /\ Len(buffer') <= Cap
    BY <1>4, DrainShape, IngestAssumption
  <2>2. /\ fill' = Len(buffer') /\ fpc' \in {"flush", "select", "exited"}
    BY <1>4 DEF Drain
  <2>3. fpc' # "flush" => batch' = <<>>
    <3>1. fpc' # "flush" => buffer = <<>>
      BY <1>4 DEF Drain
    <3>2. buffer = <<>> => Len(batch') = 0
      BY <1>4, DrainShape
    <3>3. Len(batch') = 0 => batch' = <<>>
      BY <2>1, EmptySeq
    <3>4. QED
      BY <3>1, <3>2, <3>3
  <2>4. QED
    BY <1>0, <1>4, <2>1, <2>2, <2>3 DEF Drain, TypeInv, TypeOK, proc, Event
<1>5. CASE Store
  <2>1. faults' \in 0..MaxFaults
    BY <1>0, <1>5, IngestAssumption DEF Store, TypeOK
  <2>2. Elements(batch) \subseteq Event
    BY <1>0, ElementOfSeq DEF Elements, TypeOK, Event
  <2>3. stored' \subseteq Event
    BY <1>0, <1>5, <2>2 DEF Store, TypeOK, Event
  <2>4. handed' \in Seq(Event)
    BY <1>0, <1>5, ConcatProperties DEF Store, TypeOK, Event
  <2>5. batch' \in Seq(Event) /\ Len(batch') <= Batch
    BY <1>5, EmptySeq, IngestAssumption DEF Store
  <2>6. QED
    BY <1>0, <1>5, <2>1, <2>3, <2>4, <2>5 DEF Store, TypeInv, TypeOK, queue, proc, Event
<1>6. CASE Publish
  BY <1>0, <1>6 DEF Publish, TypeInv, TypeOK, queue, proc
<1>7. CASE Cancel \/ Shutdown \/ ShutdownReturns \/ Exit
  BY <1>0, <1>7 DEF Cancel, Shutdown, ShutdownReturns, Exit, TypeInv, TypeOK, queue,
                    flusher
<1>8. CASE UNCHANGED vars
  BY <1>0, <1>8 DEF vars, TypeInv, TypeOK, queue, flusher, proc
<1>9. QED
  BY <1>1, <1>2, <1>3, <1>4, <1>5, <1>6, <1>7, <1>8
     DEF Next, HandlerStep, FlusherStep, MainStep

\* The buffer never exceeds its capacity and the gauge is its length.
THEOREM IngestTypeCorrect == Spec => []TypeOK
<1>1. Spec => []TypeInv
  BY TypeInit, TypeStep, PTL DEF Spec
<1>2. TypeInv => TypeOK
  BY DEF TypeInv
<1>3. QED
  BY <1>1, <1>2, PTL

(***************************************************************************)
(* The wake-up of a half-full buffer.  One drain empties the buffer, as    *)
(* main.go passes its capacity for the batch.                              *)
(***************************************************************************)
\* Outside a drain a half-full buffer has a token, or a handler that is about
\* to leave one: the token is only consumed on the way to a drain.
WakeInv ==
    fpc # "drain" /\ Len(buffer) * 2 >= Cap =>
        notify \/ \E r \in Requests : hpc[r] = "signal"

\* A token is consumed on the way to a drain only, and a drain empties the buffer.
LEMMA WakeStep ==
    ASSUME Batch >= Cap PROVE TypeInv /\ WakeInv /\ [Next]_vars => WakeInv'
<1> SUFFICES ASSUME TypeInv, WakeInv, [Next]_vars PROVE WakeInv'
  OBVIOUS
<1>0. TypeOK /\ Cap \in Nat \ {0} /\ Batch \in Nat
  BY IngestAssumption DEF TypeInv
<1>1. ASSUME NEW r \in Requests, BufferAppend(r) PROVE WakeInv'
  <2>0. UNCHANGED <<fpc, notify>> /\ hpc[r] = "append"
    BY <1>1 DEF BufferAppend, flusher
  <2>1. CASE UNCHANGED queue /\ hpc' = [hpc EXCEPT ![r] = "rejected"]
    <3>1. \A q \in Requests : hpc[q] = "signal" => hpc'[q] = "signal"
      BY <1>0, <2>0, <2>1 DEF TypeOK
    <3>2. QED
      BY <2>0, <2>1, <3>1 DEF WakeInv, queue
  <2>2. CASE /\ Len(buffer') = Len(buffer) + Size[r]
             /\ hpc' = [hpc EXCEPT ![r] = IF Size[r] > 0 /\ Len(buffer') * 2 >= Cap
                                          THEN "signal" ELSE "reply"]
    <3>1. CASE Size[r] > 0 /\ Len(buffer') * 2 >= Cap
      <4>1. hpc'[r] = "signal"
        BY <1>0, <2>2, <3>1 DEF TypeOK
      <4>2. QED
        BY <4>1 DEF WakeInv
    <3>2. CASE Size[r] = 0
      <4>1. \A q \in Requests : hpc[q] = "signal" => hpc'[q] = "signal"
        BY <1>0, <2>0, <2>2 DEF TypeOK
      <4>2. Len(buffer') = Len(buffer)
        BY <1>0, <2>2, <3>2, LenProperties DEF TypeOK
      <4>3. QED
        BY <2>0, <4>1, <4>2 DEF WakeInv
    <3>3. CASE ~(Len(buffer') * 2 >= Cap)
      BY <3>3 DEF WakeInv
    <3>4. QED
      BY <3>1, <3>2, <3>3, BodyShape
  <2>3. QED
    BY <1>1, <2>1, <2>2, AppendShape
<1>2. ASSUME NEW r \in Requests, Arrive(r) \/ Reply(r) PROVE WakeInv'
  <2>1. \A q \in Requests : hpc[q] = "signal" => hpc'[q] = "signal"
    BY <1>0, <1>2 DEF Arrive, Reply, TypeOK
  <2>2. QED
    BY <1>2, <2>1 DEF Arrive, Reply, WakeInv, queue, flusher
<1>3. ASSUME NEW r \in Requests, Signal(r) PROVE WakeInv'
  BY <1>3 DEF Signal, WakeInv
<1>4. CASE Wake
  BY <1>4 DEF Wake, WakeInv
<1>5. CASE Drain
  <2>1. Len(buffer') = 0
    BY <1>0, <1>5, DrainShape
  <2>2. QED
    BY <1>0, <2>1 DEF WakeInv
<1>6. CASE Store \/ Publish
  BY <1>6 DEF Store, Publish, WakeInv, queue
<1>7. CASE Cancel \/ Shutdown \/ ShutdownReturns \/ Exit
  BY <1>7 DEF Cancel, Shutdown, ShutdownReturns, Exit, WakeInv, queue, flusher
<1>8. CASE UNCHANGED vars
  BY <1>8 DEF vars, WakeInv, queue, flusher
<1>9. QED
  BY <1>1, <1>2, <1>3, <1>4, <1>5, <1>6, <1>7, <1>8
     DEF Next, HandlerStep, FlusherStep, MainStep

\* No wake-up of a half-full buffer is lost: the signal is sent outside the
\* buffer's mutex and dropped when a token is there, but before the flusher
\* can be back in select the token or its sender is there.
THEOREM HalfFullWakesAlways == ASSUME Batch >= Cap PROVE Spec => []HalfFullWakes
<1>1. Init => WakeInv
  <2>1. Cap \in Nat \ {0} /\ Len(<<>>) = 0
    BY IngestAssumption, EmptySeq
  <2>2. QED
    BY <2>1 DEF Init, WakeInv
<1>2. TypeInv /\ WakeInv /\ [Next]_vars => WakeInv'
  BY WakeStep
<1>3. WakeInv => HalfFullWakes
  BY DEF WakeInv, HalfFullWakes
<1>4. QED
  BY <1>1, <1>2, <1>3, TypeInit, TypeStep, PTL DEF Spec

(***************************************************************************)
(* The final drain.                                                        *)
(***************************************************************************)
Seen == Elements(handed) \cup Elements(batch) \cup Elements(buffer)

\* What is accepted is somewhere on its way, and the flusher leaves only after
\* a drain that found nothing, which began after the last early acceptance.
DrainInv ==
    /\ final => cancelled
    /\ fpc = "exited" => final
    /\ ~up => fpc = "exited"
    /\ \A r \in Requests : hpc[r] \in {"signal", "reply", "accepted"} =>
          Elements(Body(r)) \subseteq Seen
    /\ \A r \in early : r \in Requests /\ hpc[r] = "accepted"
    /\ fpc = "exited" => \A r \in early : Elements(Body(r)) \subseteq Elements(handed)

\* No step makes an event that was seen disappear.
LEMMA SeenGrows ==
    ASSUME TypeInv, [Next]_vars
    PROVE  Seen \subseteq Seen' /\ Elements(handed) \subseteq Elements(handed)'
<1>0. handed \in Seq(Event) /\ batch \in Seq(Event) /\ buffer \in Seq(Event)
  BY DEF TypeInv, TypeOK, Event
<1>1. ASSUME NEW r \in Requests, BufferAppend(r)
      PROVE Seen \subseteq Seen' /\ Elements(handed) \subseteq Elements(handed)'
  <2>1. UNCHANGED <<handed, batch>>
    BY <1>1 DEF BufferAppend, flusher
  <2>2. buffer' = buffer \/ buffer' = buffer \o Body(r)
    BY <1>1 DEF BufferAppend, queue
  <2>3. Elements(buffer) \subseteq Elements(buffer')
    BY <1>0, <2>2, BodyShape, ElementsConcat
  <2>4. QED
    BY <2>1, <2>3 DEF Seen, Elements
<1>2. CASE Drain
  <2>1. batch = <<>> /\ batch' \o buffer' = buffer /\ handed' = handed
        /\ batch' \in Seq(Event) /\ buffer' \in Seq(Event)
    BY <1>2, DrainShape DEF Drain
  <2>2. Elements(buffer) = Elements(batch') \cup Elements(buffer')
    BY <2>1, ElementsConcat
  <2>3. Elements(batch) = {}
    BY <2>1 DEF Elements
  <2>4. QED
    BY <2>1, <2>2, <2>3 DEF Seen, Elements
<1>3. CASE Store
  <2>1. handed' = handed \o batch /\ buffer' = buffer
    BY <1>3 DEF Store, queue
  <2>2. Elements(handed') = Elements(handed) \cup Elements(batch)
    BY <1>0, <2>1, ElementsConcat
  <2>3. QED
    BY <2>1, <2>2 DEF Seen, Elements
<1>4. CASE UNCHANGED <<handed, batch, buffer>>
  BY <1>4 DEF Seen, Elements
<1>5. ASSUME NEW r \in Requests, Arrive(r) \/ Signal(r) \/ Reply(r)
      PROVE UNCHANGED <<handed, batch, buffer>>
  BY <1>5 DEF Arrive, Signal, Reply, queue, flusher
<1>6. ASSUME Wake \/ Publish \/ Cancel \/ Shutdown \/ ShutdownReturns \/ Exit
             \/ UNCHANGED vars
      PROVE UNCHANGED <<handed, batch, buffer>>
  BY <1>6 DEF Wake, Publish, Cancel, Shutdown, ShutdownReturns, Exit, vars, queue, flusher
<1>7. QED
  BY <1>1, <1>2, <1>3, <1>4, <1>5, <1>6 DEF Next, HandlerStep, FlusherStep, MainStep

\* Steps that leave the requests and the flusher's control alone keep DrainInv.
LEMMA DrainKeeps ==
    ASSUME TypeInv, DrainInv, [Next]_vars, UNCHANGED <<hpc, early, fpc, final>>,
           cancelled => cancelled', ~up' => ~up \/ fpc = "exited"
    PROVE  DrainInv'
BY SeenGrows DEF DrainInv

\* Drain and Store move events on, and the last drain found none.
LEMMA DrainStep == TypeInv /\ DrainInv /\ [Next]_vars => DrainInv'
<1> SUFFICES ASSUME TypeInv, DrainInv, [Next]_vars PROVE DrainInv'
  OBVIOUS
<1>0. /\ TypeOK /\ Seen \subseteq Seen'
      /\ Elements(handed) \subseteq Elements(handed)'
  BY SeenGrows DEF TypeInv
<1>1. ASSUME NEW r \in Requests, BufferAppend(r) PROVE DrainInv'
  <2>1. UNCHANGED <<fpc, final, cancelled, up, handed, batch, early>>
        /\ hpc[r] = "append" /\ hpc' = [hpc EXCEPT ![r] = hpc'[r]]
    BY <1>0, <1>1 DEF BufferAppend, flusher, proc, TypeOK
  <2>2. hpc'[r] # "rejected" => Elements(Body(r)) \subseteq Seen'
    <3>1. hpc'[r] # "rejected" => buffer' = buffer \o Body(r)
      BY <1>0, <1>1 DEF BufferAppend, TypeOK
    <3>2. buffer \in Seq(Event) /\ Body(r) \in Seq(Event)
      BY <1>0, BodyShape DEF TypeOK, Event
    <3>3. hpc'[r] # "rejected" => Elements(Body(r)) \subseteq Elements(buffer')
      BY <3>1, <3>2, ElementsConcat
    <3>4. QED
      BY <3>3 DEF Seen, Elements
  <2>3. \A q \in Requests : q # r => hpc'[q] = hpc[q]
    BY <1>0, <2>1 DEF TypeOK
  <2>4. \A q \in Requests : hpc'[q] \in {"signal", "reply", "accepted"} =>
           Elements(Body(q)) \subseteq Seen'
    BY <1>0, <2>2, <2>3 DEF DrainInv
  <2>5. \A q \in early : q \in Requests /\ hpc'[q] = "accepted"
    BY <2>1, <2>3 DEF DrainInv
  <2>6. QED
    BY <1>0, <2>1, <2>4, <2>5 DEF DrainInv
<1>2. ASSUME NEW r \in Requests, Arrive(r) \/ Signal(r) PROVE DrainInv'
  <2>1. UNCHANGED <<fpc, final, cancelled, up, handed, early>>
        /\ hpc[r] \in {"new", "signal"}
        /\ hpc' = [hpc EXCEPT ![r] = IF hpc[r] = "new" THEN "append" ELSE "reply"]
    BY <1>2 DEF Arrive, Signal, flusher, proc
  <2>2. \A q \in Requests : hpc'[q] \in {"signal", "reply", "accepted"} =>
           hpc[q] \in {"signal", "reply", "accepted"}
    BY <1>0, <2>1 DEF TypeOK
  <2>3. \A q \in Requests : hpc[q] = "accepted" => hpc'[q] = "accepted"
    BY <1>0, <2>1 DEF TypeOK
  <2>4. QED
    BY <1>0, <2>1, <2>2, <2>3 DEF DrainInv
<1>3. ASSUME NEW r \in Requests, Reply(r) PROVE DrainInv'
  <2>1. UNCHANGED <<fpc, final, cancelled, up, handed>>
        /\ hpc[r] = "reply" /\ hpc' = [hpc EXCEPT ![r] = "accepted"]
        /\ early' = IF cancelled THEN early ELSE early \cup {r}
    BY <1>3 DEF Reply, flusher, proc
  <2>2. \A q \in Requests : hpc'[q] \in {"signal", "reply", "accepted"} =>
           hpc[q] \in {"signal", "reply", "accepted"}
    BY <1>0, <2>1 DEF TypeOK
  <2>3. \A q \in early' : q \in Requests /\ hpc'[q] = "accepted"
    BY <1>0, <2>1 DEF TypeOK, DrainInv
  <2>4. fpc = "exited" => early' = early
    BY <2>1 DEF DrainInv
  <2>5. QED
    BY <1>0, <2>1, <2>2, <2>3, <2>4 DEF DrainInv
<1>4. CASE Wake
  <2>1. /\ UNCHANGED <<hpc, early, handed, cancelled, up>>
        /\ fpc' = "drain" /\ fpc = "select" /\ up
        /\ final' => final \/ cancelled
    BY <1>0, <1>4 DEF Wake, proc, TypeOK
  <2>2. QED
    BY <1>0, <2>1 DEF DrainInv
<1>5. CASE Drain
  <2>1. /\ UNCHANGED <<hpc, early, handed, cancelled, up, final>> /\ up
        /\ fpc' = "exited" => final /\ buffer = <<>>
    BY <1>5 DEF Drain, proc
  <2>2. batch = <<>>
    BY <1>5, DrainShape
  <2>3. fpc' = "exited" => Seen = Elements(handed)
    BY <2>1, <2>2 DEF Seen, Elements
  <2>4. fpc' = "exited" => \A r \in early : Elements(Body(r)) \subseteq Elements(handed)
    BY <2>3 DEF DrainInv
  <2>5. QED
    BY <1>0, <2>1, <2>4 DEF DrainInv
<1>6. CASE Store \/ Publish
  <2>1. /\ UNCHANGED <<hpc, early, cancelled, up, final>> /\ up
        /\ fpc' \in {"publish", "drain", "select"}
    BY <1>6 DEF Store, Publish, proc
  <2>2. QED
    BY <1>0, <2>1 DEF DrainInv
<1>7. CASE Cancel \/ Shutdown \/ ShutdownReturns \/ Exit \/ UNCHANGED vars
  <2>1. UNCHANGED <<hpc, early, fpc, final>>
    BY <1>7 DEF Cancel, Shutdown, ShutdownReturns, Exit, vars, flusher
  <2>2. (cancelled => cancelled') /\ (~up' => ~up \/ fpc = "exited")
    BY <1>7 DEF Cancel, Shutdown, ShutdownReturns, Exit, vars, proc
  <2>3. QED
    BY <2>1, <2>2, DrainKeeps
<1>8. QED
  BY <1>1, <1>2, <1>3, <1>4, <1>5, <1>6, <1>7
     DEF Next, HandlerStep, FlusherStep, MainStep

\* A clean exit leaves behind no event acknowledged before the cancellation,
\* wherever the flusher then was (drainAll).
THEOREM EarlyAcceptedIsHandedAlways == Spec => []EarlyAcceptedIsHanded
<1>1. Init => DrainInv
  BY DEF Init, DrainInv
<1>2. TypeInv /\ DrainInv /\ [Next]_vars => DrainInv'
  BY DrainStep
<1>3. DrainInv => EarlyAcceptedIsHanded
  <2> SUFFICES ASSUME DrainInv, ~up, NEW r \in early, NEW i \in 1..Size[r]
               PROVE <<r, i>> \in Elements(handed)
    BY DEF EarlyAcceptedIsHanded
  <2>1. r \in Requests /\ Elements(Body(r)) \subseteq Elements(handed)
    BY DEF DrainInv
  <2>2. <<r, i>> \in Elements(Body(r))
    BY <2>1, BodyShape
  <2>3. QED
    BY <2>1, <2>2
<1>4. QED
  BY <1>1, <1>2, <1>3, TypeInit, TypeStep, PTL DEF Spec

(***************************************************************************)
(* The buffer and the flusher implement IngestQueue: Outcomes, Log and the *)
(* two lengths are what the refinement mapping substitutes.                *)
(***************************************************************************)
Outcomes == [r \in Requests |-> Outcome(r)]
Log      == handed \o batch \o buffer
Taken    == Len(handed) + Len(batch)
Handed   == Len(handed)
mapped   == <<Outcomes, Log, Taken, Handed>>

\* The length of the log, and what is still to be taken of it.
LEMMA LogShape ==
    ASSUME TypeOK
    PROVE  /\ handed \in Seq(Event) /\ batch \in Seq(Event) /\ buffer \in Seq(Event)
           /\ Len(handed) \in Nat /\ Len(batch) \in Nat /\ Len(buffer) \in Nat
           /\ handed \o batch \in Seq(Event) /\ Len(handed \o batch) = Taken
           /\ Log \in Seq(Event) /\ Len(Log) = Taken + Len(buffer) /\ Taken \in Nat
<1>1. /\ handed \in Seq(Event) /\ batch \in Seq(Event) /\ buffer \in Seq(Event)
      /\ Len(handed) \in Nat /\ Len(batch) \in Nat /\ Len(buffer) \in Nat
  BY LenProperties DEF TypeOK, Event
<1>2. handed \o batch \in Seq(Event) /\ Len(handed \o batch) = Taken
  BY <1>1, ConcatProperties DEF Taken
<1>3. Log \in Seq(Event) /\ Len(Log) = Taken + Len(buffer)
  BY <1>1, <1>2, ConcatProperties DEF Log
<1>4. QED
  BY <1>1, <1>2, <1>3 DEF Taken

\* Concatenation of event sequences is associative.
LEMMA ConcatRegroup ==
    ASSUME NEW s \in Seq(Event), NEW t \in Seq(Event), NEW u \in Seq(Event)
    PROVE  (s \o t) \o u = s \o (t \o u)
  BY ConcatAssociative

\* An empty buffer and no answers are the initial queue.
LEMMA RefineInit == Init => Queue!Init
<1> SUFFICES ASSUME Init PROVE Queue!Init
  OBVIOUS
<1>1. /\ handed = <<>> /\ batch = <<>> /\ buffer = <<>>
      /\ \A r \in Requests : hpc[r] = "new"
  BY DEF Init
<1>2. <<>> \o <<>> \o <<>> = <<>> /\ Len(<<>>) = 0
  BY EmptySeq, ConcatEmptySeq
<1>3. [r \in Requests |-> Outcome(r)] = [r \in Requests |-> "none"]
  BY <1>1 DEF Outcome
<1>4. QED
  BY <1>1, <1>2, <1>3 DEF Queue!Init

\* Append is Accept or Reject, and tells which.
LEMMA RefineAppend ==
    ASSUME TypeInv, NEW r \in Requests, BufferAppend(r)
    PROVE  Queue!Accept(r) \/ Queue!Reject(r)
<1>0. TypeOK /\ hpc[r] = "append" /\ UNCHANGED <<handed, batch>>
  BY DEF TypeInv, BufferAppend, flusher
<1>1. Outcomes[r] = "none" /\ UNCHANGED <<Taken, Handed>>
  BY <1>0 DEF Outcomes, Outcome, Taken, Handed
<1>2. Len(Log) - Taken = Len(buffer) /\ Len(buffer) \in Nat /\ Size[r] \in Nat
      /\ Cap \in Nat
  <2>1. Len(Log) = Taken + Len(buffer) /\ Taken \in Nat /\ Len(buffer) \in Nat
    BY <1>0, LogShape
  <2>2. Size[r] \in Nat /\ Cap \in Nat
    BY IngestAssumption
  <2>3. QED
    BY <2>1, <2>2
<1>3. CASE /\ UNCHANGED queue /\ hpc' = [hpc EXCEPT ![r] = "rejected"]
           /\ Len(buffer) + Size[r] > Cap
  <2>1. Outcomes' = [Outcomes EXCEPT ![r] = "rejected"]
    BY <1>0, <1>3 DEF Outcomes, Outcome, TypeOK
  <2>2. Log' = Log
    BY <1>0, <1>3 DEF Log, queue
  <2>3. ~(Len(Log) - Taken + Size[r] <= Cap)
    BY <1>2, <1>3
  <2>4. QED
    BY <1>1, <2>1, <2>2, <2>3
       DEF Queue!Reject, Queue!Fits, Outcomes, Log, Taken, Handed
<1>4. CASE /\ buffer' = buffer \o Body(r)
           /\ Len(buffer') = Len(buffer) + Size[r] /\ Len(buffer') <= Cap
           /\ hpc' = [hpc EXCEPT ![r] = IF Size[r] > 0 /\ Len(buffer') * 2 >= Cap
                                        THEN "signal" ELSE "reply"]
  <2>1. Outcomes' = [Outcomes EXCEPT ![r] = "accepted"]
    BY <1>0, <1>4 DEF Outcomes, Outcome, TypeOK
  <2>2. Log' = Log \o Body(r)
    <3>1. ((handed \o batch) \o buffer) \o Body(r) = (handed \o batch) \o (buffer \o Body(r))
      <4>1. handed \o batch \in Seq(Event) /\ buffer \in Seq(Event)
        BY <1>0, LogShape
      <4>2. Body(r) \in Seq(Event)
        BY BodyShape
      <4>3. QED
        BY <4>1, <4>2, ConcatRegroup
    <3>2. QED
      BY <1>0, <1>4, <3>1 DEF Log
  <2>3. Len(Log) - Taken + Size[r] <= Cap
    BY <1>2, <1>4
  <2>4. Queue!Body(r) = Body(r)
    BY DEF Queue!Body, Body
  <2>5. QED
    BY <1>1, <2>1, <2>2, <2>3, <2>4
       DEF Queue!Accept, Queue!Fits, Outcomes, Log, Taken, Handed
<1>5. QED
  BY <1>3, <1>4, AppendShape

\* A drain takes the head of the queue, or nothing from an empty one.
LEMMA RefineDrain ==
    ASSUME TypeInv, Drain PROVE Queue!Take \/ UNCHANGED mapped
<1>0. TypeOK /\ UNCHANGED <<hpc, handed>>
  BY DEF TypeInv, Drain
<1>1. Outcomes' = Outcomes /\ Handed' = Handed
  BY <1>0 DEF Outcomes, Outcome, Handed
<1>2. Taken = Handed /\ Taken' = Taken + Len(batch')
  <2>1. batch = <<>> /\ Len(<<>>) = 0
    BY DrainShape, EmptySeq
  <2>2. QED
    BY <1>0, <2>1, LogShape, DrainShape DEF Taken, Handed
<1>3. Log' = Log
  <2>1. handed \o <<>> = handed
    BY <1>0, LogShape, ConcatEmptySeq
  <2>2. (handed \o batch') \o buffer' = handed \o (batch' \o buffer')
    <3>1. handed \in Seq(Event)
      BY <1>0, LogShape
    <3>2. batch' \in Seq(Event) /\ buffer' \in Seq(Event)
      BY DrainShape
    <3>3. QED
      BY <3>1, <3>2, ConcatRegroup
  <2>3. QED
    BY <1>0, <2>1, <2>2, DrainShape DEF Log
<1>4. Len(Log) - Taken = Len(buffer) /\ Len(batch') \in Nat /\ Taken \in Nat
      /\ Len(batch') <= Len(buffer) /\ Len(buffer) \in Nat
  BY <1>0, LogShape, DrainShape
<1>5. CASE Len(batch') = 0
  BY <1>1, <1>2, <1>3, <1>4, <1>5 DEF mapped
<1>6. CASE Len(batch') # 0
  <2>1. Len(batch') \in 1..(Len(Log) - Taken)
    BY <1>4, <1>6
  <2>2. QED
    BY <1>1, <1>2, <1>3, <2>1 DEF Queue!Take, Outcomes, Log, Taken, Handed
<1>7. QED
  BY <1>5, <1>6

\* The flush function is handed what was taken.
LEMMA RefineStore ==
    ASSUME TypeInv, Store PROVE Queue!HandOver \/ UNCHANGED mapped
<1>0. /\ TypeOK /\ UNCHANGED <<hpc, buffer>>
      /\ handed' = handed \o batch /\ batch' = <<>>
  BY DEF TypeInv, Store, queue
<1>1. Outcomes' = Outcomes
  BY <1>0 DEF Outcomes, Outcome
<1>2. Len(<<>>) = 0 /\ (handed \o batch) \o <<>> = handed \o batch
  BY <1>0, LogShape, EmptySeq, ConcatEmptySeq
<1>3. Log' = Log /\ Handed' = Taken /\ Taken' = Taken
  BY <1>0, <1>2, LogShape DEF Log, Taken, Handed
<1>4. CASE Handed < Taken
  BY <1>1, <1>3, <1>4 DEF Queue!HandOver, Outcomes, Log, Taken, Handed
<1>5. CASE ~(Handed < Taken)
  <2>1. Handed = Taken
    BY <1>0, <1>5, LogShape DEF Handed, Taken
  <2>2. QED
    BY <1>1, <1>3, <2>1 DEF mapped
<1>6. QED
  BY <1>4, <1>5

\* Every step is one of the queue, or changes nothing it sees.
LEMMA RefineStep == TypeInv /\ [Next]_vars => [Queue!Next]_mapped
<1> SUFFICES ASSUME TypeInv, [Next]_vars PROVE Queue!Next \/ UNCHANGED mapped
  OBVIOUS
<1>1. ASSUME NEW r \in Requests, BufferAppend(r) PROVE Queue!Next
  BY <1>1, RefineAppend DEF Queue!Next
<1>2. ASSUME NEW r \in Requests, Arrive(r) \/ Signal(r) \/ Reply(r)
      PROVE UNCHANGED mapped
  <2>1. UNCHANGED <<handed, batch, buffer>>
    BY <1>2 DEF Arrive, Signal, Reply, queue, flusher
  <2>2. Outcomes' = Outcomes
    BY <1>2 DEF Arrive, Signal, Reply, Outcomes, Outcome, TypeInv, TypeOK
  <2>3. QED
    BY <2>1, <2>2 DEF mapped, Log, Taken, Handed
<1>3. CASE Drain
  BY <1>3, RefineDrain DEF Queue!Next
<1>4. CASE Store
  BY <1>4, RefineStore DEF Queue!Next
<1>5. CASE Wake \/ Publish \/ Cancel \/ Shutdown \/ ShutdownReturns \/ Exit
           \/ UNCHANGED vars
  <2>1. UNCHANGED <<hpc, handed, batch, buffer>>
    BY <1>5 DEF Wake, Publish, Cancel, Shutdown, ShutdownReturns, Exit, vars, queue,
                flusher
  <2>2. QED
    BY <2>1 DEF mapped, Outcomes, Outcome, Log, Taken, Handed
<1>6. QED
  BY <1>1, <1>2, <1>3, <1>4, <1>5 DEF Next, HandlerStep, FlusherStep, MainStep

\* Handlers, buffer and flusher implement the bounded queue that takes bodies
\* whole or not at all and hands every event over once and in order, whatever
\* the sizes, the capacity and the number of concurrent requests.
THEOREM IngestImplementsQueue == Spec => IsQueue
<1>1. Spec => []TypeInv
  BY TypeInit, TypeStep, PTL DEF Spec
<1>2. TypeInv /\ [Next]_vars => [Queue!Next]_<<Outcomes, Log, Taken, Handed>>
  BY RefineStep DEF mapped
<1>3. QED
  BY <1>1, <1>2, RefineInit, PTL
     DEF Spec, IsQueue, Queue!Spec, Outcomes, Log, Taken, Handed
=============================================================================
