---------------------------- MODULE LiveTailProofs ----------------------------
(***************************************************************************)
(* Proofs about LiveTail, for any number of clients, any capacities and    *)
(* any environment: the invariant of LiveTailInv is inductive, and with it *)
(* the slots, the registry, the events on their way and the status frames  *)
(* are what the properties say.                                            *)
(***************************************************************************)
EXTENDS LiveTailInv, FiniteSetTheorems, SequenceTheorems, WellFoundedInduction, TLAPS

-----------------------------------------------------------------------------
(* Lines of frames. *)

LEMMA FrameFacts ==
    ASSUME NEW f \in Frames
    PROVE  f.event \in Nat /\ f.filter \in Filters \cup {""} /\ f.capped \in BOOLEAN
           /\ f.dropped \in Nat
BY DEF Frames

\* A frame is added behind the others.
LEMMA FrameAdded ==
    ASSUME NEW P \in Seq(Frames), NEW f \in Frames
    PROVE  /\ Append(P, f) \in Seq(Frames)
           /\ EventsIn(Append(P, f)) = EventsIn(P) \cup ({f.event} \ {0})
           /\ EventsAscend(P) /\ Below(EventsIn(P), {f.event} \ {0}) => EventsAscend(Append(P, f))
<1> DEFINE Q == Append(P, f)
<1>1. /\ Q \in Seq(Frames) /\ Len(Q) = Len(P) + 1 /\ Len(P) \in Nat
      /\ \A i \in 1..Len(P) : Q[i] = P[i]
      /\ Q[Len(P) + 1] = f
      /\ DOMAIN P = 1..Len(P) /\ DOMAIN Q = 1..Len(P) + 1
  OBVIOUS
<1> HIDE DEF Q
<1>2. EventsIn(Q) = EventsIn(P) \cup ({f.event} \ {0})
  BY <1>1 DEF EventsIn
<1>3. ASSUME EventsAscend(P), Below(EventsIn(P), {f.event} \ {0})
      PROVE  EventsAscend(Q)
  BY <1>1, <1>3 DEF EventsAscend, Below, EventsIn
<1>4. QED
  BY <1>1, <1>2, <1>3 DEF Q

\* A status that is added is the last; an event that is added matches it.
LEMMA StatusAdded ==
    ASSUME NEW P \in Seq(Frames), NEW f \in Frames, NEW t \in Frames,
           NEW filter, NEW capped, f.event = 0, Tells(f, filter, capped), EventsAcked(t, P)
    PROVE  LastTells(t, Append(P, f), filter, capped) /\ EventsAcked(t, Append(P, f))
<1> DEFINE Q == Append(P, f)
<1>1. /\ Len(P) \in Nat
      /\ \A i \in 1..Len(P) : Q[i] = P[i]
      /\ Q[Len(P) + 1] = f
      /\ DOMAIN P = 1..Len(P) /\ DOMAIN Q = 1..Len(P) + 1
  OBVIOUS
<1> HIDE DEF Q
<1>2. LastTells(t, Q, filter, capped)
  <2>1. Q[Len(P) + 1].event = 0 /\ Len(P) + 1 \in DOMAIN Q
    BY <1>1
  <2>2. ASSUME NEW k \in DOMAIN Q, \A m \in DOMAIN Q : m > k => Q[m].event # 0
        PROVE  Tells(Q[k], filter, capped)
    <3>1. k = Len(P) + 1
      BY <1>1, <2>1, <2>2
    <3>2. QED
      BY <3>1, <1>1
  <2>3. QED
    BY <2>1, <2>2 DEF LastTells
<1>3. EventsAcked(t, Q)
  <2> SUFFICES ASSUME NEW i \in DOMAIN Q, Q[i].event # 0
               PROVE  /\ (\A k \in 1..i - 1 : Q[k].event # 0) => Acks(t, Q[i])
                      /\ \A k \in 1..i - 1 :
                            Q[k].event = 0 /\ (\A m \in k + 1..i - 1 : Q[m].event # 0) =>
                               Acks(Q[k], Q[i])
    BY DEF EventsAcked
  <2>1. i \in 1..Len(P) /\ Q[i] = P[i] /\ \A k \in 1..i - 1 : Q[k] = P[k] /\ k \in 1..Len(P)
    BY <1>1
  <2>2. \A k \in 1..i - 1 : \A m \in k + 1..i - 1 : m \in 1..i - 1
    BY <1>1, <2>1
  <2>3. QED
    BY <1>1, <2>1, <2>2 DEF EventsAcked
<1>4. QED
  BY <1>2, <1>3 DEF Q

LEMMA EventAdded ==
    ASSUME NEW P \in Seq(Frames), NEW f \in Frames, NEW t \in Frames,
           NEW filter \in Filters, NEW capped, f.event # 0, Match(filter, f.event),
           LastTells(t, P, filter, capped), EventsAcked(t, P)
    PROVE  LastTells(t, Append(P, f), filter, capped) /\ EventsAcked(t, Append(P, f))
<1> DEFINE Q == Append(P, f)
<1>1. /\ Len(P) \in Nat
      /\ \A i \in 1..Len(P) : Q[i] = P[i]
      /\ Q[Len(P) + 1] = f
      /\ DOMAIN P = 1..Len(P) /\ DOMAIN Q = 1..Len(P) + 1
  OBVIOUS
<1> HIDE DEF Q
<1>2. LastTells(t, Q, filter, capped)
  <2>1. ASSUME \A k \in DOMAIN Q : Q[k].event # 0
        PROVE  Tells(t, filter, capped)
    <3>1. \A k \in DOMAIN P : P[k].event # 0
      BY <1>1, <2>1
    <3>2. QED
      BY <3>1 DEF LastTells
  <2>2. ASSUME NEW k \in DOMAIN Q, Q[k].event = 0, \A m \in DOMAIN Q : m > k => Q[m].event # 0
        PROVE  Tells(Q[k], filter, capped)
    <3>1. k \in DOMAIN P /\ Q[k] = P[k]
      BY <1>1, <2>2
    <3>2. \A m \in DOMAIN P : m > k => P[m].event # 0
      BY <1>1, <2>2
    <3>3. QED
      BY <2>2, <3>1, <3>2 DEF LastTells
  <2>3. QED
    BY <2>1, <2>2 DEF LastTells
<1>3. EventsAcked(t, Q)
  <2> SUFFICES ASSUME NEW i \in DOMAIN Q, Q[i].event # 0
               PROVE  /\ (\A k \in 1..i - 1 : Q[k].event # 0) => Acks(t, Q[i])
                      /\ \A k \in 1..i - 1 :
                            Q[k].event = 0 /\ (\A m \in k + 1..i - 1 : Q[m].event # 0) =>
                               Acks(Q[k], Q[i])
    BY DEF EventsAcked
  <2>1. CASE i \in 1..Len(P)
    <3>1. Q[i] = P[i] /\ \A k \in 1..i - 1 : Q[k] = P[k] /\ k \in 1..Len(P)
      BY <1>1, <2>1
    <3>2. \A k \in 1..i - 1 : \A m \in k + 1..i - 1 : m \in 1..i - 1
      BY <1>1, <2>1
    <3>3. QED
      BY <1>1, <2>1, <3>1, <3>2 DEF EventsAcked
  <2>2. CASE i = Len(P) + 1
    <3>1. Q[i] = f /\ 1..i - 1 = DOMAIN P
      BY <1>1, <2>2
    <3>2. ASSUME NEW s, Tells(s, filter, capped)
          PROVE  Acks(s, f)
      BY <3>2 DEF Tells, Acks
    <3>3. (\A k \in 1..i - 1 : Q[k].event # 0) => Acks(t, Q[i])
      BY <1>1, <3>1, <3>2 DEF LastTells
    <3>4. ASSUME NEW k \in 1..i - 1, Q[k].event = 0, \A m \in k + 1..i - 1 : Q[m].event # 0
          PROVE  Acks(Q[k], Q[i])
      <4>1. k \in DOMAIN P /\ P[k].event = 0 /\ Q[k] = P[k]
        BY <1>1, <3>1, <3>4
      <4>2. \A m \in DOMAIN P : m > k => P[m].event # 0
        BY <1>1, <2>2, <3>4, <4>1
      <4>3. Tells(P[k], filter, capped)
        BY <4>1, <4>2 DEF LastTells
      <4>4. QED
        BY <3>1, <3>2, <4>1, <4>3
    <3>5. QED
      BY <3>3, <3>4
  <2>3. QED
    BY <1>1, <2>1, <2>2
<1>4. QED
  BY <1>2, <1>3 DEF Q

\* The first frame leaves.
LEMMA FrameLeaves ==
    ASSUME NEW P \in Seq(Frames), P # <<>>
    PROVE  /\ Tail(P) \in Seq(Frames) /\ Head(P) \in Frames
           /\ EventsIn(P) = EventsIn(Tail(P)) \cup ({Head(P).event} \ {0})
           /\ EventsAscend(P) => EventsAscend(Tail(P))
                                 /\ Below({Head(P).event} \ {0}, EventsIn(Tail(P)))
<1> DEFINE Q == Tail(P)
           f == Head(P)
<1>1. /\ Len(P) \in Nat \ {0} /\ Q \in Seq(Frames) /\ f \in Frames /\ f = P[1]
      /\ \A i \in 1..Len(P) - 1 : Q[i] = P[i + 1]
      /\ DOMAIN P = 1..Len(P) /\ DOMAIN Q = 1..Len(P) - 1
  OBVIOUS
<1> HIDE DEF Q, f
<1>2. \A i \in DOMAIN P : i = 1 \/ (i - 1 \in DOMAIN Q /\ Q[i - 1] = P[i])
  BY <1>1
<1>3. \A i \in DOMAIN Q : i + 1 \in DOMAIN P /\ Q[i] = P[i + 1]
  BY <1>1
<1>4. EventsIn(P) = EventsIn(Q) \cup ({f.event} \ {0})
  <2>1. \A i \in DOMAIN P : P[i].event \in {Q[k].event : k \in DOMAIN Q} \cup {f.event}
    BY <1>1, <1>2
  <2>2. \A i \in DOMAIN Q : Q[i].event \in {P[k].event : k \in DOMAIN P}
    BY <1>3
  <2>3. f.event \in {P[k].event : k \in DOMAIN P}
    BY <1>1
  <2>4. QED
    BY <2>1, <2>2, <2>3 DEF EventsIn
<1>5. ASSUME EventsAscend(P)
      PROVE  EventsAscend(Q) /\ Below({f.event} \ {0}, EventsIn(Q))
  <2>1. EventsAscend(Q)
    <3> SUFFICES ASSUME NEW i \in DOMAIN Q, NEW k \in DOMAIN Q, i < k,
                        Q[i].event # 0, Q[k].event # 0
                 PROVE  Q[i].event < Q[k].event
      BY DEF EventsAscend
    <3>1. i + 1 \in DOMAIN P /\ k + 1 \in DOMAIN P /\ i + 1 < k + 1
          /\ Q[i] = P[i + 1] /\ Q[k] = P[k + 1]
      BY <1>1, <1>3
    <3>2. QED
      BY <3>1, <1>5 DEF EventsAscend
  <2>2. Below({f.event} \ {0}, EventsIn(Q))
    BY <1>1, <1>3, <1>5 DEF EventsAscend, Below, EventsIn
  <2>3. QED
    BY <2>1, <2>2
<1>6. QED
  BY <1>1, <1>4, <1>5 DEF Q, f

\* A status that leaves is the one told.
LEMMA LineMovesOn ==
    ASSUME NEW P \in Seq(Frames), P # <<>>, NEW t \in Frames, NEW filter, NEW capped,
           LastTells(t, P, filter, capped), EventsAcked(t, P),
           NEW u, u = IF Head(P).event = 0 THEN Head(P) ELSE t
    PROVE  /\ LastTells(u, Tail(P), filter, capped) /\ EventsAcked(u, Tail(P))
           /\ Head(P).event # 0 => Acks(t, Head(P))
<1> DEFINE Q == Tail(P)
           f == Head(P)
<1>1. /\ Len(P) \in Nat \ {0} /\ f = P[1]
      /\ \A i \in 1..Len(P) - 1 : Q[i] = P[i + 1]
      /\ DOMAIN P = 1..Len(P) /\ DOMAIN Q = 1..Len(P) - 1
  OBVIOUS
<1> HIDE DEF Q, f
<1>u. u = IF f.event = 0 THEN f ELSE t
  BY DEF f
<1>2. \A i \in DOMAIN P : i = 1 \/ (i - 1 \in DOMAIN Q /\ Q[i - 1] = P[i])
  BY <1>1
<1>3. \A i \in DOMAIN Q : i + 1 \in DOMAIN P /\ Q[i] = P[i + 1]
  BY <1>1
<1>4. LastTells(u, Q, filter, capped)
  <2>1. ASSUME \A k \in DOMAIN Q : Q[k].event # 0
        PROVE  Tells(u, filter, capped)
    <3>1. \A m \in DOMAIN P : m > 1 => P[m].event # 0
      BY <1>1, <1>2, <2>1
    <3>2. CASE f.event = 0
      BY <1>1, <3>1, <3>2, <1>u DEF LastTells
    <3>3. CASE f.event # 0
      <4>1. \A m \in DOMAIN P : P[m].event # 0
        BY <1>1, <3>1, <3>3
      <4>2. QED
        BY <4>1, <3>3, <1>u DEF LastTells
    <3>4. QED
      BY <3>2, <3>3
  <2>2. ASSUME NEW k \in DOMAIN Q, Q[k].event = 0, \A m \in DOMAIN Q : m > k => Q[m].event # 0
        PROVE  Tells(Q[k], filter, capped)
    <3>1. k + 1 \in DOMAIN P /\ P[k + 1] = Q[k]
      BY <1>3
    <3>2. \A m \in DOMAIN P : m > k + 1 => P[m].event # 0
      BY <1>1, <1>2, <2>2
    <3>3. QED
      BY <2>2, <3>1, <3>2 DEF LastTells
  <2>3. QED
    BY <2>1, <2>2 DEF LastTells
<1>5. EventsAcked(u, Q)
  <2> SUFFICES ASSUME NEW i \in DOMAIN Q, Q[i].event # 0
               PROVE  /\ (\A k \in 1..i - 1 : Q[k].event # 0) => Acks(u, Q[i])
                      /\ \A k \in 1..i - 1 :
                            Q[k].event = 0 /\ (\A m \in k + 1..i - 1 : Q[m].event # 0) =>
                               Acks(Q[k], Q[i])
    BY DEF EventsAcked
  <2>1. i + 1 \in DOMAIN P /\ P[i + 1] = Q[i] /\ i \in Nat /\ i + 1 - 1 = i
    BY <1>1, <1>3
  <2>2. /\ (\A k \in 1..i : P[k].event # 0) => Acks(t, Q[i])
        /\ \A k \in 1..i :
              P[k].event = 0 /\ (\A m \in k + 1..i : P[m].event # 0) => Acks(P[k], Q[i])
    BY <2>1 DEF EventsAcked
  <2>3. \A k \in 1..i - 1 : Q[k] = P[k + 1] /\ k + 1 \in 1..i
    BY <1>1, <2>1
  <2>4. \A m \in 2..i : P[m] = Q[m - 1] /\ m - 1 \in 1..i - 1
    BY <1>1, <2>1
  <2>5. ASSUME \A k \in 1..i - 1 : Q[k].event # 0
        PROVE  Acks(u, Q[i])
    <3>1. \A m \in 2..i : P[m].event # 0
      BY <2>4, <2>5
    <3>2. CASE f.event = 0
      <4>1. 1 \in 1..i /\ P[1].event = 0 /\ 1 + 1 = 2
        BY <1>1, <2>1, <3>2
      <4>2. QED
        BY <1>1, <2>2, <3>1, <3>2, <4>1, <1>u
    <3>3. CASE f.event # 0
      <4>1. \A m \in 1..i : m = 1 \/ m \in 2..i
        BY <2>1
      <4>2. \A m \in 1..i : P[m].event # 0
        BY <1>1, <3>1, <3>3, <4>1
      <4>3. QED
        BY <2>2, <4>2, <3>3, <1>u
    <3>4. QED
      BY <3>2, <3>3
  <2>6. ASSUME NEW k \in 1..i - 1, Q[k].event = 0, \A m \in k + 1..i - 1 : Q[m].event # 0
        PROVE  Acks(Q[k], Q[i])
    <3>1. P[k + 1].event = 0 /\ k + 1 \in 1..i /\ Q[k] = P[k + 1]
      BY <2>3, <2>6
    <3>2. ASSUME NEW m \in (k + 1) + 1..i PROVE P[m].event # 0
      <4>1. m \in 2..i /\ m - 1 \in k + 1..i - 1
        BY <2>1, <3>2
      <4>2. QED
        BY <2>4, <2>6, <4>1
    <3>3. QED
      BY <2>2, <3>1, <3>2
  <2>7. QED
    BY <2>5, <2>6
<1>6. f.event # 0 => Acks(t, f)
  <2>1. 1 \in DOMAIN P /\ 1..1 - 1 = {}
    BY <1>1
  <2>2. QED
    BY <1>1, <2>1 DEF EventsAcked
<1>7. QED
  BY <1>4, <1>5, <1>6 DEF Q, f

\* The last frame, which waited for room, is dropped.
LEMMA FrameDropped ==
    ASSUME NEW P \in Seq(Frames), NEW R \in Seq(Frames)
    PROVE  /\ EventsIn(P) \subseteq EventsIn(P \o R)
           /\ EventsAscend(P \o R) => EventsAscend(P)
<1> DEFINE Q == P \o R
<1>1. /\ Len(P) \in Nat /\ Len(R) \in Nat
      /\ \A i \in 1..Len(P) : Q[i] = P[i]
      /\ DOMAIN P = 1..Len(P) /\ DOMAIN Q = 1..Len(P) + Len(R)
  BY ConcatProperties
<1> HIDE DEF Q
<1>2. \A i \in DOMAIN P : i \in DOMAIN Q /\ Q[i] = P[i]
  BY <1>1
<1>3. QED
  BY <1>2 DEF EventsIn, EventsAscend, Q

LEMMA NoFrames == EventsIn(<<>>) = {} /\ EventsAscend(<<>>) /\ <<>> \in Seq(Frames)
<1>1. DOMAIN <<>> = {}
  OBVIOUS
<1>2. QED
  BY <1>1 DEF EventsIn, EventsAscend

LEMMA OneFrame ==
    ASSUME NEW f \in Frames
    PROVE  <<f>> \in Seq(Frames) /\ Len(<<f>>) = 1 /\ <<f>> = Append(<<>>, f)
OBVIOUS

-----------------------------------------------------------------------------
(* The shapes of the state. *)

LEMMA NoFrameShape == NoFrame \in Frames /\ NoFrame.event = 0
BY DEF NoFrame, Frame, Frames

\* One part of a connection or of its writer is replaced.
LEMMA ConnShape ==
    \A r \in Conn :
       /\ \A x \in Places : [r EXCEPT !.at = x] \in Conn
       /\ \A x \in Frames : [r EXCEPT !.frame = x] \in Conn
       /\ \A x \in BOOLEAN : [r EXCEPT !.cancelled = x] \in Conn
       /\ \A x \in BOOLEAN : [r EXCEPT !.capped = x] \in Conn
       /\ \A x \in Nat : [r EXCEPT !.dropped = x] \in Conn
       /\ \A x \in Codes : [r EXCEPT !.code = x] \in Conn
       /\ \A x \in Filters : [r EXCEPT !.filter = x] \in Conn
       /\ \A x \in 0..RateCap : [r EXCEPT !.count = x] \in Conn
<1> TAKE r \in Conn
<1>1. \A x \in Places : [r EXCEPT !.at = x] \in Conn
  BY DEF Conn
<1>2. \A x \in Frames : [r EXCEPT !.frame = x] \in Conn
  BY DEF Conn
<1>3. \A x \in BOOLEAN : [r EXCEPT !.cancelled = x] \in Conn
  BY DEF Conn
<1>4. \A x \in BOOLEAN : [r EXCEPT !.capped = x] \in Conn
  BY DEF Conn
<1>5. \A x \in Nat : [r EXCEPT !.dropped = x] \in Conn
  BY DEF Conn
<1>6. \A x \in Codes : [r EXCEPT !.code = x] \in Conn
  BY DEF Conn
<1>7. \A x \in Filters : [r EXCEPT !.filter = x] \in Conn
  BY DEF Conn
<1>8. \A x \in 0..RateCap : [r EXCEPT !.count = x] \in Conn
  BY DEF Conn
<1>9. QED
  BY <1>1, <1>2, <1>3, <1>4, <1>5, <1>6, <1>7, <1>8

LEMMA WriterShape ==
    \A w \in Writer :
       /\ \A x \in {"none", "idle", "write", "stopped"} : [w EXCEPT !.at = x] \in Writer
       /\ \A x \in Seq(Frames) : [w EXCEPT !.q = x] \in Writer
       /\ \A x \in Seq(Frames) : [w EXCEPT !.hand = x] \in Writer
       /\ \A x \in {"", "net", "slow"} : [w EXCEPT !.err = x] \in Writer
<1> TAKE w \in Writer
<1>1. \A x \in {"none", "idle", "write", "stopped"} : [w EXCEPT !.at = x] \in Writer
  BY DEF Writer
<1>2. \A x \in Seq(Frames) : [w EXCEPT !.q = x] \in Writer
  BY DEF Writer
<1>3. \A x \in Seq(Frames) : [w EXCEPT !.hand = x] \in Writer
  BY DEF Writer
<1>4. \A x \in {"", "net", "slow"} : [w EXCEPT !.err = x] \in Writer
  BY DEF Writer
<1>5. QED
  BY <1>1, <1>2, <1>3, <1>4

LEMMA StreamShape ==
    \A s \in Stream : \A x \in Seq(Nat \ {0}) :
       /\ [s EXCEPT !.events = x] \in Stream
       /\ [s EXCEPT !.events = x].state = s.state
       /\ [s EXCEPT !.events = x].dropped = s.dropped
       /\ [s EXCEPT !.events = x].events = x
<1> TAKE s \in Stream
<1>1. \A x \in Seq(Nat \ {0}) : [s EXCEPT !.events = x] \in Stream
  BY DEF Stream
<1>2. \A x \in Seq(Nat \ {0}) : /\ [s EXCEPT !.events = x].state = s.state
                                 /\ [s EXCEPT !.events = x].dropped = s.dropped
                                 /\ [s EXCEPT !.events = x].events = x
  BY DEF Stream
<1>3. QED
  BY <1>1, <1>2

\* The handler goes on: only its place changes.
LEMMA GotoMoves ==
    ASSUME conn \in [Clients -> Conn], NEW c \in Clients, NEW at \in Places, Goto(c, at)
    PROVE  /\ conn' \in [Clients -> Conn] /\ \A d \in Clients : d # c => conn'[d] = conn[d]
           /\ conn'[c].at = at /\ conn'[c].filter = conn[c].filter
           /\ conn'[c].capped = conn[c].capped /\ conn'[c].dropped = conn[c].dropped
           /\ conn'[c].frame = conn[c].frame /\ conn'[c].code = conn[c].code
           /\ conn'[c].cancelled = conn[c].cancelled
<1>1. conn' = [conn EXCEPT ![c] = [conn[c] EXCEPT !.at = at]]
  BY DEF Goto
<1>2. [conn[c] EXCEPT !.at = at] \in Conn
  BY ConnShape
<1>3. conn' \in [Clients -> Conn] /\ \A d \in Clients : d # c => conn'[d] = conn[d]
  BY <1>1, <1>2
<1>4. conn'[c] = [conn[c] EXCEPT !.at = at]
  BY <1>1
<1>5. conn[c] \in Conn
  OBVIOUS
<1>6. QED
  BY <1>3, <1>4, <1>5 DEF Conn

\* The handler closes: the frame that waited is dropped.
LEMMA CloseMoves ==
    ASSUME conn \in [Clients -> Conn], NEW c \in Clients,
           NEW code \in Codes, CloseWith(c, code)
    PROVE  /\ conn' \in [Clients -> Conn] /\ \A d \in Clients : d # c => conn'[d] = conn[d]
           /\ conn'[c].at = IF sub[c].state = "none" THEN "unregister" ELSE "cancel"
           /\ conn'[c].code = code
           /\ conn'[c].capped = conn[c].capped /\ conn'[c].dropped = conn[c].dropped
           /\ conn'[c].cancelled = conn[c].cancelled
<1> DEFINE at == IF sub[c].state = "none" THEN "unregister" ELSE "cancel"
           r1 == [conn[c] EXCEPT !.code = code]
           r2 == [r1 EXCEPT !.frame = NoFrame]
           r3 == [r2 EXCEPT !.at = at]
<1>1. conn' = [conn EXCEPT ![c] = [conn[c] EXCEPT !.code = code, !.frame = NoFrame, !.at = at]]
  BY DEF CloseWith
<1>2. at \in Places
  BY DEF Places
<1>3. r1 \in Conn
  BY ConnShape
<1>4. r2 \in Conn
  BY <1>3, ConnShape, NoFrameShape
<1>5. r3 \in Conn
  BY <1>2, <1>4, ConnShape
<1>6. [conn[c] EXCEPT !.code = code, !.frame = NoFrame, !.at = at] = r3
  BY DEF Conn
<1>7. conn' \in [Clients -> Conn] /\ \A d \in Clients : d # c => conn'[d] = conn[d]
  BY <1>1, <1>5, <1>6
<1>8. conn'[c] = [conn[c] EXCEPT !.code = code, !.frame = NoFrame, !.at = at]
  BY <1>1
<1>9. conn[c] \in Conn
  OBVIOUS
<1>10. QED
  BY <1>7, <1>8, <1>9 DEF Conn

\* A frame is put in the queue or waits for room.
LEMMA PutMoves ==
    ASSUME conn \in [Clients -> Conn], writer \in [Clients -> Writer], NEW c \in Clients,
           NEW to \in Conn, to.at = "loop", NEW frame \in Frames, Put(c, to, frame)
    PROVE  /\ conn' \in [Clients -> Conn] /\ \A d \in Clients : d # c => conn'[d] = conn[d]
           /\ writer' \in [Clients -> Writer] /\ \A d \in Clients : d # c => writer'[d] = writer[d]
           /\ conn'[c].at \in Open /\ conn'[c].filter = to.filter /\ conn'[c].code = to.code
           /\ conn'[c].capped = to.capped /\ conn'[c].dropped = to.dropped
           /\ conn'[c].cancelled = to.cancelled
           /\ writer'[c].at = writer[c].at /\ writer'[c].hand = writer[c].hand
           /\ writer'[c].err = writer[c].err
           /\ \/ /\ c \in left.html /\ frame.event = 0
                 /\ conn'[c].at = "loop" /\ writer'[c].q = writer[c].q
              \/ /\ Len(writer[c].q) < WriteCap
                 /\ conn'[c].at = "loop" /\ writer'[c].q = Append(writer[c].q, frame)
              \/ /\ conn'[c].at = "wait" /\ conn'[c].frame = frame
                 /\ writer'[c].q = writer[c].q
<1> DEFINE nil  == c \in left.html /\ frame.event = 0
           room == Len(writer[c].q) < WriteCap
           framed == [to EXCEPT !.frame = frame]
           wait == [framed EXCEPT !.at = "wait"]
           more == [writer[c] EXCEPT !.q = Append(writer[c].q, frame)]
<1>1. framed \in Conn
  BY ConnShape
<1>2. wait \in Conn
  BY <1>1, ConnShape DEF Places
<1>3. [to EXCEPT !.at = "wait", !.frame = frame] = wait
  BY DEF Conn
<1>4. /\ wait.at = "wait" /\ wait.frame = frame /\ wait.filter = to.filter
      /\ wait.code = to.code /\ wait.capped = to.capped /\ wait.dropped = to.dropped
      /\ wait.cancelled = to.cancelled
  BY DEF Conn
<1>5. more \in Writer
  <2>1. writer[c] \in Writer
    OBVIOUS
  <2>2. writer[c].q \in Seq(Frames)
    BY <2>1 DEF Writer
  <2>3. Append(writer[c].q, frame) \in Seq(Frames)
    BY <2>2
  <2>4. QED
    BY <2>1, <2>3, WriterShape
<1>6. /\ more.at = writer[c].at /\ more.hand = writer[c].hand
      /\ more.err = writer[c].err /\ more.q = Append(writer[c].q, frame)
  BY DEF Writer
<1>7. /\ conn' = [conn EXCEPT ![c] = IF nil \/ room THEN to ELSE wait]
      /\ writer' = IF nil \/ ~room THEN writer ELSE [writer EXCEPT ![c] = more]
  BY <1>3 DEF Put
<1> HIDE DEF wait, more
<1>8. /\ conn' \in [Clients -> Conn] /\ \A d \in Clients : d # c => conn'[d] = conn[d]
      /\ conn'[c] = IF nil \/ room THEN to ELSE wait
  BY <1>2, <1>7
<1>9. /\ writer' \in [Clients -> Writer] /\ \A d \in Clients : d # c => writer'[d] = writer[d]
      /\ writer'[c] = IF nil \/ ~room THEN writer[c] ELSE more
  BY <1>5, <1>7
<1>10. QED
  BY <1>4, <1>6, <1>8, <1>9 DEF Open

\* The state of the clients, and that of all but one stays.
ClientType ==
    /\ conn \in [Clients -> Conn] /\ writer \in [Clients -> Writer]
    /\ sub \in [Clients -> Stream] /\ told \in [Clients -> Frames]
    /\ delivered \in [Clients -> Seq(Nat \ {0})]
    /\ offered \in [Clients -> Nat] /\ skipped \in [Clients -> Nat]

Rest(c) ==
    \A d \in Clients : d # c =>
       /\ conn'[d] = conn[d] /\ writer'[d] = writer[d] /\ sub'[d] = sub[d]
       /\ told'[d] = told[d] /\ delivered'[d] = delivered[d]
       /\ offered'[d] = offered[d] /\ skipped'[d] = skipped[d]

\* What a client got and what it was not sent stay.
Still(c) ==
    /\ told'[c] = told[c] /\ delivered'[c] = delivered[c]
    /\ offered'[c] = offered[c] /\ skipped'[c] = skipped[c]

\* What the handler keeps of its stream.
Same(c) ==
    /\ conn'[c].filter = conn[c].filter /\ conn'[c].capped = conn[c].capped
    /\ conn'[c].dropped = conn[c].dropped

LEMMA ClientFacts ==
    ASSUME ClientType, NEW c \in Clients
    PROVE  /\ conn[c] \in Conn /\ writer[c] \in Writer /\ sub[c] \in Stream
           /\ conn[c].at \in Places /\ conn[c].frame \in Frames /\ conn[c].dropped \in Nat
           /\ writer[c].q \in Seq(Frames) /\ writer[c].hand \in Seq(Frames)
           /\ sub[c].events \in Seq(Nat \ {0}) /\ sub[c].dropped \in Nat
           /\ told[c] \in Frames /\ delivered[c] \in Seq(Nat \ {0})
           /\ offered[c] \in Nat /\ skipped[c] \in Nat
<1>1. conn[c] \in Conn /\ writer[c] \in Writer /\ sub[c] \in Stream
  BY DEF ClientType
<1>2. conn[c].at \in Places /\ conn[c].frame \in Frames /\ conn[c].dropped \in Nat
  BY <1>1 DEF Conn
<1>3. writer[c].q \in Seq(Frames) /\ writer[c].hand \in Seq(Frames)
  BY <1>1 DEF Writer
<1>4. sub[c].events \in Seq(Nat \ {0}) /\ sub[c].dropped \in Nat
  BY <1>1 DEF Stream
<1>5. QED
  BY <1>1, <1>2, <1>3, <1>4 DEF ClientType

\* The handler before and after its stream: only places change.
LEMMA PlaceMoves ==
    ASSUME ClientType, NEW c \in Clients,
           Dial(c) \/ Count(c) \/ Register(c) \/ LeaveFanout(c) \/ Release(c)
    PROVE  /\ ClientType' /\ Rest(c) /\ Still(c) /\ Same(c)
           /\ writer' = writer /\ sub' = sub /\ pub' = pub
           /\ subs' \subseteq subs /\ conn'[c].code = conn[c].code
           /\ conn'[c].cancelled = conn[c].cancelled
           /\ \/ conn[c].at = "idle" /\ conn'[c].at \in {"checked", "done"}
              \/ conn[c].at = "checked" /\ conn'[c].at \in {"over", "counted"}
              \/ conn[c].at = "counted" /\ conn'[c].at \in {"release", "await"}
              \/ conn[c].at = "leave" /\ conn'[c].at = "unregister"
              \/ conn[c].at = "release" /\ conn'[c].at = "done"
<1> USE DEF wireVars, fanVars
<1>1. CASE Dial(c)
  <2>1. conn[c].at = "idle" /\ \E x \in {"checked", "done"} : Goto(c, x)
    BY <1>1 DEF Dial
  <2>2. QED
    BY <1>1, <2>1, GotoMoves DEF Dial, ClientType, Rest, Still, Same, Places
<1>2. CASE Count(c)
  <2>1. conn[c].at = "checked" /\ \E x \in {"over", "counted"} : Goto(c, x)
    BY <1>2 DEF Count
  <2>2. QED
    BY <1>2, <2>1, GotoMoves DEF Count, ClientType, Rest, Still, Same, Places
<1>3. CASE Register(c)
  <2>1. conn[c].at = "counted" /\ \E x \in {"release", "await"} : Goto(c, x)
    BY <1>3 DEF Register
  <2>2. QED
    BY <1>3, <2>1, GotoMoves DEF Register, ClientType, Rest, Still, Same, Places
<1>4. CASE LeaveFanout(c)
  <2>1. conn[c].at = "leave" /\ Goto(c, "unregister") /\ subs' = subs \ {c}
    BY <1>4 DEF LeaveFanout
  <2>2. QED
    BY <1>4, <2>1, GotoMoves DEF LeaveFanout, ClientType, Rest, Still, Same, Places
<1>5. CASE Release(c)
  <2>1. conn[c].at = "release" /\ Goto(c, "done")
    BY <1>5 DEF Release
  <2>2. QED
    BY <1>5, <2>1, GotoMoves DEF Release, ClientType, Rest, Still, Same, Places
<1>6. QED
  BY <1>1, <1>2, <1>3, <1>4, <1>5

LEMMA RefuseMoves ==
    ASSUME ClientType, NEW c \in Clients, Refuse(c)
    PROVE  /\ ClientType' /\ Rest(c) /\ Still(c) /\ Same(c)
           /\ writer' = writer /\ sub' = sub /\ pub' = pub /\ subs' = subs
           /\ conn[c].at = "over" /\ conn'[c].at = "done"
           /\ conn'[c].cancelled = conn[c].cancelled
<1>1. conn' = [conn EXCEPT ![c] = [conn[c] EXCEPT !.at = "done", !.code = CloseTooManyClients]]
  BY DEF Refuse
<1>2. conn[c] \in Conn /\ "done" \in Places /\ CloseTooManyClients \in Codes
  BY DEF ClientType, Places, Codes
<1>3. [[conn[c] EXCEPT !.at = "done"] EXCEPT !.code = CloseTooManyClients] \in Conn
  BY <1>2, ConnShape
<1>4. [conn[c] EXCEPT !.at = "done", !.code = CloseTooManyClients]
         = [[conn[c] EXCEPT !.at = "done"] EXCEPT !.code = CloseTooManyClients]
  BY <1>2 DEF Conn
<1>5. conn' \in [Clients -> Conn] /\ \A d \in Clients : d # c => conn'[d] = conn[d]
  BY <1>1, <1>3, <1>4 DEF ClientType
<1>6. conn'[c] = [conn[c] EXCEPT !.at = "done", !.code = CloseTooManyClients]
  BY <1>1 DEF ClientType
<1>7. conn'[c].at = "done" /\ Same(c) /\ conn'[c].cancelled = conn[c].cancelled
  BY <1>2, <1>6 DEF Conn, Same
<1>8. QED
  BY <1>5, <1>7 DEF Refuse, ClientType, Rest, Still, wireVars, fanVars

\* The handler closes and drops what waited for room.
Closes(c) ==
    /\ conn'[c].at = IF sub[c].state = "none" THEN "unregister" ELSE "cancel"
    /\ conn'[c].code # 0 /\ writer' = writer /\ sub' = sub
    /\ conn'[c].capped = conn[c].capped /\ conn'[c].dropped = conn[c].dropped
    /\ conn'[c].cancelled = conn[c].cancelled

LEMMA ClosingCodes ==
    /\ {StatusNormalClosure, CloseFilterRequired, CloseInvalidFilter, CloseSlowClient}
          \subseteq Codes \ {0}
    /\ \A m \in Messages \ Filters : CodeFor[m] \in Codes \ {0}
<1>1. {StatusNormalClosure, CloseFilterRequired, CloseInvalidFilter, CloseSlowClient}
         \subseteq Codes \ {0}
  BY DEF Codes, StatusNormalClosure, CloseFilterRequired, CloseInvalidFilter, CloseSlowClient
<1>2. \A m \in Messages \ Filters : m \in {"error", "empty", "invalid"}
  BY DEF Messages
<1>3. /\ CodeFor["error"] = StatusNormalClosure /\ CodeFor["empty"] = CloseFilterRequired
      /\ CodeFor["invalid"] = CloseInvalidFilter
  BY DEF CodeFor
<1>4. QED
  BY <1>1, <1>2, <1>3

LEMMA ClosesMoves ==
    ASSUME ClientType, NEW c \in Clients, NEW code \in Codes \ {0}, CloseWith(c, code),
           UNCHANGED <<writer, fanVars, wireVars>>
    PROVE  ClientType' /\ Rest(c) /\ Still(c) /\ Closes(c)
BY CloseMoves DEF ClientType, Rest, Still, Closes, fanVars, wireVars

\* Statuses and events are frames.
LEMMA FrameShape ==
    /\ \A n \in Nat : Frame(n) \in Frames /\ Frame(n).event = n
    /\ \A r \in Conn : /\ StatusOf(r) \in Frames /\ StatusOf(r).event = 0
                       /\ StatusOf(r).filter = r.filter /\ StatusOf(r).capped = r.capped
<1>1. \A n \in Nat : Frame(n) \in Frames /\ Frame(n).event = n
  BY DEF Frame, Frames
<1>2. \A r \in Conn : r.filter \in Filters \cup {""} /\ r.capped \in BOOLEAN /\ r.dropped \in Nat
  BY DEF Conn
<1>3. \A r \in Conn : StatusOf(r) \in Frames
  BY <1>2 DEF StatusOf, Frames
<1>4. QED
  BY <1>1, <1>3 DEF StatusOf

\* What a frame that is put leaves of the stream and the queue.
Puts(c, frame) ==
    /\ conn[c].at = "loop" /\ conn'[c].at \in Open /\ conn'[c].code = conn[c].code
    /\ conn'[c].cancelled = conn[c].cancelled
    /\ writer'[c].at = writer[c].at /\ writer'[c].hand = writer[c].hand
    /\ writer'[c].err = writer[c].err
    /\ \/ /\ c \in left.html /\ frame.event = 0
          /\ conn'[c].at = "loop" /\ writer'[c].q = writer[c].q
       \/ /\ Len(writer[c].q) < WriteCap
          /\ conn'[c].at = "loop" /\ writer'[c].q = Append(writer[c].q, frame)
       \/ /\ conn'[c].at = "wait" /\ conn'[c].frame = frame
          /\ writer'[c].q = writer[c].q

LEMMA HeartbeatMoves ==
    ASSUME ClientType, NEW c \in Clients, Heartbeat(c)
    PROVE  /\ ClientType' /\ Rest(c) /\ Still(c) /\ Same(c) /\ sub' = sub
           /\ \E f \in Frames : /\ Puts(c, f) /\ f.event = 0
                                /\ Tells(f, conn[c].filter, conn[c].capped)
<1>1. conn[c] \in Conn /\ conn[c].at = "loop" /\ conn[c].at \in Places
  BY DEF ClientType, Heartbeat, Places
<1>2. StatusOf(conn[c]) \in Frames /\ Put(c, conn[c], StatusOf(conn[c]))
  BY <1>1, FrameShape DEF Heartbeat
<1>3. /\ conn' \in [Clients -> Conn] /\ \A d \in Clients : d # c => conn'[d] = conn[d]
      /\ writer' \in [Clients -> Writer] /\ \A d \in Clients : d # c => writer'[d] = writer[d]
      /\ Same(c) /\ Puts(c, StatusOf(conn[c]))
  BY <1>1, <1>2, PutMoves DEF ClientType, Same, Puts
<1>4. Tells(StatusOf(conn[c]), conn[c].filter, conn[c].capped)
  BY <1>1, FrameShape DEF Tells
<1>5. QED
  BY <1>1, <1>2, <1>3, <1>4, FrameShape
     DEF Heartbeat, ClientType, Rest, Still, fanVars, wireVars

LEMMA NextMessageMoves ==
    ASSUME ClientType, inbox \in [Clients -> Messages \cup {""}], NEW c \in Clients,
           NextMessage(c)
    PROVE  /\ ClientType' /\ Rest(c) /\ Still(c) /\ conn[c].at = "loop"
           /\ \/ Closes(c)
              \/ \E f \in Frames :
                    /\ Puts(c, f) /\ f.event = 0 /\ sub' = sub
                    /\ conn'[c].filter \in Filters /\ conn'[c].capped = conn[c].capped
                    /\ conn'[c].dropped = conn[c].dropped
                    /\ Tells(f, conn'[c].filter, conn'[c].capped)
<1>1. conn[c] \in Conn /\ conn[c].at = "loop" /\ inbox[c] \in Messages
  BY DEF ClientType, NextMessage
<1>2. CASE inbox[c] \notin Filters
  <2>1. CloseWith(c, CodeFor[inbox[c]]) /\ CodeFor[inbox[c]] \in Codes \ {0}
        /\ UNCHANGED <<writer, fanVars, wireVars>>
    BY <1>1, <1>2, ClosingCodes DEF NextMessage
  <2>2. QED
    BY <1>1, <2>1, ClosesMoves
<1>3. CASE inbox[c] \in Filters
  <2> DEFINE to == [conn[c] EXCEPT !.filter = inbox[c]]
  <2>1. to \in Conn
    BY <1>1, <1>3, ConnShape
  <2>2. /\ to.at = "loop" /\ to.filter = inbox[c] /\ to.capped = conn[c].capped
        /\ to.dropped = conn[c].dropped /\ to.code = conn[c].code
        /\ to.cancelled = conn[c].cancelled
    BY <1>1 DEF Conn
  <2>3. Put(c, to, StatusOf(to))
    BY <1>3 DEF NextMessage
  <2> HIDE DEF to
  <2>4. StatusOf(to) \in Frames /\ StatusOf(to).event = 0 /\ Tells(StatusOf(to), to.filter, to.capped)
    BY <2>1, FrameShape DEF Tells
  <2>5. /\ conn' \in [Clients -> Conn] /\ \A d \in Clients : d # c => conn'[d] = conn[d]
        /\ writer' \in [Clients -> Writer] /\ \A d \in Clients : d # c => writer'[d] = writer[d]
        /\ Puts(c, StatusOf(to))
        /\ conn'[c].filter = to.filter /\ conn'[c].capped = to.capped
        /\ conn'[c].dropped = to.dropped
    BY <1>1, <2>1, <2>2, <2>3, <2>4, PutMoves, ZenonT(30) DEF ClientType, Puts
  <2>6. ClientType' /\ Rest(c) /\ Still(c) /\ sub' = sub
    BY <2>5 DEF NextMessage, ClientType, Rest, Still, fanVars, wireVars
  <2>7. QED
    BY <1>1, <1>3, <2>2, <2>4, <2>5, <2>6
<1>4. QED
  BY <1>2, <1>3

\* A context that is done, a writer's error and the end of the grace close.
LEMMA ClosingMoves ==
    ASSUME ClientType, NEW c \in Clients, ContextDone(c) \/ WriteError(c) \/ GraceOver(c)
    PROVE  ClientType' /\ Rest(c) /\ Still(c) /\ Closes(c) /\ conn[c].at \in Open \cup {"await"}
<1> USE ClosingCodes, ClosesMoves DEF Open
<1>1. CASE ContextDone(c)
  BY <1>1 DEF ContextDone
<1>2. CASE WriteError(c)
  BY <1>2 DEF WriteError
<1>3. CASE GraceOver(c)
  BY <1>3 DEF GraceOver
<1>4. QED
  BY <1>1, <1>2, <1>3

\* The stream begins: the writer starts, with the acknowledgement queued.
LEMMA FirstMessageMoves ==
    ASSUME ClientType, inbox \in [Clients -> Messages \cup {""}], NEW c \in Clients,
           FirstMessage(c)
    PROVE  /\ ClientType' /\ Rest(c) /\ Still(c) /\ conn[c].at = "await"
           /\ \/ Closes(c)
              \/ /\ sub' = sub /\ conn'[c].at = "subscribe" /\ conn'[c].code = conn[c].code
                 /\ conn'[c].cancelled = conn[c].cancelled
                 /\ conn'[c].filter \in Filters /\ conn'[c].capped = conn[c].capped
                 /\ conn'[c].dropped = conn[c].dropped
                 /\ writer'[c].at = "idle" /\ writer'[c].hand = writer[c].hand
                 /\ \/ c \in left.html /\ writer'[c].q = <<>>
                    \/ \E f \in Frames :
                          /\ writer'[c].q = <<f>> /\ f.event = 0
                          /\ Tells(f, conn'[c].filter, conn'[c].capped)
<1>1. conn[c] \in Conn /\ conn[c].at = "await" /\ inbox[c] \in Messages /\ writer[c] \in Writer
  BY DEF ClientType, FirstMessage
<1>2. CASE inbox[c] \notin Filters
  <2>1. CloseWith(c, CodeFor[inbox[c]]) /\ CodeFor[inbox[c]] \in Codes \ {0}
        /\ UNCHANGED <<writer, fanVars, wireVars>>
    BY <1>1, <1>2, ClosingCodes DEF FirstMessage
  <2>2. QED
    BY <1>1, <2>1, ClosesMoves
<1>3. CASE inbox[c] \in Filters
  <2> DEFINE to == [conn[c] EXCEPT !.filter = inbox[c]]
             begun == [to EXCEPT !.at = "subscribe"]
             q == IF c \in left.html THEN <<>> ELSE <<StatusOf(to)>>
             w == [writer[c] EXCEPT !.at = "idle", !.q = q]
  <2>1. to \in Conn
    BY <1>1, <1>3, ConnShape
  <2>2. begun \in Conn
    BY <2>1, ConnShape DEF Places
  <2>3. /\ begun.at = "subscribe" /\ begun.filter = inbox[c] /\ begun.capped = conn[c].capped
        /\ begun.dropped = conn[c].dropped /\ begun.code = conn[c].code
        /\ to.filter = inbox[c] /\ to.capped = conn[c].capped
        /\ begun.cancelled = conn[c].cancelled
    BY <1>1 DEF Conn
  <2>4. StatusOf(to) \in Frames /\ StatusOf(to).event = 0 /\ Tells(StatusOf(to), to.filter, to.capped)
    BY <2>1, FrameShape DEF Tells
  <2>5. q \in Seq(Frames)
    <3>2. <<StatusOf(to)>> \in Seq(Frames)
      BY <2>4, OneFrame
    <3> HIDE DEF to
    <3>3. QED
      BY <3>2, NoFrames
  <2>6. /\ conn' = [conn EXCEPT ![c] = begun]
        /\ writer' = [writer EXCEPT ![c].at = "idle", ![c].q = q]
    BY <1>3 DEF FirstMessage
  <2> HIDE DEF to, begun, q
  <2>7. writer' = [writer EXCEPT ![c] = w]
    BY <2>6
  <2>8. [writer[c] EXCEPT !.at = "idle"] \in Writer
    BY <1>1, WriterShape
  <2>9. [[writer[c] EXCEPT !.at = "idle"] EXCEPT !.q = q] \in Writer
    BY <2>5, <2>8, WriterShape
  <2>10. w = [[writer[c] EXCEPT !.at = "idle"] EXCEPT !.q = q]
    BY <1>1 DEF Writer
  <2>11. w \in Writer
    BY <2>9, <2>10
  <2>12. w.at = "idle" /\ w.q = q /\ w.hand = writer[c].hand
    BY <1>1 DEF Writer
  <2> HIDE DEF w
  <2>13. /\ conn' \in [Clients -> Conn] /\ \A d \in Clients : d # c => conn'[d] = conn[d]
         /\ writer' \in [Clients -> Writer] /\ \A d \in Clients : d # c => writer'[d] = writer[d]
         /\ conn'[c] = begun /\ writer'[c] = w
    BY <2>2, <2>6, <2>7, <2>11 DEF ClientType
  <2>14. ClientType' /\ Rest(c) /\ Still(c) /\ sub' = sub
    BY <2>13 DEF FirstMessage, ClientType, Rest, Still, fanVars, wireVars
  <2>15. (c \in left.html /\ q = <<>>) \/ q = <<StatusOf(to)>>
    BY DEF q
  <2>16. QED
    BY <1>1, <1>3, <2>3, <2>4, <2>12, <2>13, <2>14, <2>15
<1>4. QED
  BY <1>2, <1>3

\* There is room again.
LEMMA RoomMoves ==
    ASSUME ClientType, NEW c \in Clients, Room(c)
    PROVE  /\ ClientType' /\ Rest(c) /\ Still(c) /\ Same(c) /\ sub' = sub
           /\ conn[c].at = "wait" /\ conn'[c].at = "loop" /\ conn'[c].code = conn[c].code
           /\ conn'[c].cancelled = conn[c].cancelled
           /\ Len(writer[c].q) < WriteCap
           /\ writer'[c].q = Append(writer[c].q, conn[c].frame)
           /\ writer'[c].at = writer[c].at /\ writer'[c].hand = writer[c].hand
           /\ writer'[c].err = writer[c].err
<1> DEFINE q == Append(writer[c].q, conn[c].frame)
<1>1. conn[c] \in Conn /\ writer[c] \in Writer /\ conn[c].at = "wait" /\ q \in Seq(Frames)
  BY ClientFacts DEF Room
<1>2. /\ conn' = [conn EXCEPT ![c] = [conn[c] EXCEPT !.at = "loop", !.frame = NoFrame]]
      /\ writer' = [writer EXCEPT ![c] = [writer[c] EXCEPT !.q = q]]
  BY DEF Room
<1> HIDE DEF q
<1>3. [conn[c] EXCEPT !.at = "loop"] \in Conn
  BY <1>1, ConnShape DEF Places
<1>4. [[conn[c] EXCEPT !.at = "loop"] EXCEPT !.frame = NoFrame] \in Conn
  BY <1>3, ConnShape, NoFrameShape
<1>5. [conn[c] EXCEPT !.at = "loop", !.frame = NoFrame]
         = [[conn[c] EXCEPT !.at = "loop"] EXCEPT !.frame = NoFrame]
  BY <1>1 DEF Conn
<1>6. /\ conn' \in [Clients -> Conn] /\ \A d \in Clients : d # c => conn'[d] = conn[d]
      /\ conn'[c] = [conn[c] EXCEPT !.at = "loop", !.frame = NoFrame]
  BY <1>2, <1>4, <1>5 DEF ClientType
<1>7. [writer[c] EXCEPT !.q = q] \in Writer
  BY <1>1, WriterShape
<1>8. /\ writer' \in [Clients -> Writer] /\ \A d \in Clients : d # c => writer'[d] = writer[d]
      /\ writer'[c] = [writer[c] EXCEPT !.q = q]
  BY <1>2, <1>7 DEF ClientType
<1>9. conn'[c].at = "loop" /\ conn'[c].code = conn[c].code /\ Same(c)
      /\ conn'[c].cancelled = conn[c].cancelled
  BY <1>1, <1>6 DEF Conn, Same
<1>10. /\ writer'[c].q = q /\ writer'[c].at = writer[c].at /\ writer'[c].hand = writer[c].hand
       /\ writer'[c].err = writer[c].err
  BY <1>1, <1>8 DEF Writer
<1>11. QED
  BY <1>1, <1>6, <1>8, <1>9, <1>10 DEF Room, ClientType, Rest, Still, fanVars, wireVars, q

\* The subscription is opened, and closed.
LEMMA StreamMoves ==
    ASSUME ClientType, NEW c \in Clients, Subscribe(c) \/ CancelStream(c)
    PROVE  /\ ClientType' /\ Rest(c) /\ Still(c) /\ Same(c) /\ writer' = writer
           /\ conn'[c].code = conn[c].code /\ conn'[c].cancelled = conn[c].cancelled
           /\ sub'[c].events = sub[c].events /\ sub'[c].dropped = sub[c].dropped
           /\ \/ /\ conn[c].at = "subscribe" /\ conn'[c].at = "loop" /\ sub'[c].state = "open"
                 /\ subs' = subs \cup {c}
              \/ /\ conn[c].at = "cancel" /\ conn'[c].at = "leave" /\ sub'[c].state = "closed"
                 /\ subs' = subs
<1>1. \A x \in {"open", "closed"} : sub' = [sub EXCEPT ![c].state = x] =>
         /\ sub' \in [Clients -> Stream] /\ \A d \in Clients : d # c => sub'[d] = sub[d]
         /\ sub'[c].state = x
         /\ sub'[c].events = sub[c].events /\ sub'[c].dropped = sub[c].dropped
  BY ZenonT(30) DEF ClientType, Stream
<1>2. CASE Subscribe(c)
  BY <1>1, <1>2, GotoMoves DEF Subscribe, ClientType, Rest, Still, Same, Places, wireVars
<1>3. CASE CancelStream(c)
  BY <1>1, <1>3, GotoMoves DEF CancelStream, ClientType, Rest, Still, Same, Places, wireVars
<1>4. QED
  BY <1>2, <1>3

\* The next event: it is passed over, put, or counted, with a status when the
\* cap begins to bite.
LEMMA TakeEventMoves ==
    ASSUME ClientType, RateCap \in Nat, NEW c \in Clients, TakeEvent(c)
    PROVE  /\ ClientType' /\ Rest(c) /\ conn[c].at = "loop" /\ sub[c].events # <<>>
           /\ sub'[c].state = sub[c].state /\ sub'[c].dropped = sub[c].dropped
           /\ sub'[c].events = Tail(sub[c].events)
           /\ told'[c] = told[c] /\ delivered'[c] = delivered[c] /\ offered'[c] = offered[c]
           /\ conn'[c].filter = conn[c].filter
           /\ \/ /\ skipped'[c] = skipped[c] + 1
                 /\ conn'[c] = conn[c] /\ writer'[c] = writer[c]
              \/ /\ skipped'[c] = skipped[c] /\ Puts(c, Frame(Head(sub[c].events)))
                 /\ Match(conn[c].filter, Head(sub[c].events))
                 /\ conn'[c].dropped = conn[c].dropped /\ conn'[c].capped = FALSE
              \/ /\ skipped'[c] = skipped[c] /\ writer'[c] = writer[c]
                 /\ conn[c].capped /\ conn'[c].capped = TRUE
                 /\ conn'[c].dropped = conn[c].dropped + 1
                 /\ conn'[c].at = "loop" /\ conn'[c].code = conn[c].code
                 /\ conn'[c].cancelled = conn[c].cancelled
              \/ /\ skipped'[c] = skipped[c] /\ conn'[c].dropped = conn[c].dropped + 1
                 /\ \E f \in Frames : /\ Puts(c, f) /\ f.event = 0
                                      /\ Tells(f, conn'[c].filter, conn'[c].capped)
<1> DEFINE r == conn[c]
           e == Head(sub[c].events)
<1>1. /\ r \in Conn /\ conn[c].at = "loop" /\ sub[c].events # <<>> /\ sub[c] \in Stream
      /\ sub[c].events \in Seq(Nat \ {0}) /\ skipped[c] \in Nat
  BY ClientFacts DEF TakeEvent
<1>2. e \in Nat \ {0} /\ Tail(sub[c].events) \in Seq(Nat \ {0})
  BY <1>1
<1>3. /\ sub' \in [Clients -> Stream] /\ \A d \in Clients : d # c => sub'[d] = sub[d]
      /\ sub'[c].state = sub[c].state /\ sub'[c].dropped = sub[c].dropped
      /\ sub'[c].events = Tail(sub[c].events)
  <2>1. sub' = [sub EXCEPT ![c] = [sub[c] EXCEPT !.events = Tail(sub[c].events)]]
    BY DEF TakeEvent
  <2>2. [sub[c] EXCEPT !.events = Tail(sub[c].events)] \in Stream
    BY <1>1, <1>2, StreamShape
  <2>3. sub' \in [Clients -> Stream] /\ \A d \in Clients : d # c => sub'[d] = sub[d]
        /\ sub'[c] = [sub[c] EXCEPT !.events = Tail(sub[c].events)]
    BY <2>1, <2>2 DEF ClientType
  <2>4. /\ sub'[c].state = sub[c].state /\ sub'[c].dropped = sub[c].dropped
        /\ sub'[c].events = Tail(sub[c].events)
    <3>1. sub'[c] = [sub[c] EXCEPT !.events = Tail(sub[c].events)]
      BY <2>1 DEF ClientType
    <3>2. QED
      BY <1>1, <1>2, <3>1, StreamShape
  <2>5. QED
    BY <2>3, <2>4
<1>4. told' = told /\ delivered' = delivered /\ offered' = offered
  BY DEF TakeEvent
<1>5. CASE ~Match(r.filter, e)
  <2>1. skipped' = [skipped EXCEPT ![c] = @ + 1] /\ conn' = conn /\ writer' = writer
    BY <1>5 DEF TakeEvent
  <2>2. skipped' \in [Clients -> Nat] /\ skipped'[c] = skipped[c] + 1
        /\ \A d \in Clients : d # c => skipped'[d] = skipped[d]
    BY <1>1, <2>1 DEF ClientType
  <2>3. QED
    BY <1>1, <1>3, <1>4, <2>1, <2>2 DEF ClientType, Rest
<1>6. CASE Match(r.filter, e)
  <2>1. PICK count \in {r.count, 0} :
           IF count < RateCap
           THEN Put(c, [r EXCEPT !.count = count + 1, !.capped = FALSE], Frame(e))
           ELSE LET to == [r EXCEPT !.dropped = @ + 1, !.capped = TRUE]
                IN IF r.capped
                   THEN conn' = [conn EXCEPT ![c] = to] /\ UNCHANGED writer
                   ELSE Put(c, to, StatusOf(to))
    BY <1>6 DEF TakeEvent
  <2>2. skipped' = skipped
    BY <1>6 DEF TakeEvent
  <2>3. r.count \in 0..RateCap /\ r.dropped \in Nat /\ count \in 0..RateCap
    <3>1. r.count \in 0..RateCap /\ r.dropped \in Nat
      BY <1>1 DEF Conn
    <3>2. QED
      BY <2>1, <3>1
  <2>4. CASE count < RateCap
    <3> DEFINE counted == [r EXCEPT !.count = count + 1]
               to == [counted EXCEPT !.capped = FALSE]
    <3>0. count + 1 \in 0..RateCap
      BY <2>3, <2>4
    <3>1. counted \in Conn
      BY <1>1, <3>0, ConnShape
    <3>2. to \in Conn
      BY <3>1, ConnShape
    <3>3. /\ to.at = "loop" /\ to.filter = r.filter /\ to.capped = FALSE
          /\ to.dropped = r.dropped /\ to.code = r.code /\ to.cancelled = r.cancelled
      BY <1>1 DEF Conn
    <3>4. [r EXCEPT !.count = count + 1, !.capped = FALSE] = to
      BY <1>1 DEF Conn
    <3>5. Put(c, to, Frame(e)) /\ Frame(e) \in Frames
      BY <1>2, <2>1, <2>4, <3>4, FrameShape
    <3> HIDE DEF to, counted
    <3>6. /\ conn' \in [Clients -> Conn] /\ \A d \in Clients : d # c => conn'[d] = conn[d]
          /\ writer' \in [Clients -> Writer] /\ \A d \in Clients : d # c => writer'[d] = writer[d]
          /\ Puts(c, Frame(e)) /\ conn'[c].filter = r.filter
          /\ conn'[c].capped = FALSE /\ conn'[c].dropped = r.dropped
      BY <1>1, <3>2, <3>3, <3>5, PutMoves DEF ClientType, Puts
    <3>7. QED
      BY <1>1, <1>3, <1>4, <1>6, <2>2, <3>6 DEF ClientType, Rest
  <2>5. CASE ~(count < RateCap)
    <3> DEFINE more == [r EXCEPT !.dropped = r.dropped + 1]
               to == [more EXCEPT !.capped = TRUE]
    <3>0. r.dropped + 1 \in Nat
      BY <2>3
    <3>1. more \in Conn
      BY <1>1, <3>0, ConnShape
    <3>2. to \in Conn
      BY <3>1, ConnShape
    <3>3. /\ to.at = "loop" /\ to.filter = r.filter /\ to.capped = TRUE
          /\ to.dropped = r.dropped + 1 /\ to.code = r.code /\ to.cancelled = r.cancelled
      BY <1>1 DEF Conn
    <3>4. [r EXCEPT !.dropped = @ + 1, !.capped = TRUE] = to
      BY <1>1 DEF Conn
    <3>5. IF r.capped THEN conn' = [conn EXCEPT ![c] = to] /\ writer' = writer
                      ELSE Put(c, to, StatusOf(to))
      BY <2>1, <2>5, <3>4
    <3> HIDE DEF to, more
    <3>6. CASE r.capped
      <4>1. /\ conn' \in [Clients -> Conn] /\ \A d \in Clients : d # c => conn'[d] = conn[d]
            /\ conn'[c] = to /\ writer' = writer
        BY <3>2, <3>5, <3>6 DEF ClientType
      <4>2. QED
        BY <1>1, <1>3, <1>4, <2>2, <3>3, <3>6, <4>1 DEF ClientType, Rest
    <3>7. CASE ~r.capped
      <4>1. /\ StatusOf(to) \in Frames /\ StatusOf(to).event = 0
            /\ Tells(StatusOf(to), to.filter, to.capped)
        BY <3>2, FrameShape DEF Tells
      <4>2. /\ conn' \in [Clients -> Conn] /\ \A d \in Clients : d # c => conn'[d] = conn[d]
            /\ writer' \in [Clients -> Writer] /\ \A d \in Clients : d # c => writer'[d] = writer[d]
            /\ Puts(c, StatusOf(to)) /\ conn'[c].filter = to.filter
            /\ conn'[c].capped = to.capped /\ conn'[c].dropped = to.dropped
        BY <1>1, <3>2, <3>3, <3>5, <3>7, <4>1, PutMoves DEF ClientType, Puts
      <4>3. QED
        BY <1>1, <1>3, <1>4, <2>2, <3>3, <4>1, <4>2 DEF ClientType, Rest
    <3>8. QED
      BY <3>6, <3>7
  <2>6. QED
    BY <2>4, <2>5
<1>7. QED
  BY <1>5, <1>6

\* The handler unregisters: the writer stops and its queue is gone.
LEMMA UnregisterMoves ==
    ASSUME ClientType, NEW c \in Clients, Unregister(c)
    PROVE  /\ ClientType' /\ Rest(c) /\ Still(c) /\ Same(c) /\ sub' = sub
           /\ conn[c].at = "unregister" /\ conn'[c].at = "release"
           /\ writer'[c].at = "stopped" /\ writer'[c].q = <<>> /\ writer'[c].hand = <<>>
<1> DEFINE gone1 == [conn[c] EXCEPT !.at = "release"]
           gone2 == [gone1 EXCEPT !.cancelled = TRUE]
           w == [at |-> "stopped", q |-> <<>>, hand |-> <<>>, err |-> ""]
<1>1. conn[c] \in Conn /\ conn[c].at = "unregister"
  BY ClientFacts DEF Unregister
<1>2. conn' = [conn EXCEPT ![c] = [conn[c] EXCEPT !.at = "release", !.cancelled = TRUE]]
      /\ writer' = [writer EXCEPT ![c] = w]
  BY DEF Unregister
<1>3. gone1 \in Conn
  BY <1>1, ConnShape DEF Places
<1>4. gone2 \in Conn
  BY <1>3, ConnShape
<1>5. [conn[c] EXCEPT !.at = "release", !.cancelled = TRUE] = gone2
  BY <1>1 DEF Conn
<1>6. /\ gone2.at = "release" /\ gone2.filter = conn[c].filter /\ gone2.capped = conn[c].capped
      /\ gone2.dropped = conn[c].dropped
  BY <1>1 DEF Conn
<1>7. w \in Writer
  BY NoFrames DEF Writer
<1>8. w.at = "stopped" /\ w.q = <<>> /\ w.hand = <<>>
  OBVIOUS
<1> HIDE DEF gone1, gone2, w
<1>9. /\ conn' \in [Clients -> Conn] /\ \A d \in Clients : d # c => conn'[d] = conn[d]
      /\ writer' \in [Clients -> Writer] /\ \A d \in Clients : d # c => writer'[d] = writer[d]
      /\ conn'[c] = gone2 /\ writer'[c] = w
  BY <1>2, <1>4, <1>5, <1>7 DEF ClientType
<1>10. QED
  BY <1>1, <1>6, <1>8, <1>9
     DEF Unregister, ClientType, Rest, Still, Same, fanVars, wireVars

\* The writer stops, or takes the first frame of its queue.
LEMMA WriterTakesMoves ==
    ASSUME ClientType, NEW c \in Clients, WriterTakes(c)
    PROVE  /\ ClientType' /\ Rest(c) /\ Still(c) /\ conn' = conn /\ sub' = sub
           /\ writer[c].at = "idle" /\ writer'[c].err = writer[c].err
           /\ \/ /\ writer'[c].at = "stopped" /\ writer'[c].q = writer[c].q
                 /\ writer'[c].hand = writer[c].hand
              \/ /\ writer'[c].at = "write" /\ writer[c].q # <<>>
                 /\ writer'[c].q = Tail(writer[c].q)
                 /\ writer'[c].hand = <<Head(writer[c].q)>>
<1>1. writer[c] \in Writer /\ writer[c].at = "idle" /\ writer[c].q \in Seq(Frames)
  BY ClientFacts DEF WriterTakes
<1>2. conn' = conn /\ sub' = sub /\ Still(c) /\ told' = told /\ delivered' = delivered
      /\ offered' = offered /\ skipped' = skipped
  BY DEF WriterTakes, Still, fanVars, wireVars
<1>3. CASE writer' = [writer EXCEPT ![c].at = "stopped"]
  <2>1. [writer[c] EXCEPT !.at = "stopped"] \in Writer
    BY <1>1, WriterShape
  <2>2. /\ writer' \in [Clients -> Writer] /\ \A d \in Clients : d # c => writer'[d] = writer[d]
        /\ writer'[c] = [writer[c] EXCEPT !.at = "stopped"]
    BY <1>3, <2>1 DEF ClientType
  <2>3. /\ writer'[c].at = "stopped" /\ writer'[c].q = writer[c].q
        /\ writer'[c].hand = writer[c].hand /\ writer'[c].err = writer[c].err
    BY <1>1, <2>2 DEF Writer
  <2>4. QED
    BY <1>1, <1>2, <2>2, <2>3 DEF ClientType, Rest
<1>4. CASE /\ writer[c].q # <<>>
           /\ writer' = [writer EXCEPT ![c].at = "write", ![c].q = Tail(@),
                                       ![c].hand = <<Head(writer[c].q)>>]
  <2> DEFINE t == Tail(writer[c].q)
             h == <<Head(writer[c].q)>>
             w1 == [writer[c] EXCEPT !.at = "write"]
             w2 == [w1 EXCEPT !.q = t]
             w3 == [w2 EXCEPT !.hand = h]
  <2>1. t \in Seq(Frames) /\ Head(writer[c].q) \in Frames
    BY <1>1, <1>4
  <2>2. h \in Seq(Frames)
    BY <2>1, OneFrame
  <2>3. writer' = [writer EXCEPT ![c] = [writer[c] EXCEPT !.at = "write", !.q = t, !.hand = h]]
    BY <1>4
  <2> HIDE DEF t, h
  <2>4. w1 \in Writer
    BY <1>1, WriterShape
  <2>5. w2 \in Writer
    BY <2>1, <2>4, WriterShape
  <2>6. w3 \in Writer
    BY <2>2, <2>5, WriterShape
  <2>7. [writer[c] EXCEPT !.at = "write", !.q = t, !.hand = h] = w3
    BY <1>1 DEF Writer
  <2>8. w3.at = "write" /\ w3.q = t /\ w3.hand = h /\ w3.err = writer[c].err
    BY <1>1 DEF Writer
  <2> HIDE DEF w3
  <2>9. /\ writer' \in [Clients -> Writer] /\ \A d \in Clients : d # c => writer'[d] = writer[d]
        /\ writer'[c] = w3
    BY <2>3, <2>6, <2>7 DEF ClientType
  <2>10. QED
    BY <1>1, <1>2, <1>4, <2>8, <2>9 DEF ClientType, Rest, t, h
<1>5. QED
  BY <1>3, <1>4 DEF WriterTakes

\* The frame in the writer's hand goes out, or the writer stops.
LEMMA WriteMoves ==
    ASSUME ClientType, NEW c \in Clients, Write(c), Len(writer[c].hand) = 1
    PROVE  /\ ClientType' /\ Rest(c) /\ conn' = conn /\ sub' = sub
           /\ offered'[c] = offered[c] /\ skipped'[c] = skipped[c]
           /\ writer[c].at = "write" /\ writer'[c].q = writer[c].q
           /\ writer'[c].hand = <<>>
           /\ \/ /\ conn[c].code = 0 /\ writer'[c].at = "idle"
                 /\ Head(writer[c].hand).event = 0
                 /\ told'[c] = Head(writer[c].hand) /\ delivered'[c] = delivered[c]
              \/ /\ conn[c].code = 0 /\ writer'[c].at = "idle"
                 /\ Head(writer[c].hand).event # 0
                 /\ delivered'[c] = Append(delivered[c], Head(writer[c].hand).event)
                 /\ told'[c] = told[c]
              \/ /\ writer'[c].at = "stopped"
                 /\ told'[c] = told[c] /\ delivered'[c] = delivered[c]
<1> DEFINE f == Head(writer[c].hand)
           ok == c \notin stalled \cup gone /\ ~conn[c].cancelled /\ conn[c].code = 0
           err == CASE conn[c].cancelled -> ""
                    [] c \in gone -> "net"
                    [] OTHER -> "slow"
           sent == [[writer[c] EXCEPT !.at = "idle"] EXCEPT !.hand = <<>>]
           w1 == [writer[c] EXCEPT !.at = "stopped"]
           w2 == [w1 EXCEPT !.hand = <<>>]
           failed == [w2 EXCEPT !.err = err]
<1>1. /\ writer[c] \in Writer /\ writer[c].at = "write" /\ writer[c].hand \in Seq(Frames)
      /\ f \in Frames /\ f.event \in Nat /\ delivered[c] \in Seq(Nat \ {0})
  <2>1. /\ writer[c] \in Writer /\ writer[c].at = "write" /\ writer[c].hand \in Seq(Frames)
        /\ delivered[c] \in Seq(Nat \ {0})
    BY ClientFacts DEF Write
  <2>2. f \in Frames
    BY <2>1
  <2>3. QED
    BY <2>1, <2>2, FrameFacts
<1>2. conn' = conn /\ sub' = sub /\ offered' = offered /\ skipped' = skipped
  BY DEF Write, fanVars
<1>3. sent \in Writer
  <2>1. [writer[c] EXCEPT !.at = "idle"] \in Writer
    BY <1>1, WriterShape
  <2>2. QED
    BY <2>1, WriterShape, NoFrames
<1>4. failed \in Writer
  <2>1. w1 \in Writer
    BY <1>1, WriterShape
  <2>2. w2 \in Writer
    BY <2>1, WriterShape, NoFrames
  <2>3. err \in {"", "net", "slow"}
    OBVIOUS
  <2>4. QED
    BY <2>2, <2>3, WriterShape
<1>5. /\ sent.at = "idle" /\ sent.hand = <<>> /\ sent.q = writer[c].q
      /\ failed.at = "stopped" /\ failed.hand = <<>> /\ failed.q = writer[c].q
  BY <1>1 DEF Writer
<1>6. CASE ok
  <2>1. writer' = [writer EXCEPT ![c].at = "idle", ![c].hand = <<>>]
    BY <1>6 DEF Write
  <2>2. [writer[c] EXCEPT !.at = "idle", !.hand = <<>>] = sent
    BY <1>1 DEF Writer
  <2>3. writer' = [writer EXCEPT ![c] = [writer[c] EXCEPT !.at = "idle", !.hand = <<>>]]
    BY <2>1
  <2> HIDE DEF sent
  <2>4. /\ writer' \in [Clients -> Writer] /\ \A d \in Clients : d # c => writer'[d] = writer[d]
        /\ writer'[c] = sent
    BY <1>3, <2>2, <2>3 DEF ClientType
  <2>5. CASE f.event = 0
    <3>1. told' = [told EXCEPT ![c] = f] /\ delivered' = delivered
      BY <1>6, <2>5 DEF Write
    <3>2. told' \in [Clients -> Frames] /\ \A d \in Clients : d # c => told'[d] = told[d]
          /\ told'[c] = f
      BY <1>1, <3>1 DEF ClientType
    <3>3. QED
      BY <1>1, <1>2, <1>5, <1>6, <2>4, <2>5, <3>1, <3>2 DEF ClientType, Rest
  <2>6. CASE f.event # 0
    <3>1. delivered' = [delivered EXCEPT ![c] = Append(@, f.event)] /\ told' = told
      BY <1>6, <2>6 DEF Write
    <3>2. Append(delivered[c], f.event) \in Seq(Nat \ {0})
      BY <1>1, <2>6
    <3>3. /\ delivered' \in [Clients -> Seq(Nat \ {0})]
          /\ \A d \in Clients : d # c => delivered'[d] = delivered[d]
          /\ delivered'[c] = Append(delivered[c], f.event)
      BY <3>1, <3>2 DEF ClientType
    <3>4. QED
      BY <1>1, <1>2, <1>5, <1>6, <2>4, <2>6, <3>1, <3>3 DEF ClientType, Rest
  <2>7. QED
    BY <2>5, <2>6
<1>7. CASE ~ok
  <2> HIDE DEF err
  <2>1. writer' = [writer EXCEPT ![c].at = "stopped", ![c].hand = <<>>, ![c].err = err]
        /\ told' = told /\ delivered' = delivered
    BY <1>7 DEF Write, err
  <2>2. writer' = [writer EXCEPT ![c] =
                      [writer[c] EXCEPT !.at = "stopped", !.hand = <<>>, !.err = err]]
    BY <2>1
  <2>3. [writer[c] EXCEPT !.at = "stopped", !.hand = <<>>, !.err = err] = failed
    BY <1>1 DEF Writer
  <2> HIDE DEF failed
  <2>4. /\ writer' \in [Clients -> Writer] /\ \A d \in Clients : d # c => writer'[d] = writer[d]
        /\ writer'[c] = failed
    BY <1>4, <2>2, <2>3 DEF ClientType
  <2>5. QED
    BY <1>1, <1>2, <1>5, <2>1, <2>4 DEF ClientType, Rest
<1>8. QED
  BY <1>6, <1>7

\* An event of the batch enters the channel, or is counted, or finds it closed.
LEMMA PublishMoves ==
    ASSUME ClientType, NEW c \in Clients, Publish(c), pub.next \in Nat \ {0}
    PROVE  /\ ClientType' /\ Rest(c) /\ conn' = conn /\ writer' = writer
           /\ told'[c] = told[c] /\ delivered'[c] = delivered[c] /\ skipped'[c] = skipped[c]
           /\ \/ sub'[c] = sub[c] /\ offered'[c] = offered[c]
              \/ /\ sub[c].state # "closed" /\ sub'[c].state = sub[c].state
                 /\ Len(sub[c].events) < SendCap
                 /\ sub'[c].events = Append(sub[c].events, pub.next)
                 /\ sub'[c].dropped = sub[c].dropped
                 /\ offered'[c] = offered[c] + 1
              \/ /\ sub[c].state # "closed" /\ sub'[c].state = sub[c].state
                 /\ sub'[c].events = sub[c].events
                 /\ sub'[c].dropped = sub[c].dropped + 1
                 /\ offered'[c] = offered[c] + 1
<1>1. /\ sub[c] \in Stream /\ sub[c].events \in Seq(Nat \ {0}) /\ sub[c].dropped \in Nat
      /\ offered[c] \in Nat
  BY ClientFacts
<1>2. conn' = conn /\ writer' = writer /\ told' = told /\ delivered' = delivered
      /\ skipped' = skipped
  BY DEF Publish
<1>3. CASE sub[c].state = "closed"
  <2>1. sub' = sub /\ offered' = offered
    BY <1>3 DEF Publish
  <2>2. QED
    BY <1>2, <2>1 DEF ClientType, Rest
<1>4. CASE sub[c].state # "closed"
  <2>1. /\ sub' = IF Len(sub[c].events) < SendCap
                  THEN [sub EXCEPT ![c].events = Append(@, pub.next)]
                  ELSE [sub EXCEPT ![c].dropped = @ + 1]
        /\ offered' = [offered EXCEPT ![c] = @ + 1]
    BY <1>4 DEF Publish
  <2>2. /\ offered' \in [Clients -> Nat] /\ \A d \in Clients : d # c => offered'[d] = offered[d]
        /\ offered'[c] = offered[c] + 1
    BY <1>1, <2>1 DEF ClientType
  <2>3. CASE Len(sub[c].events) < SendCap
    <3> DEFINE events == Append(sub[c].events, pub.next)
    <3>1. events \in Seq(Nat \ {0})
      BY <1>1
    <3>2. sub' = [sub EXCEPT ![c] = [sub[c] EXCEPT !.events = events]]
      BY <2>1, <2>3
    <3> HIDE DEF events
    <3>3. [sub[c] EXCEPT !.events = events] \in Stream
      BY <1>1, <3>1, StreamShape
    <3>4. sub'[c] = [sub[c] EXCEPT !.events = events]
      BY <3>2 DEF ClientType
    <3>5. sub' \in [Clients -> Stream] /\ \A d \in Clients : d # c => sub'[d] = sub[d]
      BY <3>2, <3>3 DEF ClientType
    <3>6. /\ sub'[c].state = sub[c].state /\ sub'[c].dropped = sub[c].dropped
          /\ sub'[c].events = events
      BY <1>1, <3>1, <3>4, StreamShape
    <3>7. QED
      BY <1>2, <1>4, <2>2, <2>3, <3>5, <3>6 DEF ClientType, Rest, events
  <2>4. CASE ~(Len(sub[c].events) < SendCap)
    <3>1. sub' = [sub EXCEPT ![c] = [sub[c] EXCEPT !.dropped = sub[c].dropped + 1]]
      BY <2>1, <2>4
    <3>2. sub[c].dropped + 1 \in Nat
      BY <1>1
    <3>3. \A n \in Nat : [sub[c] EXCEPT !.dropped = n] \in Stream
      BY <1>1 DEF Stream
    <3>4. \A n \in Nat : /\ [sub[c] EXCEPT !.dropped = n].state = sub[c].state
                         /\ [sub[c] EXCEPT !.dropped = n].events = sub[c].events
                         /\ [sub[c] EXCEPT !.dropped = n].dropped = n
      BY <1>1 DEF Stream
    <3>5. sub'[c] = [sub[c] EXCEPT !.dropped = sub[c].dropped + 1]
      BY <3>1 DEF ClientType
    <3>6. sub' \in [Clients -> Stream] /\ \A d \in Clients : d # c => sub'[d] = sub[d]
      BY <3>1, <3>2, <3>3 DEF ClientType
    <3>7. QED
      BY <1>2, <1>4, <2>2, <3>2, <3>4, <3>5, <3>6 DEF ClientType, Rest
  <2>5. QED
    BY <2>3, <2>4
<1>5. QED
  BY <1>3, <1>4

-----------------------------------------------------------------------------
(* What a step does to the line of frames of a client. *)

Line(r, w) == w.hand \o w.q \o IF r.at = "wait" THEN <<r.frame>> ELSE <<>>

LEMMA LineShape ==
    ASSUME NEW r \in Conn, NEW w \in Writer
    PROVE  /\ Line(r, w) \in Seq(Frames) /\ w.hand \o w.q \in Seq(Frames)
           /\ w.hand \in Seq(Frames) /\ w.q \in Seq(Frames)
           /\ r.at # "wait" => Line(r, w) = w.hand \o w.q
           /\ r.at = "wait" => Line(r, w) = Append(w.hand \o w.q, r.frame)
           /\ w.hand = <<>> => w.hand \o w.q = w.q
<1>1. w.hand \in Seq(Frames) /\ w.q \in Seq(Frames) /\ r.frame \in Frames
  BY DEF Conn, Writer
<1>2. w.hand \o w.q \in Seq(Frames)
  BY <1>1
<1>3. ASSUME r.at # "wait"
      PROVE  Line(r, w) = w.hand \o w.q
  BY <1>2, <1>3, ConcatEmptySeq DEF Line
<1>4. ASSUME r.at = "wait"
      PROVE  Line(r, w) = Append(w.hand \o w.q, r.frame)
  BY <1>1, <1>2, <1>4, AppendIsConcat DEF Line
<1>5. Line(r, w) \in Seq(Frames)
  <2>1. Append(w.hand \o w.q, r.frame) \in Seq(Frames)
    BY <1>1, <1>2, AppendProperties
  <2>2. QED
    BY <1>2, <1>3, <1>4, <2>1
<1>6. QED
  BY <1>1, <1>2, <1>3, <1>4, <1>5, ConcatEmptySeq

LEMMA PipelineShape ==
    ASSUME ClientType, NEW c \in Clients
    PROVE  /\ Pipeline(c) = Line(conn[c], writer[c]) /\ Pipeline(c) \in Seq(Frames)
           /\ EventsIn(Pipeline(c)) \subseteq Nat \ {0}
<1>1. Pipeline(c) = Line(conn[c], writer[c]) /\ Pipeline(c) \in Seq(Frames)
  BY ClientFacts, LineShape DEF Pipeline, Line
<1>2. \A P \in Seq(Frames) : EventsIn(P) \subseteq Nat \ {0}
  <2> TAKE P \in Seq(Frames)
  <2>1. \A i \in DOMAIN P : P[i] \in Frames
    OBVIOUS
  <2>2. \A i \in DOMAIN P : P[i].event \in Nat
    BY <2>1, FrameFacts
  <2>3. QED
    BY <2>2 DEF EventsIn
<1>3. QED
  BY <1>1, <1>2

\* A queue of which the head goes to the hand, and a hand that empties.
LEMMA LineOrder ==
    ASSUME NEW q \in Seq(Frames), NEW h \in Frames
    PROVE  /\ q # <<>> => <<Head(q)>> \o Tail(q) = q
           /\ <<h>> \o q # <<>> /\ Head(<<h>> \o q) = h /\ Tail(<<h>> \o q) = q
           /\ \A f \in Frames : Append(<<h>> \o q, f) # <<>> /\ Head(Append(<<h>> \o q, f)) = h
                                /\ Tail(Append(<<h>> \o q, f)) = Append(q, f)
<1>1. q # <<>> => <<Head(q)>> \o Tail(q) = q
  OBVIOUS
<1>2. <<h>> \o q # <<>> /\ Head(<<h>> \o q) = h /\ Tail(<<h>> \o q) = q /\ <<h>> \o q \in Seq(Frames)
  OBVIOUS
<1>3. \A f \in Frames : Append(<<h>> \o q, f) # <<>> /\ Head(Append(<<h>> \o q, f)) = h
                        /\ Tail(Append(<<h>> \o q, f)) = Append(q, f)
  BY <1>2, HeadTailAppend, AppendProperties
<1>4. QED
  BY <1>1, <1>2, <1>3

LEMMA NextLine ==
    ASSUME ClientType', NEW c \in Clients
    PROVE  /\ Pipeline(c)' = Line(conn'[c], writer'[c]) /\ Pipeline(c)' \in Seq(Frames)
           /\ conn'[c] \in Conn /\ writer'[c] \in Writer /\ sub'[c] \in Stream
           /\ writer'[c].q \in Seq(Frames) /\ writer'[c].hand \in Seq(Frames)
<1>1. conn'[c] \in Conn /\ writer'[c] \in Writer /\ sub'[c] \in Stream
  BY DEF ClientType
<1>2. Pipeline(c)' = Line(conn'[c], writer'[c])
  BY DEF Pipeline, Line
<1>3. QED
  BY <1>1, <1>2, LineShape

LEMMA ConcatAppend ==
    ASSUME NEW p \in Seq(Frames), NEW q \in Seq(Frames), NEW f \in Frames
    PROVE  p \o Append(q, f) = Append(p \o q, f)
OBVIOUS

\* The handler is not waiting and touches no queue.
LEMMA LineStays ==
    ASSUME ClientType, ClientType', NEW c \in Clients,
           conn[c].at # "wait", conn'[c].at # "wait",
           writer'[c].q = writer[c].q, writer'[c].hand = writer[c].hand
    PROVE  Pipeline(c)' = Pipeline(c)
<1>1. /\ Pipeline(c) = Line(conn[c], writer[c]) /\ Pipeline(c)' = Line(conn'[c], writer'[c])
      /\ conn[c] \in Conn /\ writer[c] \in Writer /\ conn'[c] \in Conn /\ writer'[c] \in Writer
  BY PipelineShape, NextLine, ClientFacts
<1>2. QED
  BY <1>1, LineShape

\* A frame is put behind the others, at once or after a wait.
LEMMA PutsLine ==
    ASSUME ClientType, ClientType', NEW c \in Clients, NEW f \in Frames, Puts(c, f)
    PROVE  \/ c \in left.html /\ f.event = 0 /\ Pipeline(c)' = Pipeline(c)
           \/ Pipeline(c)' = Append(Pipeline(c), f)
<1>1. /\ Pipeline(c) = Line(conn[c], writer[c]) /\ Pipeline(c)' = Line(conn'[c], writer'[c])
      /\ conn[c] \in Conn /\ writer[c] \in Writer /\ conn'[c] \in Conn /\ writer'[c] \in Writer
  BY PipelineShape, NextLine, ClientFacts
<1>2. /\ Pipeline(c) = writer[c].hand \o writer[c].q
      /\ writer[c].hand \in Seq(Frames) /\ writer[c].q \in Seq(Frames)
      /\ writer'[c].hand = writer[c].hand
  BY <1>1, LineShape DEF Puts
<1>3. CASE /\ c \in left.html /\ f.event = 0
           /\ conn'[c].at = "loop" /\ writer'[c].q = writer[c].q
  BY <1>1, <1>2, <1>3, LineShape
<1>4. CASE conn'[c].at = "loop" /\ writer'[c].q = Append(writer[c].q, f)
  <2>1. Pipeline(c)' = writer[c].hand \o Append(writer[c].q, f)
    BY <1>1, <1>2, <1>4, LineShape
  <2>2. QED
    BY <1>2, <2>1, ConcatAppend
<1>5. CASE conn'[c].at = "wait" /\ conn'[c].frame = f /\ writer'[c].q = writer[c].q
  <2>1. Pipeline(c)' = Append(writer'[c].hand \o writer'[c].q, conn'[c].frame)
    BY <1>1, <1>5, LineShape
  <2>2. QED
    BY <1>2, <1>5, <2>1
<1>6. QED
  BY <1>3, <1>4, <1>5 DEF Puts

\* There is room: what waited is at its place.
LEMMA RoomLine ==
    ASSUME ClientType, ClientType', NEW c \in Clients,
           conn[c].at = "wait", conn'[c].at = "loop", writer'[c].hand = writer[c].hand,
           writer'[c].q = Append(writer[c].q, conn[c].frame)
    PROVE  Pipeline(c)' = Pipeline(c)
<1>1. /\ Pipeline(c) = Line(conn[c], writer[c]) /\ Pipeline(c)' = Line(conn'[c], writer'[c])
      /\ conn[c] \in Conn /\ writer[c] \in Writer /\ conn'[c] \in Conn /\ writer'[c] \in Writer
      /\ conn[c].frame \in Frames
  BY PipelineShape, NextLine, ClientFacts
<1>2. /\ Pipeline(c) = Append(writer[c].hand \o writer[c].q, conn[c].frame)
      /\ writer[c].hand \in Seq(Frames) /\ writer[c].q \in Seq(Frames)
  BY <1>1, LineShape
<1>3. Pipeline(c)' = writer[c].hand \o Append(writer[c].q, conn[c].frame)
  BY <1>1, LineShape
<1>4. QED
  BY <1>1, <1>2, <1>3, ConcatAppend

\* The handler closes: the line ends before the frame that waited.
LEMMA ClosesLine ==
    ASSUME ClientType, ClientType', NEW c \in Clients, Closes(c)
    PROVE  \E R \in Seq(Frames) : Pipeline(c) = Pipeline(c)' \o R
<1>1. /\ Pipeline(c) = Line(conn[c], writer[c]) /\ Pipeline(c)' = Line(conn'[c], writer'[c])
      /\ conn[c] \in Conn /\ writer[c] \in Writer /\ conn'[c] \in Conn /\ writer'[c] \in Writer
      /\ conn[c].frame \in Frames /\ Pipeline(c)' \in Seq(Frames)
  BY PipelineShape, NextLine, ClientFacts
<1>2. Pipeline(c)' = writer[c].hand \o writer[c].q
  BY <1>1, LineShape DEF Closes
<1>3. CASE conn[c].at = "wait"
  <2>1. Pipeline(c) = Pipeline(c)' \o <<conn[c].frame>>
    BY <1>1, <1>2, <1>3, LineShape, AppendIsConcat
  <2>2. QED
    BY <1>1, <2>1, OneFrame
<1>4. CASE conn[c].at # "wait"
  <2>1. Pipeline(c) = Pipeline(c)' \o <<>>
    BY <1>1, <1>2, <1>4, LineShape, ConcatEmptySeq
  <2>2. QED
    BY <2>1, NoFrames
<1>5. QED
  BY <1>3, <1>4

\* The writer takes a frame into its hand: the line is the same.
LEMMA TakesLine ==
    ASSUME ClientType, ClientType', NEW c \in Clients, conn' = conn,
           writer[c].hand = <<>>, writer[c].q # <<>>,
           writer'[c].q = Tail(writer[c].q), writer'[c].hand = <<Head(writer[c].q)>>
    PROVE  Pipeline(c)' = Pipeline(c)
<1>1. /\ Pipeline(c) = Line(conn[c], writer[c]) /\ Pipeline(c)' = Line(conn[c], writer'[c])
      /\ conn[c] \in Conn /\ writer[c] \in Writer /\ writer'[c] \in Writer
      /\ writer[c].q \in Seq(Frames) /\ Head(writer[c].q) \in Frames
  BY PipelineShape, NextLine, ClientFacts, FrameLeaves
<1>2. writer'[c].hand \o writer'[c].q = writer[c].q
  BY <1>1, LineOrder
<1>3. writer[c].hand \o writer[c].q = writer[c].q
  BY <1>1, ConcatEmptySeq
<1>4. CASE conn[c].at = "wait"
  BY <1>1, <1>2, <1>3, <1>4, LineShape
<1>5. CASE conn[c].at # "wait"
  BY <1>1, <1>2, <1>3, <1>5, LineShape
<1>6. QED
  BY <1>4, <1>5

\* What the writer held leaves the line.
LEMMA WriteLine ==
    ASSUME ClientType, ClientType', NEW c \in Clients, conn' = conn,
           Len(writer[c].hand) = 1, writer'[c].q = writer[c].q, writer'[c].hand = <<>>
    PROVE  /\ Pipeline(c) # <<>> /\ Head(Pipeline(c)) = Head(writer[c].hand)
           /\ Pipeline(c)' = Tail(Pipeline(c))
<1>1. /\ Pipeline(c) = Line(conn[c], writer[c]) /\ Pipeline(c)' = Line(conn[c], writer'[c])
      /\ conn[c] \in Conn /\ writer[c] \in Writer /\ writer'[c] \in Writer
      /\ writer[c].q \in Seq(Frames) /\ writer[c].hand \in Seq(Frames)
      /\ conn[c].frame \in Frames
  BY PipelineShape, NextLine, ClientFacts
<1>2. PICK h \in Frames : writer[c].hand = <<h>> /\ Head(writer[c].hand) = h
  <2>1. writer[c].hand[1] \in Frames
    BY <1>1
  <2>2. writer[c].hand = <<writer[c].hand[1]>>
    BY <1>1
  <2>3. QED
    BY <2>1, <2>2
<1>3. writer'[c].hand \o writer'[c].q = writer[c].q
  BY <1>1, ConcatEmptySeq
<1>4. CASE conn[c].at = "wait"
  <2>1. Pipeline(c) = Append(<<h>> \o writer[c].q, conn[c].frame)
    BY <1>1, <1>2, <1>4, LineShape
  <2>2. Pipeline(c)' = Append(writer[c].q, conn[c].frame)
    BY <1>1, <1>3, <1>4, LineShape
  <2>3. QED
    BY <1>1, <1>2, <2>1, <2>2, LineOrder
<1>5. CASE conn[c].at # "wait"
  <2>1. Pipeline(c) = <<h>> \o writer[c].q
    BY <1>1, <1>2, <1>5, LineShape
  <2>2. Pipeline(c)' = writer[c].q
    BY <1>1, <1>3, <1>5, LineShape
  <2>3. QED
    BY <1>1, <1>2, <2>1, <2>2, LineOrder
<1>6. QED
  BY <1>4, <1>5

\* A line without frames.
LEMMA EmptyLine ==
    ASSUME ClientType', NEW c \in Clients, conn'[c].at # "wait",
           writer'[c].q = <<>>, writer'[c].hand = <<>>
    PROVE  Pipeline(c)' = <<>>
<1>1. Pipeline(c)' = writer'[c].hand \o writer'[c].q
  BY NextLine, LineShape
<1>2. QED
  BY <1>1

-----------------------------------------------------------------------------
(* Numbers in order. *)

\* A number that is above the others is added, the first one leaves.
LEMMA NumberAdded ==
    ASSUME NEW s \in Seq(Nat \ {0}), NEW n \in Nat \ {0}, Ascends(s), Below(ToSet(s), {n})
    PROVE  Ascends(Append(s, n)) /\ ToSet(Append(s, n)) = ToSet(s) \cup {n}
<1> DEFINE t == Append(s, n)
<1>1. /\ Len(s) \in Nat /\ DOMAIN s = 1..Len(s) /\ DOMAIN t = 1..Len(s) + 1
      /\ \A i \in 1..Len(s) : t[i] = s[i] /\ s[i] \in Nat
      /\ t[Len(s) + 1] = n
  OBVIOUS
<1> HIDE DEF t
<1>2. ToSet(t) = ToSet(s) \cup {n}
  BY <1>1 DEF ToSet
<1>3. \A i \in DOMAIN s : s[i] < n
  BY DEF Below, ToSet
<1>4. Ascends(t)
  BY <1>1, <1>3 DEF Ascends
<1>5. QED
  BY <1>2, <1>4 DEF t

LEMMA NumberLeaves ==
    ASSUME NEW s \in Seq(Nat \ {0}), s # <<>>, Ascends(s)
    PROVE  /\ Head(s) \in Nat \ {0} /\ Tail(s) \in Seq(Nat \ {0}) /\ Len(Tail(s)) = Len(s) - 1
           /\ Ascends(Tail(s)) /\ ToSet(s) = {Head(s)} \cup ToSet(Tail(s))
           /\ Below({Head(s)}, ToSet(Tail(s)))
<1> DEFINE t == Tail(s)
<1>1. /\ Len(s) \in Nat \ {0} /\ DOMAIN s = 1..Len(s) /\ DOMAIN t = 1..Len(s) - 1
      /\ \A i \in 1..Len(s) - 1 : t[i] = s[i + 1]
      /\ \A i \in 1..Len(s) : s[i] \in Nat \ {0}
      /\ Head(s) = s[1] /\ t \in Seq(Nat \ {0}) /\ Len(t) = Len(s) - 1
  OBVIOUS
<1> HIDE DEF t
<1>2. \A i \in DOMAIN t : i + 1 \in DOMAIN s /\ t[i] = s[i + 1] /\ 1 < i + 1
  BY <1>1
<1>3. \A i \in DOMAIN s : i = 1 \/ (i - 1 \in DOMAIN t /\ s[i] = t[i - 1])
  BY <1>1
<1>4. Ascends(t)
  <2> SUFFICES ASSUME NEW i \in DOMAIN t, NEW k \in DOMAIN t, i < k PROVE t[i] < t[k]
    BY DEF Ascends
  <2>1. i + 1 < k + 1
    BY <1>1
  <2>2. QED
    BY <1>2, <2>1 DEF Ascends
<1>5. ToSet(s) = {Head(s)} \cup ToSet(t)
  <2>1. \A i \in DOMAIN s : s[i] \in {Head(s)} \cup {t[k] : k \in DOMAIN t}
    BY <1>1, <1>3
  <2>2. \A i \in DOMAIN t : t[i] \in {s[k] : k \in DOMAIN s}
    BY <1>2
  <2>3. 1 \in DOMAIN s /\ Head(s) = s[1]
    BY <1>1
  <2>4. QED
    BY <2>1, <2>2, <2>3 DEF ToSet
<1>6. Below({Head(s)}, ToSet(t))
  <2>1. \A i \in DOMAIN t : Head(s) < t[i]
    <3>1. 1 \in DOMAIN s /\ Head(s) = s[1]
      BY <1>1
    <3>2. QED
      BY <1>2, <3>1 DEF Ascends
  <2>2. QED
    BY <2>1 DEF Below, ToSet
<1>7. QED
  BY <1>1, <1>4, <1>5, <1>6 DEF t

\* How many events a line holds.
LEMMA CountEvents ==
    ASSUME NEW P \in Seq(Frames)
    PROVE  /\ IsFiniteSet(EventsIn(P)) /\ Cardinality(EventsIn(P)) \in Nat
           /\ \A e : e \notin EventsIn(P) =>
                 Cardinality(EventsIn(P) \cup {e}) = Cardinality(EventsIn(P)) + 1
<1>1. IsFiniteSet(DOMAIN P)
  BY FS_Interval
<1>2. IsFiniteSet({P[i].event : i \in DOMAIN P})
  <2> DEFINE f == [i \in DOMAIN P |-> P[i].event]
             T == {P[i].event : i \in DOMAIN P}
  <2>1. f \in Surjection(DOMAIN P, T)
    BY DEF Surjection
  <2> HIDE DEF f, T
  <2>2. IsFiniteSet(T)
    BY <1>1, <2>1, FS_Surjection
  <2>3. QED
    BY <2>2 DEF T
<1>3. IsFiniteSet(EventsIn(P))
  BY <1>2, FS_RemoveElement DEF EventsIn
<1>4. QED
  BY <1>3, FS_CardinalityType, FS_AddElement

-----------------------------------------------------------------------------
(* The invariant of one client. *)

LineTrue(c) ==
    c \notin left.html /\ Lined(c) =>
       /\ LastTells(told[c], Pipeline(c), conn[c].filter, conn[c].capped)
       /\ EventsAcked(told[c], Pipeline(c))

Accounted(c) ==
    Streaming(c) =>
       offered[c] = Len(sub[c].events) + sub[c].dropped + skipped[c]
                    + conn[c].dropped + Cardinality(EventsIn(Pipeline(c)))
                    + Len(delivered[c])

ClientInv(c) == StageTrue(c) /\ FreshTrue(c) /\ LineTrue(c) /\ OrderTrue(c) /\ Accounted(c)

Held(c) == ClientType /\ ClientInv(c) /\ Limit(c) \in Nat

\* The step publishes nothing new to the client that is not above its limit.
Quiet(c) ==
    /\ ClientType' /\ left'.html = left.html
    /\ Limit(c)' \in Nat /\ Limit(c) <= Limit(c)'
    /\ c \in subs' \cup pub'.todo => c \in subs \cup pub.todo \/ sub'[c].state # "none"

LEMMA Numbers ==
    ASSUME NEW s \in Seq(Nat \ {0})
    PROVE  ToSet(s) \subseteq Nat \ {0} /\ Len(s) \in Nat
BY DEF ToSet

LEMMA EventNumbers ==
    ASSUME NEW P \in Seq(Frames)
    PROVE  EventsIn(P) \subseteq Nat \ {0}
<1>1. \A i \in DOMAIN P : P[i] \in Frames
  OBVIOUS
<1>2. \A i \in DOMAIN P : P[i].event \in Nat
  BY <1>1, FrameFacts
<1>3. QED
  BY <1>2 DEF EventsIn

LEMMA HigherLimit ==
    ASSUME NEW A, A \subseteq Nat, NEW n \in Nat, NEW m \in Nat, n <= m, Below(A, {n})
    PROVE  Below(A, {m})
BY DEF Below

\* The counts that add up to the events offered.
Counts(c, l, d, s, k, n, m) ==
    /\ l = Len(sub[c].events) /\ d = sub[c].dropped /\ s = skipped[c] /\ k = conn[c].dropped
    /\ n = Cardinality(EventsIn(Pipeline(c))) /\ m = Len(delivered[c])

LEMMA CountsExist ==
    ASSUME ClientType, NEW c \in Clients
    PROVE  \E l, d, s, k, n, m \in Nat : Counts(c, l, d, s, k, n, m)
<1>1. /\ Len(sub[c].events) \in Nat /\ sub[c].dropped \in Nat /\ skipped[c] \in Nat
      /\ conn[c].dropped \in Nat /\ Cardinality(EventsIn(Pipeline(c))) \in Nat
      /\ Len(delivered[c]) \in Nat
  BY ClientFacts, PipelineShape, CountEvents, Numbers
<1>2. QED
  BY <1>1 DEF Counts

\* Events that are fewer are still in order.
LEMMA LessOrder ==
    ASSUME NEW c \in Clients, Held(c), Quiet(c), delivered'[c] = delivered[c],
           EventsIn(Pipeline(c)') \subseteq EventsIn(Pipeline(c)), EventsAscend(Pipeline(c)'),
           ToSet(sub'[c].events) \subseteq ToSet(sub[c].events), Ascends(sub'[c].events)
    PROVE  OrderTrue(c)'
<1> DEFINE out == ToSet(delivered[c])
           way == EventsIn(Pipeline(c))
           in == ToSet(sub[c].events)
           way2 == EventsIn(Pipeline(c)')
           in2 == ToSet(sub'[c].events)
<1>1. /\ out \subseteq Nat /\ way \subseteq Nat /\ in \subseteq Nat
      /\ Limit(c) \in Nat /\ Limit(c)' \in Nat /\ Limit(c) <= Limit(c)'
      /\ way2 \subseteq way /\ in2 \subseteq in
  BY ClientFacts, PipelineShape, Numbers DEF Held, Quiet
<1>2. /\ Below(out, way) /\ Below(out, in) /\ Below(way, in)
      /\ Below(out \cup way \cup in, {Limit(c)}) /\ Ascends(delivered[c])
  BY DEF Held, ClientInv, OrderTrue
<1> HIDE DEF out, way, in, way2, in2
<1>3. Below(out, way2) /\ Below(out, in2) /\ Below(way2, in2)
  BY <1>1, <1>2 DEF Below
<1>4. Below(out \cup way2 \cup in2, {Limit(c)'})
  BY <1>1, <1>2 DEF Below
<1>5. QED
  BY <1>2, <1>3, <1>4 DEF OrderTrue, out, way2, in2

LEMMA SameOrder ==
    ASSUME NEW c \in Clients, Held(c), Quiet(c), delivered'[c] = delivered[c],
           Pipeline(c)' = Pipeline(c), sub'[c].events = sub[c].events
    PROVE  OrderTrue(c)'
<1>1. EventsAscend(Pipeline(c)) /\ Ascends(sub[c].events)
  BY DEF Held, ClientInv, OrderTrue
<1>2. QED
  BY <1>1, LessOrder

\* A client of which a step changes nothing.
LEMMA OthersStay ==
    ASSUME NEW c \in Clients, Held(c), Quiet(c),
           conn'[c] = conn[c], writer'[c] = writer[c], sub'[c] = sub[c], Still(c)
    PROVE  ClientInv(c)'
<1>1. Pipeline(c)' = Pipeline(c)
  BY DEF Pipeline
<1>2. OrderTrue(c)'
  BY <1>1, SameOrder DEF Still
<1>3. StageTrue(c)'
  BY DEF Held, ClientInv, StageTrue, Still
<1>4. FreshTrue(c)'
  BY <1>1 DEF Held, ClientInv, FreshTrue, Quiet, Still
<1>5. LineTrue(c)'
  BY <1>1 DEF Held, ClientInv, LineTrue, Lined, Quiet, Still
<1>6. Accounted(c)'
  BY <1>1 DEF Held, ClientInv, Accounted, Streaming, Still
<1>7. QED
  BY <1>2, <1>3, <1>4, <1>5, <1>6 DEF ClientInv

\* The handler goes from place to place outside its loop.
LEMMA PlaceInv ==
    ASSUME NEW c \in Clients, Held(c), Quiet(c), Still(c), Same(c), writer' = writer,
           sub'[c].events = sub[c].events, sub'[c].dropped = sub[c].dropped,
           \/ /\ sub' = sub /\ conn'[c].code = conn[c].code
              /\ \/ conn[c].at = "idle" /\ conn'[c].at \in {"checked", "done"}
                 \/ conn[c].at = "checked" /\ conn'[c].at \in {"over", "counted"}
                 \/ conn[c].at = "counted" /\ conn'[c].at \in {"release", "await"}
                 \/ conn[c].at = "leave" /\ conn'[c].at = "unregister"
                 \/ conn[c].at = "release" /\ conn'[c].at = "done"
           \/ sub' = sub /\ conn[c].at = "over" /\ conn'[c].at = "done"
           \/ /\ conn'[c].code = conn[c].code
              /\ \/ conn[c].at = "subscribe" /\ conn'[c].at = "loop" /\ sub'[c].state = "open"
                 \/ conn[c].at = "cancel" /\ conn'[c].at = "leave" /\ sub'[c].state = "closed"
    PROVE  ClientInv(c)'
<1>1. conn[c].at # "wait" /\ conn'[c].at # "wait" /\ writer'[c] = writer[c]
  OBVIOUS
<1>2. Pipeline(c)' = Pipeline(c)
  BY <1>1, LineStays DEF Held, Quiet
<1>3. OrderTrue(c)'
  BY <1>2, SameOrder DEF Still
<1>4. StageTrue(c)'
  BY <1>1 DEF Held, ClientInv, StageTrue, Still, Same, Early, Going, Open
<1>5. FreshTrue(c)'
  BY <1>1, <1>2 DEF Held, ClientInv, FreshTrue, Quiet, Still, Same
<1>6. LineTrue(c)'
  <2>1. Lined(c)' => Lined(c)
    BY <1>1 DEF Lined, Going, Open
  <2>2. QED
    BY <1>2, <2>1 DEF Held, ClientInv, LineTrue, Quiet, Still, Same
<1>7. Accounted(c)'
  <2> SUFFICES ASSUME Streaming(c)'
               PROVE  /\ sub[c].state = "none" /\ conn[c].at = "subscribe"
    <3>1. Cardinality({}) = 0 /\ Len(<<>>) = 0
      BY FS_EmptySet
    <3>2. ASSUME sub[c].state = "none"
          PROVE  /\ sub[c].events = <<>> /\ sub[c].dropped = 0
                 /\ offered[c] = 0 /\ skipped[c] = 0 /\ delivered[c] = <<>>
                 /\ conn[c].dropped = 0 /\ EventsIn(Pipeline(c)) = {}
      BY <3>2 DEF Held, ClientInv, FreshTrue
    <3>3. ASSUME sub[c].state = "none"
          PROVE  offered'[c] = Len(sub'[c].events) + sub'[c].dropped + skipped'[c]
                    + conn'[c].dropped + Cardinality(EventsIn(Pipeline(c)'))
                    + Len(delivered'[c])
      <4>1. /\ offered'[c] = 0 /\ Len(sub'[c].events) = 0 /\ sub'[c].dropped = 0
            /\ skipped'[c] = 0 /\ conn'[c].dropped = 0 /\ Len(delivered'[c]) = 0
            /\ Cardinality(EventsIn(Pipeline(c)')) = 0
        BY <1>2, <3>1, <3>2, <3>3 DEF Still, Same
      <4>2. QED
        BY <4>1
    <3>4. QED
      BY <3>3 DEF Accounted
  <2>1. conn'[c].at \in {"loop", "wait"}
    BY DEF Streaming
  <2>2. conn[c].at = "subscribe"
    BY <2>1
  <2>3. QED
    BY <2>2 DEF Held, ClientInv, StageTrue, Early
<1>8. QED
  BY <1>3, <1>4, <1>5, <1>6, <1>7 DEF ClientInv

\* The handler closes.
LEMMA ClosesInv ==
    ASSUME NEW c \in Clients, Held(c), Quiet(c), Still(c), Closes(c),
           conn[c].at \in Open \cup {"await"}
    PROVE  ClientInv(c)'
<1>1. /\ ClientType /\ ClientType' /\ Pipeline(c)' \in Seq(Frames)
      /\ StageTrue(c) /\ FreshTrue(c) /\ OrderTrue(c)
  BY NextLine DEF Held, Quiet, ClientInv
<1>2. /\ EventsIn(Pipeline(c)') \subseteq EventsIn(Pipeline(c))
      /\ EventsAscend(Pipeline(c)) => EventsAscend(Pipeline(c)')
  BY <1>1, ClosesLine, FrameDropped
<1>3. conn'[c].at \in {"unregister", "cancel"} /\ writer'[c] = writer[c] /\ sub'[c] = sub[c]
  BY DEF Closes
<1>4. OrderTrue(c)'
  <2>1. EventsAscend(Pipeline(c)') /\ Ascends(sub[c].events)
    BY <1>1, <1>2 DEF OrderTrue
  <2>2. QED
    BY <1>2, <1>3, <2>1, LessOrder DEF Still
<1>5. StageTrue(c)'
  <2>1. conn'[c].at = "cancel" => sub[c].state = "open"
    BY <1>1 DEF Closes, StageTrue, Open, Early
  <2>2. QED
    BY <1>1, <1>3, <2>1 DEF Closes, StageTrue, Still, Early, Going, Open
<1>6. FreshTrue(c)'
  BY <1>1, <1>2, <1>3 DEF Closes, FreshTrue, Still, Quiet
<1>7. LineTrue(c)' /\ Accounted(c)'
  BY <1>3 DEF LineTrue, Accounted, Lined, Streaming, Going, Open
<1>8. QED
  BY <1>4, <1>5, <1>6, <1>7 DEF ClientInv

\* What the handler leaves of a stream of which it takes the next event.
Taken(c) ==
    /\ sub[c].events # <<>> /\ sub'[c].events = Tail(sub[c].events)
    /\ sub'[c].dropped = sub[c].dropped /\ sub'[c].state = sub[c].state

\* In the loop the stream is open, and the line of a JSON client is true.
LEMMA LoopFacts ==
    ASSUME NEW c \in Clients, Held(c), conn[c].at = "loop"
    PROVE  /\ sub[c].state = "open" /\ conn[c].code = 0 /\ conn[c].filter \in Filters
           /\ writer[c].at # "none" /\ told[c] \in Frames /\ told[c].event = 0
           /\ Lined(c) <=> writer[c].at # "stopped"
           /\ Streaming(c) <=> writer[c].at # "stopped"
           /\ Pipeline(c) \in Seq(Frames) /\ EventsAscend(Pipeline(c)) /\ Ascends(sub[c].events)
BY PipelineShape, ClientFacts
   DEF Held, ClientInv, StageTrue, OrderTrue, Going, Open, Early, Lined, Streaming

\* What must hold of the handler and its writer after a step of the loop.
LEMMA LoopStage ==
    ASSUME NEW c \in Clients, Held(c), Quiet(c), conn[c].at = "loop",
           conn'[c].at \in Open, conn'[c].code = conn[c].code, conn'[c].filter \in Filters,
           writer'[c].at = writer[c].at, writer'[c].hand = writer[c].hand,
           writer'[c].err = writer[c].err, Len(writer'[c].q) <= WriteCap,
           sub'[c].state = sub[c].state, Len(sub'[c].events) <= SendCap, told'[c] = told[c]
    PROVE  /\ StageTrue(c)' /\ FreshTrue(c)'
           /\ Lined(c)' <=> writer[c].at # "stopped"
           /\ Streaming(c)' <=> writer[c].at # "stopped"
BY LoopFacts DEF Held, ClientInv, StageTrue, FreshTrue, Going, Open, Early, Lined, Streaming

LEMMA PutsRoom ==
    ASSUME WriteCap \in Nat, NEW c \in Clients, Held(c), NEW f \in Frames, Puts(c, f)
    PROVE  Len(writer'[c].q) <= WriteCap
<1>1. writer[c].q \in Seq(Frames) /\ Len(writer[c].q) <= WriteCap
  BY ClientFacts DEF Held, ClientInv, StageTrue
<1>2. QED
  BY <1>1 DEF Puts

LEMMA TakenFacts ==
    ASSUME SendCap \in Nat, NEW c \in Clients, Held(c), Taken(c)
    PROVE  /\ Len(sub'[c].events) = Len(sub[c].events) - 1 /\ Len(sub'[c].events) <= SendCap
           /\ Head(sub[c].events) \in Nat \ {0} /\ Ascends(sub'[c].events)
           /\ ToSet(sub[c].events) = {Head(sub[c].events)} \cup ToSet(sub'[c].events)
           /\ Below({Head(sub[c].events)}, ToSet(sub'[c].events))
<1>1. /\ sub[c].events \in Seq(Nat \ {0}) /\ Len(sub[c].events) <= SendCap
      /\ Ascends(sub[c].events)
  BY ClientFacts DEF Held, ClientInv, StageTrue, OrderTrue
<1>2. sub[c].events # <<>> /\ sub'[c].events = Tail(sub[c].events)
  BY DEF Taken
<1>3. /\ Len(sub'[c].events) = Len(sub[c].events) - 1
      /\ Head(sub[c].events) \in Nat \ {0} /\ Ascends(sub'[c].events)
      /\ ToSet(sub[c].events) = {Head(sub[c].events)} \cup ToSet(sub'[c].events)
      /\ Below({Head(sub[c].events)}, ToSet(sub'[c].events))
  BY <1>1, <1>2, NumberLeaves
<1>4. Len(sub[c].events) \in Nat
  BY <1>1
<1>5. Len(sub'[c].events) <= SendCap
  BY <1>1, <1>3, <1>4
<1>6. QED
  BY <1>3, <1>5

\* A status is put: a heartbeat, an acknowledgement, the cap.
LEMMA StatusInv ==
    ASSUME WriteCap \in Nat, SendCap \in Nat, NEW c \in Clients, Held(c), Quiet(c), Still(c),
           NEW f \in Frames, Puts(c, f), f.event = 0, conn'[c].filter \in Filters,
           Tells(f, conn'[c].filter, conn'[c].capped),
           \/ sub'[c] = sub[c] /\ conn'[c].dropped = conn[c].dropped
           \/ Taken(c) /\ conn'[c].dropped = conn[c].dropped + 1
    PROVE  ClientInv(c)'
<1>1. /\ ClientType /\ ClientType' /\ conn[c].at = "loop"
      /\ Pipeline(c) \in Seq(Frames) /\ EventsAscend(Pipeline(c)) /\ Ascends(sub[c].events)
      /\ left'.html = left.html /\ told[c] \in Frames
  BY LoopFacts DEF Held, Quiet, Puts
<1>2. \/ c \in left.html /\ Pipeline(c)' = Pipeline(c)
      \/ Pipeline(c)' = Append(Pipeline(c), f)
  BY <1>1, PutsLine
<1>3. EventsIn(Pipeline(c)') = EventsIn(Pipeline(c)) /\ EventsAscend(Pipeline(c)')
  <2>1. {f.event} \ {0} = {} /\ Below(EventsIn(Pipeline(c)), {f.event} \ {0})
    BY DEF Below
  <2>2. /\ EventsIn(Append(Pipeline(c), f)) = EventsIn(Pipeline(c)) \cup ({f.event} \ {0})
        /\ EventsAscend(Append(Pipeline(c), f))
    BY <1>1, <2>1, FrameAdded
  <2>3. QED
    BY <1>1, <1>2, <2>1, <2>2
<1>4. /\ Len(sub'[c].events) <= SendCap /\ Ascends(sub'[c].events)
      /\ ToSet(sub'[c].events) \subseteq ToSet(sub[c].events) /\ sub'[c].state = sub[c].state
  <2>1. CASE sub'[c] = sub[c]
    BY <1>1, <2>1 DEF Held, ClientInv, StageTrue
  <2>2. CASE Taken(c)
    BY <2>2, TakenFacts DEF Taken
  <2>3. QED
    BY <2>1, <2>2
<1>5. OrderTrue(c)'
  BY <1>3, <1>4, LessOrder DEF Still
<1>6. /\ StageTrue(c)' /\ FreshTrue(c)'
      /\ Lined(c)' <=> writer[c].at # "stopped"
      /\ Streaming(c)' <=> writer[c].at # "stopped"
  BY <1>1, <1>4, PutsRoom, LoopStage DEF Puts, Still
<1>7. LineTrue(c)'
  <2> SUFFICES ASSUME c \notin left.html, writer[c].at # "stopped"
               PROVE  /\ LastTells(told[c], Pipeline(c)', conn'[c].filter, conn'[c].capped)
                      /\ EventsAcked(told[c], Pipeline(c)')
    BY <1>1, <1>6 DEF LineTrue, Still
  <2>1. EventsAcked(told[c], Pipeline(c))
    BY <1>1, LoopFacts DEF Held, ClientInv, LineTrue
  <2>2. QED
    BY <1>1, <1>2, <2>1, StatusAdded
<1>8. Accounted(c)'
  <2> SUFFICES ASSUME writer[c].at # "stopped"
               PROVE  offered[c] = Len(sub'[c].events) + sub'[c].dropped + skipped[c]
                         + conn'[c].dropped + Cardinality(EventsIn(Pipeline(c)))
                         + Len(delivered[c])
    BY <1>3, <1>6 DEF Accounted, Still
  <2>1. offered[c] = Len(sub[c].events) + sub[c].dropped + skipped[c]
                         + conn[c].dropped + Cardinality(EventsIn(Pipeline(c)))
                         + Len(delivered[c])
    BY <1>1, LoopFacts DEF Held, ClientInv, Accounted
  <2>3. CASE sub'[c] = sub[c] /\ conn'[c].dropped = conn[c].dropped
    BY <2>1, <2>3
  <2>4. CASE Taken(c) /\ conn'[c].dropped = conn[c].dropped + 1
    <3>1. Len(sub'[c].events) = Len(sub[c].events) - 1 /\ sub'[c].dropped = sub[c].dropped
      BY <2>4, TakenFacts DEF Taken
    <3>2. PICK l, d, p, k, n, m \in Nat : Counts(c, l, d, p, k, n, m)
      BY <1>1, CountsExist
    <3>3. l + d + p + k + n + m = (l - 1) + d + p + (k + 1) + n + m
      OBVIOUS
    <3>4. offered[c] = l + d + p + k + n + m
      BY <2>1, <3>2 DEF Counts
    <3>5. Len(sub'[c].events) = l - 1 /\ conn'[c].dropped = k + 1 /\ sub'[c].dropped = d
      BY <2>4, <3>1, <3>2 DEF Counts
    <3>6. QED
      BY <3>2, <3>3, <3>4, <3>5 DEF Counts
  <2>5. QED
    BY <2>3, <2>4
<1>9. QED
  BY <1>5, <1>6, <1>7, <1>8 DEF ClientInv

\* The cap no longer counts as told when it no longer bites.
LEMMA CapLifted ==
    ASSUME NEW t, NEW P, NEW filter, NEW capped, LastTells(t, P, filter, capped)
    PROVE  LastTells(t, P, filter, FALSE)
BY DEF LastTells, Tells

\* An event goes from the channel into the line.
LEMMA EventInv ==
    ASSUME WriteCap \in Nat, SendCap \in Nat, NEW c \in Clients, Held(c), Quiet(c), Still(c),
           NEW e, e = Head(sub[c].events), Puts(c, Frame(e)), Taken(c), Match(conn[c].filter, e),
           conn'[c].filter = conn[c].filter, conn'[c].dropped = conn[c].dropped,
           conn'[c].capped = FALSE
    PROVE  ClientInv(c)'
<1>1. /\ ClientType /\ ClientType' /\ conn[c].at = "loop"
      /\ Pipeline(c) \in Seq(Frames) /\ EventsAscend(Pipeline(c)) /\ Ascends(sub[c].events)
      /\ left'.html = left.html /\ told[c] \in Frames /\ conn[c].filter \in Filters
  BY LoopFacts DEF Held, Quiet, Puts
<1>2. /\ Len(sub'[c].events) = Len(sub[c].events) - 1 /\ Len(sub'[c].events) <= SendCap
      /\ e \in Nat \ {0} /\ Ascends(sub'[c].events)
      /\ ToSet(sub[c].events) = {e} \cup ToSet(sub'[c].events)
      /\ Below({e}, ToSet(sub'[c].events))
  BY TakenFacts
<1>3. Frame(e) \in Frames /\ Frame(e).event = e
  BY <1>2, FrameShape
<1>4. Pipeline(c)' = Append(Pipeline(c), Frame(e))
  BY <1>1, <1>2, <1>3, PutsLine
<1>5. /\ Below(ToSet(delivered[c]), EventsIn(Pipeline(c)))
      /\ Below(ToSet(delivered[c]), ToSet(sub[c].events))
      /\ Below(EventsIn(Pipeline(c)), ToSet(sub[c].events)) /\ Ascends(delivered[c])
      /\ Below(ToSet(delivered[c]) \cup EventsIn(Pipeline(c)) \cup ToSet(sub[c].events), {Limit(c)})
  BY DEF Held, ClientInv, OrderTrue
<1>6. /\ EventsIn(Pipeline(c)') = EventsIn(Pipeline(c)) \cup {e}
      /\ EventsAscend(Pipeline(c)')
  <2>1. {Frame(e).event} \ {0} = {e} /\ Below(EventsIn(Pipeline(c)), {e})
    BY <1>2, <1>3, <1>5 DEF Below
  <2>2. QED
    BY <1>1, <1>3, <1>4, <2>1, FrameAdded, ZenonT(30)
<1>7. OrderTrue(c)'
  <2> DEFINE out == ToSet(delivered[c])
             way == EventsIn(Pipeline(c))
             in == ToSet(sub[c].events)
             in2 == ToSet(sub'[c].events)
  <2>1. /\ out \subseteq Nat /\ way \subseteq Nat /\ in \subseteq Nat
        /\ Limit(c) \in Nat /\ Limit(c)' \in Nat /\ Limit(c) <= Limit(c)'
    BY ClientFacts, PipelineShape, Numbers DEF Held, Quiet
  <2>2. /\ Below(out, way) /\ Below(out, in) /\ Below(way, in) /\ Below({e}, in2)
        /\ Below(out \cup way \cup in, {Limit(c)}) /\ in = {e} \cup in2
    BY <1>2, <1>5
  <2> HIDE DEF out, way, in, in2
  <2>3. Below(out, way \cup {e}) /\ Below(out, in2) /\ Below(way \cup {e}, in2)
    BY <2>2 DEF Below
  <2>4. Below(out \cup (way \cup {e}) \cup in2, {Limit(c)'})
    <3>1. out \cup (way \cup {e}) \cup in2 = out \cup way \cup in
      BY <2>2
    <3>2. Below(out \cup way \cup in, {Limit(c)}) /\ out \cup way \cup in \subseteq Nat
      BY <2>1, <2>2
    <3> HIDE <2>2
    <3>3. QED
      BY <2>1, <3>1, <3>2, HigherLimit
  <2>5. QED
    BY <1>2, <1>5, <1>6, <2>3, <2>4 DEF OrderTrue, Still, out, way, in2
<1>8. /\ StageTrue(c)' /\ FreshTrue(c)'
      /\ Lined(c)' <=> writer[c].at # "stopped"
      /\ Streaming(c)' <=> writer[c].at # "stopped"
  BY <1>1, <1>2, <1>3, PutsRoom, LoopStage DEF Puts, Still, Taken
<1>9. LineTrue(c)'
  <2> SUFFICES ASSUME c \notin left.html, writer[c].at # "stopped"
               PROVE  /\ LastTells(told[c], Pipeline(c)', conn[c].filter, FALSE)
                      /\ EventsAcked(told[c], Pipeline(c)')
    BY <1>1, <1>8 DEF LineTrue, Still
  <2>1. /\ EventsAcked(told[c], Pipeline(c))
        /\ LastTells(told[c], Pipeline(c), conn[c].filter, conn[c].capped)
    BY <1>1, LoopFacts DEF Held, ClientInv, LineTrue
  <2>2. LastTells(told[c], Pipeline(c), conn[c].filter, FALSE)
    BY <2>1, CapLifted
  <2>3. QED
    BY <1>1, <1>2, <1>3, <1>4, <2>1, <2>2, EventAdded, ZenonT(30)
<1>10. Accounted(c)'
  <2> SUFFICES ASSUME writer[c].at # "stopped"
               PROVE  offered[c] = Len(sub'[c].events) + sub[c].dropped + skipped[c]
                         + conn[c].dropped + Cardinality(EventsIn(Pipeline(c)) \cup {e})
                         + Len(delivered[c])
    BY <1>6, <1>8 DEF Accounted, Still, Taken
  <2>1. offered[c] = Len(sub[c].events) + sub[c].dropped + skipped[c]
                         + conn[c].dropped + Cardinality(EventsIn(Pipeline(c)))
                         + Len(delivered[c])
    BY <1>1, LoopFacts DEF Held, ClientInv, Accounted
  <2>2. PICK l, d, p, k, n, m \in Nat : Counts(c, l, d, p, k, n, m)
    BY <1>1, CountsExist
  <2>3. e \notin EventsIn(Pipeline(c))
    <3>1. e \in ToSet(sub[c].events) /\ ~(e < e)
      BY <1>2
    <3>2. QED
      BY <1>5, <3>1 DEF Below
  <2>4. Cardinality(EventsIn(Pipeline(c)) \cup {e}) = Cardinality(EventsIn(Pipeline(c))) + 1
    BY <1>1, <2>3, CountEvents
  <2>5. l + d + p + k + n + m = (l - 1) + d + p + k + (n + 1) + m
    OBVIOUS
  <2>6. offered[c] = l + d + p + k + n + m
    BY <2>1, <2>2 DEF Counts
  <2>7. Len(sub'[c].events) = l - 1
    BY <1>2, <2>2 DEF Counts
  <2>8. QED
    BY <2>2, <2>4, <2>5, <2>6, <2>7 DEF Counts
<1>11. QED
  BY <1>7, <1>8, <1>9, <1>10 DEF ClientInv

\* An event is passed over, or dropped without a word.
LEMMA PassInv ==
    ASSUME SendCap \in Nat, NEW c \in Clients, Held(c), Quiet(c), Taken(c),
           conn[c].at = "loop", conn'[c].at = "loop", writer'[c] = writer[c],
           conn'[c].filter = conn[c].filter, conn'[c].capped = conn[c].capped,
           conn'[c].code = conn[c].code, told'[c] = told[c],
           delivered'[c] = delivered[c], offered'[c] = offered[c],
           \/ skipped'[c] = skipped[c] + 1 /\ conn'[c].dropped = conn[c].dropped
           \/ skipped'[c] = skipped[c] /\ conn'[c].dropped = conn[c].dropped + 1
    PROVE  ClientInv(c)'
<1>1. /\ ClientType /\ ClientType' /\ EventsAscend(Pipeline(c))
      /\ left'.html = left.html /\ conn[c].filter \in Filters
  BY LoopFacts DEF Held, Quiet
<1>2. /\ Len(sub'[c].events) = Len(sub[c].events) - 1 /\ Len(sub'[c].events) <= SendCap
      /\ Ascends(sub'[c].events) /\ ToSet(sub'[c].events) \subseteq ToSet(sub[c].events)
      /\ sub'[c].dropped = sub[c].dropped /\ sub'[c].state = sub[c].state
  BY TakenFacts DEF Taken
<1>3. Pipeline(c)' = Pipeline(c)
  BY <1>1, LineStays
<1>4. OrderTrue(c)'
  BY <1>1, <1>2, <1>3, LessOrder
<1>5. /\ StageTrue(c)' /\ FreshTrue(c)'
      /\ Lined(c)' <=> writer[c].at # "stopped"
      /\ Streaming(c)' <=> writer[c].at # "stopped"
  <2>1. Len(writer[c].q) <= WriteCap /\ conn'[c].at \in Open
    BY DEF Held, ClientInv, StageTrue, Open
  <2>2. QED
    BY <1>1, <1>2, <2>1, LoopStage
<1>6. LineTrue(c)'
  BY <1>1, <1>3, <1>5, LoopFacts DEF Held, ClientInv, LineTrue
<1>7. Accounted(c)'
  <2> SUFFICES ASSUME writer[c].at # "stopped"
               PROVE  offered[c] = Len(sub'[c].events) + sub[c].dropped + skipped'[c]
                         + conn'[c].dropped + Cardinality(EventsIn(Pipeline(c)))
                         + Len(delivered[c])
    BY <1>2, <1>3, <1>5 DEF Accounted
  <2>1. PICK l, d, p, k, n, m \in Nat : Counts(c, l, d, p, k, n, m)
    BY <1>1, CountsExist
  <2>2. offered[c] = l + d + p + k + n + m
    BY <2>1, LoopFacts DEF Held, ClientInv, Accounted, Counts
  <2>3. Len(sub'[c].events) = l - 1
    BY <1>2, <2>1 DEF Counts
  <2>4. /\ l + d + p + k + n + m = (l - 1) + d + (p + 1) + k + n + m
        /\ l + d + p + k + n + m = (l - 1) + d + p + (k + 1) + n + m
    OBVIOUS
  <2>5. QED
    BY <2>1, <2>2, <2>3, <2>4 DEF Counts
<1>8. QED
  BY <1>4, <1>5, <1>6, <1>7 DEF ClientInv

\* The stream begins.
LEMMA BeginInv ==
    ASSUME WriteCap \in Nat \ {0}, NEW c \in Clients, Held(c), Quiet(c), Still(c),
           conn[c].at = "await", sub' = sub, conn'[c].at = "subscribe",
           conn'[c].code = conn[c].code, conn'[c].filter \in Filters,
           conn'[c].capped = conn[c].capped, conn'[c].dropped = conn[c].dropped,
           writer'[c].at = "idle", writer'[c].hand = writer[c].hand,
           \/ c \in left.html /\ writer'[c].q = <<>>
           \/ \E f \in Frames : /\ writer'[c].q = <<f>> /\ f.event = 0
                                /\ Tells(f, conn'[c].filter, conn'[c].capped)
    PROVE  ClientInv(c)'
<1>1. /\ ClientType /\ ClientType' /\ writer[c].at = "none" /\ conn[c].code = 0
      /\ sub[c].state = "none" /\ Len(writer[c].hand) = 0 /\ writer[c].hand \in Seq(Frames)
      /\ left'.html = left.html /\ told[c] \in Frames
  BY ClientFacts DEF Held, Quiet, ClientInv, StageTrue, Early
<1>2. writer'[c].hand = <<>> /\ writer'[c].q \in Seq(Frames)
  BY <1>1, NextLine
<1>3. Pipeline(c)' = writer'[c].q
  BY <1>1, <1>2, NextLine, LineShape
<1>4. Len(writer'[c].q) <= 1 /\ EventsIn(Pipeline(c)') = {} /\ EventsAscend(Pipeline(c)')
  <2>1. CASE writer'[c].q = <<>>
    BY <1>3, <2>1, NoFrames
  <2>2. ASSUME NEW f \in Frames, writer'[c].q = <<f>>, f.event = 0
        PROVE  Len(writer'[c].q) <= 1 /\ EventsIn(Pipeline(c)') = {} /\ EventsAscend(Pipeline(c)')
    <3>1. Pipeline(c)' = Append(<<>>, f) /\ Len(writer'[c].q) = 1
      BY <1>3, <2>2, OneFrame
    <3>2. {f.event} \ {0} = {} /\ Below(EventsIn(<<>>), {f.event} \ {0})
      BY <2>2, NoFrames DEF Below
    <3>3. EventsIn(Append(<<>>, f)) = EventsIn(<<>>) \cup ({f.event} \ {0})
          /\ EventsAscend(Append(<<>>, f))
      BY <3>2, NoFrames, FrameAdded
    <3>4. QED
      BY <3>1, <3>2, <3>3, NoFrames
  <2>3. QED
    BY <2>1, <2>2
<1>5. OrderTrue(c)'
  <2>1. Ascends(sub[c].events)
    BY DEF Held, ClientInv, OrderTrue
  <2>2. QED
    BY <1>4, <2>1, LessOrder DEF Still
<1>6. StageTrue(c)'
  <2>1. /\ Len(writer'[c].q) <= WriteCap /\ Len(writer'[c].hand) = 0
        /\ Len(sub'[c].events) <= SendCap /\ told'[c].event = 0
    <3>1. Len(<<>>) = 0 /\ Len(writer'[c].q) \in Nat
      BY <1>2
    <3>2. Len(sub[c].events) <= SendCap /\ told[c].event = 0
      BY DEF Held, ClientInv, StageTrue
    <3>3. QED
      BY <1>2, <1>4, <3>1, <3>2 DEF Still
  <2>2. QED
    BY <1>1, <2>1 DEF StageTrue, Early, Going, Open
<1>7. FreshTrue(c)'
  BY <1>1, <1>4 DEF Held, ClientInv, FreshTrue, Still, Quiet
<1>8. LineTrue(c)'
  <2> SUFFICES ASSUME c \notin left.html
               PROVE  /\ LastTells(told[c], Pipeline(c)', conn'[c].filter, conn'[c].capped)
                      /\ EventsAcked(told[c], Pipeline(c)')
    BY <1>1 DEF LineTrue, Still
  <2>1. PICK f \in Frames : /\ writer'[c].q = <<f>> /\ f.event = 0
                            /\ Tells(f, conn'[c].filter, conn'[c].capped)
    OBVIOUS
  <2>2. Pipeline(c)' = Append(<<>>, f)
    BY <1>3, <2>1, OneFrame
  <2>3. EventsAcked(told[c], <<>>)
    BY DEF EventsAcked
  <2>4. <<>> \in Seq(Frames)
    BY NoFrames
  <2>5. /\ LastTells(told[c], Append(<<>>, f), conn'[c].filter, conn'[c].capped)
        /\ EventsAcked(told[c], Append(<<>>, f))
    BY <1>1, <2>1, <2>3, <2>4, StatusAdded
  <2>6. QED
    BY <2>2, <2>5
<1>9. Accounted(c)'
  BY DEF Accounted, Streaming
<1>10. QED
  BY <1>5, <1>6, <1>7, <1>8, <1>9 DEF ClientInv

\* Room is found for what waited, or the writer takes a frame.
LEMMA SameLineInv ==
    ASSUME WriteCap \in Nat, NEW c \in Clients, Held(c), Quiet(c), Still(c), Same(c), sub' = sub,
           Pipeline(c)' = Pipeline(c), conn'[c].code = conn[c].code,
           \/ conn[c].at = "wait" /\ conn'[c].at = "loop"
           \/ conn'[c].at = conn[c].at,
           writer'[c].err = writer[c].err, Len(writer'[c].q) <= WriteCap,
           Len(writer'[c].hand) = IF writer'[c].at = "write" THEN 1 ELSE 0,
           \/ writer'[c].at = writer[c].at /\ writer'[c].at # "none"
           \/ writer[c].at = "idle" /\ writer'[c].at \in {"stopped", "write"}
    PROVE  ClientInv(c)'
<1>1. OrderTrue(c)'
  BY SameOrder DEF Still
<1>2. StageTrue(c)'
  BY DEF Held, ClientInv, StageTrue, Still, Same, Early, Going, Open
<1>3. FreshTrue(c)'
  BY DEF Held, ClientInv, FreshTrue, Still, Same, Quiet
<1>4. LineTrue(c)'
  <2>1. Lined(c)' => Lined(c)
    BY DEF Lined, Going, Open
  <2>2. QED
    BY <2>1 DEF Held, ClientInv, LineTrue, Quiet, Still, Same
<1>5. Accounted(c)'
  <2>1. Streaming(c)' => Streaming(c)
    BY DEF Streaming
  <2>2. QED
    BY <2>1 DEF Held, ClientInv, Accounted, Still, Same
<1>6. QED
  BY <1>1, <1>2, <1>3, <1>4, <1>5 DEF ClientInv

\* The writer stops, with what it held or not.
LEMMA StopInv ==
    ASSUME NEW c \in Clients, Held(c), Quiet(c), Still(c), sub' = sub, Same(c),
           EventsIn(Pipeline(c)') \subseteq EventsIn(Pipeline(c)), EventsAscend(Pipeline(c)'),
           writer'[c].at = "stopped", Len(writer'[c].q) <= WriteCap, Len(writer'[c].hand) = 0,
           \/ /\ conn' = conn /\ conn[c].at \notin Early
           \/ conn[c].at = "unregister" /\ conn'[c].at = "release"
    PROVE  ClientInv(c)'
<1>1. OrderTrue(c)'
  <2>1. Ascends(sub[c].events)
    BY DEF Held, ClientInv, OrderTrue
  <2>2. QED
    BY <2>1, LessOrder DEF Still
<1>2. StageTrue(c)'
  BY DEF Held, ClientInv, StageTrue, Still, Same, Early, Going, Open
<1>3. FreshTrue(c)'
  BY DEF Held, ClientInv, FreshTrue, Still, Same, Quiet
<1>4. LineTrue(c)' /\ Accounted(c)'
  BY DEF LineTrue, Accounted, Lined, Streaming
<1>5. QED
  BY <1>1, <1>2, <1>3, <1>4 DEF ClientInv

\* A status or an event goes out.
LEMMA SentInv ==
    ASSUME NEW c \in Clients, Held(c), Quiet(c), conn' = conn, sub' = sub,
           offered'[c] = offered[c], skipped'[c] = skipped[c],
           Pipeline(c) # <<>>, Pipeline(c)' = Tail(Pipeline(c)),
           writer[c].at = "write", writer'[c].at = "idle", writer'[c].q = writer[c].q,
           Len(writer'[c].hand) = 0, conn[c].at \notin Early,
           \/ /\ Head(Pipeline(c)).event = 0
              /\ told'[c] = Head(Pipeline(c)) /\ delivered'[c] = delivered[c]
           \/ /\ Head(Pipeline(c)).event # 0 /\ told'[c] = told[c]
              /\ delivered'[c] = Append(delivered[c], Head(Pipeline(c)).event)
    PROVE  ClientInv(c)'
<1> DEFINE P == Pipeline(c)
           h == Head(Pipeline(c))
<1>1. /\ ClientType /\ ClientType' /\ P \in Seq(Frames) /\ P # <<>> /\ told[c] \in Frames
      /\ left'.html = left.html /\ delivered[c] \in Seq(Nat \ {0})
      /\ StageTrue(c) /\ FreshTrue(c) /\ OrderTrue(c)
  BY PipelineShape, ClientFacts DEF Held, Quiet, ClientInv
<1>2. h \in Frames /\ h.event \in Nat
  BY <1>1, FrameLeaves, FrameFacts
<1>3. /\ EventsIn(P) = EventsIn(Tail(P)) \cup ({h.event} \ {0})
      /\ EventsAscend(Tail(P)) /\ Below({h.event} \ {0}, EventsIn(Tail(P)))
      /\ EventsIn(Tail(P)) \subseteq Nat \ {0}
  BY <1>1, FrameLeaves, EventNumbers DEF OrderTrue
<1>4. OrderTrue(c)'
  <2>1. CASE h.event = 0
    <3>1. delivered'[c] = delivered[c] /\ EventsIn(Tail(P)) \subseteq EventsIn(P)
      BY <1>3, <2>1
    <3>2. Ascends(sub[c].events)
      BY <1>1 DEF OrderTrue
    <3>3. QED
      BY <1>3, <3>1, <3>2, LessOrder
  <2>2. CASE h.event # 0
    <3> DEFINE e == h.event
               out == ToSet(delivered[c])
               way == EventsIn(P)
               way2 == EventsIn(Tail(P))
               in == ToSet(sub[c].events)
    <3>1. /\ e \in Nat \ {0} /\ out \subseteq Nat /\ way \subseteq Nat /\ in \subseteq Nat
          /\ Limit(c) \in Nat /\ Limit(c)' \in Nat /\ Limit(c) <= Limit(c)'
      BY <1>2, <2>2, ClientFacts, PipelineShape, Numbers DEF Held, Quiet
    <3>2. /\ Below(out, way) /\ Below(out, in) /\ Below(way, in) /\ Below({e}, way2)
          /\ Below(out \cup way \cup in, {Limit(c)}) /\ way = way2 \cup {e}
          /\ Ascends(delivered[c]) /\ Ascends(sub[c].events)
      BY <1>1, <1>2, <1>3, <2>2 DEF OrderTrue
    <3>3. Below(out, {e})
      BY <3>2 DEF Below
    <3>4. Ascends(delivered'[c]) /\ ToSet(delivered'[c]) = out \cup {e}
      BY <1>1, <2>2, <3>1, <3>2, <3>3, NumberAdded
    <3> HIDE DEF e, out, way, way2, in
    <3>5. Below(out \cup {e}, way2) /\ Below(out \cup {e}, in) /\ Below(way2, in)
      BY <3>2 DEF Below
    <3>6. Below((out \cup {e}) \cup way2 \cup in, {Limit(c)'})
      <4>1. (out \cup {e}) \cup way2 \cup in = out \cup way \cup in
            /\ out \cup way \cup in \subseteq Nat
        BY <3>1, <3>2
      <4>2. QED
        BY <3>1, <3>2, <4>1, HigherLimit
    <3>7. QED
      BY <1>3, <3>2, <3>4, <3>5, <3>6 DEF OrderTrue, way2, in
  <2>3. QED
    BY <2>1, <2>2
<1>5. StageTrue(c)'
  BY <1>1 DEF StageTrue, Early, Going, Open
<1>6. FreshTrue(c)'
  <2>1. ASSUME sub[c].state = "none" PROVE h.event = 0 /\ EventsIn(Tail(P)) = {}
    <3>1. EventsIn(P) = {}
      BY <1>1, <2>1 DEF FreshTrue
    <3>2. QED
      BY <1>3, <3>1
  <2>2. QED
    BY <1>1, <2>1 DEF FreshTrue, Quiet
<1>7. LineTrue(c)'
  <2> SUFFICES ASSUME c \notin left.html, Lined(c)'
               PROVE  /\ LastTells(told'[c], Tail(P), conn[c].filter, conn[c].capped)
                      /\ EventsAcked(told'[c], Tail(P))
    BY <1>1 DEF LineTrue
  <2>1. /\ LastTells(told[c], P, conn[c].filter, conn[c].capped)
        /\ EventsAcked(told[c], P)
    BY DEF Held, ClientInv, LineTrue, Lined
  <2>2. told'[c] = IF h.event = 0 THEN h ELSE told[c]
    OBVIOUS
  <2>3. QED
    BY <1>1, <2>1, <2>2, LineMovesOn
<1>8. Accounted(c)'
  <2> SUFFICES ASSUME Streaming(c)'
               PROVE  offered[c] = Len(sub[c].events) + sub[c].dropped + skipped[c]
                         + conn[c].dropped + Cardinality(EventsIn(Tail(P)))
                         + Len(delivered'[c])
    BY DEF Accounted
  <2>1. PICK l, d, p, k, n, m \in Nat : Counts(c, l, d, p, k, n, m)
    BY <1>1, CountsExist
  <2>2. offered[c] = l + d + p + k + n + m
    BY <2>1 DEF Held, ClientInv, Accounted, Counts, Streaming
  <2>3. CASE h.event = 0
    <3>1. EventsIn(Tail(P)) = EventsIn(P) /\ delivered'[c] = delivered[c]
      BY <1>3, <2>3
    <3>2. QED
      BY <2>1, <2>2, <3>1 DEF Counts
  <2>4. CASE h.event # 0
    <3>1. EventsIn(P) = EventsIn(Tail(P)) \cup {h.event}
      BY <1>3, <2>4
    <3>2. h.event \notin EventsIn(Tail(P))
      <4>1. ~(h.event < h.event) /\ h.event \in {h.event} \ {0}
        BY <1>2, <2>4
      <4>2. QED
        BY <1>3, <4>1 DEF Below
    <3>3. PICK j \in Nat : j = Cardinality(EventsIn(Tail(P))) /\ n = j + 1
      <4>1. Tail(P) \in Seq(Frames)
        BY <1>1, FrameLeaves
      <4>2. /\ Cardinality(EventsIn(Tail(P))) \in Nat
            /\ Cardinality(EventsIn(P)) = Cardinality(EventsIn(Tail(P))) + 1
        BY <3>1, <3>2, <4>1, CountEvents
      <4>3. n = Cardinality(EventsIn(P))
        BY <2>1 DEF Counts
      <4>4. QED
        BY <4>2, <4>3
    <3>4. Len(delivered'[c]) = m + 1
      BY <1>1, <1>2, <2>1, <2>4, AppendProperties DEF Counts
    <3>5. l + d + p + k + (j + 1) + m = l + d + p + k + j + (m + 1)
      BY <2>1, <3>3, SMTT(20)
    <3>6. QED
      BY <2>1, <2>2, <3>3, <3>4, <3>5 DEF Counts
  <2>5. QED
    BY <2>3, <2>4
<1>9. QED
  BY <1>4, <1>5, <1>6, <1>7, <1>8 DEF ClientInv

\* An event enters the channel, or is counted as dropped.
LEMMA OfferedInv ==
    ASSUME SendCap \in Nat, NEW c \in Clients, Held(c), Quiet(c), conn' = conn, writer' = writer,
           told'[c] = told[c], delivered'[c] = delivered[c], skipped'[c] = skipped[c],
           sub[c].state # "none", sub'[c].state = sub[c].state,
           offered'[c] = offered[c] + 1,
           \/ /\ Len(sub[c].events) < SendCap
              /\ Limit(c) < Limit(c)' /\ Limit(c) \in Nat \ {0}
              /\ sub'[c].events = Append(sub[c].events, Limit(c))
              /\ sub'[c].dropped = sub[c].dropped
           \/ /\ sub'[c].events = sub[c].events
              /\ sub'[c].dropped = sub[c].dropped + 1
    PROVE  ClientInv(c)'
<1>1. /\ ClientType /\ ClientType' /\ left'.html = left.html /\ sub[c].events \in Seq(Nat \ {0})
      /\ StageTrue(c) /\ OrderTrue(c) /\ Len(sub[c].events) \in Nat
      /\ conn'[c] = conn[c] /\ writer'[c] = writer[c]
  BY ClientFacts, Numbers DEF Held, Quiet, ClientInv
<1>2. Pipeline(c)' = Pipeline(c)
  BY DEF Pipeline
<1>3. OrderTrue(c)'
  <2>1. CASE sub'[c].events = sub[c].events
    BY <1>2, <2>1, SameOrder
  <2>2. CASE /\ Limit(c) < Limit(c)' /\ Limit(c) \in Nat \ {0}
             /\ sub'[c].events = Append(sub[c].events, Limit(c))
    <3> DEFINE e == Limit(c)
               out == ToSet(delivered[c])
               way == EventsIn(Pipeline(c))
               in == ToSet(sub[c].events)
    <3>1. /\ out \subseteq Nat /\ way \subseteq Nat /\ in \subseteq Nat
          /\ e \in Nat \ {0} /\ Limit(c)' \in Nat /\ e < Limit(c)'
      BY <1>1, <2>2, ClientFacts, PipelineShape, Numbers DEF Quiet
    <3>2. /\ Below(out, way) /\ Below(out, in) /\ Below(way, in)
          /\ Below(out \cup way \cup in, {e})
          /\ Ascends(delivered[c]) /\ Ascends(sub[c].events) /\ EventsAscend(Pipeline(c))
      BY <1>1 DEF OrderTrue
    <3>3. Below(in, {e})
      BY <3>2 DEF Below
    <3>4. Ascends(sub'[c].events) /\ ToSet(sub'[c].events) = in \cup {e}
      BY <1>1, <2>2, <3>1, <3>2, <3>3, NumberAdded
    <3> HIDE DEF e, out, way, in
    <3>5. Below(out, in \cup {e}) /\ Below(way, in \cup {e})
      BY <3>2 DEF Below
    <3>6. Below(out \cup way \cup (in \cup {e}), {Limit(c)'})
      <4>1. Below(out \cup way \cup in, {Limit(c)'})
        <5>1. out \cup way \cup in \subseteq Nat /\ e <= Limit(c)'
          BY <3>1
        <5>2. QED
          BY <3>1, <3>2, <5>1, HigherLimit
      <4>2. QED
        BY <3>1, <4>1 DEF Below
    <3>7. QED
      BY <1>1, <1>2, <3>2, <3>4, <3>5, <3>6 DEF OrderTrue, out, way
  <2>3. QED
    BY <2>1, <2>2
<1>4. StageTrue(c)'
  <2>1. Len(sub'[c].events) <= SendCap
    <3>1. Len(Append(sub[c].events, Limit(c))) = Len(sub[c].events) + 1
      BY <1>1
    <3>2. Len(sub[c].events) <= SendCap
      BY <1>1 DEF StageTrue
    <3>3. CASE Len(sub[c].events) < SendCap /\ sub'[c].events = Append(sub[c].events, Limit(c))
      BY <1>1, <3>1, <3>3
    <3>4. CASE sub'[c].events = sub[c].events
      BY <3>2, <3>4
    <3>5. QED
      BY <3>3, <3>4
  <2>2. QED
    BY <1>1, <2>1 DEF StageTrue
<1>5. FreshTrue(c)'
  BY DEF FreshTrue
<1>6. LineTrue(c)'
  BY <1>1, <1>2 DEF Held, ClientInv, LineTrue, Lined
<1>7. Accounted(c)'
  <2> SUFFICES ASSUME Streaming(c)'
               PROVE  offered[c] + 1 = Len(sub'[c].events) + sub'[c].dropped + skipped[c]
                         + conn[c].dropped + Cardinality(EventsIn(Pipeline(c)))
                         + Len(delivered[c])
    BY <1>1, <1>2 DEF Accounted
  <2>1. PICK l, d, p, k, n, m \in Nat : Counts(c, l, d, p, k, n, m)
    BY <1>1, CountsExist
  <2>2. offered[c] = l + d + p + k + n + m
    BY <1>1, <2>1 DEF Held, ClientInv, Accounted, Counts, Streaming
  <2>3. \/ Len(sub'[c].events) = l + 1 /\ sub'[c].dropped = d
        \/ Len(sub'[c].events) = l /\ sub'[c].dropped = d + 1
    <3>1. Len(Append(sub[c].events, Limit(c))) = Len(sub[c].events) + 1
      BY <1>1
    <3>2. QED
      BY <2>1, <3>1 DEF Counts
  <2>4. /\ l + d + p + k + n + m + 1 = (l + 1) + d + p + k + n + m
        /\ l + d + p + k + n + m + 1 = l + (d + 1) + p + k + n + m
    BY <2>1
  <2>5. QED
    BY <2>1, <2>2, <2>3, <2>4 DEF Counts
<1>8. QED
  BY <1>3, <1>4, <1>5, <1>6, <1>7 DEF ClientInv

\* The watchdog cancels the context of a client.
LEMMA CancelledInv ==
    ASSUME NEW c \in Clients, Held(c), Quiet(c), Still(c), Same(c), sub' = sub, writer' = writer,
           conn'[c].at = conn[c].at, conn'[c].code = conn[c].code,
           conn'[c].frame = conn[c].frame
    PROVE  ClientInv(c)'
<1>1. Pipeline(c)' = Pipeline(c)
  BY DEF Pipeline
<1>2. OrderTrue(c)'
  BY <1>1, SameOrder DEF Still
<1>3. StageTrue(c)'
  BY DEF Held, ClientInv, StageTrue, Still, Same
<1>4. FreshTrue(c)'
  BY <1>1 DEF Held, ClientInv, FreshTrue, Quiet, Still, Same
<1>5. LineTrue(c)'
  BY <1>1 DEF Held, ClientInv, LineTrue, Lined, Quiet, Still, Same
<1>6. Accounted(c)'
  BY <1>1 DEF Held, ClientInv, Accounted, Streaming, Still, Same
<1>7. QED
  BY <1>2, <1>3, <1>4, <1>5, <1>6 DEF ClientInv

-----------------------------------------------------------------------------
(* The steps of one client, and the others meanwhile. *)

LEMMA Capacities ==
    /\ MaxClients \in Nat \ {0} /\ SendCap \in Nat \ {0} /\ WriteCap \in Nat \ {0}
    /\ RateCap \in Nat \ {0} /\ IsFiniteSet(Clients)
BY LiveTailAssumption DEF LiveTailAssumption

LEMMA HeldAll ==
    ASSUME Inv
    PROVE  ClientType /\ \A c \in Clients : Held(c)
<1>1. ClientType
  BY DEF Inv, TypeInv, ClientType
<1>2. \A c \in Clients : ClientInv(c)
  BY DEF Inv, StageInv, LineInv, OrderInv, EventsAccounted, ClientInv, LineTrue, Accounted
<1>3. \A c \in Clients : Limit(c) \in Nat
  <2>1. pub \in [last : Nat, first : Nat, next : Nat, todo : SUBSET Clients,
                 now : SUBSET Clients]
    BY DEF Inv, TypeInv
  <2>2. pub.last \in Nat /\ pub.first \in Nat /\ pub.next \in Nat
    BY <2>1
  <2>3. QED
    BY <2>2 DEF Limit
<1>4. QED
  BY <1>1, <1>2, <1>3 DEF Held

LEMMA InvFromClients ==
    ASSUME ClientType', \A c \in Clients : ClientInv(c)'
    PROVE  StageInv' /\ LineInv' /\ OrderInv' /\ EventsAccounted'
<1>1. StageInv'
  BY DEF StageInv, ClientInv
<1>2. LineInv'
  BY DEF LineInv, ClientInv, LineTrue
<1>3. OrderInv'
  BY DEF OrderInv, ClientInv
<1>4. EventsAccounted'
  BY DEF EventsAccounted, ClientInv, Accounted
<1>5. QED
  BY <1>1, <1>2, <1>3, <1>4

\* Only one client moves, and nothing is published.
OneMoves(c) ==
    /\ ClientType' /\ Rest(c) /\ left'.html = left.html /\ pub' = pub
    /\ \/ subs' \subseteq subs
       \/ subs' \subseteq subs \cup {c} /\ sub'[c].state # "none"

LEMMA QuietAll ==
    ASSUME Inv, NEW c \in Clients, OneMoves(c)
    PROVE  Quiet(c) /\ \A d \in Clients : d # c => ClientInv(d)'
<1>1. \A d \in Clients : Held(d) /\ Limit(d)' = Limit(d) /\ Limit(d) \in Nat
  BY HeldAll DEF Limit, OneMoves, Held
<1>2. \A d \in Clients : Quiet(d)
  BY <1>1 DEF Quiet, OneMoves
<1>3. ASSUME NEW d \in Clients, d # c PROVE ClientInv(d)'
  BY <1>1, <1>2, <1>3, OthersStay DEF OneMoves, Rest, Still
<1>4. QED
  BY <1>2, <1>3

LEMMA PlaceSteps ==
    ASSUME Inv, NEW c \in Clients,
           \/ Dial(c) \/ Count(c) \/ Refuse(c) \/ Register(c) \/ LeaveFanout(c) \/ Release(c)
           \/ Subscribe(c) \/ CancelStream(c)
    PROVE  OneMoves(c) /\ ClientInv(c)'
<1>1. ClientType /\ Held(c)
  BY HeldAll
<1>2. left' = left
  BY DEF Dial, Count, Refuse, Register, LeaveFanout, Release, Subscribe, CancelStream, envVars
<1>3. CASE Dial(c) \/ Count(c) \/ Register(c) \/ LeaveFanout(c) \/ Release(c)
  <2>1. OneMoves(c)
    BY <1>1, <1>2, <1>3, PlaceMoves DEF OneMoves
  <2>2. Quiet(c)
    BY <2>1, QuietAll
  <2>3. QED
    BY <1>1, <1>3, <2>1, <2>2, PlaceMoves, PlaceInv
<1>4. CASE Refuse(c)
  <2>1. OneMoves(c)
    BY <1>1, <1>2, <1>4, RefuseMoves DEF OneMoves
  <2>2. Quiet(c)
    BY <2>1, QuietAll
  <2>3. QED
    BY <1>1, <1>4, <2>1, <2>2, RefuseMoves, PlaceInv
<1>5. CASE Subscribe(c) \/ CancelStream(c)
  <2>1. pub' = pub
    BY <1>5 DEF Subscribe, CancelStream
  <2>2. OneMoves(c)
    BY <1>1, <1>2, <1>5, <2>1, StreamMoves DEF OneMoves
  <2>3. Quiet(c)
    BY <2>2, QuietAll
  <2>4. QED
    BY <1>1, <1>5, <2>2, <2>3, StreamMoves, PlaceInv
<1>6. QED
  BY <1>3, <1>4, <1>5

LEMMA CloseSteps ==
    ASSUME Inv, NEW c \in Clients, ContextDone(c) \/ WriteError(c) \/ GraceOver(c)
    PROVE  OneMoves(c) /\ ClientInv(c)'
<1>1. ClientType /\ Held(c)
  BY HeldAll
<1>2. left' = left /\ pub' = pub /\ subs' = subs
  BY DEF ContextDone, WriteError, GraceOver, envVars, fanVars
<1>3. OneMoves(c)
  BY <1>1, <1>2, ClosingMoves DEF OneMoves
<1>4. Quiet(c)
  BY <1>3, QuietAll
<1>5. QED
  BY <1>1, <1>3, <1>4, ClosingMoves, ClosesInv

LEMMA MessageSteps ==
    ASSUME Inv, NEW c \in Clients, FirstMessage(c) \/ NextMessage(c) \/ Heartbeat(c)
    PROVE  OneMoves(c) /\ ClientInv(c)'
<1>1. ClientType /\ Held(c) /\ inbox \in [Clients -> Messages \cup {""}]
  BY HeldAll DEF Inv, TypeInv
<1>2. left' = left /\ pub' = pub /\ subs' = subs
  BY DEF FirstMessage, NextMessage, Heartbeat, envVars, fanVars
<1>3. OneMoves(c)
  BY <1>1, <1>2, FirstMessageMoves, NextMessageMoves, HeartbeatMoves DEF OneMoves
<1>4. Quiet(c) /\ WriteCap \in Nat \ {0} /\ SendCap \in Nat
  BY <1>3, QuietAll, Capacities
<1>5. CASE FirstMessage(c)
  <2>1. Still(c) /\ conn[c].at = "await"
    BY <1>1, <1>5, FirstMessageMoves
  <2>2. CASE Closes(c)
    BY <1>1, <1>3, <1>4, <2>1, <2>2, ClosesInv
  <2>3. CASE ~Closes(c)
    BY <1>1, <1>3, <1>4, <1>5, <2>1, <2>3, FirstMessageMoves, BeginInv
  <2>4. QED
    BY <1>3, <2>2, <2>3
<1>6. CASE NextMessage(c)
  <2>1. Still(c) /\ conn[c].at = "loop"
    BY <1>1, <1>6, NextMessageMoves
  <2>2. CASE Closes(c)
    BY <1>1, <1>3, <1>4, <2>1, <2>2, ClosesInv DEF Open
  <2>3. CASE ~Closes(c)
    <3>1. PICK f \in Frames :
                    /\ Puts(c, f) /\ f.event = 0 /\ sub' = sub
                    /\ conn'[c].filter \in Filters /\ conn'[c].capped = conn[c].capped
                    /\ conn'[c].dropped = conn[c].dropped
                    /\ Tells(f, conn'[c].filter, conn'[c].capped)
      BY <1>1, <1>6, <2>3, NextMessageMoves
    <3>2. QED
      BY <1>1, <1>3, <1>4, <2>1, <3>1, StatusInv
  <2>4. QED
    BY <1>3, <2>2, <2>3
<1>7. CASE Heartbeat(c)
  <2>1. PICK f \in Frames : /\ Puts(c, f) /\ f.event = 0
                            /\ Tells(f, conn[c].filter, conn[c].capped)
    BY <1>1, <1>7, HeartbeatMoves
  <2>2. Still(c) /\ Same(c) /\ sub' = sub /\ conn[c].filter \in Filters
    BY <1>1, <1>7, <2>1, HeartbeatMoves, LoopFacts DEF Puts
  <2>3. ClientInv(c)'
    BY <1>1, <1>4, <2>1, <2>2, StatusInv DEF Same
  <2>4. QED
    BY <1>3, <2>3
<1>8. QED
  BY <1>5, <1>6, <1>7

LEMMA EventSteps ==
    ASSUME Inv, NEW c \in Clients, TakeEvent(c)
    PROVE  OneMoves(c) /\ ClientInv(c)'
<1>1. ClientType /\ Held(c) /\ RateCap \in Nat /\ WriteCap \in Nat /\ SendCap \in Nat
  BY HeldAll, Capacities
<1>2. left' = left /\ pub' = pub /\ subs' = subs
  BY DEF TakeEvent, envVars
<1>3. /\ ClientType' /\ Rest(c) /\ conn[c].at = "loop" /\ Taken(c)
      /\ told'[c] = told[c] /\ delivered'[c] = delivered[c] /\ offered'[c] = offered[c]
      /\ conn'[c].filter = conn[c].filter
  BY <1>1, TakeEventMoves DEF Taken
<1>4. OneMoves(c)
  BY <1>2, <1>3 DEF OneMoves
<1>5. Quiet(c) /\ conn[c].filter \in Filters /\ conn[c].capped \in BOOLEAN
  <2>1. conn[c] \in Conn
    BY <1>1, ClientFacts
  <2>2. conn[c].capped \in BOOLEAN
    BY <2>1 DEF Conn
  <2>3. QED
    BY <1>1, <1>3, <1>4, <2>2, QuietAll, LoopFacts
<1>6. CASE /\ skipped'[c] = skipped[c] + 1 /\ conn'[c] = conn[c] /\ writer'[c] = writer[c]
  BY <1>1, <1>3, <1>4, <1>5, <1>6, PassInv
<1>7. CASE /\ skipped'[c] = skipped[c] /\ Puts(c, Frame(Head(sub[c].events)))
           /\ Match(conn[c].filter, Head(sub[c].events))
           /\ conn'[c].dropped = conn[c].dropped /\ conn'[c].capped = FALSE
  <2>1. Still(c)
    BY <1>3, <1>7 DEF Still
  <2>2. QED
    BY <1>1, <1>3, <1>4, <1>5, <1>7, <2>1, EventInv
<1>8. CASE /\ skipped'[c] = skipped[c] /\ writer'[c] = writer[c]
           /\ conn[c].capped /\ conn'[c].capped = TRUE
           /\ conn'[c].dropped = conn[c].dropped + 1
           /\ conn'[c].at = "loop" /\ conn'[c].code = conn[c].code
  <2>1. conn'[c].capped = conn[c].capped
    BY <1>5, <1>8
  <2>2. QED
    BY <1>1, <1>3, <1>4, <1>5, <1>8, <2>1, PassInv
<1>9. CASE /\ skipped'[c] = skipped[c] /\ conn'[c].dropped = conn[c].dropped + 1
           /\ \E f \in Frames : /\ Puts(c, f) /\ f.event = 0
                                /\ Tells(f, conn'[c].filter, conn'[c].capped)
  <2>1. Still(c)
    BY <1>3, <1>9 DEF Still
  <2>2. QED
    BY <1>1, <1>3, <1>4, <1>5, <1>9, <2>1, StatusInv
<1>10. QED
  BY <1>1, <1>6, <1>7, <1>8, <1>9, TakeEventMoves

LEMMA QueueSteps ==
    ASSUME Inv, NEW c \in Clients, Room(c) \/ WriterTakes(c)
    PROVE  OneMoves(c) /\ ClientInv(c)'
<1>1. /\ ClientType /\ Held(c) /\ WriteCap \in Nat
      /\ StageTrue(c) /\ writer[c].q \in Seq(Frames) /\ writer[c].hand \in Seq(Frames)
  BY HeldAll, Capacities, ClientFacts DEF Held, ClientInv
<1>2. left' = left /\ pub' = pub /\ subs' = subs
  BY DEF Room, WriterTakes, envVars, fanVars
<1>3. OneMoves(c)
  BY <1>1, <1>2, RoomMoves, WriterTakesMoves DEF OneMoves
<1>4. Quiet(c) /\ ClientType'
  BY <1>3, QuietAll DEF Quiet
<1>5. CASE Room(c)
  <2>1. /\ Still(c) /\ Same(c) /\ sub' = sub
        /\ conn[c].at = "wait" /\ conn'[c].at = "loop" /\ conn'[c].code = conn[c].code
        /\ Len(writer[c].q) < WriteCap
        /\ writer'[c].q = Append(writer[c].q, conn[c].frame)
        /\ writer'[c].at = writer[c].at /\ writer'[c].hand = writer[c].hand
        /\ writer'[c].err = writer[c].err
    BY <1>1, <1>5, RoomMoves
  <2>2. Pipeline(c)' = Pipeline(c)
    BY <1>1, <1>4, <2>1, RoomLine
  <2>3. Len(writer'[c].q) <= WriteCap
    BY <1>1, <2>1
  <2>4. writer[c].at # "none" /\ Len(writer[c].hand) = IF writer[c].at = "write" THEN 1 ELSE 0
    BY <1>1, <2>1 DEF StageTrue, Going, Open
  <2>5. QED
    BY <1>1, <1>3, <1>4, <2>1, <2>2, <2>3, <2>4, SameLineInv
<1>6. CASE WriterTakes(c)
  <2>1. /\ Still(c) /\ conn' = conn /\ sub' = sub /\ Same(c)
        /\ writer[c].at = "idle" /\ writer'[c].err = writer[c].err
    BY <1>1, <1>6, WriterTakesMoves DEF Same
  <2>2. writer[c].hand = <<>> /\ Len(writer[c].hand) = 0 /\ Len(writer[c].q) <= WriteCap
    BY <1>1, <2>1 DEF StageTrue
  <2>3. CASE /\ writer'[c].at = "stopped" /\ writer'[c].q = writer[c].q
             /\ writer'[c].hand = writer[c].hand
    <3>1. Pipeline(c)' = Pipeline(c)
      BY <2>1, <2>3 DEF Pipeline
    <3>2. QED
      BY <1>1, <1>3, <1>4, <2>1, <2>2, <2>3, <3>1, SameLineInv
  <2>4. CASE /\ writer'[c].at = "write" /\ writer[c].q # <<>>
             /\ writer'[c].q = Tail(writer[c].q)
             /\ writer'[c].hand = <<Head(writer[c].q)>>
    <3>1. Pipeline(c)' = Pipeline(c)
      BY <1>1, <1>4, <2>1, <2>2, <2>4, TakesLine
    <3>2. Len(writer'[c].q) <= WriteCap /\ Len(writer'[c].hand) = 1
      <4>1. Len(Tail(writer[c].q)) = Len(writer[c].q) - 1 /\ Len(writer[c].q) \in Nat
        BY <1>1, <2>4
      <4>2. QED
        BY <1>1, <2>2, <2>4, <4>1
    <3>3. QED
      BY <1>1, <1>3, <1>4, <2>1, <2>4, <3>1, <3>2, SameLineInv
  <2>5. QED
    BY <1>1, <1>6, <2>3, <2>4, WriterTakesMoves
<1>7. QED
  BY <1>5, <1>6

LEMMA WriteSteps ==
    ASSUME Inv, NEW c \in Clients, Write(c) \/ Unregister(c)
    PROVE  OneMoves(c) /\ ClientInv(c)'
<1>1. /\ ClientType /\ Held(c) /\ WriteCap \in Nat
      /\ StageTrue(c) /\ OrderTrue(c) /\ Pipeline(c) \in Seq(Frames)
  BY HeldAll, Capacities, PipelineShape DEF Held, ClientInv
<1>2. left' = left /\ pub' = pub /\ subs' = subs
  BY DEF Write, Unregister, envVars, fanVars
<1>3. Write(c) => Len(writer[c].hand) = 1 /\ conn[c].at \notin Early
  BY <1>1 DEF Write, StageTrue
<1>4. OneMoves(c)
  BY <1>1, <1>2, <1>3, WriteMoves, UnregisterMoves DEF OneMoves
<1>5. Quiet(c) /\ ClientType' /\ Len(<<>>) = 0
  BY <1>4, QuietAll DEF Quiet
<1>6. CASE Unregister(c)
  <2>1. /\ Still(c) /\ Same(c) /\ sub' = sub
        /\ conn[c].at = "unregister" /\ conn'[c].at = "release"
        /\ writer'[c].at = "stopped" /\ writer'[c].q = <<>> /\ writer'[c].hand = <<>>
    BY <1>1, <1>6, UnregisterMoves
  <2>2. Pipeline(c)' = <<>>
    BY <1>5, <2>1, EmptyLine
  <2>3. EventsIn(Pipeline(c)') \subseteq EventsIn(Pipeline(c)) /\ EventsAscend(Pipeline(c)')
    BY <2>2, NoFrames
  <2>4. QED
    BY <1>1, <1>4, <1>5, <2>1, <2>3, StopInv
<1>7. CASE Write(c)
  <2>1. /\ conn' = conn /\ sub' = sub
        /\ offered'[c] = offered[c] /\ skipped'[c] = skipped[c]
        /\ writer[c].at = "write" /\ writer'[c].q = writer[c].q /\ writer'[c].hand = <<>>
    BY <1>1, <1>3, <1>7, WriteMoves
  <2>2. /\ Pipeline(c) # <<>> /\ Head(Pipeline(c)) = Head(writer[c].hand)
        /\ Pipeline(c)' = Tail(Pipeline(c))
    BY <1>1, <1>3, <1>5, <1>7, <2>1, WriteLine
  <2>3. CASE writer'[c].at = "stopped" /\ told'[c] = told[c] /\ delivered'[c] = delivered[c]
    <3>1. EventsIn(Pipeline(c)') \subseteq EventsIn(Pipeline(c)) /\ EventsAscend(Pipeline(c)')
      BY <1>1, <2>2, FrameLeaves DEF OrderTrue
    <3>2. Still(c) /\ Same(c) /\ Len(writer'[c].q) <= WriteCap /\ Len(writer'[c].hand) = 0
      BY <1>1, <1>5, <2>1, <2>3 DEF Still, Same, StageTrue
    <3>3. QED
      BY <1>1, <1>3, <1>4, <1>5, <1>7, <2>1, <2>3, <3>1, <3>2, StopInv
  <2>4. CASE writer'[c].at # "stopped"
    BY <1>1, <1>3, <1>4, <1>5, <1>7, <2>1, <2>2, <2>4, WriteMoves, SentInv
  <2>5. QED
    BY <1>1, <1>3, <1>7, <2>3, <2>4, WriteMoves
<1>8. QED
  BY <1>6, <1>7

\* The batch goes on: the limits of the clients and the shape of the batch.
Batches == [last : Nat, first : Nat, next : Nat, todo : SUBSET Clients, now : SUBSET Clients]

LEMMA BatchFacts ==
    ASSUME Inv
    PROVE  /\ pub \in Batches /\ pub.last \in Nat /\ pub.first \in Nat /\ pub.next \in Nat
           /\ pub.todo \subseteq Clients /\ pub.now \subseteq Clients /\ BatchInv
<1>1. pub \in Batches
  BY DEF Inv, TypeInv, Batches
<1>2. QED
  BY <1>1 DEF Inv, Batches

LEMMA PublishBatch ==
    ASSUME Inv, NEW c \in Clients, Publish(c)
    PROVE  /\ pub' \in Batches /\ BatchInv'
           /\ pub'.todo \subseteq pub.todo
           /\ Limit(c) = pub.next /\ Limit(c) \in Nat \ {0} /\ Limit(c)' \in Nat
           /\ Limit(c) < Limit(c)'
           /\ \A d \in Clients : d # c => Limit(d)' = Limit(d)
<1>1. /\ pub \in Batches /\ pub.last \in Nat /\ pub.first \in Nat /\ pub.next \in Nat
      /\ pub.todo \subseteq Clients /\ pub.now \subseteq Clients
      /\ c \in pub.todo /\ pub.now \in {{}, {c}}
      /\ pub.now = {} => pub.next = pub.first
      /\ pub.first <= pub.next /\ 0 < pub.first /\ pub.next <= pub.last
  BY BatchFacts DEF BatchInv, Publish
<1>2. Limit(c) = pub.next
  BY <1>1 DEF Limit
<1>3. \A d \in Clients : d # c => Limit(d) = IF d \in pub.todo THEN pub.first ELSE pub.last + 1
  BY <1>1 DEF Limit
<1>4. CASE pub.next < pub.last
  <2>1. pub' = [pub EXCEPT !.next = @ + 1, !.now = {c}]
    BY <1>4 DEF Publish, PublishNext
  <2>2. /\ pub'.last = pub.last /\ pub'.first = pub.first /\ pub'.next = pub.next + 1
        /\ pub'.todo = pub.todo /\ pub'.now = {c} /\ pub' \in Batches
    <3>1. \A n \in Nat : [pub EXCEPT !.next = n, !.now = {c}] \in Batches
      BY <1>1 DEF Batches
    <3>2. pub.next + 1 \in Nat /\ pub' = [pub EXCEPT !.next = pub.next + 1, !.now = {c}]
      BY <1>1, <2>1
    <3>3. /\ pub'.last = pub.last /\ pub'.first = pub.first /\ pub'.next = pub.next + 1
          /\ pub'.todo = pub.todo /\ pub'.now = {c}
      BY <1>1, <3>2 DEF Batches
    <3>4. QED
      BY <3>1, <3>2, <3>3
  <2>3. Limit(c)' = pub.next + 1
    BY <1>1, <2>2 DEF Limit
  <2>4. \A d \in Clients : d # c => Limit(d)' = IF d \in pub.todo THEN pub.first ELSE pub.last + 1
    BY <2>2 DEF Limit
  <2>5. BatchInv'
    BY <1>1, <1>4, <2>2 DEF BatchInv
  <2>6. QED
    BY <1>1, <1>2, <1>3, <2>2, <2>3, <2>4, <2>5
<1>5. CASE ~(pub.next < pub.last)
  <2>1. pub' = [pub EXCEPT !.next = pub.first, !.now = {}, !.todo = @ \ {c}]
    BY <1>5 DEF Publish, PublishNext
  <2>2. /\ pub'.last = pub.last /\ pub'.first = pub.first /\ pub'.next = pub.first
        /\ pub'.todo = pub.todo \ {c} /\ pub'.now = {} /\ pub' \in Batches
    BY <1>1, <2>1 DEF Batches
  <2>3. Limit(c)' = pub.last + 1
    BY <2>2 DEF Limit
  <2>4. \A d \in Clients : d # c => Limit(d)' = IF d \in pub.todo THEN pub.first ELSE pub.last + 1
    BY <2>2 DEF Limit
  <2>5. BatchInv'
    BY <1>1, <2>2 DEF BatchInv
  <2>6. QED
    BY <1>1, <1>2, <1>3, <1>5, <2>2, <2>3, <2>4, <2>5
<1>6. QED
  BY <1>4, <1>5

LEMMA PublishSteps ==
    ASSUME Inv, NEW c \in Clients, Publish(c)
    PROVE  ClientType' /\ \A d \in Clients : ClientInv(d)'
<1>1. /\ ClientType /\ Held(c) /\ SendCap \in Nat /\ pub.next \in Nat \ {0}
      /\ \A d \in Clients : Held(d) /\ Limit(d) \in Nat
  BY HeldAll, Capacities, PublishBatch DEF Held
<1>2. left' = left /\ subs' = subs
  BY DEF Publish, envVars
<1>3. ClientType' /\ Rest(c)
  BY <1>1, PublishMoves
<1>4. \A d \in Clients : Quiet(d)
  <2>1. \A d \in Clients : Limit(d)' \in Nat /\ Limit(d) <= Limit(d)'
    BY <1>1, PublishBatch
  <2>2. \A d \in Clients : d \in subs' \cup pub'.todo => d \in subs \cup pub.todo
    BY <1>2, PublishBatch
  <2>3. QED
    BY <1>2, <1>3, <2>1, <2>2 DEF Quiet
<1>5. ASSUME NEW d \in Clients, d # c PROVE ClientInv(d)'
  BY <1>1, <1>3, <1>4, <1>5, OthersStay DEF Rest, Still
<1>6. ClientInv(c)'
  <2>1. conn' = conn /\ writer' = writer /\ Quiet(c)
        /\ told'[c] = told[c] /\ delivered'[c] = delivered[c] /\ skipped'[c] = skipped[c]
    BY <1>1, <1>4, PublishMoves
  <2>2. CASE sub'[c] = sub[c] /\ offered'[c] = offered[c]
    BY <1>1, <2>1, <2>2, OthersStay DEF Still
  <2>3. CASE ~(sub'[c] = sub[c] /\ offered'[c] = offered[c])
    <3>1. sub[c].state # "none"
      <4>1. c \in pub.todo
        BY DEF Publish
      <4>2. QED
        BY <1>1, <4>1 DEF Held, ClientInv, FreshTrue
    <3>2. Limit(c) = pub.next /\ Limit(c) < Limit(c)' /\ Limit(c) \in Nat \ {0}
      BY PublishBatch
    <3>3. QED
      BY <1>1, <2>1, <2>3, <3>1, <3>2, PublishMoves, OfferedInv
  <2>4. QED
    BY <2>2, <2>3
<1>7. QED
  BY <1>3, <1>5, <1>6

\* What the environment may still do only becomes less.
LEMMA BudgetsShrink ==
    ASSUME left \in Budgets,
           \/ left' = left
           \/ \E n \in Nat : n <= left.events /\ left' = [left EXCEPT !.events = @ - n]
           \/ left.messages > 0 /\ left' = [left EXCEPT !.messages = @ - 1]
           \/ left.swings > 0 /\ left' = [left EXCEPT !.swings = @ - 1]
           \/ left.breaks > 0 /\ left' = [left EXCEPT !.breaks = @ - 1]
    PROVE  left' \in Budgets /\ left'.html = left.html
<1>1. /\ left.events \in Nat /\ left.messages \in Nat /\ left.swings \in Nat
      /\ left.breaks \in Nat
  BY DEF Budgets
<1>2. /\ \A n \in Nat : [left EXCEPT !.events = n] \in Budgets
                        /\ [left EXCEPT !.events = n].html = left.html
      /\ \A n \in Nat : [left EXCEPT !.messages = n] \in Budgets
                        /\ [left EXCEPT !.messages = n].html = left.html
      /\ \A n \in Nat : [left EXCEPT !.swings = n] \in Budgets
                        /\ [left EXCEPT !.swings = n].html = left.html
      /\ \A n \in Nat : [left EXCEPT !.breaks = n] \in Budgets
                        /\ [left EXCEPT !.breaks = n].html = left.html
  BY DEF Budgets
<1>3. CASE \E n \in Nat : n <= left.events /\ left' = [left EXCEPT !.events = @ - n]
  BY <1>1, <1>2, <1>3
<1>4. CASE left.messages > 0 /\ left' = [left EXCEPT !.messages = @ - 1]
  BY <1>1, <1>2, <1>4
<1>5. CASE left.swings > 0 /\ left' = [left EXCEPT !.swings = @ - 1]
  BY <1>1, <1>2, <1>5
<1>6. CASE left.breaks > 0 /\ left' = [left EXCEPT !.breaks = @ - 1]
  BY <1>1, <1>2, <1>6
<1>7. QED
  BY <1>3, <1>4, <1>5, <1>6

LEMMA LeftMoves ==
    ASSUME left \in Budgets, [Next]_vars
    PROVE  left' \in Budgets /\ left'.html = left.html
<1> USE DEF envVars
<1>1. CASE PublishStart
  <2>1. \E n \in Nat : n <= left.events /\ left' = [left EXCEPT !.events = @ - n]
    BY <1>1 DEF PublishStart
  <2>2. QED
    BY <2>1, BudgetsShrink
<1>2. CASE \E c \in Clients : Say(c) \/ Stall(c) \/ Disconnect(c)
  BY <1>2, BudgetsShrink DEF Say, Stall, Disconnect, Break
<1>3. CASE Swing
  BY <1>3, BudgetsShrink DEF Swing
<1>4. CASE Watchdog
  BY <1>4 DEF Watchdog, Relieved, Detected, Sustained, StopAccepting, ShedOldest, CancelVictim
<1>5. CASE \E c \in Clients : Handler(c)
  BY <1>5 DEF Handler, Count, Refuse, Register, FirstMessage, Subscribe, TakeEvent, Room,
              GraceOver, CancelStream, LeaveFanout, Unregister, Release
<1>6. CASE \E c \in Clients :
              Dial(c) \/ ContextDone(c) \/ WriteError(c) \/ NextMessage(c) \/ Heartbeat(c)
  BY <1>6 DEF Dial, ContextDone, WriteError, NextMessage, Heartbeat
<1>7. CASE \E c \in Clients : WriterTakes(c) \/ Write(c) \/ ReadFails(c) \/ Publish(c)
  BY <1>7 DEF WriterTakes, Write, ReadFails, Publish
<1>8. CASE UNCHANGED vars
  BY <1>8 DEF vars
<1>9. QED
  BY <1>1, <1>2, <1>3, <1>4, <1>5, <1>6, <1>7, <1>8 DEF Next

\* The steps that touch no client: the environment, the watchdog but for its
\* cancel, and the snapshot of the subscribers.
Idle ==
    \/ \E c \in Clients : Say(c) \/ ReadFails(c) \/ Stall(c) \/ Disconnect(c)
    \/ PublishStart \/ Swing \/ UNCHANGED vars
    \/ Relieved \/ Detected \/ Sustained \/ StopAccepting \/ ShedOldest

LEMMA IdleMoves ==
    ASSUME Idle
    PROVE  /\ conn' = conn /\ writer' = writer /\ sub' = sub /\ subs' = subs /\ slots' = slots
           /\ told' = told /\ delivered' = delivered /\ offered' = offered /\ skipped' = skipped
           /\ pub' = pub \/ PublishStart
<1> USE DEF wireVars, fanVars, countVars
<1>1. CASE \E c \in Clients : Say(c) \/ ReadFails(c) \/ Stall(c) \/ Disconnect(c)
  BY <1>1 DEF Say, ReadFails, Stall, Disconnect
<1>2. CASE PublishStart \/ Swing
  BY <1>2 DEF PublishStart, Swing
<1>3. CASE Relieved \/ Detected \/ Sustained \/ StopAccepting \/ ShedOldest
  BY <1>3 DEF Relieved, Detected, Sustained, StopAccepting, ShedOldest
<1>4. CASE UNCHANGED vars
  BY <1>4 DEF vars
<1>5. QED
  BY <1>1, <1>2, <1>3, <1>4 DEF Idle

LEMMA StartBatch ==
    ASSUME Inv, PublishStart
    PROVE  /\ pub' \in Batches /\ BatchInv' /\ pub'.todo = subs
           /\ \A d \in Clients : Limit(d)' \in Nat /\ Limit(d) <= Limit(d)'
<1>1. PICK n \in 1..2 :
         pub' = [last |-> pub.last + n, first |-> pub.last + 1,
                 next |-> pub.last + 1, todo |-> subs, now |-> {}]
  BY DEF PublishStart
<1>2. pub.last \in Nat /\ pub.todo = {} /\ subs \subseteq Clients
  BY BatchFacts DEF PublishStart, Publishing, Inv, TypeInv
<1>3. /\ pub'.last = pub.last + n /\ pub'.first = pub.last + 1 /\ pub'.next = pub.last + 1
      /\ pub'.todo = subs /\ pub'.now = {} /\ pub' \in Batches
  BY <1>1, <1>2 DEF Batches
<1>4. \A d \in Clients : Limit(d) = pub.last + 1
  BY <1>2 DEF Limit
<1>5. \A d \in Clients : Limit(d)' \in {pub.last + 1, pub.last + n + 1}
  BY <1>3 DEF Limit
<1>6. BatchInv'
  BY <1>2, <1>3 DEF BatchInv
<1>7. QED
  BY <1>2, <1>3, <1>4, <1>5, <1>6

LEMMA IdleSteps ==
    ASSUME Inv, [Next]_vars, Idle
    PROVE  ClientType' /\ \A d \in Clients : ClientInv(d)'
<1>1. ClientType /\ left'.html = left.html /\ \A d \in Clients : Held(d) /\ Limit(d) \in Nat
  BY HeldAll, LeftMoves DEF Held, Inv, TypeInv
<1>2. ClientType' /\ \A d \in Clients : Still(d)
  BY <1>1, IdleMoves DEF ClientType, Still
<1>3. \A d \in Clients : Quiet(d)
  <2>1. CASE pub' = pub
    <3>1. \A d \in Clients : Limit(d)' = Limit(d)
      BY <2>1 DEF Limit
    <3>2. QED
      BY <1>1, <1>2, <2>1, <3>1, IdleMoves DEF Quiet
  <2>2. CASE PublishStart
    <3>1. \A d \in Clients : d \in subs' \cup pub'.todo => d \in subs
      BY <2>2, StartBatch, IdleMoves
    <3>2. QED
      BY <1>1, <1>2, <2>2, <3>1, StartBatch DEF Quiet
  <2>3. QED
    BY <2>1, <2>2, IdleMoves
<1>4. \A d \in Clients : conn'[d] = conn[d] /\ writer'[d] = writer[d] /\ sub'[d] = sub[d]
  BY IdleMoves
<1>5. QED
  BY <1>1, <1>2, <1>3, <1>4, OthersStay

LEMMA CancelSteps ==
    ASSUME Inv, CancelVictim
    PROVE  /\ ClientType' /\ \A d \in Clients : ClientInv(d)'
           /\ \E c \in Clients : /\ dog.victim = {c} /\ OneMoves(c) /\ conn'[c].at = conn[c].at
                                 /\ conn'[c].cancelled = TRUE
<1>1. PICK c \in Clients : dog.victim = {c}
  BY DEF CancelVictim, Inv, ReachInv
<1>2. conn' = [conn EXCEPT ![c] = [conn[c] EXCEPT !.cancelled = TRUE]]
  BY <1>1 DEF CancelVictim
<1>3. ClientType /\ conn[c] \in Conn /\ Held(c)
  BY HeldAll, ClientFacts
<1>4. [conn[c] EXCEPT !.cancelled = TRUE] \in Conn
  BY <1>3, ConnShape
<1>5. /\ conn' \in [Clients -> Conn] /\ \A d \in Clients : d # c => conn'[d] = conn[d]
      /\ conn'[c] = [conn[c] EXCEPT !.cancelled = TRUE]
  BY <1>2, <1>3, <1>4 DEF ClientType
<1>6. /\ Same(c) /\ conn'[c].at = conn[c].at /\ conn'[c].code = conn[c].code
      /\ conn'[c].frame = conn[c].frame /\ conn'[c].cancelled = TRUE
  BY <1>3, <1>5 DEF Conn, Same
<1>7. /\ left' = left /\ pub' = pub /\ subs' = subs /\ writer' = writer /\ sub' = sub
      /\ told' = told /\ delivered' = delivered /\ offered' = offered /\ skipped' = skipped
  BY DEF CancelVictim, envVars, fanVars, wireVars
<1>8. OneMoves(c) /\ Still(c)
  BY <1>3, <1>5, <1>7 DEF OneMoves, ClientType, Rest, Still
<1>9. ClientInv(c)'
  BY <1>3, <1>6, <1>7, <1>8, QuietAll, CancelledInv
<1>10. QED
  BY <1>1, <1>6, <1>8, <1>9, QuietAll DEF OneMoves

\* Every step is one of these.
LEMMA StepKinds ==
    ASSUME [Next]_vars
    PROVE  \/ \E c \in Clients :
                 \/ Dial(c) \/ Count(c) \/ Refuse(c) \/ Register(c) \/ LeaveFanout(c)
                 \/ Release(c) \/ Subscribe(c) \/ CancelStream(c)
                 \/ ContextDone(c) \/ WriteError(c) \/ GraceOver(c)
                 \/ FirstMessage(c) \/ NextMessage(c) \/ Heartbeat(c)
                 \/ TakeEvent(c) \/ Room(c) \/ WriterTakes(c) \/ Write(c) \/ Unregister(c)
                 \/ Publish(c)
           \/ CancelVictim \/ Idle
BY DEF Next, Handler, Watchdog, Idle

LEMMA ClientsNext ==
    ASSUME Inv, [Next]_vars
    PROVE  ClientType' /\ StageInv' /\ LineInv' /\ OrderInv' /\ EventsAccounted'
<1>1. ASSUME NEW c \in Clients, OneMoves(c) /\ ClientInv(c)'
      PROVE  ClientType' /\ \A d \in Clients : ClientInv(d)'
  BY <1>1, QuietAll DEF OneMoves
<1>2. ASSUME NEW c \in Clients,
             \/ Dial(c) \/ Count(c) \/ Refuse(c) \/ Register(c) \/ LeaveFanout(c)
             \/ Release(c) \/ Subscribe(c) \/ CancelStream(c)
             \/ ContextDone(c) \/ WriteError(c) \/ GraceOver(c)
             \/ FirstMessage(c) \/ NextMessage(c) \/ Heartbeat(c)
             \/ TakeEvent(c) \/ Room(c) \/ WriterTakes(c) \/ Write(c) \/ Unregister(c)
      PROVE  ClientType' /\ \A d \in Clients : ClientInv(d)'
  <2>1. OneMoves(c) /\ ClientInv(c)'
    BY <1>2, PlaceSteps, CloseSteps, MessageSteps, EventSteps, QueueSteps, WriteSteps
  <2>2. QED
    BY <1>1, <2>1
<1>3. ClientType' /\ \A d \in Clients : ClientInv(d)'
  BY <1>2, StepKinds, PublishSteps, CancelSteps, IdleSteps
<1>4. QED
  BY <1>3, InvFromClients

-----------------------------------------------------------------------------
(* Slots. *)

LEMMA PlacesStay ==
    ASSUME SlotsTrue, slots' = slots, left'.html = left.html,
           \A d \in Clients : (Holds(d)' <=> Holds(d)) /\ (Admitted(d)' <=> Admitted(d))
    PROVE  SlotsTrue'
<1>1. \A d \in Clients : Server(d)' = Server(d)
  BY DEF Server
<1>2. ASSUME NEW s \in Servers
      PROVE  LET here == {c \in Clients : Server(c)' = s}
             IN /\ slots'[s] = Cardinality({c \in here : Holds(c)'})
                /\ Cardinality({c \in here : Admitted(c)'}) <= MaxClients
  <2>1. LET here == {c \in Clients : Server(c)' = s}
        IN /\ {c \in here : Holds(c)'} = {c \in Here(s) : Holds(c)}
           /\ {c \in here : Admitted(c)'} = {c \in Here(s) : Admitted(c)}
    BY <1>1 DEF Here
  <2>2. /\ slots[s] = Cardinality({c \in Here(s) : Holds(c)})
        /\ Cardinality({c \in Here(s) : Admitted(c)}) <= MaxClients
    BY DEF SlotsTrue, Here
  <2>3. QED
    BY <2>1, <2>2
<1>3. QED
  BY <1>2 DEF SlotsTrue

\* The holders of a slot of one server, and those that are admitted.
Holders(s)  == {c \in Here(s) : Holds(c)}
Admittees(s) == {c \in Here(s) : Admitted(c)}

LEMMA HolderFacts ==
    ASSUME Inv, NEW s \in Servers
    PROVE  /\ slots[s] = Cardinality(Holders(s)) /\ Cardinality(Admittees(s)) <= MaxClients
           /\ IsFiniteSet(Holders(s)) /\ Cardinality(Holders(s)) \in Nat
           /\ IsFiniteSet(Admittees(s)) /\ Cardinality(Admittees(s)) \in Nat
           /\ Admittees(s) \subseteq Holders(s)
<1>1. IsFiniteSet(Clients) /\ Holders(s) \in SUBSET Clients /\ Admittees(s) \in SUBSET Clients
  BY Capacities DEF Holders, Admittees, Here
<1>2. IsFiniteSet(Holders(s)) /\ IsFiniteSet(Admittees(s))
  BY <1>1, FS_Subset
<1>3. slots[s] = Cardinality(Holders(s)) /\ Cardinality(Admittees(s)) <= MaxClients
  BY DEF Inv, SlotsTrue, Holders, Admittees, Here
<1>4. QED
  BY <1>2, <1>3, FS_CardinalityType DEF Holders, Admittees, Admitted

\* The client is counted in, or out.
LEMMA SlotMoves ==
    ASSUME Inv, NEW c \in Clients, left'.html = left.html,
           \A d \in Clients : d # c => (Holds(d)' <=> Holds(d)) /\ (Admitted(d)' <=> Admitted(d)),
           \/ /\ ~Holds(c) /\ Holds(c)'
              /\ slots' = [slots EXCEPT ![Server(c)] = @ + 1]
              /\ Admitted(c)' => slots'[Server(c)] <= MaxClients
           \/ /\ Holds(c) /\ ~Holds(c)'
              /\ slots' = [slots EXCEPT ![Server(c)] = @ - 1]
    PROVE  SlotsTrue' /\ slots' \in [Servers -> Int]
<1>1. \A d \in Clients : Server(d)' = Server(d) /\ Server(d) \in Servers
  BY DEF Server, Servers
<1>2. slots \in [Servers -> Int] /\ SlotsTrue /\ MaxClients \in Nat
  BY Capacities DEF Inv, TypeInv
<1>3. slots' \in [Servers -> Int]
  BY <1>1, <1>2
<1>4. \A s \in Servers : Here(s)' = Here(s)
  BY <1>1 DEF Here
<1>5. ASSUME NEW s \in Servers, s # Server(c)
      PROVE  slots'[s] = Cardinality(Holders(s)') /\ Cardinality(Admittees(s)') <= MaxClients
  <2>1. Holders(s)' = Holders(s) /\ Admittees(s)' = Admittees(s)
    BY <1>1, <1>5 DEF Holders, Admittees, Here
  <2>2. slots'[s] = slots[s]
    BY <1>2, <1>5
  <2>3. QED
    BY <2>1, <2>2, HolderFacts
<1>6. ASSUME NEW s, s = Server(c)
      PROVE  slots'[s] = Cardinality(Holders(s)') /\ Cardinality(Admittees(s)') <= MaxClients
  <2>1. /\ s \in Servers /\ c \in Here(s)
        /\ slots[s] = Cardinality(Holders(s)) /\ Cardinality(Admittees(s)) <= MaxClients
        /\ IsFiniteSet(Holders(s)) /\ Cardinality(Holders(s)) \in Nat
        /\ IsFiniteSet(Admittees(s)) /\ Cardinality(Admittees(s)) \in Nat
        /\ Admittees(s) \subseteq Holders(s)
    BY <1>1, <1>6, HolderFacts DEF Here
  <2>2. CASE /\ ~Holds(c) /\ Holds(c)' /\ slots' = [slots EXCEPT ![Server(c)] = @ + 1]
             /\ Admitted(c)' => slots'[Server(c)] <= MaxClients
    <3>1. Holders(s)' = Holders(s) \cup {c} /\ c \notin Holders(s)
      BY <1>1, <1>6, <2>1, <2>2 DEF Holders, Here
    <3>2. Cardinality(Holders(s)') = Cardinality(Holders(s)) + 1 /\ IsFiniteSet(Holders(s)')
      BY <2>1, <3>1, FS_AddElement
    <3>3. slots'[s] = slots[s] + 1
      BY <1>2, <1>6, <2>1, <2>2
    <3>4. CASE Admitted(c)'
      <4>1. Admittees(s)' \in SUBSET Holders(s)'
        BY DEF Admittees, Holders, Admitted
      <4>2. Cardinality(Admittees(s)') <= Cardinality(Holders(s)') /\ IsFiniteSet(Admittees(s)')
        BY <3>2, <4>1, FS_Subset
      <4>3. Cardinality(Holders(s)') <= MaxClients /\ Cardinality(Admittees(s)') \in Nat
        BY <1>6, <2>1, <2>2, <3>2, <3>3, <3>4, <4>2, FS_CardinalityType
      <4>4. QED
        BY <1>2, <2>1, <3>2, <3>3, <4>2, <4>3
    <3>5. CASE ~Admitted(c)'
      <4>1. Admittees(s)' = Admittees(s)
        BY <1>1, <1>6, <2>1, <2>2, <3>5 DEF Admittees, Here, Admitted
      <4>2. QED
        BY <2>1, <3>2, <3>3, <4>1
    <3>6. QED
      BY <3>4, <3>5
  <2>3. CASE /\ Holds(c) /\ ~Holds(c)' /\ slots' = [slots EXCEPT ![Server(c)] = @ - 1]
    <3>1. Holders(s)' = Holders(s) \ {c} /\ c \in Holders(s)
      BY <1>1, <1>6, <2>1, <2>3 DEF Holders, Here
    <3>2. Cardinality(Holders(s)') = Cardinality(Holders(s)) - 1
      BY <2>1, <3>1, FS_RemoveElement
    <3>3. slots'[s] = slots[s] - 1
      BY <1>2, <1>6, <2>1, <2>3
    <3>4. Admittees(s)' \in SUBSET Admittees(s)
      BY <1>1, <1>6, <2>1, <2>3 DEF Admittees, Here, Admitted
    <3>5. Cardinality(Admittees(s)') <= Cardinality(Admittees(s)) /\ IsFiniteSet(Admittees(s)')
      BY <2>1, <3>4, FS_Subset
    <3>6. Cardinality(Admittees(s)') \in Nat
      BY <3>5, FS_CardinalityType
    <3>7. QED
      BY <1>2, <2>1, <3>2, <3>3, <3>5, <3>6
  <2>4. QED
    BY <2>2, <2>3
<1>7. \A s \in Servers : slots'[s] = Cardinality(Holders(s)')
                         /\ Cardinality(Admittees(s)') <= MaxClients
  BY <1>5, <1>6
<1>8. SlotsTrue'
  BY <1>7 DEF SlotsTrue, Holders, Admittees, Here
<1>9. QED
  BY <1>3, <1>8

-----------------------------------------------------------------------------
(* The other variables. *)

\* Which steps change which of them.
LEMMA WhoMoves ==
    ASSUME [Next]_vars
    PROVE  /\ pressure' = pressure \/ Swing
           /\ (accepting' = accepting /\ dog' = dog) \/ Watchdog
           /\ slots' = slots \/ \E c \in Clients : Count(c) \/ Refuse(c) \/ Release(c)
           /\ registry' = registry \/ ShedOldest \/ \E c \in Clients : Register(c) \/ Unregister(c)
           /\ inbox' = inbox \/ \E c \in Clients :
                 FirstMessage(c) \/ NextMessage(c) \/ Say(c) \/ ReadFails(c)
           /\ subs' = subs \/ \E c \in Clients : Subscribe(c) \/ LeaveFanout(c)
           /\ pub' = pub \/ PublishStart \/ \E c \in Clients : Publish(c)
           /\ stalled' = stalled \/ \E c \in Clients : Stall(c)
           /\ gone' = gone \/ \E c \in Clients : Disconnect(c)
<1> USE DEF envVars, dogVars, countVars, fanVars
<1>1. CASE PublishStart \/ Swing
  BY <1>1 DEF PublishStart, Swing
<1>2. CASE \E c \in Clients : Say(c) \/ Stall(c) \/ Disconnect(c)
  BY <1>2 DEF Say, Stall, Disconnect
<1>3. CASE Watchdog
  BY <1>3 DEF Watchdog, Relieved, Detected, Sustained, StopAccepting, ShedOldest, CancelVictim
<1>4. CASE \E c \in Clients : Count(c) \/ Refuse(c) \/ Register(c) \/ FirstMessage(c)
                              \/ Subscribe(c) \/ TakeEvent(c)
  BY <1>4 DEF Count, Refuse, Register, FirstMessage, Subscribe, TakeEvent
<1>5. CASE \E c \in Clients : Room(c) \/ GraceOver(c) \/ CancelStream(c) \/ LeaveFanout(c)
                              \/ Unregister(c) \/ Release(c)
  BY <1>5 DEF Room, GraceOver, CancelStream, LeaveFanout, Unregister, Release
<1>6. CASE \E c \in Clients :
              Dial(c) \/ ContextDone(c) \/ WriteError(c) \/ NextMessage(c) \/ Heartbeat(c)
  BY <1>6 DEF Dial, ContextDone, WriteError, NextMessage, Heartbeat
<1>7. CASE \E c \in Clients : WriterTakes(c) \/ Write(c) \/ ReadFails(c) \/ Publish(c)
  BY <1>7 DEF WriterTakes, Write, ReadFails, Publish
<1>8. CASE UNCHANGED vars
  BY <1>8 DEF vars
<1>9. QED
  BY <1>1, <1>2, <1>3, <1>4, <1>5, <1>6, <1>7, <1>8 DEF Next, Handler

\* A client that stays in its place, or loses its entry to the registry.
KeepsPlace(c) ==
    /\ Holds(c)' <=> Holds(c)
    /\ Admitted(c)' <=> Admitted(c)
    /\ Registered(c)' => Registered(c) /\ conn'[c].cancelled = conn[c].cancelled

LEMMA PlacesKept ==
    ASSUME Inv, NEW c \in Clients,
           \/ Dial(c) \/ LeaveFanout(c) \/ Subscribe(c) \/ CancelStream(c)
           \/ ContextDone(c) \/ WriteError(c) \/ GraceOver(c)
           \/ FirstMessage(c) \/ NextMessage(c) \/ Heartbeat(c)
           \/ TakeEvent(c) \/ Room(c) \/ WriterTakes(c) \/ Write(c) \/ Unregister(c)
    PROVE  KeepsPlace(c)
<1>1. /\ ClientType /\ inbox \in [Clients -> Messages \cup {""}] /\ RateCap \in Nat
      /\ StageTrue(c)
  BY HeldAll, Capacities DEF Inv, TypeInv, Held, ClientInv
<1> USE DEF KeepsPlace, Holds, Admitted, Registered
<1>2. CASE Closes(c) /\ conn[c].at \in Open \cup {"await"}
  BY <1>2 DEF Closes, Open
<1>3. ASSUME NEW f, Puts(c, f)
      PROVE  KeepsPlace(c)
  BY <1>3 DEF Puts, Open
<1>4. CASE Dial(c) \/ LeaveFanout(c)
  <2>1. /\ conn'[c].cancelled = conn[c].cancelled
        /\ \/ conn[c].at = "idle" /\ conn'[c].at \in {"checked", "done"}
           \/ conn[c].at = "leave" /\ conn'[c].at = "unregister"
    BY <1>1, <1>4, PlaceMoves DEF Dial, LeaveFanout
  <2>2. QED
    BY <2>1
<1>5. CASE Subscribe(c) \/ CancelStream(c)
  BY <1>1, <1>5, StreamMoves
<1>6. CASE ContextDone(c) \/ WriteError(c) \/ GraceOver(c)
  BY <1>1, <1>2, <1>6, ClosingMoves
<1>7. CASE FirstMessage(c)
  BY <1>1, <1>2, <1>7, FirstMessageMoves
<1>8. CASE NextMessage(c)
  BY <1>1, <1>2, <1>3, <1>8, NextMessageMoves DEF Open
<1>9. CASE Heartbeat(c)
  BY <1>1, <1>3, <1>9, HeartbeatMoves
<1>10. CASE TakeEvent(c)
  <2>1. \/ conn'[c] = conn[c]
        \/ \E f : Puts(c, f)
        \/ conn[c].at = "loop" /\ conn'[c].at = "loop" /\ conn'[c].cancelled = conn[c].cancelled
    BY <1>1, <1>10, TakeEventMoves
  <2>2. QED
    BY <1>3, <2>1
<1>11. CASE Room(c)
  BY <1>1, <1>11, RoomMoves
<1>12. CASE WriterTakes(c)
  BY <1>1, <1>12, WriterTakesMoves
<1>13. CASE Write(c)
  <2>1. Len(writer[c].hand) = 1
    BY <1>1, <1>13 DEF Write, StageTrue
  <2>2. QED
    BY <1>1, <1>13, <2>1, WriteMoves
<1>14. CASE Unregister(c)
  BY <1>1, <1>14, UnregisterMoves
<1>15. QED
  BY <1>4, <1>5, <1>6, <1>7, <1>8, <1>9, <1>10, <1>11, <1>12, <1>13, <1>14

LEMMA SlotsNext ==
    ASSUME Inv, [Next]_vars
    PROVE  SlotsTrue' /\ slots' \in [Servers -> Int]
<1>1. left'.html = left.html /\ SlotsTrue /\ slots \in [Servers -> Int] /\ ClientType
  BY LeftMoves, HeldAll DEF Inv, TypeInv
<1>2. ASSUME NEW c \in Clients, OneMoves(c)
      PROVE  \A d \in Clients : d # c => (Holds(d)' <=> Holds(d)) /\ (Admitted(d)' <=> Admitted(d))
  BY <1>2 DEF OneMoves, Rest, Holds, Admitted
<1>3. ASSUME NEW c \in Clients, Count(c)
      PROVE  SlotsTrue' /\ slots' \in [Servers -> Int]
  <2>1. /\ ~Holds(c) /\ Holds(c)' /\ slots' = [slots EXCEPT ![Server(c)] = @ + 1]
        /\ Admitted(c)' => slots'[Server(c)] <= MaxClients
    <3>1. conn[c].at = "checked" /\ slots' = [slots EXCEPT ![Server(c)] = @ + 1]
          /\ Goto(c, IF slots'[Server(c)] > MaxClients THEN "over" ELSE "counted")
      BY <1>3 DEF Count
    <3>2. conn'[c].at = IF slots'[Server(c)] > MaxClients THEN "over" ELSE "counted"
      BY <1>1, <3>1, GotoMoves DEF ClientType, Places
    <3>3. slots'[Server(c)] \in Int /\ MaxClients \in Nat
      BY <1>1, <3>1, Capacities DEF Server, Servers
    <3>4. QED
      BY <3>1, <3>2, <3>3 DEF Holds, Admitted
  <2>2. QED
    BY <1>1, <1>2, <1>3, <2>1, PlaceSteps, SlotMoves
<1>4. ASSUME NEW c \in Clients, Refuse(c) \/ Release(c)
      PROVE  SlotsTrue' /\ slots' \in [Servers -> Int]
  <2>1. Holds(c) /\ ~Holds(c)'
    <3>1. conn[c].at \in {"over", "release"}
      BY <1>4 DEF Refuse, Release
    <3>2. conn'[c].at = "done"
      BY <1>1, <1>4, <3>1, RefuseMoves, PlaceMoves DEF Release
    <3>3. QED
      BY <3>1, <3>2 DEF Holds
  <2>2. slots' = [slots EXCEPT ![Server(c)] = @ - 1]
    BY <1>4 DEF Refuse, Release
  <2>3. QED
    BY <1>1, <1>2, <1>4, <2>1, <2>2, PlaceSteps, SlotMoves
<1>5. CASE slots' = slots
  <2>1. \A d \in Clients : (Holds(d)' <=> Holds(d)) /\ (Admitted(d)' <=> Admitted(d))
    <3>1. ASSUME NEW c \in Clients, OneMoves(c), KeepsPlace(c)
          PROVE  \A d \in Clients : (Holds(d)' <=> Holds(d)) /\ (Admitted(d)' <=> Admitted(d))
      BY <1>2, <3>1 DEF KeepsPlace
    <3>2. CASE conn' = conn
      BY <3>2 DEF Holds, Admitted
    <3>3. ASSUME NEW c \in Clients, Register(c)
          PROVE  \A d \in Clients : (Holds(d)' <=> Holds(d)) /\ (Admitted(d)' <=> Admitted(d))
      <4>1. conn[c].at = "counted" /\ conn'[c].at \in {"release", "await"}
        BY <1>1, <3>3, PlaceMoves DEF Register
      <4>2. QED
        BY <1>2, <3>3, <4>1, PlaceSteps DEF Holds, Admitted
    <3>4. ASSUME NEW c \in Clients, Count(c) \/ Refuse(c) \/ Release(c)
          PROVE  FALSE
      <4>1. Server(c) \in Servers /\ slots[Server(c)] \in Int
        BY <1>1 DEF Server, Servers
      <4>2. slots'[Server(c)] \in {slots[Server(c)] + 1, slots[Server(c)] - 1}
        BY <1>1, <3>4, <4>1 DEF Count, Refuse, Release
      <4>3. QED
        BY <1>5, <4>1, <4>2
    <3>5. CASE CancelVictim
      <4>1. PICK c \in Clients : OneMoves(c) /\ conn'[c].at = conn[c].at
        BY <3>5, CancelSteps
      <4>2. QED
        BY <1>2, <4>1 DEF Holds, Admitted
    <3>6. ASSUME NEW c \in Clients, Publish(c) PROVE conn' = conn
      BY <3>6 DEF Publish
    <3>7. ASSUME NEW c \in Clients,
                 \/ Dial(c) \/ LeaveFanout(c) \/ Subscribe(c) \/ CancelStream(c)
                 \/ ContextDone(c) \/ WriteError(c) \/ GraceOver(c)
                 \/ FirstMessage(c) \/ NextMessage(c) \/ Heartbeat(c)
                 \/ TakeEvent(c) \/ Room(c) \/ WriterTakes(c) \/ Write(c) \/ Unregister(c)
          PROVE  \A d \in Clients : (Holds(d)' <=> Holds(d)) /\ (Admitted(d)' <=> Admitted(d))
      <4>1. OneMoves(c) /\ KeepsPlace(c)
        BY <3>7, PlacesKept, PlaceSteps, CloseSteps, MessageSteps, EventSteps, QueueSteps,
           WriteSteps
      <4>2. QED
        BY <3>1, <4>1
    <3>8. QED
      BY <3>2, <3>3, <3>4, <3>5, <3>6, <3>7, StepKinds, IdleMoves
  <2>2. QED
    BY <1>1, <1>5, <2>1, PlacesStay
<1>6. QED
  BY <1>3, <1>4, <1>5, WhoMoves

-----------------------------------------------------------------------------
(* The registry. *)

\* A client that joins is added, one that leaves takes nobody with it.
LEMMA Joins ==
    ASSUME NEW S, NEW s \in Seq(S), NEW c \in S
    PROVE  Append(s, c) \in Seq(S) /\ ToSet(s) \cup {c} \subseteq ToSet(Append(s, c))
<1>1. /\ Append(s, c) \in Seq(S) /\ Len(s) \in Nat /\ Len(Append(s, c)) = Len(s) + 1
      /\ \A i \in 1..Len(s) : Append(s, c)[i] = s[i]
      /\ Append(s, c)[Len(s) + 1] = c
      /\ DOMAIN s = 1..Len(s) /\ DOMAIN Append(s, c) = 1..Len(s) + 1
  OBVIOUS
<1>2. ASSUME NEW d \in ToSet(s)
      PROVE  d \in ToSet(Append(s, c))
  <2>1. PICK i \in 1..Len(s) : s[i] = d
    BY <1>1 DEF ToSet
  <2>2. i \in DOMAIN Append(s, c) /\ Append(s, c)[i] = d
    BY <1>1, <2>1
  <2>3. QED
    BY <2>2 DEF ToSet
<1>3. Len(s) + 1 \in DOMAIN Append(s, c)
  BY <1>1
<1>4. c \in ToSet(Append(s, c))
  BY <1>1, <1>3 DEF ToSet
<1>5. QED
  BY <1>1, <1>2, <1>4

LEMMA Leaves ==
    ASSUME NEW S, NEW s \in Seq(S), NEW c
    PROVE  /\ Without(s, c) \in Seq(S)
           /\ \A d \in ToSet(s) : d # c => d \in ToSet(Without(s, c))
<1>1. CASE c \notin ToSet(s)
  BY <1>1 DEF Without
<1>2. CASE c \in ToSet(s)
  <2> DEFINE i == CHOOSE i \in DOMAIN s : s[i] = c
             a == SubSeq(s, 1, i - 1)
             b == SubSeq(s, i + 1, Len(s))
  <2>1. i \in DOMAIN s /\ s[i] = c
    BY <1>2 DEF ToSet
  <2>2. Without(s, c) = a \o b
    BY <1>2 DEF Without, RemoveAt
  <2> HIDE DEF i
  <2>3. /\ i \in 1..Len(s) /\ Len(s) \in Nat /\ DOMAIN s = 1..Len(s)
        /\ i \in Nat /\ 1 <= i /\ i <= Len(s) /\ i - 1 \in Nat /\ i + 1 \in Nat
    BY <2>1
  <2>4. a \in Seq(S) /\ Len(a) = i - 1 /\ \A k \in 1..i - 1 : a[k] = s[k]
    <3>1. \A k \in 1..i - 1 : s[k] \in S
      BY <2>3
    <3>2. QED
      BY <2>3, <3>1, SubSeqProperties
  <2>5. b \in Seq(S) /\ Len(b) = Len(s) - i /\ \A k \in 1..Len(s) - i : b[k] = s[i + k]
    <3>1. \A k \in i + 1..Len(s) : s[k] \in S
      BY <2>3
    <3>2. /\ b \in Seq(S) /\ Len(b) = IF i + 1 <= Len(s) THEN Len(s) - (i + 1) + 1 ELSE 0
          /\ \A k \in 1..Len(s) - (i + 1) + 1 : b[k] = s[i + 1 + k - 1]
      BY <2>3, <3>1, SubSeqProperties
    <3>3. Len(s) - (i + 1) + 1 = Len(s) - i /\ \A k \in Nat : i + 1 + k - 1 = i + k
      BY <2>3
    <3>4. \A k \in 1..Len(s) - i : b[k] = s[i + k]
      <4>1. ASSUME NEW k \in 1..Len(s) - i PROVE b[k] = s[i + k]
        BY <2>3, <3>2, <3>3
      <4>2. QED
        BY <4>1
    <3>5. Len(b) = Len(s) - i
      <4> DEFINE n == Len(s)
                 m == Len(b)
      <4>1. n \in Nat /\ i \in Nat /\ i <= n /\ m = IF i + 1 <= n THEN n - (i + 1) + 1 ELSE 0
        BY <2>3, <3>2
      <4> HIDE DEF n, m
      <4>2. m = n - i
        BY <4>1
      <4>3. QED
        BY <4>2 DEF n, m
    <3> HIDE DEF b
    <3>6. QED
      BY <3>2, <3>4, <3>5
  <2> HIDE DEF a, b
  <2>6. /\ a \o b \in Seq(S) /\ Len(a \o b) = Len(s) - 1 /\ DOMAIN (a \o b) = 1..Len(s) - 1
        /\ \A k \in 1..i - 1 : (a \o b)[k] = s[k]
        /\ \A k \in 1..Len(s) - i : (a \o b)[i - 1 + k] = s[i + k]
    <3>1. a \o b \in Seq(S) /\ Len(a \o b) = Len(a) + Len(b) /\ DOMAIN (a \o b) = 1..Len(a \o b)
      BY <2>4, <2>5
    <3>2. \A k \in 1..Len(a) + Len(b) : (a \o b)[k] = IF k <= Len(a) THEN a[k] ELSE b[k - Len(a)]
      BY <2>4, <2>5, ConcatProperties
    <3>3. Len(a \o b) = Len(s) - 1
      BY <2>3, <2>4, <2>5, <3>1
    <3>4. ASSUME NEW k \in 1..i - 1 PROVE (a \o b)[k] = s[k]
      BY <2>3, <2>4, <2>5, <3>2
    <3>5. ASSUME NEW k \in 1..Len(s) - i PROVE (a \o b)[i - 1 + k] = s[i + k]
      <4>1. /\ i - 1 + k \in 1..Len(a) + Len(b) /\ ~(i - 1 + k <= Len(a))
            /\ (i - 1 + k) - Len(a) = k
        BY <2>3, <2>4, <2>5
      <4>2. (a \o b)[i - 1 + k] = b[k]
        BY <3>2, <4>1
      <4>3. QED
        BY <2>5, <4>2
    <3>6. QED
      BY <3>1, <3>3, <3>4, <3>5
  <2> DEFINE w == a \o b
  <2>9. /\ w \in Seq(S) /\ DOMAIN w = 1..Len(s) - 1 /\ Without(s, c) = w
        /\ \A k \in 1..i - 1 : w[k] = s[k]
        /\ \A k \in 1..Len(s) - i : w[i - 1 + k] = s[i + k]
    BY <2>2, <2>6
  <2> HIDE DEF w
  <2>7. ASSUME NEW d \in ToSet(s), d # c
        PROVE  d \in ToSet(w)
    <3>1. PICK k \in 1..Len(s) : s[k] = d
      BY <2>3 DEF ToSet
    <3> k \in Nat /\ 1 <= k /\ k <= Len(s)
      BY <2>3
    <3>2. CASE k < i
      <4>1. k \in 1..i - 1 /\ k \in DOMAIN w
        BY <2>3, <2>9, <3>2
      <4>2. QED
        BY <2>9, <3>1, <4>1 DEF ToSet
    <3>3. CASE k > i
      <4>1. k - i \in 1..Len(s) - i /\ i - 1 + (k - i) = k - 1 /\ i + (k - i) = k
            /\ k - 1 \in DOMAIN w
        BY <2>3, <2>9, <3>3
      <4>2. w[k - 1] = d
        BY <2>9, <3>1, <4>1
      <4>3. QED
        BY <4>1, <4>2 DEF ToSet
    <3>4. QED
      BY <2>1, <2>3, <2>7, <3>1, <3>2, <3>3
  <2>8. QED
    BY <2>7, <2>9
<1>3. QED
  BY <1>1, <1>2

\* The first of the registry comes off, the others stay.
LEMMA HeadLeaves ==
    ASSUME NEW S, NEW s \in Seq(S), s # <<>>
    PROVE  /\ Tail(s) \in Seq(S) /\ Head(s) \in S
           /\ ToSet(s) \subseteq ToSet(Tail(s)) \cup {Head(s)}
<1>1. /\ Tail(s) \in Seq(S) /\ Head(s) \in S /\ Head(s) = s[1] /\ Len(s) \in Nat
      /\ Len(Tail(s)) = Len(s) - 1 /\ DOMAIN s = 1..Len(s)
      /\ DOMAIN Tail(s) = 1..Len(s) - 1
      /\ \A i \in 1..Len(s) - 1 : Tail(s)[i] = s[i + 1]
  OBVIOUS
<1>2. ASSUME NEW d \in ToSet(s), d # Head(s)
      PROVE  d \in ToSet(Tail(s))
  <2>1. PICK i \in 1..Len(s) : s[i] = d
    BY <1>1 DEF ToSet
  <2>2. i - 1 \in 1..Len(s) - 1 /\ (i - 1) + 1 = i
    BY <1>1, <1>2, <2>1
  <2>3. i - 1 \in DOMAIN Tail(s) /\ Tail(s)[i - 1] = d
    BY <1>1, <2>1, <2>2
  <2>4. QED
    BY <2>3 DEF ToSet
<1>3. QED
  BY <1>1, <1>2

LEMMA HereStays ==
    ASSUME left'.html = left.html
    PROVE  /\ \A c \in Clients : Server(c)' = Server(c) /\ Server(c) \in Servers
                                 /\ c \in Here(Server(c))
           /\ \A s \in Servers : Here(s)' = Here(s)
<1>1. \A c \in Clients : Server(c)' = Server(c) /\ Server(c) \in Servers
  BY DEF Server, Servers
<1>2. QED
  BY <1>1 DEF Here

\* The entries of the registry: one joins, one leaves, or one is shed.
LEMMA RegistryMoves ==
    ASSUME Inv, [Next]_vars
    PROVE  DOMAIN registry' = Servers /\ \A s \in Servers : registry'[s] \in Seq(Here(s)')
<1>1. /\ DOMAIN registry = Servers /\ \A s \in Servers : registry[s] \in Seq(Here(s))
      /\ left'.html = left.html
  BY LeftMoves DEF Inv, TypeInv
<1>2. /\ \A c \in Clients : Server(c) \in Servers /\ c \in Here(Server(c))
      /\ \A s \in Servers : Here(s)' = Here(s)
  BY <1>1, HereStays
<1>3. ASSUME NEW s \in Servers, NEW q \in Seq(Here(s)), registry' = [registry EXCEPT ![s] = q]
      PROVE  DOMAIN registry' = Servers /\ \A t \in Servers : registry'[t] \in Seq(Here(t))
  BY <1>1, <1>3
<1>4. ASSUME NEW c \in Clients, Register(c), registry' # registry
      PROVE  DOMAIN registry' = Servers /\ \A t \in Servers : registry'[t] \in Seq(Here(t))
  <2>1. registry' = [registry EXCEPT ![Server(c)] = Append(registry[Server(c)], c)]
    BY <1>4 DEF Register
  <2>2. Append(registry[Server(c)], c) \in Seq(Here(Server(c)))
    BY <1>1, <1>2, Joins
  <2>3. QED
    BY <1>2, <1>3, <2>1, <2>2
<1>5. ASSUME NEW c \in Clients, Unregister(c)
      PROVE  DOMAIN registry' = Servers /\ \A t \in Servers : registry'[t] \in Seq(Here(t))
  <2>1. registry' = [registry EXCEPT ![Server(c)] = Without(registry[Server(c)], c)]
    BY <1>5 DEF Unregister
  <2>2. Without(registry[Server(c)], c) \in Seq(Here(Server(c)))
    BY <1>1, <1>2, Leaves
  <2>3. QED
    BY <1>2, <1>3, <2>1, <2>2
<1>6. ASSUME ShedOldest, registry' # registry
      PROVE  DOMAIN registry' = Servers /\ \A t \in Servers : registry'[t] \in Seq(Here(t))
  <2>1. registry["json"] # <<>> /\ registry' = [registry EXCEPT !["json"] = Tail(registry["json"])]
    BY <1>6 DEF ShedOldest
  <2>2. "json" \in Servers
    BY DEF Servers
  <2>3. Tail(registry["json"]) \in Seq(Here("json"))
    BY <1>1, <2>1, <2>2, HeadLeaves
  <2>4. QED
    BY <1>3, <2>1, <2>2, <2>3
<1>7. DOMAIN registry' = Servers /\ \A s \in Servers : registry'[s] \in Seq(Here(s))
  BY <1>1, <1>4, <1>5, <1>6, WhoMoves
<1>8. QED
  BY <1>2, <1>7

\* The types of what is not a client's, and the batch.
Rests ==
    /\ left \in Budgets /\ pressure \in BOOLEAN /\ accepting \in BOOLEAN
    /\ dog \in [at : {"idle", "shed", "cancel"}, over : {"zero", "recent", "sustained"},
                victim : SUBSET Clients]
    /\ inbox \in [Clients -> Messages \cup {""}]
    /\ subs \subseteq Clients /\ stalled \subseteq Clients /\ gone \subseteq Clients

LEMMA DogMoves ==
    ASSUME Inv, Watchdog
    PROVE  /\ accepting' \in BOOLEAN
           /\ dog' \in [at : {"idle", "shed", "cancel"}, over : {"zero", "recent", "sustained"},
                        victim : SUBSET Clients]
<1> DEFINE Dogs == [at : {"idle", "shed", "cancel"}, over : {"zero", "recent", "sustained"},
                    victim : SUBSET Clients]
<1>1. dog \in Dogs /\ accepting \in BOOLEAN
  BY DEF Inv, TypeInv
<1>2. \A d \in Dogs :
         /\ \A x \in {"idle", "shed", "cancel"} : [d EXCEPT !.at = x] \in Dogs
         /\ \A x \in {"zero", "recent", "sustained"} : [d EXCEPT !.over = x] \in Dogs
         /\ \A x \in {"idle", "shed", "cancel"}, v \in SUBSET Clients :
               [d EXCEPT !.at = x, !.victim = v] \in Dogs
  OBVIOUS
<1>3. CASE Relieved \/ Detected \/ Sustained
  BY <1>1, <1>2, <1>3, ZenonT(30) DEF Relieved, Detected, Sustained
<1>4. CASE StopAccepting
  BY <1>1, <1>2, <1>4 DEF StopAccepting
<1>5. CASE ShedOldest
  <2>1. CASE registry["json"] = <<>>
    <3>1. dog' = [dog EXCEPT !.at = "idle"] /\ accepting' = accepting
      BY <1>5, <2>1 DEF ShedOldest
    <3>2. [dog EXCEPT !.at = "idle"] \in Dogs
      BY <1>1, <1>2
    <3>3. QED
      BY <1>1, <3>1, <3>2
  <2>2. CASE registry["json"] # <<>>
    <3>1. registry["json"] \in Seq(Here("json"))
      BY DEF Inv, TypeInv, Servers
    <3>2. {Head(registry["json"])} \in SUBSET Clients
      BY <2>2, <3>1, HeadLeaves DEF Here
    <3>3. dog' = [dog EXCEPT !.at = "cancel", !.victim = {Head(registry["json"])}]
          /\ accepting' = accepting
      BY <1>5, <2>2 DEF ShedOldest
    <3>4. [dog EXCEPT !.at = "cancel", !.victim = {Head(registry["json"])}] \in Dogs
      BY <1>1, <1>2, <3>2
    <3>5. QED
      BY <1>1, <3>3, <3>4
  <2>3. QED
    BY <2>1, <2>2
<1>6. CASE CancelVictim
  <2>1. {} \in SUBSET Clients
    OBVIOUS
  <2>2. QED
    BY <1>1, <1>2, <1>6, <2>1 DEF CancelVictim
<1>7. QED
  BY <1>3, <1>4, <1>5, <1>6 DEF Watchdog

LEMMA RestsNext ==
    ASSUME Inv, [Next]_vars
    PROVE  Rests'
<1>1. Rests
  BY DEF Inv, TypeInv, Rests
<1>2. left' \in Budgets
  BY <1>1, LeftMoves DEF Rests
<1>3. pressure' \in BOOLEAN
  <2>1. CASE Swing
    BY <2>1 DEF Swing
  <2>2. QED
    BY <1>1, <2>1, WhoMoves DEF Rests
<1>4. /\ accepting' \in BOOLEAN
      /\ dog' \in [at : {"idle", "shed", "cancel"}, over : {"zero", "recent", "sustained"},
                   victim : SUBSET Clients]
  BY <1>1, DogMoves, WhoMoves DEF Rests
<1>5. inbox' \in [Clients -> Messages \cup {""}]
  <2>1. ASSUME NEW c \in Clients, NEW m \in Messages \cup {""}, inbox' = [inbox EXCEPT ![c] = m]
        PROVE  inbox' \in [Clients -> Messages \cup {""}]
    BY <1>1, <2>1 DEF Rests
  <2>2. ASSUME NEW c \in Clients, FirstMessage(c) \/ NextMessage(c) \/ Say(c) \/ ReadFails(c)
        PROVE  \E m \in Messages \cup {""} : inbox' = [inbox EXCEPT ![c] = m]
    <3>1. CASE FirstMessage(c) \/ NextMessage(c)
      BY <3>1 DEF FirstMessage, NextMessage
    <3>2. CASE Say(c) \/ ReadFails(c)
      BY <3>2 DEF Say, ReadFails, Messages
    <3>3. QED
      BY <2>2, <3>1, <3>2
  <2>3. QED
    BY <1>1, <2>1, <2>2, WhoMoves DEF Rests
<1>6. subs' \subseteq Clients
  <2>1. ASSUME NEW c \in Clients, Subscribe(c) \/ LeaveFanout(c)
        PROVE  subs' \subseteq Clients
    BY <1>1, <2>1 DEF Subscribe, LeaveFanout, Rests
  <2>2. QED
    BY <1>1, <2>1, WhoMoves DEF Rests
<1>7. stalled' \subseteq Clients
  <2>1. ASSUME NEW c \in Clients, Stall(c)
        PROVE  stalled' \subseteq Clients
    BY <1>1, <2>1 DEF Stall, Rests
  <2>2. QED
    BY <1>1, <2>1, WhoMoves DEF Rests
<1>8. gone' \subseteq Clients
  <2>1. ASSUME NEW c \in Clients, Disconnect(c)
        PROVE  gone' \subseteq Clients
    BY <1>1, <2>1 DEF Disconnect, Rests
  <2>2. QED
    BY <1>1, <2>1, WhoMoves DEF Rests
<1>9. QED
  BY <1>2, <1>3, <1>4, <1>5, <1>6, <1>7, <1>8 DEF Rests

LEMMA BatchNext ==
    ASSUME Inv, [Next]_vars
    PROVE  pub' \in Batches /\ BatchInv'
<1>1. CASE pub' = pub
  BY <1>1, BatchFacts DEF BatchInv
<1>2. QED
  BY <1>1, WhoMoves, PublishBatch, StartBatch

LEMMA TypesNext ==
    ASSUME Inv, [Next]_vars
    PROVE  TypeInv'
BY RestsNext, BatchNext, RegistryMoves, SlotsNext, ClientsNext
   DEF TypeInv, Rests, Batches, ClientType

-----------------------------------------------------------------------------
(* Who can be shed. *)

\* A client that can be shed after a step could be before, or registers.
LEMMA NoNewcomers ==
    ASSUME Inv, [Next]_vars, NEW d \in Clients, Registered(d)', ~conn'[d].cancelled
    PROVE  \/ Registered(d) /\ ~conn[d].cancelled
           \/ registry' = [registry EXCEPT ![Server(d)] = Append(registry[Server(d)], d)]
<1>1. ClientType
  BY HeldAll
<1>2. ASSUME NEW c \in Clients, OneMoves(c), d # c
      PROVE  Registered(d) /\ ~conn[d].cancelled
  BY <1>2 DEF OneMoves, Rest, Registered
<1>3. ASSUME NEW c \in Clients,
             \/ Dial(c) \/ LeaveFanout(c) \/ Subscribe(c) \/ CancelStream(c)
             \/ ContextDone(c) \/ WriteError(c) \/ GraceOver(c)
             \/ FirstMessage(c) \/ NextMessage(c) \/ Heartbeat(c)
             \/ TakeEvent(c) \/ Room(c) \/ WriterTakes(c) \/ Write(c) \/ Unregister(c)
      PROVE  Registered(d) /\ ~conn[d].cancelled
  <2>1. OneMoves(c) /\ KeepsPlace(c)
    BY <1>3, PlacesKept, PlaceSteps, CloseSteps, MessageSteps, EventSteps, QueueSteps,
       WriteSteps
  <2>2. QED
    BY <1>2, <2>1 DEF KeepsPlace
<1>4. ASSUME NEW c \in Clients, Count(c) \/ Refuse(c) \/ Release(c)
      PROVE  Registered(d) /\ ~conn[d].cancelled
  <2>1. OneMoves(c)
    BY <1>4, PlaceSteps
  <2>2. conn'[c].at \in {"over", "counted", "done"}
    <3>1. CASE Refuse(c)
      BY <1>1, <3>1, RefuseMoves
    <3>2. CASE Count(c) \/ Release(c)
      <4>1. conn[c].at \in {"checked", "release"}
        BY <3>2 DEF Count, Release
      <4>2. QED
        BY <1>1, <3>2, <4>1, PlaceMoves
    <3>3. QED
      BY <1>4, <3>1, <3>2
  <2>3. d # c
    BY <2>2 DEF Registered
  <2>4. QED
    BY <1>2, <2>1, <2>3
<1>5. ASSUME NEW c \in Clients, Register(c)
      PROVE  \/ Registered(d) /\ ~conn[d].cancelled
             \/ registry' = [registry EXCEPT ![Server(d)] = Append(registry[Server(d)], d)]
  <2>1. OneMoves(c)
    BY <1>5, PlaceSteps
  <2>2. CASE d # c
    BY <1>2, <2>1, <2>2
  <2>3. CASE d = c /\ c \in gone
    <3>1. Goto(c, "release") /\ "release" \in Places
      BY <1>5, <2>3 DEF Register, Places
    <3>2. conn'[d].at = "release"
      BY <1>1, <2>3, <3>1, GotoMoves DEF ClientType
    <3>3. QED
      BY <3>2 DEF Registered
  <2>4. CASE d = c /\ c \notin gone
    BY <1>5, <2>4 DEF Register
  <2>5. QED
    BY <2>2, <2>3, <2>4
<1>6. ASSUME CancelVictim
      PROVE  Registered(d) /\ ~conn[d].cancelled
  <2>1. PICK c \in Clients : OneMoves(c) /\ conn'[c].cancelled = TRUE
    BY <1>6, CancelSteps
  <2>2. QED
    BY <1>2, <2>1
<1>7. ASSUME conn' = conn
      PROVE  Registered(d) /\ ~conn[d].cancelled
  BY <1>7 DEF Registered
<1>8. ASSUME NEW c \in Clients, Publish(c) PROVE conn' = conn
  BY <1>8 DEF Publish
<1>9. QED
  BY <1>3, <1>4, <1>5, <1>6, <1>7, <1>8, StepKinds, IdleMoves

\* The client that is shed stays the watchdog's until it is cancelled.
LEMMA VictimMoves ==
    ASSUME Inv, [Next]_vars
    PROVE  /\ dog'.at = "cancel" => \E c \in Clients : dog'.victim = {c}
           /\ dog'.at # "cancel" => dog'.victim = {}
           /\ \A d \in dog.victim : d \in Clients /\ (d \in dog'.victim \/ conn'[d].cancelled)
<1>1. /\ dog \in [at : {"idle", "shed", "cancel"}, over : {"zero", "recent", "sustained"},
                  victim : SUBSET Clients]
      /\ dog.at = "cancel" => \E c \in Clients : dog.victim = {c}
      /\ dog.at # "cancel" => dog.victim = {}
  BY DEF Inv, TypeInv, ReachInv
<1>2. CASE dog' = dog
  BY <1>1, <1>2
<1>3. CASE Relieved \/ Detected \/ Sustained
  <2>1. dog'.at = dog.at /\ dog'.victim = dog.victim
    BY <1>1, <1>3 DEF Relieved, Detected, Sustained
  <2>2. QED
    BY <1>1, <2>1
<1>4. CASE StopAccepting
  <2>1. dog.at = "idle" /\ dog'.at = "shed" /\ dog'.victim = dog.victim
    BY <1>1, <1>4 DEF StopAccepting
  <2>2. QED
    BY <1>1, <2>1
<1>5. CASE ShedOldest
  <2>1. dog.at = "shed" /\ dog.victim = {}
    BY <1>1, <1>5 DEF ShedOldest
  <2>2. CASE registry["json"] = <<>>
    <3>1. dog' = [dog EXCEPT !.at = "idle"]
      BY <1>5, <2>2 DEF ShedOldest
    <3>2. dog'.at = "idle" /\ dog'.victim = {}
      BY <1>1, <2>1, <3>1
    <3>3. QED
      BY <2>1, <3>2
  <2>3. CASE registry["json"] # <<>>
    <3>1. dog' = [dog EXCEPT !.at = "cancel", !.victim = {Head(registry["json"])}]
      BY <1>5, <2>3 DEF ShedOldest
    <3>2. registry["json"] \in Seq(Here("json"))
      BY DEF Inv, TypeInv, Servers
    <3>3. Head(registry["json"]) \in Clients
      BY <2>3, <3>2, HeadLeaves DEF Here
    <3>4. dog'.at = "cancel" /\ dog'.victim = {Head(registry["json"])}
      BY <1>1, <3>1
    <3>5. QED
      BY <2>1, <3>3, <3>4
  <2>4. QED
    BY <2>2, <2>3
<1>6. CASE CancelVictim
  <2>1. PICK c \in Clients : dog.victim = {c} /\ conn'[c].cancelled = TRUE
    BY <1>6, CancelSteps
  <2>2. dog' = [dog EXCEPT !.at = "idle", !.victim = {}]
    BY <1>6 DEF CancelVictim
  <2>3. dog'.at = "idle" /\ dog'.victim = {}
    BY <1>1, <2>2
  <2>4. QED
    BY <2>1, <2>3
<1>7. QED
  BY <1>2, <1>3, <1>4, <1>5, <1>6, WhoMoves DEF Watchdog

\* Who is in the registry stays there, becomes the victim or is done.
LEMMA EntriesStay ==
    ASSUME Inv, [Next]_vars, NEW d \in Clients, d \in ToSet(registry[Server(d)]), Registered(d)'
    PROVE  d \in ToSet(registry'[Server(d)]) \cup dog'.victim
<1>1. /\ DOMAIN registry = Servers /\ \A s \in Servers : registry[s] \in Seq(Here(s))
      /\ left'.html = left.html /\ ClientType
  BY LeftMoves, HeldAll DEF Inv, TypeInv
<1>2. \A c \in Clients : Server(c) \in Servers /\ c \in Here(Server(c))
  BY <1>1, HereStays
<1>3. CASE registry' = registry
  BY <1>3
<1>4. ASSUME NEW c \in Clients, Register(c), registry' # registry
      PROVE  d \in ToSet(registry'[Server(d)])
  <2>1. registry' = [registry EXCEPT ![Server(c)] = Append(registry[Server(c)], c)]
    BY <1>4 DEF Register
  <2>2. CASE Server(c) = Server(d)
    <3>1. registry'[Server(d)] = Append(registry[Server(d)], c)
      BY <1>1, <1>2, <2>1, <2>2
    <3>2. QED
      BY <1>1, <1>2, <2>2, <3>1, Joins
  <2>3. CASE Server(c) # Server(d)
    BY <1>1, <1>2, <2>1, <2>3
  <2>4. QED
    BY <2>2, <2>3
<1>5. ASSUME NEW c \in Clients, Unregister(c)
      PROVE  d \in ToSet(registry'[Server(d)])
  <2>1. registry' = [registry EXCEPT ![Server(c)] = Without(registry[Server(c)], c)]
    BY <1>5 DEF Unregister
  <2>2. c # d
    BY <1>1, <1>5, UnregisterMoves DEF Registered
  <2>3. CASE Server(c) = Server(d)
    <3>1. registry'[Server(d)] = Without(registry[Server(d)], c)
      BY <1>1, <1>2, <2>1, <2>3
    <3>2. QED
      BY <1>1, <1>2, <2>2, <3>1, Leaves
  <2>4. CASE Server(c) # Server(d)
    BY <1>1, <1>2, <2>1, <2>4
  <2>5. QED
    BY <2>3, <2>4
<1>6. ASSUME ShedOldest, registry' # registry
      PROVE  d \in ToSet(registry'[Server(d)]) \cup dog'.victim
  <2>1. /\ registry["json"] # <<>>
        /\ registry' = [registry EXCEPT !["json"] = Tail(registry["json"])]
        /\ dog' = [dog EXCEPT !.at = "cancel", !.victim = {Head(registry["json"])}]
    BY <1>6 DEF ShedOldest
  <2>2. "json" \in Servers
    BY DEF Servers
  <2>3. dog'.victim = {Head(registry["json"])}
    BY <2>1 DEF Inv, TypeInv
  <2>4. CASE Server(d) = "json"
    <3>1. registry'[Server(d)] = Tail(registry["json"])
      BY <1>1, <2>1, <2>2, <2>4
    <3>2. ToSet(registry["json"]) \subseteq ToSet(Tail(registry["json"])) \cup {Head(registry["json"])}
      BY <1>1, <2>1, <2>2, HeadLeaves
    <3>3. QED
      BY <2>3, <2>4, <3>1, <3>2
  <2>5. CASE Server(d) # "json"
    BY <1>1, <1>2, <2>1, <2>5
  <2>6. QED
    BY <2>4, <2>5
<1>7. QED
  BY <1>3, <1>4, <1>5, <1>6, WhoMoves

LEMMA ReachNext ==
    ASSUME Inv, [Next]_vars
    PROVE  ReachInv'
<1>1. left'.html = left.html
  BY LeftMoves DEF Inv, TypeInv
<1>2. \A c \in Clients : Server(c)' = Server(c) /\ Server(c) \in Servers /\ c \in Here(Server(c))
  BY <1>1, HereStays
<1>3. ASSUME NEW d \in Clients, Registered(d)', ~conn'[d].cancelled
      PROVE  d \in ToSet(registry'[Server(d)]) \cup dog'.victim
  <2>1. CASE Registered(d) /\ ~conn[d].cancelled
    <3>1. d \in ToSet(registry[Server(d)]) \cup dog.victim
      BY <2>1 DEF Inv, ReachInv, WithinReach
    <3>2. QED
      BY <1>3, <3>1, EntriesStay, VictimMoves
  <2>2. CASE registry' = [registry EXCEPT ![Server(d)] = Append(registry[Server(d)], d)]
    <3>1. DOMAIN registry = Servers /\ registry[Server(d)] \in Seq(Here(Server(d)))
      BY <1>2 DEF Inv, TypeInv
    <3>2. registry'[Server(d)] = Append(registry[Server(d)], d)
      BY <1>2, <2>2, <3>1
    <3>3. QED
      BY <1>2, <3>1, <3>2, Joins
  <2>3. QED
    BY <1>3, <2>1, <2>2, NoNewcomers
<1>4. WithinReach'
  <2>1. \A d \in Clients : Registered(d)' /\ ~conn'[d].cancelled =>
           d \in ToSet(registry'[Server(d)']) \cup dog'.victim
    BY <1>2, <1>3
  <2>2. QED
    BY <2>1 DEF WithinReach
<1>5. QED
  BY <1>4, VictimMoves DEF ReachInv

LEMMA InvNext == Inv /\ [Next]_vars => Inv'
BY TypesNext, ClientsNext, SlotsNext, ReachNext, BatchNext DEF Inv

-----------------------------------------------------------------------------
(* The beginning. *)

LEMMA InitClients ==
    ASSUME Init
    PROVE  ClientType /\ \A c \in Clients : StageTrue(c) /\ FreshTrue(c) /\ Pipeline(c) = <<>>
<1> DEFINE w == [at |-> "none", q |-> <<>>, hand |-> <<>>, err |-> ""]
           u == [state |-> "none", events |-> <<>>, dropped |-> 0]
<1>1. /\ conn = [c \in Clients |-> NoConn] /\ writer = [c \in Clients |-> w]
      /\ sub = [c \in Clients |-> u] /\ told = [c \in Clients |-> NoFrame]
      /\ delivered = [c \in Clients |-> <<>>] /\ offered = [c \in Clients |-> 0]
      /\ skipped = [c \in Clients |-> 0]
  BY DEF Init
<1>2. /\ RateCap \in Nat /\ WriteCap \in Nat /\ SendCap \in Nat
      /\ NoFrame \in Frames /\ NoFrame.event = 0
      /\ <<>> \in Seq(Frames) /\ <<>> \in Seq(Nat \ {0})
  BY Capacities, NoFrameShape, NoFrames
<1>3. NoConn \in Conn
  BY <1>2 DEF NoConn, Conn, Places, Codes
<1>4. w \in Writer
  BY <1>2 DEF Writer
<1>5. u \in Stream
  BY <1>2 DEF Stream
<1>6. /\ w.at = "none" /\ w.q = <<>> /\ w.hand = <<>> /\ w.err = ""
      /\ u.state = "none" /\ u.events = <<>> /\ u.dropped = 0
  OBVIOUS
<1>7. /\ NoConn.at = "idle" /\ NoConn.code = 0 /\ NoConn.dropped = 0 /\ NoConn.capped = FALSE
  BY DEF NoConn
<1> HIDE DEF w, u
<1>8. ClientType
  BY <1>1, <1>2, <1>3, <1>4, <1>5 DEF ClientType
<1>9. ASSUME NEW c \in Clients
      PROVE  StageTrue(c) /\ FreshTrue(c) /\ Pipeline(c) = <<>>
  <2>1. conn[c] = NoConn /\ writer[c] = w /\ sub[c] = u /\ told[c] = NoFrame
        /\ delivered[c] = <<>> /\ offered[c] = 0 /\ skipped[c] = 0
    BY <1>1
  <2>2. Pipeline(c) = <<>>
    <3>1. Pipeline(c) = w.hand \o w.q
      BY <1>3, <1>4, <1>7, <2>1, LineShape, <1>8, PipelineShape
    <3>2. w.hand \o w.q = w.q
      BY <1>3, <1>4, <1>6, LineShape
    <3>3. QED
      BY <1>6, <3>1, <3>2
  <2>3. StageTrue(c)
    <3>1. Len(<<>>) = 0 /\ 0 <= WriteCap /\ 0 <= SendCap
      BY <1>2
    <3>2. /\ writer[c].at = "none" /\ writer[c].q = <<>> /\ writer[c].hand = <<>>
          /\ writer[c].err = "" /\ sub[c].state = "none" /\ sub[c].events = <<>>
          /\ conn[c].at = "idle" /\ conn[c].code = 0 /\ told[c].event = 0
      BY <1>2, <1>6, <1>7, <2>1
    <3>3. /\ conn[c].at \in Early /\ conn[c].at \notin Going /\ conn[c].at \notin Open
          /\ conn[c].at \notin {"release", "done", "cancel", "leave", "unregister"}
      BY <3>2 DEF Early, Going, Open
    <3>4. QED
      BY <3>1, <3>2, <3>3 DEF StageTrue
  <2>4. c \notin subs \cup pub.todo
    BY DEF Init
  <2>5. FreshTrue(c)
    BY <1>6, <1>7, <2>1, <2>2, <2>4, NoFrames DEF FreshTrue
  <2>6. QED
    BY <2>2, <2>3, <2>5
<1>10. QED
  BY <1>8, <1>9

LEMMA InitInv == Init => Inv
<1> SUFFICES ASSUME Init PROVE Inv
  OBVIOUS
<1>s. slots = [s \in Servers |-> 0]
  BY DEF Init
<1>1. /\ ClientType /\ \A c \in Clients : Pipeline(c) = <<>> /\ conn[c] = NoConn
      /\ NoConn.at = "idle" /\ StageInv
  BY InitClients DEF Init, StageInv, NoConn
<1>2. TypeInv
  <2>1. left \in Budgets
    BY LiveTailAssumption DEF LiveTailAssumption, Init
  <2>2. \A S : <<>> \in Seq(S)
    OBVIOUS
  <2>3. DOMAIN registry = Servers /\ \A s \in Servers : registry[s] \in Seq(Here(s))
    BY <2>2 DEF Init
  <2>4. slots \in [Servers -> Int]
    BY <1>s
  <2>5. inbox \in [Clients -> Messages \cup {""}]
    BY DEF Init
  <2>6. /\ pub \in [last : Nat, first : Nat, next : Nat, todo : SUBSET Clients,
                    now : SUBSET Clients]
        /\ dog \in [at : {"idle", "shed", "cancel"}, over : {"zero", "recent", "sustained"},
                    victim : SUBSET Clients]
    BY DEF Init
  <2>7. pressure \in BOOLEAN /\ accepting \in BOOLEAN /\ subs = {} /\ stalled = {} /\ gone = {}
    BY DEF Init
  <2>8. QED
    BY <1>1, <2>1, <2>3, <2>4, <2>5, <2>6, <2>7 DEF TypeInv, ClientType
<1>3. SlotsTrue
  <2>1. \A c \in Clients : ~Holds(c) /\ ~Admitted(c)
    BY <1>1 DEF Holds, Admitted
  <2>2. ASSUME NEW s \in Servers
        PROVE  LET here == {c \in Clients : Server(c) = s}
               IN /\ slots[s] = Cardinality({c \in here : Holds(c)})
                  /\ Cardinality({c \in here : Admitted(c)}) <= MaxClients
    <3>1. LET here == {c \in Clients : Server(c) = s}
          IN {c \in here : Holds(c)} = {} /\ {c \in here : Admitted(c)} = {}
      BY <2>1
    <3>2. slots[s] = 0 /\ Cardinality({}) = 0 /\ 0 <= MaxClients
      BY <1>s, FS_EmptySet, Capacities
    <3>3. QED
      BY <3>1, <3>2
  <2>3. QED
    BY <2>2 DEF SlotsTrue
<1>4. ReachInv
  <2>1. WithinReach
    BY <1>1 DEF WithinReach, Registered
  <2>2. dog.at = "idle" /\ dog.victim = {}
    BY DEF Init
  <2>3. QED
    BY <2>1, <2>2 DEF ReachInv
<1>5. BatchInv
  <2>1. pub = [last |-> 0, first |-> 0, next |-> 0, todo |-> {}, now |-> {}]
    BY DEF Init
  <2>2. pub.first = 0 /\ pub.next = 0 /\ pub.todo = {} /\ pub.now = {}
    BY <2>1
  <2>3. QED
    BY <2>2 DEF BatchInv
<1>6. LineInv
  BY <1>1 DEF LineInv, Lined, Going, Open
<1>7. OrderInv
  <2>1. ASSUME NEW c \in Clients
        PROVE  OrderTrue(c)
    <3>1. delivered[c] = <<>> /\ sub[c].events = <<>>
      BY DEF Init
    <3>2. ToSet(<<>>) = {} /\ EventsIn(<<>>) = {} /\ Ascends(<<>>) /\ EventsAscend(<<>>)
      BY NoFrames DEF ToSet, Ascends
    <3>3. QED
      BY <1>1, <3>1, <3>2 DEF OrderTrue, Below
  <2>2. QED
    BY <2>1 DEF OrderInv
<1>8. EventsAccounted
  BY <1>1 DEF EventsAccounted, Streaming
<1>9. QED
  BY <1>1, <1>2, <1>3, <1>4, <1>5, <1>6, <1>7, <1>8 DEF Inv

\* The invariant holds of any number of clients, over any capacities and in
\* any environment of the scenarios, with the flusher, the watchdog and both
\* servers at work (server.go:205-480, fanout.go:56-116, watchdog.go:117-152).
THEOREM TailInvAlways == Spec => []Inv
BY InitInv, InvNext, PTL DEF Spec

\* The counter is the number of handlers that hold a slot, whatever way they
\* end, and no more than the cap are admitted to a server, however many dial at
\* once (server.go:219-233).
THEOREM SlotsTrueAlways == Spec => []SlotsTrue
<1>1. Inv => SlotsTrue
  BY DEF Inv
<1>2. QED
  BY <1>1, TailInvAlways, PTL

-----------------------------------------------------------------------------
(* The journey of the events. *)

LEMMA JoinedLines ==
    ASSUME NEW A \in Seq(Frames), NEW B \in Seq(Frames)
    PROVE  /\ A \o B \in Seq(Frames)
           /\ EventsIn(A \o B) \subseteq EventsIn(A) \cup EventsIn(B)
           /\ EventsAscend(A) /\ EventsAscend(B) /\ Below(EventsIn(A), EventsIn(B)) =>
                 EventsAscend(A \o B)
<1> DEFINE C == A \o B
<1>1. /\ C \in Seq(Frames) /\ Len(C) = Len(A) + Len(B) /\ Len(A) \in Nat /\ Len(B) \in Nat
      /\ \A i \in 1..Len(A) + Len(B) : C[i] = IF i <= Len(A) THEN A[i] ELSE B[i - Len(A)]
      /\ DOMAIN A = 1..Len(A) /\ DOMAIN B = 1..Len(B) /\ DOMAIN C = 1..Len(A) + Len(B)
  BY ConcatProperties
<1> HIDE DEF C
<1>2. ASSUME NEW i \in DOMAIN C
      PROVE  \/ i \in DOMAIN A /\ C[i] = A[i]
             \/ i - Len(A) \in DOMAIN B /\ C[i] = B[i - Len(A)] /\ i > Len(A)
  BY <1>1
<1>3. \A i \in DOMAIN A : A[i].event # 0 => A[i].event \in EventsIn(A)
  BY DEF EventsIn
<1>4. \A i \in DOMAIN B : B[i].event # 0 => B[i].event \in EventsIn(B)
  BY DEF EventsIn
<1>5. EventsIn(C) \subseteq EventsIn(A) \cup EventsIn(B)
  <2>1. \A i \in DOMAIN C : C[i].event # 0 => C[i].event \in EventsIn(A) \cup EventsIn(B)
    BY <1>2, <1>3, <1>4
  <2>2. QED
    BY <2>1 DEF EventsIn
<1>6. ASSUME EventsAscend(A), EventsAscend(B), Below(EventsIn(A), EventsIn(B)),
             NEW i \in DOMAIN C, NEW j \in DOMAIN C, i < j, C[i].event # 0, C[j].event # 0
      PROVE  C[i].event < C[j].event
  <2>1. i \in Nat /\ j \in Nat /\ Len(A) \in Nat
    BY <1>1
  <2>2. CASE j \in DOMAIN A /\ C[j] = A[j]
    <3>1. i \in DOMAIN A /\ C[i] = A[i]
      BY <1>1, <1>6, <2>1, <2>2
    <3>2. QED
      BY <1>6, <2>2, <3>1 DEF EventsAscend
  <2>3. CASE j - Len(A) \in DOMAIN B /\ C[j] = B[j - Len(A)] /\ i \in DOMAIN A /\ C[i] = A[i]
    BY <1>3, <1>4, <1>6, <2>3 DEF Below
  <2>4. CASE /\ j - Len(A) \in DOMAIN B /\ C[j] = B[j - Len(A)]
             /\ i - Len(A) \in DOMAIN B /\ C[i] = B[i - Len(A)]
    <3>1. i - Len(A) < j - Len(A)
      BY <1>6, <2>1
    <3>2. QED
      BY <1>6, <2>4, <3>1 DEF EventsAscend
  <2>5. QED
    BY <1>2, <2>2, <2>3, <2>4
<1>7. EventsAscend(A) /\ EventsAscend(B) /\ Below(EventsIn(A), EventsIn(B)) => EventsAscend(C)
  BY <1>6 DEF EventsAscend
<1>8. QED
  BY <1>1, <1>5, <1>7 DEF C

LEMMA FramesOfEvents ==
    ASSUME NEW s \in Seq(Nat \ {0})
    PROVE  /\ FramesOf(s) \in Seq(Frames) /\ EventsIn(FramesOf(s)) = ToSet(s)
           /\ Ascends(s) => EventsAscend(FramesOf(s))
<1>1. Len(s) \in Nat /\ DOMAIN s = 1..Len(s) /\ \A i \in 1..Len(s) : s[i] \in Nat \ {0}
  OBVIOUS
<1>2. \A e \in Nat : Frame(e) \in Frames /\ Frame(e).event = e
  BY DEF Frame, Frames
<1>3. /\ FramesOf(s) \in Seq(Frames) /\ DOMAIN FramesOf(s) = 1..Len(s)
      /\ \A i \in 1..Len(s) : FramesOf(s)[i] = Frame(s[i])
  BY <1>1, <1>2 DEF FramesOf
<1>4. \A i \in 1..Len(s) : FramesOf(s)[i].event = s[i] /\ s[i] # 0
  BY <1>1, <1>2, <1>3
<1>5. EventsIn(FramesOf(s)) = ToSet(s)
  BY <1>1, <1>3, <1>4 DEF EventsIn, ToSet
<1>6. Ascends(s) => EventsAscend(FramesOf(s))
  BY <1>1, <1>3, <1>4 DEF Ascends, EventsAscend
<1>7. QED
  BY <1>3, <1>5, <1>6

LEMMA JourneyAscends ==
    ASSUME Inv, NEW c \in Clients
    PROVE  Journey(c) \in Seq(Frames) /\ EventsAscend(Journey(c))
<1> DEFINE D == FramesOf(delivered[c])
           P == Pipeline(c)
           E == FramesOf(sub[c].events)
<1>1. /\ delivered[c] \in Seq(Nat \ {0}) /\ sub[c].events \in Seq(Nat \ {0}) /\ P \in Seq(Frames)
  BY HeldAll, ClientFacts, PipelineShape
<1>2. /\ Ascends(delivered[c]) /\ EventsAscend(P) /\ Ascends(sub[c].events)
      /\ Below(ToSet(delivered[c]), EventsIn(P)) /\ Below(ToSet(delivered[c]), ToSet(sub[c].events))
      /\ Below(EventsIn(P), ToSet(sub[c].events))
  BY DEF Inv, OrderInv, OrderTrue
<1>3. /\ D \in Seq(Frames) /\ EventsIn(D) = ToSet(delivered[c]) /\ EventsAscend(D)
      /\ E \in Seq(Frames) /\ EventsIn(E) = ToSet(sub[c].events) /\ EventsAscend(E)
  BY <1>1, <1>2, FramesOfEvents
<1>4. Journey(c) = (D \o P) \o E
  BY DEF Journey
<1> HIDE DEF D, P, E
<1>5. D \o P \in Seq(Frames) /\ EventsAscend(D \o P)
      /\ EventsIn(D \o P) \subseteq EventsIn(D) \cup EventsIn(P)
  BY <1>1, <1>2, <1>3, JoinedLines DEF P
<1>6. Below(EventsIn(D \o P), EventsIn(E))
  BY <1>2, <1>3, <1>5 DEF Below, P
<1>7. QED
  BY <1>3, <1>4, <1>5, <1>6, JoinedLines

\* No event published to an open subscription disappears, and a client gets
\* its events in the order of publication, none twice, whichever way they go
\* from the fan-out's channel to the socket (fanout.go:87-99, server.go:397-426,
\* 449-480).
THEOREM DeliveryAlways == Spec => []Delivery
<1>1. Inv => Delivery
  <2> SUFFICES ASSUME Inv PROVE Delivery
    OBVIOUS
  <2>1. ASSUME NEW c \in Clients
        PROVE  LET all == Journey(c) IN
               \A i, j \in 1..Len(all) :
                  i < j /\ 0 \notin {all[i].event, all[j].event} => all[i].event < all[j].event
    <3>1. Journey(c) \in Seq(Frames) /\ EventsAscend(Journey(c))
      BY JourneyAscends
    <3>2. DOMAIN Journey(c) = 1..Len(Journey(c))
      BY <3>1
    <3>3. QED
      BY <3>1, <3>2 DEF EventsAscend
  <2>2. QED
    BY <2>1 DEF Delivery, DeliveredInOrder, Inv
<1>2. QED
  BY <1>1, TailInvAlways, PTL

-----------------------------------------------------------------------------
(* What no step may do. *)

\* Which steps touch a subscription, and which deliver.
LEMMA SubMoves ==
    ASSUME [Next]_vars
    PROVE  /\ \/ sub' = sub
              \/ \E c \in Clients : Subscribe(c) \/ TakeEvent(c) \/ CancelStream(c) \/ Publish(c)
           /\ delivered' = delivered \/ \E c \in Clients : Write(c)
<1> USE DEF fanVars, wireVars
<1>1. CASE PublishStart \/ Swing
  BY <1>1 DEF PublishStart, Swing
<1>2. CASE \E c \in Clients : Say(c) \/ Stall(c) \/ Disconnect(c)
  BY <1>2 DEF Say, Stall, Disconnect
<1>3. CASE Watchdog
  BY <1>3 DEF Watchdog, Relieved, Detected, Sustained, StopAccepting, ShedOldest, CancelVictim
<1>4. CASE \E c \in Clients : Count(c) \/ Refuse(c) \/ Register(c) \/ FirstMessage(c)
                              \/ Subscribe(c) \/ TakeEvent(c)
  BY <1>4 DEF Count, Refuse, Register, FirstMessage, Subscribe, TakeEvent
<1>5. CASE \E c \in Clients : Room(c) \/ GraceOver(c) \/ CancelStream(c) \/ LeaveFanout(c)
                              \/ Unregister(c) \/ Release(c)
  BY <1>5 DEF Room, GraceOver, CancelStream, LeaveFanout, Unregister, Release
<1>6. CASE \E c \in Clients :
              Dial(c) \/ ContextDone(c) \/ WriteError(c) \/ NextMessage(c) \/ Heartbeat(c)
  BY <1>6 DEF Dial, ContextDone, WriteError, NextMessage, Heartbeat
<1>7. CASE \E c \in Clients : WriterTakes(c) \/ Write(c) \/ ReadFails(c) \/ Publish(c)
  BY <1>7 DEF WriterTakes, Write, ReadFails, Publish
<1>8. CASE UNCHANGED vars
  BY <1>8 DEF vars
<1>9. QED
  BY <1>1, <1>2, <1>3, <1>4, <1>5, <1>6, <1>7, <1>8 DEF Next, Handler

LEMMA ClosedStays ==
    ASSUME Inv, [Next]_vars
    PROVE  ClosedQueueStill
<1>1. \A c \in Clients : StageTrue(c)
  BY DEF Inv, StageInv
<1>2. ASSUME NEW c \in Clients, NEW x, sub' = [sub EXCEPT ![c] = x], sub[c].state # "closed"
      PROVE  ClosedQueueStill
  BY <1>2 DEF ClosedQueueStill, Inv, TypeInv
<1>3. ASSUME NEW c \in Clients, Subscribe(c)
      PROVE  ClosedQueueStill
  <2>1. sub[c].state = "none" /\ sub' = [sub EXCEPT ![c] = [sub[c] EXCEPT !.state = "open"]]
    BY <1>1, <1>3 DEF Subscribe, StageTrue
  <2>2. QED
    BY <1>2, <2>1
<1>4. ASSUME NEW c \in Clients, TakeEvent(c)
      PROVE  ClosedQueueStill
  <2>1. /\ sub[c].state = "open"
        /\ sub' = [sub EXCEPT ![c] = [sub[c] EXCEPT !.events = Tail(sub[c].events)]]
    BY <1>1, <1>4 DEF TakeEvent, StageTrue, Open
  <2>2. QED
    BY <1>2, <2>1
<1>5. ASSUME NEW c \in Clients, CancelStream(c)
      PROVE  ClosedQueueStill
  <2>1. sub[c].state = "open" /\ sub' = [sub EXCEPT ![c] = [sub[c] EXCEPT !.state = "closed"]]
    BY <1>1, <1>5 DEF CancelStream, StageTrue
  <2>2. QED
    BY <1>2, <2>1
<1>6. ASSUME NEW c \in Clients, Publish(c)
      PROVE  ClosedQueueStill
  <2>1. CASE sub[c].state = "closed"
    BY <1>6, <2>1 DEF Publish, ClosedQueueStill
  <2>2. CASE sub[c].state # "closed"
    <3>1. \E x : sub' = [sub EXCEPT ![c] = x]
      <4>1. \/ sub' = [sub EXCEPT ![c] = [sub[c] EXCEPT !.events = Append(sub[c].events, pub.next)]]
            \/ sub' = [sub EXCEPT ![c] = [sub[c] EXCEPT !.dropped = sub[c].dropped + 1]]
        BY <1>6, <2>2 DEF Publish
      <4>2. QED
        BY <4>1
    <3>2. QED
      BY <1>2, <2>2, <3>1
  <2>3. QED
    BY <2>1, <2>2
<1>7. CASE sub' = sub
  BY <1>7 DEF ClosedQueueStill
<1>8. QED
  BY <1>3, <1>4, <1>5, <1>6, <1>7, SubMoves

LEMMA FirstStays ==
    ASSUME NEW S, NEW h \in Seq(S), NEW q \in Seq(S), h # <<>>
    PROVE  /\ h \o q \in Seq(S) /\ h \o q # <<>> /\ Head(h) \in S
           /\ 1 \in DOMAIN (h \o q) /\ (h \o q)[1] = Head(h)
<1>1. Head(h) = h[1] /\ h[1] \in S /\ Len(h) \in Nat /\ Len(h) >= 1
  OBVIOUS
<1> DEFINE b == h \o q
<1>2. /\ b \in Seq(S) /\ Len(b) = Len(h) + Len(q) /\ Len(q) \in Nat
      /\ \A i \in 1..Len(h) + Len(q) : b[i] = IF i <= Len(h) THEN h[i] ELSE q[i - Len(h)]
  BY ConcatProperties
<1> HIDE DEF b
<1>3. Len(b) \in Nat /\ Len(b) >= 1 /\ b[1] = h[1] /\ b # <<>> /\ 1 \in DOMAIN b
  BY <1>1, <1>2
<1>4. QED
  BY <1>1, <1>2, <1>3 DEF b

LEMMA AckedFirst ==
    ASSUME Inv, [Next]_vars
    PROVE  EventMatchesAcked
<1>1. CASE delivered' = delivered
  BY <1>1 DEF EventMatchesAcked
<1>2. ASSUME NEW c \in Clients, Write(c)
      PROVE  EventMatchesAcked
  <2>1. /\ ClientType /\ conn[c] \in Conn /\ conn[c].at \in Places
        /\ writer[c] \in Writer /\ writer[c].hand \in Seq(Frames)
        /\ delivered[c] \in Seq(Nat \ {0}) /\ StageTrue(c)
    BY HeldAll, ClientFacts DEF Inv, StageInv
  <2>2. writer[c].at = "write" /\ Len(writer[c].hand) = 1
    BY <1>2, <2>1 DEF Write, StageTrue
  <2>3. CASE delivered' # delivered /\ c \notin left.html
    <3> DEFINE f == Head(writer[c].hand)
    <3>1. /\ conn[c].code = 0 /\ f.event # 0
          /\ delivered' = [delivered EXCEPT ![c] = Append(delivered[c], f.event)]
      BY <1>2, <2>3 DEF Write
    <3>2. f \in Frames /\ 1 \in DOMAIN Pipeline(c) /\ Pipeline(c)[1] = f
      <4> DEFINE z == IF conn[c].at = "wait" THEN <<conn[c].frame>> ELSE <<>>
      <4>1. writer[c].q \in Seq(Frames) /\ conn[c].frame \in Frames
        BY <2>1, ClientFacts
      <4>2. z \in Seq(Frames)
        BY <4>1, NoFrames
      <4>3. Pipeline(c) = (writer[c].hand \o writer[c].q) \o z
        BY DEF Pipeline
      <4> HIDE DEF z
      <4>4. QED
        <5> DEFINE h == writer[c].hand
                   b == h \o writer[c].q
        <5>1. h \in Seq(Frames) /\ h # <<>>
          <6>1. Len(<<>>) = 0 /\ 0 # 1
            OBVIOUS
          <6>2. QED
            BY <2>1, <2>2, <6>1, Zenon
        <5>2. b \in Seq(Frames) /\ b # <<>> /\ f \in Frames /\ b[1] = f
          BY <4>1, <5>1, FirstStays
        <5> HIDE DEF b
        <5>3. 1 \in DOMAIN (b \o z) /\ (b \o z)[1] = Head(b) /\ Head(b) = b[1]
          BY <4>2, <5>2, FirstStays
        <5>4. QED
          BY <4>3, <5>2, <5>3 DEF b
    <3>3. Lined(c)
      <4>1. conn[c].at \in Going
        BY <2>1, <2>2, <3>1 DEF StageTrue, Places, Early, Going, Open
      <4>2. QED
        BY <2>2, <4>1 DEF Lined
    <3>4. EventsAcked(told[c], Pipeline(c))
      BY <2>3, <3>3 DEF Inv, LineInv
    <3>6. Acks(told[c], f)
      <4>1. \A k \in 1..1 - 1 : Pipeline(c)[k].event # 0
        OBVIOUS
      <4>2. QED
        BY <3>1, <3>2, <3>4, <4>1 DEF EventsAcked
    <3>7. delivered'[c] = Append(delivered[c], f.event) /\ Last(delivered'[c]) = f.event
      <4>1. delivered'[c] = Append(delivered[c], f.event)
        BY <2>1, <3>1 DEF ClientType
      <4>2. f.event \in Nat
        BY <3>2, FrameFacts
      <4>3. QED
        BY <2>1, <4>1, <4>2 DEF Last
    <3>8. told[c].filter \in Filters /\ told[c] # NoFrame /\ Match(told[c].filter, f.event)
      <4>1. NoFrame.filter = "" /\ "" \notin Filters
        BY DEF NoFrame, Frame, Filters
      <4>2. QED
        BY <3>6, <4>1 DEF Acks
    <3>9. \A d \in Clients : d # c => delivered'[d] = delivered[d]
      BY <2>1, <3>1 DEF ClientType
    <3> HIDE DEF f
    <3>10. QED
      BY <3>7, <3>8, <3>9 DEF EventMatchesAcked
  <2>4. CASE delivered' # delivered /\ c \in left.html
    <3>1. \E x : delivered' = [delivered EXCEPT ![c] = x]
      BY <1>2, <2>4 DEF Write
    <3>2. \A d \in Clients : d # c => delivered'[d] = delivered[d]
      BY <2>1, <3>1 DEF ClientType
    <3>3. QED
      BY <2>4, <3>2 DEF EventMatchesAcked
  <2>5. QED
    BY <1>1, <2>3, <2>4
<1>3. QED
  BY <1>1, <1>2, SubMoves

\* No step sends on a channel that Cancel closed, the publisher being in the
\* middle of a batch or not, and none delivers an event the last status that
\* reached the JSON client leaves out (fanout.go:87-116, server.go:378-393).
THEOREM StreamStepsAlways == Spec => StreamSteps
<1>1. Inv /\ [Next]_vars => [ClosedQueueStill /\ EventMatchesAcked]_vars
  BY ClosedStays, AckedFirst
<1>2. QED
  BY <1>1, TailInvAlways, PTL DEF Spec, StreamSteps

-----------------------------------------------------------------------------
(* What a client was told. *)

LEMMA Least ==
    ASSUME NEW T, T \subseteq Nat, T # {}
    PROVE  \E x \in T : \A y \in T : x <= y
<1>1. PICK x \in T : \A y \in T : <<y, x>> \notin OpToRel(<, Nat)
  BY NatLessThanWellFounded, WFMin, Zenon
<1>2. ASSUME NEW y \in T PROVE ~(y < x)
  BY <1>1, Zenon DEF OpToRel
<1>3. QED
  BY <1>2

\* A line that begins with a status has a last one.
LEMMA LastOfLine ==
    ASSUME NEW line \in Seq(Frames), line # <<>>, line[1].event = 0
    PROVE  \E i \in 1..Len(line) :
              line[i].event = 0 /\ \A k \in i + 1..Len(line) : line[k].event # 0
<1> DEFINE n == Len(line)
           T == {k \in 0..n - 1 : line[n - k].event = 0}
<1>1. n \in Nat /\ n >= 1
  OBVIOUS
<1> HIDE DEF n
<1>2. n - 1 \in T
  <2>1. n - 1 \in 0..n - 1 /\ n - (n - 1) = 1
    BY <1>1
  <2>2. QED
    BY <2>1
<1>3. PICK x \in T : \A y \in T : x <= y
  <2>1. T \subseteq Nat
    BY <1>1
  <2>2. QED
    BY <1>2, <2>1, Least
<1>4. n - x \in 1..n /\ line[n - x].event = 0 /\ x \in Nat
  BY <1>1, <1>3
<1>5. ASSUME NEW k \in n - x + 1..n
      PROVE  line[k].event # 0
  <2>1. n - k \in 0..n - 1 /\ n - (n - k) = k /\ n - k < x
    BY <1>1, <1>4
  <2>2. ASSUME line[k].event = 0 PROVE FALSE
    <3>1. n - k \in T
      BY <2>1, <2>2
    <3> HIDE DEF T
    <3>2. x <= n - k /\ n - k \in Int
      BY <1>3, <2>1, <3>1
    <3>3. QED
      BY <1>1, <1>4, <2>1, <3>2
  <2>3. QED
    BY <2>2
<1>6. QED
  BY <1>4, <1>5 DEF n

LEMMA LastTold ==
    ASSUME Inv, NEW c \in Clients \ left.html, Streaming(c)
    PROVE  Tells(LastStatus(c), conn[c].filter, conn[c].capped)
<1> DEFINE P == Pipeline(c)
           line == <<told[c]>> \o P
           Is(i) == line[i].event = 0 /\ \A k \in i + 1..Len(line) : line[k].event # 0
           i == CHOOSE i \in 1..Len(line) : Is(i)
<1>1. P \in Seq(Frames) /\ told[c] \in Frames /\ told[c].event = 0
  BY HeldAll, PipelineShape, ClientFacts DEF Inv, StageInv, StageTrue
<1>2. LastTells(told[c], P, conn[c].filter, conn[c].capped)
  BY DEF Inv, LineInv, Lined, Going, Open, Streaming
<1>3. LastStatus(c) = line[i]
  BY DEF LastStatus
<1> HIDE DEF P
<1>4. <<told[c]>> \in Seq(Frames) /\ Len(<<told[c]>>) = 1 /\ <<told[c]>>[1] = told[c]
  BY <1>1
<1>5. /\ line \in Seq(Frames) /\ Len(line) = 1 + Len(P) /\ line[1] = told[c] /\ Len(P) \in Nat
      /\ \A k \in 1..Len(P) : line[k + 1] = P[k]
      /\ DOMAIN P = 1..Len(P)
  <2>1. /\ line \in Seq(Frames) /\ Len(line) = 1 + Len(P)
        /\ \A k \in 1..1 + Len(P) : line[k] = IF k <= 1 THEN <<told[c]>>[k] ELSE P[k - 1]
    BY <1>1, <1>4, ConcatProperties
  <2> HIDE DEF line
  <2>2. Len(P) \in Nat /\ DOMAIN P = 1..Len(P)
    BY <1>1
  <2>3. line[1] = told[c]
    BY <1>4, <2>1, <2>2
  <2>4. ASSUME NEW k \in 1..Len(P) PROVE line[k + 1] = P[k]
    <3>1. k + 1 \in 1..1 + Len(P) /\ ~(k + 1 <= 1) /\ (k + 1) - 1 = k
      BY <2>2
    <3>2. QED
      BY <2>1, <3>1
  <2>5. QED
    BY <2>1, <2>2, <2>3, <2>4
<1> HIDE DEF line
<1>6. i \in 1..Len(line) /\ Is(i)
  <2>1. line # <<>>
    BY <1>5
  <2>2. \E k \in 1..Len(line) : Is(k)
    BY <1>1, <1>5, <2>1, LastOfLine
  <2>3. QED
    BY <2>2
<1> HIDE DEF i
<1>7. i \in Nat /\ 1 <= i /\ i <= 1 + Len(P) /\ line[i].event = 0
      /\ \A k \in i + 1..1 + Len(P) : line[k].event # 0
  BY <1>5, <1>6
<1>8. ASSUME NEW m \in DOMAIN P, m > i - 1 PROVE P[m].event # 0
  <2>1. m + 1 \in i + 1..1 + Len(P) /\ m \in 1..Len(P)
    BY <1>5, <1>7, <1>8
  <2>2. QED
    BY <1>5, <1>7, <2>1
<1>9. CASE i = 1
  <2>1. \A k \in DOMAIN P : P[k].event # 0
    BY <1>5, <1>8, <1>9
  <2>2. Tells(told[c], conn[c].filter, conn[c].capped)
    BY <1>2, <2>1 DEF LastTells
  <2>3. QED
    BY <1>3, <1>5, <1>9, <2>2
<1>10. CASE i # 1
  <2>1. i - 1 \in DOMAIN P /\ (i - 1) + 1 = i
    BY <1>5, <1>7, <1>10
  <2>2. line[i] = P[i - 1]
    BY <1>5, <2>1
  <2>3. Tells(P[i - 1], conn[c].filter, conn[c].capped)
    BY <1>2, <1>7, <1>8, <2>1, <2>2 DEF LastTells
  <2>4. QED
    BY <1>3, <2>2, <2>3
<1>11. QED
  BY <1>9, <1>10

\* Every channel, queue and rate window stays within its capacity, every
\* connection the watchdog has not cancelled is one it can still shed, and a
\* JSON client whose cap bites was told so, or the status that tells it is on
\* its way with the filter in force (server.go:154-191, 336, 407-418, 449).
THEOREM StreamsSoundAlways == Spec => []StreamsSound
<1>1. Inv => StreamsSound
  <2> SUFFICES ASSUME Inv PROVE StreamsSound
    OBVIOUS
  <2>1. WithinReach
    BY DEF Inv, ReachInv
  <2>2. StatusTellsCap
    <3>1. ASSUME NEW c \in Clients \ left.html, Streaming(c)
          PROVE  /\ conn[c].capped => LastStatus(c).capped
                 /\ LastStatus(c).filter = conn[c].filter
      BY <3>1, LastTold DEF Tells
    <3>2. QED
      BY <3>1 DEF StatusTellsCap
  <2>3. slots \in [Servers -> 0..Cardinality(Clients)]
    <3>1. slots \in [Servers -> Int]
      BY DEF Inv, TypeInv
    <3>2. ASSUME NEW s \in Servers
          PROVE  slots[s] \in 0..Cardinality(Clients)
      <4>1. slots[s] = Cardinality(Holders(s)) /\ Cardinality(Holders(s)) \in Nat
        BY HolderFacts
      <4>2. Holders(s) \in SUBSET Clients /\ IsFiniteSet(Clients)
        BY Capacities DEF Holders, Here
      <4>3. Cardinality(Holders(s)) <= Cardinality(Clients) /\ Cardinality(Clients) \in Nat
        BY <4>2, FS_Subset, FS_CardinalityType
      <4>4. QED
        BY <4>1, <4>3
    <3>3. QED
      BY <3>1, <3>2
  <2>4. ASSUME NEW c \in Clients
        PROVE  /\ conn[c] \in Conn /\ inbox[c] \in Messages \cup {""}
               /\ Len(writer[c].q) <= WriteCap /\ Len(writer[c].hand) <= 1
               /\ sub[c].state \in {"none", "open", "closed"}
               /\ Len(sub[c].events) <= SendCap /\ told[c] \in Frames
    <3>1. /\ conn[c] \in Conn /\ inbox[c] \in Messages \cup {""} /\ told[c] \in Frames
          /\ sub[c] \in Stream /\ StageTrue(c)
      BY DEF Inv, TypeInv, StageInv
    <3>2. sub[c].state \in {"none", "open", "closed"}
      BY <3>1 DEF Stream
    <3>3. /\ Len(writer[c].q) <= WriteCap /\ Len(sub[c].events) <= SendCap
          /\ Len(writer[c].hand) = IF writer[c].at = "write" THEN 1 ELSE 0
      BY <3>1 DEF StageTrue
    <3>4. Len(writer[c].hand) <= 1
      BY <3>3
    <3>5. QED
      BY <3>1, <3>2, <3>3, <3>4
  <2>5. \A s \in Servers : registry[s] \in Seq({c \in Clients : Server(c) = s})
    BY DEF Inv, TypeInv, Here
  <2>6. /\ left \in Budgets /\ {pressure, accepting} \subseteq BOOLEAN
        /\ dog \in [at : {"idle", "shed", "cancel"},
                    over : {"zero", "recent", "sustained"}, victim : SUBSET Clients]
        /\ subs \subseteq Clients /\ stalled \subseteq Clients /\ gone \subseteq Clients
    BY DEF Inv, TypeInv
  <2>7. pub.todo \subseteq Clients /\ pub.now \subseteq Clients
    BY BatchFacts
  <2>8. TypeOK
    BY <2>3, <2>4, <2>5, <2>6, <2>7 DEF TypeOK, Conn, Places
  <2>9. QED
    BY <2>1, <2>2, <2>8 DEF StreamsSound
<1>2. QED
  BY <1>1, TailInvAlways, PTL

-----------------------------------------------------------------------------
(* The stream of a client, as TailStream has it. *)

Coming(c)  == EventsIn(Pipeline(c)) \cup ToSet(sub[c].events)
Counted(c) == sub[c].dropped + skipped[c] + conn[c].dropped

mapped == <<pub.last, [c \in Clients |-> Stage(c)], offered, [c \in Clients |-> Way(c)],
            delivered, [c \in Clients |-> Lost(c)]>>

\* What the stream is of a client that is sent events, and of one that is not.
LEMMA StreamIs ==
    ASSUME NEW c \in Clients, Held(c)
    PROVE  /\ Streaming(c) =>
                 /\ sub[c].state = "open" /\ conn[c].at \in Open
                 /\ Stage(c) = "open" /\ Way(c) = Coming(c) /\ Lost(c) = Counted(c)
           /\ ~Streaming(c) =>
                 /\ Stage(c) = IF sub[c].state = "none" THEN "before" ELSE "over"
                 /\ Way(c) = {} /\ Lost(c) = offered[c] - Len(delivered[c])
<1>1. ClientType /\ StageTrue(c) /\ OrderTrue(c) /\ Accounted(c)
  BY DEF Held, ClientInv
<1>2. ASSUME Streaming(c)
      PROVE  /\ sub[c].state = "open" /\ conn[c].at \in Open
             /\ Stage(c) = "open" /\ Way(c) = Coming(c) /\ Lost(c) = Counted(c)
  BY <1>1, <1>2 DEF Streaming, StageTrue, Open, Stage, Way, Lost, Coming, Counted
<1>3. ASSUME ~Streaming(c)
      PROVE  /\ Stage(c) = IF sub[c].state = "none" THEN "before" ELSE "over"
             /\ Way(c) = {} /\ Lost(c) = offered[c] - Len(delivered[c])
  BY <1>3 DEF Stage, Way, Lost
<1>4. QED
  BY <1>2, <1>3

\* The same after a step.
LEMMA NextStreamIs ==
    ASSUME NEW c \in Clients, ClientInv(c)'
    PROVE  /\ Streaming(c)' =>
                 Stage(c)' = "open" /\ Way(c)' = Coming(c)' /\ Lost(c)' = Counted(c)'
           /\ ~Streaming(c)' =>
                 /\ Stage(c)' = IF sub'[c].state = "none" THEN "before" ELSE "over"
                 /\ Way(c)' = {} /\ Lost(c)' = offered'[c] - Len(delivered'[c])
<1>1. ASSUME Streaming(c)'
      PROVE  Stage(c)' = "open" /\ Way(c)' = Coming(c)' /\ Lost(c)' = Counted(c)'
  <2>1. sub'[c].state = "open"
    BY <1>1 DEF ClientInv, Streaming, StageTrue, Open
  <2>2. QED
    BY <1>1, <2>1 DEF Stage, Way, Lost, Coming, Counted
<1>2. ASSUME ~Streaming(c)'
      PROVE  /\ Stage(c)' = IF sub'[c].state = "none" THEN "before" ELSE "over"
             /\ Way(c)' = {} /\ Lost(c)' = offered'[c] - Len(delivered'[c])
  BY <1>2 DEF Stage, Way, Lost
<1>3. QED
  BY <1>1, <1>2

\* A step of one client changes the maps at that client alone.
LEMMA StreamMaps ==
    ASSUME NEW c \in Clients, Rest(c), ClientType, ClientType'
    PROVE  /\ \A x : Stage(c)' = x =>
                 [d \in Clients |-> Stage(d)]' = [[d \in Clients |-> Stage(d)] EXCEPT ![c] = x]
           /\ \A x : Way(c)' = x =>
                 [d \in Clients |-> Way(d)]' = [[d \in Clients |-> Way(d)] EXCEPT ![c] = x]
           /\ \A x : Lost(c)' = x =>
                 [d \in Clients |-> Lost(d)]' = [[d \in Clients |-> Lost(d)] EXCEPT ![c] = x]
           /\ \A x : delivered'[c] = x => delivered' = [delivered EXCEPT ![c] = x]
           /\ \A x : offered'[c] = x => offered' = [offered EXCEPT ![c] = x]
           /\ Stage(c)' = Stage(c) => UNCHANGED [d \in Clients |-> Stage(d)]
           /\ Way(c)' = Way(c) => UNCHANGED [d \in Clients |-> Way(d)]
           /\ Lost(c)' = Lost(c) => UNCHANGED [d \in Clients |-> Lost(d)]
           /\ delivered'[c] = delivered[c] => UNCHANGED delivered
           /\ offered'[c] = offered[c] => UNCHANGED offered
<1>1. ASSUME NEW d \in Clients, d # c
      PROVE  Stage(d)' = Stage(d) /\ Way(d)' = Way(d) /\ Lost(d)' = Lost(d)
  <2>1. /\ conn'[d] = conn[d] /\ writer'[d] = writer[d] /\ sub'[d] = sub[d]
        /\ delivered'[d] = delivered[d] /\ offered'[d] = offered[d] /\ skipped'[d] = skipped[d]
    BY <1>1 DEF Rest
  <2>2. Pipeline(d)' = Pipeline(d) /\ Streaming(d)' = Streaming(d)
    BY <2>1 DEF Pipeline, Streaming
  <2>3. QED
    BY <2>1, <2>2 DEF Stage, Way, Lost
<1>2. \A x : Stage(c)' = x =>
         [d \in Clients |-> Stage(d)]' = [[d \in Clients |-> Stage(d)] EXCEPT ![c] = x]
  BY <1>1
<1>3. \A x : Way(c)' = x =>
         [d \in Clients |-> Way(d)]' = [[d \in Clients |-> Way(d)] EXCEPT ![c] = x]
  BY <1>1
<1>4. \A x : Lost(c)' = x =>
         [d \in Clients |-> Lost(d)]' = [[d \in Clients |-> Lost(d)] EXCEPT ![c] = x]
  BY <1>1
<1>5. /\ \A x : delivered'[c] = x => delivered' = [delivered EXCEPT ![c] = x]
      /\ delivered'[c] = delivered[c] => UNCHANGED delivered
  BY DEF Rest, ClientType
<1>6. /\ \A x : offered'[c] = x => offered' = [offered EXCEPT ![c] = x]
      /\ offered'[c] = offered[c] => UNCHANGED offered
  BY DEF Rest, ClientType
<1>7. /\ Stage(c)' = Stage(c) => UNCHANGED [d \in Clients |-> Stage(d)]
      /\ Way(c)' = Way(c) => UNCHANGED [d \in Clients |-> Way(d)]
      /\ Lost(c)' = Lost(c) => UNCHANGED [d \in Clients |-> Lost(d)]
  BY <1>1
<1>8. QED
  BY <1>2, <1>3, <1>4, <1>5, <1>6, <1>7

\* A step that changes nothing of a stream, or by which it ends.
LEMMA StaysOrEnds ==
    ASSUME NEW c \in Clients, Held(c), ClientType', ClientInv(c)',
           Rest(c), pub'.last = pub.last, delivered'[c] = delivered[c], offered'[c] = offered[c],
           sub'[c].state = "none" <=> sub[c].state = "none",
           Streaming(c)' => /\ Streaming(c) /\ Coming(c)' = Coming(c)
                            /\ Counted(c)' = Counted(c)
    PROVE  UNCHANGED mapped \/ Tails!End(c)
<1>1. ClientType
  BY DEF Held
<1>2. UNCHANGED <<pub.last, offered, delivered>>
  BY <1>1, StreamMaps
<1>3. CASE Streaming(c)' \/ ~Streaming(c)
  <2>1. Stage(c)' = Stage(c) /\ Way(c)' = Way(c) /\ Lost(c)' = Lost(c)
    BY <1>3, StreamIs, NextStreamIs
  <2>2. QED
    BY <1>1, <1>2, <2>1, StreamMaps DEF mapped
<1>4. CASE ~Streaming(c)' /\ Streaming(c)
  <2>1. /\ Stage(c)' = "over" /\ Way(c)' = {} /\ Lost(c)' = offered[c] - Len(delivered[c])
        /\ Stage(c) = "open"
    BY <1>4, StreamIs, NextStreamIs
  <2>2. /\ [d \in Clients |-> Stage(d)]' = [[d \in Clients |-> Stage(d)] EXCEPT ![c] = "over"]
        /\ [d \in Clients |-> Way(d)]' = [[d \in Clients |-> Way(d)] EXCEPT ![c] = {}]
        /\ [d \in Clients |-> Lost(d)]'
           = [[d \in Clients |-> Lost(d)] EXCEPT ![c] = offered[c] - Len(delivered[c])]
    BY <1>1, <2>1, StreamMaps
  <2>3. QED
    BY ONLY <1>2, <2>1, <2>2, c \in Clients DEF Tails!End
<1>5. QED
  BY <1>3, <1>4

\* An event leaves the channel, and it is counted that it goes no further.
LEMMA LosesOne ==
    ASSUME NEW c \in Clients, Held(c), ClientType', ClientInv(c)',
           Rest(c), pub'.last = pub.last, delivered'[c] = delivered[c], offered'[c] = offered[c],
           Streaming(c), Streaming(c)', Taken(c), EventsIn(Pipeline(c)') = EventsIn(Pipeline(c)),
           Counted(c)' = Counted(c) + 1
    PROVE  Tails!Lose(c)
<1> DEFINE n == Head(sub[c].events)
<1>1. ClientType /\ OrderTrue(c)
  BY DEF Held, ClientInv
<1>2. /\ ToSet(sub[c].events) = {n} \cup ToSet(Tail(sub[c].events)) /\ n \in Nat
      /\ Below({n}, ToSet(Tail(sub[c].events))) /\ ToSet(sub[c].events) \subseteq Nat
      /\ ToSet(Tail(sub[c].events)) \subseteq Nat
  BY <1>1, ClientFacts, NumberLeaves, Numbers DEF OrderTrue, Taken
<1>3. Below(EventsIn(Pipeline(c)), ToSet(sub[c].events)) /\ EventsIn(Pipeline(c)) \subseteq Nat
  BY <1>1, PipelineShape DEF OrderTrue
<1> HIDE DEF n
<1>4. n \notin EventsIn(Pipeline(c)) \cup ToSet(Tail(sub[c].events))
  BY <1>2, <1>3 DEF Below
<1>5. Coming(c)' = Coming(c) \ {n} /\ n \in Coming(c)
  <2>1. Coming(c)' = EventsIn(Pipeline(c)) \cup ToSet(Tail(sub[c].events))
    BY DEF Coming, Taken
  <2>2. QED
    BY <1>2, <1>4, <2>1 DEF Coming
<1>6. /\ Stage(c)' = Stage(c) /\ Way(c)' = Way(c) \ {n} /\ n \in Way(c)
      /\ Lost(c)' = Lost(c) + 1
  BY <1>5, StreamIs, NextStreamIs
<1>7. /\ UNCHANGED <<pub.last, [d \in Clients |-> Stage(d)], offered, delivered>>
      /\ [d \in Clients |-> Way(d)]' = [[d \in Clients |-> Way(d)] EXCEPT ![c] = Way(c) \ {n}]
      /\ [d \in Clients |-> Lost(d)]' = [[d \in Clients |-> Lost(d)] EXCEPT ![c] = Lost(c) + 1]
  BY <1>1, <1>6, StreamMaps
<1>8. QED
  BY ONLY <1>6, <1>7, c \in Clients DEF Tails!Lose

\* What the steps of one client share.
LEMMA OneClient ==
    ASSUME Inv, NEW c \in Clients, OneMoves(c), ClientInv(c)'
    PROVE  /\ Held(c) /\ ClientType /\ ClientType' /\ Rest(c) /\ pub'.last = pub.last
           /\ StageTrue(c) /\ FreshTrue(c) /\ OrderTrue(c)
BY HeldAll DEF Held, ClientInv, OneMoves

\* The handler's way to its loop and out of it.
LEMMA PlaceStreams ==
    ASSUME Inv, NEW c \in Clients,
           \/ Dial(c) \/ Count(c) \/ Refuse(c) \/ Register(c) \/ LeaveFanout(c) \/ Release(c)
           \/ CancelStream(c)
    PROVE  UNCHANGED mapped \/ Tails!End(c)
<1>1. OneMoves(c) /\ ClientInv(c)'
  BY PlaceSteps
<1>2. /\ Held(c) /\ ClientType /\ ClientType' /\ Rest(c) /\ pub'.last = pub.last /\ StageTrue(c)
  BY <1>1, OneClient
<1>3. Still(c) /\ conn'[c].at \notin Open
  BY <1>2, PlaceMoves, RefuseMoves, StreamMoves DEF Open, CancelStream
<1>4. sub'[c].state = "none" <=> sub[c].state = "none"
  <2>1. CASE CancelStream(c)
    <3>1. conn[c].at = "cancel" /\ sub'[c].state = "closed"
      BY <1>2, <2>1, StreamMoves DEF CancelStream
    <3>2. QED
      BY <1>2, <3>1 DEF StageTrue
  <2>2. CASE ~CancelStream(c)
    BY <1>2, <2>2, PlaceMoves, RefuseMoves
  <2>3. QED
    BY <2>1, <2>2
<1>5. ~Streaming(c)'
  BY <1>3 DEF Streaming, Open
<1>6. QED
  BY <1>1, <1>2, <1>3, <1>4, <1>5, StaysOrEnds DEF Still

\* The stream opens when the fan-out knows of it, empty.
LEMMA SubscribeStreams ==
    ASSUME Inv, NEW c \in Clients, Subscribe(c)
    PROVE  Tails!Open(c)
<1>1. OneMoves(c) /\ ClientInv(c)'
  BY PlaceSteps
<1>2. /\ Held(c) /\ ClientType /\ ClientType' /\ Rest(c) /\ pub'.last = pub.last
      /\ StageTrue(c) /\ FreshTrue(c)
  BY <1>1, OneClient
<1>3. /\ Still(c) /\ Same(c) /\ writer' = writer
      /\ sub'[c].events = sub[c].events /\ sub'[c].dropped = sub[c].dropped
      /\ conn[c].at = "subscribe" /\ conn'[c].at = "loop" /\ sub'[c].state = "open"
  BY <1>2, StreamMoves DEF Subscribe
<1>4. /\ sub[c].state = "none" /\ ~Streaming(c)
      /\ sub[c].events = <<>> /\ sub[c].dropped = 0
      /\ offered[c] = 0 /\ skipped[c] = 0 /\ delivered[c] = <<>>
      /\ conn[c].dropped = 0 /\ EventsIn(Pipeline(c)) = {}
  BY <1>2, <1>3 DEF StageTrue, FreshTrue, Early, Streaming
<1>5. Pipeline(c)' = Pipeline(c)
  BY <1>2, <1>3, LineStays
<1>6. Coming(c)' = {} /\ Counted(c)' = 0
  <2>1. EventsIn(Pipeline(c)') = {}
    BY <1>4, <1>5
  <2>2. ToSet(sub'[c].events) = {}
    BY <1>3, <1>4 DEF ToSet
  <2>3. QED
    BY <1>3, <1>4, <2>1, <2>2 DEF Coming, Counted, Still, Same
<1>7. offered[c] - Len(delivered[c]) = 0
  <2>1. Len(delivered[c]) = 0
    BY <1>4
  <2>2. 0 - 0 = 0
    OBVIOUS
  <2>3. QED
    BY ONLY <1>4, <2>1, <2>2, Zenon
<1>8. /\ Stage(c) = "before" /\ Stage(c)' \in {"open", "over"}
      /\ Way(c)' = Way(c) /\ Lost(c)' = Lost(c)
  BY <1>1, <1>2, <1>3, <1>4, <1>6, <1>7, StreamIs, NextStreamIs DEF Still
<1>9. PICK s \in {"open", "over"} : Stage(c)' = s
  BY <1>8
<1>10. /\ [d \in Clients |-> Stage(d)]' = [[d \in Clients |-> Stage(d)] EXCEPT ![c] = s]
       /\ UNCHANGED <<pub.last, offered, [d \in Clients |-> Way(d)], delivered,
                      [d \in Clients |-> Lost(d)]>>
  BY <1>2, <1>3, <1>8, <1>9, StreamMaps DEF Still
<1>11. QED
  BY ONLY <1>8, <1>9, <1>10, c \in Clients DEF Tails!Open

\* A frame without an event joins the line, or none.
LEMMA PutsKeep ==
    ASSUME ClientType, ClientType', NEW c \in Clients, NEW f \in Frames, Puts(c, f)
    PROVE  /\ EventsIn(Pipeline(c)') = EventsIn(Pipeline(c)) \cup ({f.event} \ {0})
           /\ Streaming(c)' <=> Streaming(c)
<1>1. Pipeline(c) \in Seq(Frames)
  BY PipelineShape
<1>2. EventsIn(Append(Pipeline(c), f)) = EventsIn(Pipeline(c)) \cup ({f.event} \ {0})
  BY <1>1, FrameAdded
<1>3. EventsIn(Pipeline(c)') = EventsIn(Pipeline(c)) \cup ({f.event} \ {0})
  BY <1>2, PutsLine
<1>4. Streaming(c)' <=> Streaming(c)
  BY DEF Puts, Open, Streaming
<1>5. QED
  BY <1>3, <1>4

\* Closing, the client's messages and the heartbeat.
LEMMA MessageStreams ==
    ASSUME Inv, NEW c \in Clients,
           \/ ContextDone(c) \/ WriteError(c) \/ GraceOver(c)
           \/ FirstMessage(c) \/ NextMessage(c) \/ Heartbeat(c)
    PROVE  UNCHANGED mapped \/ Tails!End(c)
<1>1. OneMoves(c) /\ ClientInv(c)' /\ inbox \in [Clients -> Messages \cup {""}]
  BY CloseSteps, MessageSteps DEF Inv, TypeInv
<1>2. /\ Held(c) /\ ClientType /\ ClientType' /\ Rest(c) /\ pub'.last = pub.last /\ StageTrue(c)
  BY <1>1, OneClient
<1>3. Still(c)
  BY <1>1, <1>2, ClosingMoves, FirstMessageMoves, NextMessageMoves, HeartbeatMoves
<1>4. CASE Closes(c)
  <2>1. ~Streaming(c)' /\ sub' = sub
    BY <1>4 DEF Closes, Streaming
  <2>2. QED
    BY <1>1, <1>2, <1>3, <2>1, StaysOrEnds DEF Still
<1>5. CASE FirstMessage(c) /\ ~Closes(c)
  <2>1. sub' = sub /\ conn'[c].at = "subscribe"
    BY <1>1, <1>2, <1>5, FirstMessageMoves
  <2>2. ~Streaming(c)'
    BY <2>1 DEF Streaming
  <2>3. QED
    BY <1>1, <1>2, <1>3, <2>1, <2>2, StaysOrEnds DEF Still
<1>6. ASSUME NEW f \in Frames, Puts(c, f), f.event = 0, sub' = sub,
             conn'[c].dropped = conn[c].dropped
      PROVE  UNCHANGED mapped \/ Tails!End(c)
  <2>1. EventsIn(Pipeline(c)') = EventsIn(Pipeline(c)) /\ (Streaming(c)' <=> Streaming(c))
    BY <1>2, <1>6, PutsKeep
  <2>2. Coming(c)' = Coming(c) /\ Counted(c)' = Counted(c)
    BY <1>3, <1>6, <2>1 DEF Coming, Counted, Still
  <2>3. QED
    BY <1>1, <1>2, <1>3, <1>6, <2>1, <2>2, StaysOrEnds DEF Still
<1>7. CASE NextMessage(c) /\ ~Closes(c)
  BY <1>1, <1>2, <1>6, <1>7, NextMessageMoves
<1>8. CASE Heartbeat(c)
  BY <1>1, <1>2, <1>6, <1>8, HeartbeatMoves DEF Same
<1>9. QED
  BY <1>2, <1>4, <1>5, <1>7, <1>8, ClosingMoves

\* Room in the queue, and the writer's taking.
LEMMA QueueStreams ==
    ASSUME Inv, NEW c \in Clients, Room(c) \/ WriterTakes(c)
    PROVE  UNCHANGED mapped \/ Tails!End(c)
<1>1. OneMoves(c) /\ ClientInv(c)'
  BY QueueSteps
<1>2. /\ Held(c) /\ ClientType /\ ClientType' /\ Rest(c) /\ pub'.last = pub.last /\ StageTrue(c)
  BY <1>1, OneClient
<1>3. Still(c) /\ sub' = sub /\ conn'[c].dropped = conn[c].dropped
  BY <1>2, RoomMoves, WriterTakesMoves DEF Same
<1>4. Streaming(c)' => Streaming(c) /\ Pipeline(c)' = Pipeline(c)
  <2>1. CASE Room(c)
    <3>1. /\ conn[c].at = "wait" /\ conn'[c].at = "loop" /\ writer'[c].at = writer[c].at
          /\ writer'[c].q = Append(writer[c].q, conn[c].frame)
          /\ writer'[c].hand = writer[c].hand
      BY <1>2, <2>1, RoomMoves
    <3>2. QED
      BY <1>2, <3>1, RoomLine DEF Streaming
  <2>2. CASE WriterTakes(c)
    <3>1. /\ conn' = conn /\ writer[c].at = "idle"
          /\ \/ writer'[c].at = "stopped"
             \/ /\ writer'[c].at = "write" /\ writer[c].q # <<>>
                /\ writer'[c].q = Tail(writer[c].q)
                /\ writer'[c].hand = <<Head(writer[c].q)>>
      BY <1>2, <2>2, WriterTakesMoves
    <3>2. writer[c].hand = <<>>
      BY <1>2, <3>1, ClientFacts DEF StageTrue
    <3>3. QED
      BY <1>2, <3>1, <3>2, TakesLine DEF Streaming
  <2>3. QED
    BY <2>1, <2>2
<1>5. Streaming(c)' => Coming(c)' = Coming(c) /\ Counted(c)' = Counted(c)
  BY <1>3, <1>4 DEF Coming, Counted, Still
<1>6. QED
  BY <1>1, <1>2, <1>3, <1>4, <1>5, StaysOrEnds DEF Still

\* The handler takes an event: it goes on to the line, or no further.
LEMMA EventStreams ==
    ASSUME Inv, NEW c \in Clients, TakeEvent(c)
    PROVE  UNCHANGED mapped \/ Tails!End(c) \/ Tails!Lose(c)
<1>1. OneMoves(c) /\ ClientInv(c)' /\ RateCap \in Nat
  BY EventSteps, Capacities
<1>2. /\ Held(c) /\ ClientType /\ ClientType' /\ Rest(c) /\ pub'.last = pub.last /\ OrderTrue(c)
  BY <1>1, OneClient
<1>3. /\ conn[c].at = "loop" /\ Taken(c)
      /\ delivered'[c] = delivered[c] /\ offered'[c] = offered[c]
  BY <1>1, <1>2, TakeEventMoves DEF Taken
<1>4. /\ sub[c].dropped \in Nat /\ skipped[c] \in Nat /\ conn[c].dropped \in Nat
      /\ sub[c].events \in Seq(Nat \ {0})
  BY <1>2, ClientFacts
<1>5. ASSUME Streaming(c)' <=> Streaming(c), EventsIn(Pipeline(c)') = EventsIn(Pipeline(c)),
             \/ skipped'[c] = skipped[c] + 1 /\ conn'[c].dropped = conn[c].dropped
             \/ skipped'[c] = skipped[c] /\ conn'[c].dropped = conn[c].dropped + 1
      PROVE  UNCHANGED mapped \/ Tails!End(c) \/ Tails!Lose(c)
  <2>1. Counted(c)' = Counted(c) + 1
    <3>1. \A i, j, k \in Nat : i + (j + 1) + k = i + j + k + 1 /\ i + j + (k + 1) = i + j + k + 1
      OBVIOUS
    <3>2. /\ sub[c].dropped + (skipped[c] + 1) + conn[c].dropped = Counted(c) + 1
          /\ sub[c].dropped + skipped[c] + (conn[c].dropped + 1) = Counted(c) + 1
      BY ONLY <1>4, <3>1, Zenon DEF Counted
    <3>3. sub'[c].dropped = sub[c].dropped
      BY <1>3 DEF Taken
    <3>4. QED
      BY ONLY <1>5, <3>2, <3>3, Zenon DEF Counted
  <2>2. CASE Streaming(c)
    BY <1>1, <1>2, <1>3, <1>5, <2>1, <2>2, LosesOne
  <2>3. CASE ~Streaming(c)
    BY <1>1, <1>2, <1>3, <1>5, <2>3, StaysOrEnds DEF Taken
  <2>4. QED
    BY <2>2, <2>3
<1>6. CASE /\ skipped'[c] = skipped[c] + 1 /\ conn'[c] = conn[c] /\ writer'[c] = writer[c]
  <2>1. Pipeline(c)' = Pipeline(c) /\ (Streaming(c)' <=> Streaming(c))
    BY <1>6 DEF Pipeline, Streaming
  <2>2. QED
    BY <1>5, <1>6, <2>1
<1>7. CASE /\ skipped'[c] = skipped[c] /\ Puts(c, Frame(Head(sub[c].events)))
           /\ conn'[c].dropped = conn[c].dropped
  <2> DEFINE e == Head(sub[c].events)
  <2>1. e \in Nat \ {0} /\ ToSet(sub[c].events) = {e} \cup ToSet(Tail(sub[c].events))
    BY <1>2, <1>3, <1>4, NumberLeaves DEF OrderTrue, Taken
  <2>2. Frame(e) \in Frames /\ Frame(e).event = e
    BY <2>1, FrameShape
  <2>3. /\ EventsIn(Pipeline(c)') = EventsIn(Pipeline(c)) \cup {e}
        /\ Streaming(c)' <=> Streaming(c)
    BY <1>2, <1>7, <2>1, <2>2, PutsKeep
  <2> HIDE DEF e
  <2>4. Coming(c)' = Coming(c)
    <3>1. Coming(c)' = (EventsIn(Pipeline(c)) \cup {e}) \cup ToSet(Tail(sub[c].events))
      BY <1>3, <2>3 DEF Coming, Taken
    <3>2. QED
      BY <2>1, <3>1 DEF Coming
  <2>5. Counted(c)' = Counted(c)
    BY <1>3, <1>7 DEF Counted, Taken
  <2>6. QED
    BY <1>1, <1>2, <1>3, <2>3, <2>4, <2>5, StaysOrEnds DEF Taken
<1>8. CASE /\ skipped'[c] = skipped[c] /\ writer'[c] = writer[c]
           /\ conn'[c].dropped = conn[c].dropped + 1 /\ conn'[c].at = "loop"
  <2>1. Pipeline(c)' = Pipeline(c) /\ (Streaming(c)' <=> Streaming(c))
    BY <1>2, <1>3, <1>8, LineStays DEF Streaming
  <2>2. QED
    BY <1>5, <1>8, <2>1
<1>9. CASE /\ skipped'[c] = skipped[c] /\ conn'[c].dropped = conn[c].dropped + 1
           /\ \E f \in Frames : Puts(c, f) /\ f.event = 0
  <2>1. EventsIn(Pipeline(c)') = EventsIn(Pipeline(c)) /\ (Streaming(c)' <=> Streaming(c))
    BY <1>2, <1>9, PutsKeep
  <2>2. QED
    BY <1>5, <1>9, <2>1
<1>10. QED
  BY <1>1, <1>2, <1>6, <1>7, <1>8, <1>9, TakeEventMoves

\* What the socket takes is the first of what was on its way.
LEMMA WriteStreams ==
    ASSUME Inv, NEW c \in Clients, Write(c) \/ Unregister(c)
    PROVE  UNCHANGED mapped \/ Tails!End(c) \/ Tails!Deliver(c)
<1>1. OneMoves(c) /\ ClientInv(c)'
  BY WriteSteps
<1>2. /\ Held(c) /\ ClientType /\ ClientType' /\ Rest(c) /\ pub'.last = pub.last
      /\ StageTrue(c) /\ FreshTrue(c) /\ OrderTrue(c)
  BY <1>1, OneClient
<1>3. CASE Unregister(c)
  <2>1. Still(c) /\ sub' = sub /\ conn'[c].at = "release"
    BY <1>2, <1>3, UnregisterMoves
  <2>2. ~Streaming(c)'
    BY <2>1 DEF Streaming
  <2>3. QED
    BY <1>1, <1>2, <2>1, <2>2, StaysOrEnds DEF Still
<1>4. CASE Write(c)
  <2>1. Len(writer[c].hand) = 1
    BY <1>2, <1>4 DEF Write, StageTrue
  <2>2. /\ conn' = conn /\ sub' = sub /\ offered'[c] = offered[c] /\ skipped'[c] = skipped[c]
        /\ writer[c].at = "write" /\ writer'[c].q = writer[c].q /\ writer'[c].hand = <<>>
    BY <1>2, <1>4, <2>1, WriteMoves
  <2>3. /\ Pipeline(c) # <<>> /\ Head(Pipeline(c)) = Head(writer[c].hand)
        /\ Pipeline(c)' = Tail(Pipeline(c)) /\ Pipeline(c) \in Seq(Frames)
    BY <1>2, <2>1, <2>2, WriteLine, PipelineShape
  <2> DEFINE h == Head(Pipeline(c))
  <2>4. /\ h \in Frames /\ EventsIn(Pipeline(c)) = EventsIn(Pipeline(c)') \cup ({h.event} \ {0})
        /\ Below({h.event} \ {0}, EventsIn(Pipeline(c)')) /\ EventsIn(Pipeline(c)') \subseteq Nat
    BY <1>2, <2>3, FrameLeaves, EventNumbers DEF OrderTrue
  <2>5. Counted(c)' = Counted(c)
    BY <2>2 DEF Counted
  <2> HIDE DEF h
  <2>6. CASE writer'[c].at = "stopped" /\ delivered'[c] = delivered[c]
    <3>1. ~Streaming(c)'
      BY <2>6 DEF Streaming
    <3>2. QED
      BY <1>1, <1>2, <2>2, <2>6, <3>1, StaysOrEnds
  <2>7. CASE writer'[c].at = "idle" /\ h.event = 0 /\ delivered'[c] = delivered[c]
    <3>1. Streaming(c)' <=> Streaming(c)
      BY <2>2, <2>7 DEF Streaming
    <3>2. Coming(c)' = Coming(c)
      BY <2>2, <2>4, <2>7 DEF Coming
    <3>3. QED
      BY <1>1, <1>2, <2>2, <2>5, <2>7, <3>1, <3>2, StaysOrEnds
  <2>8. CASE /\ conn[c].code = 0 /\ writer'[c].at = "idle" /\ h.event # 0
             /\ delivered'[c] = Append(delivered[c], h.event)
    <3> DEFINE n == h.event
    <3>1. n \in EventsIn(Pipeline(c)) /\ n \in Nat \ {0}
      BY <2>4, <2>8, FrameFacts
    <3>2. conn[c].at \in Open
      <4>1. sub[c].state # "none"
        BY <1>2, <3>1 DEF FreshTrue
      <4>2. conn[c].at \in Places
        BY <1>2, ClientFacts
      <4>3. QED
        BY <1>2, <2>2, <2>8, <4>1, <4>2 DEF StageTrue, Places, Early, Open
    <3>3. Streaming(c) /\ Streaming(c)'
      BY <2>2, <2>8, <3>2 DEF Streaming, Open
    <3>4. /\ Below(EventsIn(Pipeline(c)), ToSet(sub[c].events)) /\ ToSet(sub[c].events) \subseteq Nat
      BY <1>2, ClientFacts, Numbers DEF OrderTrue
    <3> HIDE DEF n
    <3>5. n \notin EventsIn(Pipeline(c)') /\ n \notin ToSet(sub[c].events)
      BY <2>4, <2>8, <3>1, <3>4 DEF Below, n
    <3>6. Coming(c)' = Coming(c) \ {n} /\ n \in Coming(c)
      <4>1. Coming(c)' = EventsIn(Pipeline(c)') \cup ToSet(sub[c].events)
        BY <2>2 DEF Coming
      <4>2. EventsIn(Pipeline(c)) = EventsIn(Pipeline(c)') \cup {n}
        BY <2>4, <2>8 DEF n
      <4>3. QED
        BY <3>5, <4>1, <4>2 DEF Coming
    <3>7. \A m \in Coming(c) : n <= m
      <4>1. \A m \in EventsIn(Pipeline(c)') : n <= m
        BY <2>4, <2>8, <3>1 DEF Below, n
      <4>2. \A m \in ToSet(sub[c].events) : n <= m
        BY <3>1, <3>4 DEF Below
      <4>3. EventsIn(Pipeline(c)) = EventsIn(Pipeline(c)') \cup {n}
        BY <2>4, <2>8 DEF n
      <4>4. QED
        BY <3>1, <4>1, <4>2, <4>3 DEF Coming
    <3>8. /\ Stage(c)' = Stage(c) /\ Way(c)' = Way(c) \ {n} /\ n \in Way(c)
          /\ Lost(c)' = Lost(c) /\ \A m \in Way(c) : n <= m
      BY <1>1, <1>2, <2>5, <3>3, <3>6, <3>7, StreamIs, NextStreamIs
    <3>9. delivered'[c] = Append(delivered[c], n)
      BY <2>8 DEF n
    <3>10. /\ UNCHANGED <<pub.last, [d \in Clients |-> Stage(d)], offered,
                          [d \in Clients |-> Lost(d)]>>
           /\ [d \in Clients |-> Way(d)]' = [[d \in Clients |-> Way(d)] EXCEPT ![c] = Way(c) \ {n}]
           /\ delivered' = [delivered EXCEPT ![c] = Append(delivered[c], n)]
      BY <1>2, <2>2, <3>8, <3>9, StreamMaps
    <3>11. Tails!Deliver(c)
      BY ONLY <3>8, <3>10, c \in Clients DEF Tails!Deliver
    <3>12. QED
      BY <3>11
  <2>9. QED
    BY <1>2, <1>4, <2>1, <2>3, <2>6, <2>7, <2>8, WriteMoves DEF h
<1>5. QED
  BY <1>3, <1>4

\* Publish offers its next number, and never waits whether it is taken.
LEMMA PublishStreams ==
    ASSUME Inv, NEW c \in Clients, Publish(c)
    PROVE  UNCHANGED mapped \/ Tails!Offer(c)
<1>1. ClientType' /\ ClientInv(c)' /\ pub.next \in Nat \ {0} /\ Limit(c) = pub.next
  BY PublishSteps, PublishBatch
<1>2. Held(c) /\ ClientType /\ FreshTrue(c) /\ OrderTrue(c)
  BY HeldAll DEF Held, ClientInv
<1>3. /\ Rest(c) /\ conn' = conn /\ writer' = writer
      /\ delivered'[c] = delivered[c] /\ skipped'[c] = skipped[c]
  BY <1>1, <1>2, PublishMoves
<1>4. /\ Pipeline(c)' = Pipeline(c) /\ (Streaming(c)' <=> Streaming(c))
  BY <1>3 DEF Pipeline, Streaming
<1>5. /\ pub'.last = pub.last /\ pub.next \in 1..pub.last /\ sub[c].state # "none"
  <2>1. pub \in Batches /\ pub.last \in Nat /\ c \in pub.todo /\ BatchInv
    BY BatchFacts DEF Publish
  <2>2. pub.next <= pub.last /\ sub[c].state # "none"
    BY <1>2, <2>1 DEF BatchInv, FreshTrue
  <2>3. pub'.last = pub.last
    BY <2>1 DEF Publish, PublishNext, Batches
  <2>4. QED
    BY <1>1, <2>1, <2>2, <2>3
<1>6. CASE sub'[c] = sub[c] /\ offered'[c] = offered[c]
  <2>1. Stage(c)' = Stage(c) /\ Way(c)' = Way(c) /\ Lost(c)' = Lost(c)
    BY <1>3, <1>4, <1>6 DEF Stage, Way, Lost
  <2>2. QED
    BY <1>1, <1>2, <1>3, <1>5, <1>6, <2>1, StreamMaps DEF mapped
<1>7. CASE offered'[c] = offered[c] + 1 /\ sub'[c].state = sub[c].state
  <2> DEFINE out == {delivered[c][i] : i \in DOMAIN delivered[c]}
  <2>1. \A m \in Coming(c) \cup out : m < pub.next
    <3>1. ToSet(delivered[c]) = out
      BY DEF ToSet
    <3>2. Below(ToSet(delivered[c]) \cup EventsIn(Pipeline(c)) \cup ToSet(sub[c].events), {pub.next})
      BY <1>1, <1>2 DEF OrderTrue
    <3>3. QED
      BY <3>1, <3>2 DEF Below, Coming
  <2>2. Stage(c)' = Stage(c) /\ Stage(c) # "before"
    BY <1>4, <1>5, <1>7 DEF Stage
  <2>3. /\ UNCHANGED <<pub.last, [d \in Clients |-> Stage(d)], delivered>>
        /\ offered' = [offered EXCEPT ![c] = offered[c] + 1]
    BY <1>1, <1>2, <1>3, <1>5, <1>7, <2>2, StreamMaps
  <2>4. ASSUME Way(c)' = Way(c), Lost(c)' = Lost(c) + 1
        PROVE  Tails!Offer(c)
    <3>1. /\ UNCHANGED [d \in Clients |-> Way(d)]
          /\ [d \in Clients |-> Lost(d)]' = [[d \in Clients |-> Lost(d)] EXCEPT ![c] = Lost(c) + 1]
      BY <1>1, <1>2, <1>3, <2>4, StreamMaps
    <3>2. QED
      BY ONLY <2>2, <2>3, <3>1, c \in Clients DEF Tails!Offer
  <2>5. CASE ~Streaming(c)
    <3>1. offered[c] \in Nat /\ Len(delivered[c]) \in Nat
      BY <1>2, ClientFacts, Numbers
    <3>2. offered[c] + 1 - Len(delivered[c]) = offered[c] - Len(delivered[c]) + 1
      BY <3>1
    <3>3. Way(c)' = Way(c)
      BY <1>4, <2>5 DEF Way
    <3>4. /\ Lost(c) = offered[c] - Len(delivered[c])
          /\ Lost(c)' = offered'[c] - Len(delivered'[c])
      BY <1>4, <2>5 DEF Lost
    <3>5. Lost(c)' = Lost(c) + 1
      <4>1. offered'[c] = offered[c] + 1 /\ delivered'[c] = delivered[c]
        BY <1>3, <1>7
      <4>2. Len(delivered'[c]) = Len(delivered[c])
        BY ONLY <4>1
      <4>3. Lost(c)' = offered[c] + 1 - Len(delivered[c])
        BY ONLY <3>1, <3>4, <4>1, <4>2
      <4>4. QED
        BY ONLY <3>1, <3>2, <3>4, <4>3
    <3>6. QED
      BY <2>4, <3>3, <3>5
  <2>6. CASE /\ Streaming(c) /\ sub'[c].events = sub[c].events
             /\ sub'[c].dropped = sub[c].dropped + 1
    <3>1. sub[c].dropped \in Nat /\ skipped[c] \in Nat /\ conn[c].dropped \in Nat
      BY <1>2, ClientFacts
    <3>2. \A i, j, k \in Nat : (i + 1) + j + k = i + j + k + 1
      OBVIOUS
    <3>3. (sub[c].dropped + 1) + skipped[c] + conn[c].dropped = Counted(c) + 1
      BY ONLY <3>1, <3>2, Zenon DEF Counted
    <3>4. Counted(c)' = Counted(c) + 1
      BY <1>3, <2>6, <3>3, Zenon DEF Counted
    <3>5. Way(c)' = Way(c) /\ Lost(c)' = Lost(c) + 1
      BY <1>1, <1>2, <1>4, <2>6, <3>4, StreamIs, NextStreamIs DEF Coming
    <3>6. QED
      BY <2>4, <3>5
  <2>7. CASE /\ Streaming(c) /\ sub'[c].events = Append(sub[c].events, pub.next)
             /\ sub'[c].dropped = sub[c].dropped
    <3>1. ToSet(sub'[c].events) = ToSet(sub[c].events) \cup {pub.next}
      <4>1. /\ sub[c].events \in Seq(Nat \ {0}) /\ Ascends(sub[c].events)
            /\ Below(ToSet(sub[c].events), {pub.next})
        BY <1>2, <2>1, ClientFacts DEF OrderTrue, Below, Coming
      <4>2. QED
        BY <1>1, <2>7, <4>1, NumberAdded
    <3>2. Coming(c)' = Coming(c) \cup {pub.next} /\ Counted(c)' = Counted(c)
      BY <1>3, <1>4, <2>7, <3>1 DEF Coming, Counted
    <3>3. /\ Way(c)' = Way(c) \cup {pub.next} /\ Lost(c)' = Lost(c) /\ Stage(c) = "open"
          /\ Way(c) = Coming(c)
      BY <1>1, <1>2, <1>4, <2>7, <3>2, StreamIs, NextStreamIs
    <3>4. /\ UNCHANGED [d \in Clients |-> Lost(d)]
          /\ [d \in Clients |-> Way(d)]'
             = [[d \in Clients |-> Way(d)] EXCEPT ![c] = Way(c) \cup {pub.next}]
      BY <1>1, <1>2, <1>3, <3>3, StreamMaps
    <3>5. \A m \in Way(c) \cup out : m < pub.next
      BY <2>1, <3>3
    <3>6. QED
      BY ONLY <1>5, <2>2, <2>3, <3>3, <3>4, <3>5, c \in Clients DEF Tails!Offer, Tails!Arrived
  <2>8. QED
    BY <1>1, <1>2, <1>6, <1>7, <2>5, <2>6, <2>7, PublishMoves
<1>8. QED
  BY <1>1, <1>2, <1>6, <1>7, PublishMoves

\* Every step is one of the streams, or changes nothing they see.
LEMMA TailStep ==
    ASSUME Inv, [Next]_vars
    PROVE  Tails!Next \/ UNCHANGED mapped
<1>1. ASSUME NEW c \in Clients,
             \/ Dial(c) \/ Count(c) \/ Refuse(c) \/ Register(c) \/ LeaveFanout(c)
             \/ Release(c) \/ Subscribe(c) \/ CancelStream(c)
             \/ ContextDone(c) \/ WriteError(c) \/ GraceOver(c)
             \/ FirstMessage(c) \/ NextMessage(c) \/ Heartbeat(c)
             \/ TakeEvent(c) \/ Room(c) \/ WriterTakes(c) \/ Write(c) \/ Unregister(c)
             \/ Publish(c)
      PROVE  Tails!Next \/ UNCHANGED mapped
  BY <1>1, PlaceStreams, SubscribeStreams, MessageStreams, EventStreams, QueueStreams,
     WriteStreams, PublishStreams DEF Tails!Next
<1>2. CASE CancelVictim
  <2>1. PICK c \in Clients : OneMoves(c) /\ conn'[c].at = conn[c].at /\ ClientInv(c)'
    BY <1>2, CancelSteps
  <2>2. /\ Held(c) /\ ClientType' /\ Rest(c) /\ pub'.last = pub.last
    BY <2>1, OneClient
  <2>3. /\ writer' = writer /\ sub' = sub /\ delivered' = delivered /\ offered' = offered
        /\ skipped' = skipped
    BY <1>2 DEF CancelVictim, fanVars, wireVars
  <2>4. conn'[c].frame = conn[c].frame /\ conn'[c].dropped = conn[c].dropped
    <3>1. \E d \in Clients : conn' = [conn EXCEPT ![d] = [conn[d] EXCEPT !.cancelled = TRUE]]
      BY <1>2 DEF CancelVictim, Inv, ReachInv
    <3>2. PICK d \in Clients : conn' = [conn EXCEPT ![d] = [conn[d] EXCEPT !.cancelled = TRUE]]
      BY <3>1
    <3>3. conn \in [Clients -> Conn] /\ conn[c] \in Conn
      BY <2>2 DEF Held, ClientType
    <3>4. conn'[c] = conn[c] \/ conn'[c] = [conn[c] EXCEPT !.cancelled = TRUE]
      BY ONLY <3>2, <3>3, c \in Clients
    <3>5. QED
      BY ONLY <3>3, <3>4 DEF Conn
  <2>5. Pipeline(c)' = Pipeline(c) /\ (Streaming(c)' <=> Streaming(c))
    BY <2>1, <2>3, <2>4 DEF Pipeline, Streaming
  <2>6. Coming(c)' = Coming(c) /\ Counted(c)' = Counted(c)
    BY <2>3, <2>4, <2>5 DEF Coming, Counted
  <2>7. UNCHANGED mapped \/ Tails!End(c)
    BY <2>1, <2>2, <2>3, <2>5, <2>6, StaysOrEnds
  <2>8. QED
    BY <2>7 DEF Tails!Next
<1>3. CASE Idle
  <2>1. /\ conn' = conn /\ writer' = writer /\ sub' = sub /\ delivered' = delivered
        /\ offered' = offered /\ skipped' = skipped /\ (pub' = pub \/ PublishStart)
    BY <1>3, IdleMoves
  <2>2. \A d \in Clients : Pipeline(d)' = Pipeline(d) /\ Streaming(d)' = Streaming(d)
    BY <2>1 DEF Pipeline, Streaming
  <2>3. \A d \in Clients : Stage(d)' = Stage(d) /\ Way(d)' = Way(d) /\ Lost(d)' = Lost(d)
    BY <2>1, <2>2 DEF Stage, Way, Lost
  <2>4. UNCHANGED <<[d \in Clients |-> Stage(d)], offered, [d \in Clients |-> Way(d)], delivered,
                    [d \in Clients |-> Lost(d)]>>
    BY <2>1, <2>3
  <2>5. CASE pub' = pub
    BY <2>4, <2>5 DEF mapped
  <2>6. CASE PublishStart
    <3>1. PICK n \in 1..2 : pub'.last = pub.last + n
      BY <2>6 DEF PublishStart
    <3>2. pub.last \in Nat
      BY BatchFacts
    <3>3. pub'.last > pub.last
      BY <3>1, <3>2
    <3>4. QED
      BY <2>4, <3>3 DEF Tails!Publish, Tails!Next
  <2>7. QED
    BY <2>1, <2>5, <2>6
<1>4. QED
  BY <1>1, <1>2, <1>3, StepKinds

\* Fan-out, handlers, writers, stalls, disconnects and the watchdog, in any
\* interleaving and with queues of any capacity, are the streams: numbers are
\* counted when they are lost, the others arrive in order, and nothing
\* arrives once the writer stopped or the handler closes (Publish, runConnection,
\* writeLoop).
THEOREM LiveTailImplementsStreams == Spec => IsTailStream
<1>1. Init => Tails!Init
  <2> SUFFICES ASSUME Init PROVE Tails!Init
    OBVIOUS
  <2>1. \A c \in Clients : /\ Stage(c) = "before" /\ Way(c) = {} /\ ~Streaming(c)
                           /\ offered[c] = 0 /\ delivered[c] = <<>>
    BY DEF Init, Stage, Way, Streaming, NoConn
  <2>2. Len(<<>>) = 0 /\ 0 - 0 = 0
    OBVIOUS
  <2>3. \A c \in Clients : Lost(c) = 0
    BY ONLY <2>1, <2>2, Zenon DEF Lost
  <2>4. QED
    BY <2>1, <2>3 DEF Init, Tails!Init
<1>2. Inv /\ [Next]_vars
      => [Tails!Next]_<<pub.last, [c \in Clients |-> Stage(c)], offered,
                        [c \in Clients |-> Way(c)], delivered, [c \in Clients |-> Lost(c)]>>
  BY TailStep DEF mapped
<1>3. QED
  BY <1>1, <1>2, TailInvAlways, PTL DEF Spec, IsTailStream, Tails!Spec, Tails!vars
=============================================================================
