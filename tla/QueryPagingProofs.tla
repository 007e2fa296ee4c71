-------------------------- MODULE QueryPagingProofs --------------------------
(***************************************************************************)
(* Proofs about QueryPaging: what a chain of pages returns, what it may    *)
(* leave out, and what the numbers next to its rows say, for any windows,  *)
(* events, limits and ranges, and any ingestion, sealing and eviction in   *)
(* between.                                                                *)
(***************************************************************************)
EXTENDS QueryPagingInv, FiniteSetTheorems, SequenceTheorems, WellFoundedInduction, TLAPS

-----------------------------------------------------------------------------
(* Numbers. *)

LEMMA Least ==
    ASSUME NEW T, T \subseteq Nat, T # {}
    PROVE  \E x \in T : \A y \in T : x <= y
<1>1. PICK x \in T : \A y \in T : <<y, x>> \notin OpToRel(<, Nat)
  BY NatLessThanWellFounded, WFMin, Zenon
<1>2. ASSUME NEW y \in T PROVE ~(y < x)
  BY <1>1, Zenon DEF OpToRel
<1>3. QED
  BY <1>2

LEMMA MinOf ==
    ASSUME NEW T, T \subseteq Nat, T # {}
    PROVE  Min(T) \in T /\ \A y \in T : Min(T) <= y
BY Least DEF Min

LEMMA MaxOf ==
    ASSUME NEW T, T \subseteq Nat, T # {}, NEW n \in Nat, \A y \in T : y <= n
    PROVE  Max(T) \in T /\ \A y \in T : y <= Max(T)
<1> DEFINE U == {n - y : y \in T}
<1>1. U \subseteq Nat /\ U # {}
  <2>1. ASSUME NEW y \in T PROVE n - y \in Nat
    OBVIOUS
  <2>2. QED
    BY <2>1
<1>2. PICK u \in U : \A v \in U : u <= v
  BY <1>1, Least
<1>3. PICK x \in T : u = n - x
  OBVIOUS
<1>4. ASSUME NEW y \in T PROVE x >= y
  <2>1. n - y \in U
    OBVIOUS
  <2>2. u <= n - y
    BY <1>2, <2>1
  <2> QED
    BY <1>3, <2>2
<1>5. Max(T) \in T /\ \A y \in T : Max(T) >= y
  BY <1>4 DEF Max
<1>6. QED
  BY <1>5

LEMMA MinPair ==
    ASSUME NEW a \in Nat, NEW b \in Nat
    PROVE  /\ Min({a, b}) \in {a, b} /\ Min({a, b}) \in Nat
           /\ Min({a, b}) <= a /\ Min({a, b}) <= b
BY MinOf, {a, b} \subseteq Nat, {a, b} # {}

LEMMA Typed ==
    /\ MaxWindow \in Nat /\ WindowLength \in Nat /\ WindowLength > 0
    /\ MaxEvents \in Nat /\ From \in Nat /\ To \in Nat
    /\ Limit \in Nat /\ Limit > 0 /\ LimitGuard \in Nat /\ LimitGuard > 0
    /\ Times \subseteq Nat /\ Windows \subseteq Nat
BY QueryPagingAssumption DEF Times, Windows

\* The range a new row has is one of timestamps.
LEMMA RangeTimes ==
    ASSUME NEW w \in Windows
    PROVE  Range0(w).from \in Times /\ Range0(w).to \in Times
<1>1. w \in Nat /\ MaxWindow - w \in Nat
  BY Typed DEF Windows
<1>2. PICK d \in Nat : d = MaxWindow - w
  BY <1>1
<1>3. (MaxWindow + 1) * WindowLength = w * WindowLength + d * WindowLength + WindowLength
  BY <1>1, <1>2, Typed, MaxWindow = w + d
<1>4. (w + 1) * WindowLength = w * WindowLength + WindowLength
  BY <1>1, Typed
<1>5. w * WindowLength \in Nat /\ d * WindowLength \in Nat
  BY <1>1, Typed
<1>6. Range0(w).from = w * WindowLength /\ Range0(w).to = (w + 1) * WindowLength - 1
  BY DEF Range0
<1>7. QED
  BY <1>3, <1>4, <1>5, <1>6, Typed DEF Times

-----------------------------------------------------------------------------
(* Orders. *)

\* A finite set with an order has an element that comes before none.
LEMMA LastOne ==
    ASSUME NEW P, IsFiniteSet(P), P # {}, NEW R,
           \A p \in P : <<p, p>> \notin R,
           \A p, q, r \in P : <<p, q>> \in R /\ <<q, r>> \in R => <<p, r>> \in R
    PROVE  \E p \in P : \A q \in P : <<p, q>> \notin R
<1> DEFINE after == [p \in P |-> {q \in P : <<p, q>> \in R}]
           count == [p \in P |-> Cardinality(after[p])]
           counts == {count[p] : p \in P}
<1>1. ASSUME NEW p \in P
      PROVE  /\ IsFiniteSet(after[p]) /\ count[p] = Cardinality(after[p])
             /\ count[p] \in Nat
             /\ \A q \in P : q \in after[p] <=> <<p, q>> \in R
             /\ after[p] \subseteq P
  <2>1. after[p] \in SUBSET P
    OBVIOUS
  <2>2. IsFiniteSet(after[p])
    BY <2>1, FS_Subset
  <2>3. QED
    BY <2>1, <2>2, FS_CardinalityType
<1> HIDE DEF after, count
<1>2. counts \subseteq Nat /\ counts # {}
  BY <1>1
<1>3. PICK c \in counts : \A d \in counts : c <= d
  BY <1>2, Least
<1>4. PICK p \in P : c = count[p]
  BY <1>3
<1>5. ASSUME NEW q \in P, <<p, q>> \in R PROVE FALSE
  <2>1. after[q] \subseteq after[p]
    BY <1>1, <1>5
  <2>2. q \in after[p] /\ q \notin after[q]
    BY <1>1, <1>5
  <2>3. Cardinality(after[q]) <= Cardinality(after[p])
        /\ Cardinality(after[p]) # Cardinality(after[q])
    BY <1>1, <2>1, <2>2, FS_Subset
  <2>4. c <= count[q]
    BY <1>3
  <2>5. QED
    BY <1>1, <1>4, <2>3, <2>4
<1>6. QED
  BY <1>5

\* The log is finite and each of its events has a timestamp and a segment.
LEMMA LogTyped ==
    ASSUME TypeInv
    PROVE  /\ \A i \in DOMAIN log : /\ log[i].t \in Times /\ log[i].t \in Nat
                                    /\ log[i].w \in Windows /\ i \in 1..MaxEvents
           /\ IsFiniteSet(DOMAIN log)
           /\ DOMAIN log = 1..Len(log) /\ Len(log) \in Nat /\ Len(log) <= MaxEvents
<1>1. log \in Seq([t : Times, w : Windows]) /\ Len(log) <= MaxEvents
  BY DEF TypeInv
<1>2. DOMAIN log = 1..Len(log) /\ Len(log) \in Nat
  BY <1>1
<1>3. \A i \in DOMAIN log : log[i] \in [t : Times, w : Windows]
  <2> SUFFICES ASSUME NEW i \in DOMAIN log PROVE log[i] \in [t : Times, w : Windows]
    OBVIOUS
  <2> QED
    BY <1>1, <1>2, ElementOfSeq
<1>4. IsFiniteSet(DOMAIN log)
  BY <1>2, FS_Interval
<1>5. \A i \in DOMAIN log : log[i].t \in Times /\ log[i].w \in Windows
  BY <1>3
<1>6. \A i \in DOMAIN log : log[i].t \in Nat
  BY <1>5, Typed
<1>7. \A i \in DOMAIN log : i \in 1..MaxEvents
  BY <1>1, <1>2, Typed
<1>8. QED
  BY <1>1, <1>2, <1>4, <1>5, <1>6, <1>7

\* Rows compare as numbers do, in every order a request may ask for.
LEMMA Ranked ==
    ASSUME TypeInv, NEW order \in Orders
    PROVE  \E key \in [DOMAIN log -> Nat] : \A a, b \in DOMAIN log :
              Before(order, a, b) <=> key[a] < key[b]
<1>1. \A i \in DOMAIN log : log[i].t \in Nat
  BY LogTyped
<1>2. CASE order = "asc"
  <2> DEFINE key == [i \in DOMAIN log |-> log[i].t]
  <2>1. key \in [DOMAIN log -> Nat]
    BY <1>1
  <2>2. \A a, b \in DOMAIN log : Before(order, a, b) <=> key[a] < key[b]
    BY <1>2 DEF Before, OrderBefore
  <2>3. QED
    BY <2>1, <2>2
<1>3. CASE order = "desc"
  <2> DEFINE m == (MaxWindow + 1) * WindowLength
             key == [i \in DOMAIN log |-> m - log[i].t]
  <2>1. m \in Nat /\ \A i \in DOMAIN log : log[i].t <= m
    BY LogTyped, Typed DEF Times
  <2> HIDE DEF m
  <2>2. key \in [DOMAIN log -> Nat]
    BY <1>1, <2>1
  <2>3. ASSUME NEW a \in DOMAIN log, NEW b \in DOMAIN log
        PROVE  Before(order, a, b) <=> key[a] < key[b]
    <3>1. Before(order, a, b) <=> log[a].t > log[b].t
      BY <1>3 DEF Before, OrderBefore
    <3>2. QED
      BY <1>1, <2>1, <3>1
  <2>4. QED
    BY <2>2, <2>3
<1>4. CASE order = "service"
  <2> DEFINE key == [i \in DOMAIN log |-> IF EventService[i] = None THEN 0
                                          ELSE EventService[i] + 1]
  <2>1. \A i \in DOMAIN log : EventService[i] \in Nat \cup {None}
    <3>1. DOMAIN log \subseteq 1..MaxEvents
      BY LogTyped
    <3>2. QED
      BY <3>1, QueryPagingAssumption
  <2>2. key \in [DOMAIN log -> Nat]
    BY <2>1
  <2>3. ASSUME NEW a \in DOMAIN log, NEW b \in DOMAIN log
        PROVE  Before(order, a, b) <=> key[a] < key[b]
    <3>1. Before(order, a, b) <=> ServiceBefore("first", EventService[a], EventService[b])
      BY <1>4 DEF Before, OrderBefore
    <3>2. CASE EventService[a] = None
      BY <2>1, <3>1, <3>2 DEF ServiceBefore
    <3>3. CASE EventService[a] # None /\ EventService[b] = None
      BY <2>1, <3>1, <3>3 DEF ServiceBefore
    <3>4. CASE EventService[a] # None /\ EventService[b] # None
      BY <2>1, <3>1, <3>4 DEF ServiceBefore
    <3>5. QED
      BY <3>2, <3>3, <3>4
  <2>4. QED
    BY <2>2, <2>3
<1>5. QED
  BY <1>2, <1>3, <1>4 DEF Orders

\* A request by time compares timestamps, in the database and in the merge.
LEMMA TimeOrder ==
    ASSUME ByTime, NEW a, NEW b, NEW null
    PROVE  OrderBefore(ask.order, null, a, b)
              <=> IF ask.order = "desc" THEN log[a].t > log[b].t ELSE log[a].t < log[b].t
BY DEF ByTime, OrderBefore

\* The place of a segment that is listed once.
LEMMA PlaceOf ==
    ASSUME ListingInv, NEW k \in DOMAIN listing
    PROVE  Place(listing, listing[k].w) = k
BY DEF ListingInv, Place

\* The last row of a page is one of its rows, and comes before none of them.
LEMMA LastRowOf ==
    ASSUME TypeInv, ListingInv, at # "idle",
           NEW P, P # {}, P \subseteq DOMAIN log,
           \A p \in P : \E k \in DOMAIN listing : listing[k].w = log[p].w
    PROVE  LastRow(P) \in P /\ \A q \in P : ~Precedes(LastRow(P), q)
<1>1. PICK key \in [DOMAIN log -> Nat] : \A a, b \in DOMAIN log :
              Before(ask.order, a, b) <=> key[a] < key[b]
  BY Ranked DEF TypeInv
<1>2. IsFiniteSet(P)
  BY LogTyped, FS_Subset
<1> DEFINE place(p) == Place(listing, log[p].w)
<1>3. \A p \in P : place(p) \in Nat
  <2> SUFFICES ASSUME NEW p \in P PROVE place(p) \in Nat
    OBVIOUS
  <2>1. PICK k \in DOMAIN listing : listing[k].w = log[p].w
    OBVIOUS
  <2>2. place(p) = k
    BY <2>1, PlaceOf
  <2>3. QED
    BY <2>2 DEF TypeInv
<1> DEFINE R == {e \in P \X P : Precedes(e[1], e[2])}
<1>4. \A p, q \in P : <<p, q>> \in R <=>
         \/ key[p] < key[q]
         \/ ~(key[q] < key[p]) /\ place(p) < place(q)
  BY <1>1 DEF Precedes
<1> HIDE DEF place, R
<1>5. \A p \in P : key[p] \in Nat
  OBVIOUS
<1>6. \A p \in P : <<p, p>> \notin R
  BY <1>3, <1>4, <1>5
<1>7. \A p, q, r \in P : <<p, q>> \in R /\ <<q, r>> \in R => <<p, r>> \in R
  BY <1>3, <1>4, <1>5
<1>8. \E p \in P : \A q \in P : <<p, q>> \notin R
  BY <1>2, <1>6, <1>7, LastOne
<1>9. \E p \in P : \A q \in P : ~Precedes(p, q)
  BY <1>8 DEF R
<1>10. QED
  BY <1>9 DEF LastRow

-----------------------------------------------------------------------------
(* What a step chooses: the rows of a segment, of a page, of the catalog. *)

\* As many of a finite set as a limit allows.
LEMMA AsManyAs ==
    ASSUME NEW S, IsFiniteSet(S), NEW n \in Nat, NEW B, B \subseteq S,
           Cardinality(B) = Min({n, Cardinality(S)})
    PROVE  /\ IsFiniteSet(B) /\ Cardinality(B) \in Nat /\ Cardinality(B) <= n
           /\ B = S \/ Cardinality(B) = n
           /\ Cardinality(S) <= n => B = S
<1>1. Cardinality(S) \in Nat
  BY FS_CardinalityType
<1>2. IsFiniteSet(B) /\ Cardinality(B) \in Nat /\ Cardinality(B) <= Cardinality(S)
      /\ (Cardinality(B) = Cardinality(S) => B = S)
  BY FS_Subset, FS_CardinalityType
<1>3. /\ Cardinality(B) = n \/ Cardinality(B) = Cardinality(S)
      /\ Cardinality(B) <= n
  BY <1>1, MinPair
<1>4. QED
  BY <1>1, <1>2, <1>3

LEMMA PageOf ==
    ASSUME NEW S, IsFiniteSet(S), NEW P \in Page(S)
    PROVE  /\ P \subseteq S
           /\ Cardinality(S) <= Limit => P = S
           /\ P = {} => S = {}
           /\ \A p \in P, s \in S \ P : ~Precedes(s, p)
<1>1. /\ P \subseteq S /\ Cardinality(P) = Min({Limit, Cardinality(S)})
      /\ \A p \in P, s \in S \ P : ~Precedes(s, p)
  BY DEF Page
<1>2. P = S \/ Cardinality(P) = Limit
  BY <1>1, AsManyAs, Typed
<1>3. Cardinality(S) <= Limit => P = S
  BY <1>1, AsManyAs, Typed
<1>4. P = {} => S = {}
  BY <1>2, FS_EmptySet, Typed
<1>5. QED
  BY <1>1, <1>3, <1>4

\* The rows a segment may give in this step, those it gives, and those it
\* leaves out because the limit is reached.
Offered(w) == (IF at = "count" THEN Base(search) ELSE Selected) \cap Held(w)

LEMMA RowsOf ==
    ASSUME TypeInv, NEW w \in Windows, NEW n \in Nat, NEW B \in Rows(w, n)
    PROVE  /\ B \subseteq Offered(w)
           /\ IsFiniteSet(B) /\ Cardinality(B) \in Nat /\ Cardinality(B) <= n
           /\ \A i \in Offered(w) \ B :
                 /\ Cardinality(B) = n
                 /\ at # "count" => \A b \in B : ~SqlBefore(i, b)
<1> DEFINE S == Offered(w)
<1>1. IsFiniteSet(S)
  <2>1. S \subseteq DOMAIN log
    BY DEF Offered, Held
  <2>2. QED
    BY <2>1, LogTyped, FS_Subset
<1>2. B \subseteq S /\ Cardinality(B) = Min({n, Cardinality(S)})
  BY DEF Offered, Rows, Firsts, kSubset
<1>3. at # "count" => \A b \in B, i \in S \ B : ~SqlBefore(i, b)
  BY DEF Offered, Rows, Firsts
<1> HIDE DEF S
<1>4. /\ IsFiniteSet(B) /\ Cardinality(B) \in Nat /\ Cardinality(B) <= n
      /\ B = S \/ Cardinality(B) = n
  BY <1>1, <1>2, AsManyAs
<1>5. QED
  BY <1>2, <1>3, <1>4 DEF S

\* A listing has a row for each segment of the range, in reading order.
LEMMA ListingOf ==
    ASSUME TypeInv, NEW order, NEW L \in orderSegments(order)
    PROVE  /\ L \in Seq(Rows0)
           /\ \A w \in SegmentsInRange : \E k \in DOMAIN L :
                 L[k].w = w /\ L[k].state = seg[w].state
           /\ \A k \in DOMAIN L : L[k].w \in SegmentsInRange
           /\ \A j, k \in DOMAIN L : L[j].w = L[k].w => j = k
           /\ \A k \in DOMAIN L : \A j \in 1..k - 1 :
                 IF order = "asc" THEN L[j].start <= L[k].start
                                  ELSE L[j].start >= L[k].start
<1> DEFINE row == [w \in SegmentsInRange |->
                     [w |-> w, state |-> seg[w].state, start |-> seg[w].from]]
           n == Cardinality(Listed)
<1>1. L \in SetToSeqs(Listed)
      /\ \A k \in DOMAIN L : \A j \in 1..k - 1 :
                 IF order = "asc" THEN L[j].start <= L[k].start
                                  ELSE L[j].start >= L[k].start
  BY DEF orderSegments
<1>2. SegmentsInRange \subseteq Windows
  BY DEF SegmentsInRange
<1>3. IsFiniteSet(Listed)
  <2>1. IsFiniteSet(Windows)
    BY FS_Interval, Typed DEF Windows
  <2>2. IsFiniteSet(SegmentsInRange)
    BY <1>2, <2>1, FS_Subset
  <2>3. row \in Surjection(SegmentsInRange, Listed)
    BY DEF Surjection, Listed
  <2> HIDE DEF row
  <2>4. QED
    BY <2>2, <2>3, FS_Surjection
<1>4. n \in Nat
  BY <1>3, FS_CardinalityType
<1>5. L \in [1..n -> Listed] /\ \A i, j \in 1..n : i # j => L[i] # L[j]
  BY <1>1 DEF SetToSeqs
<1> HIDE DEF n
<1>6. DOMAIN L = 1..n
  BY <1>5
<1>7. \A x \in Listed : \E k \in 1..n : L[k] = x
  <2>1. L \in Injection(1..n, Listed)
    BY <1>5 DEF Injection, IsInjective
  <2>2. Cardinality(1..n) = n
    BY <1>4, FS_Interval
  <2>3. L \in Surjection(1..n, Listed)
    BY <1>3, <2>1, <2>2, FS_Injection DEF n
  <2>4. QED
    BY <2>3 DEF Surjection
<1>8. \A x \in Listed : /\ x.w \in SegmentsInRange
                        /\ x = [w |-> x.w, state |-> seg[x.w].state, start |-> seg[x.w].from]
  BY DEF Listed
<1>9. \A w \in SegmentsInRange :
         [w |-> w, state |-> seg[w].state, start |-> seg[w].from] \in Listed
  BY DEF Listed
<1>10. \A k \in 1..n : L[k] \in Listed
  BY <1>5
<1>11. Listed \subseteq Rows0
  <2>1. \A w \in SegmentsInRange : seg[w].state \in States /\ seg[w].from \in Times
    BY <1>2 DEF TypeInv
  <2>2. QED
    BY <1>2, <2>1 DEF Listed, Rows0
<1>12. L \in Seq(Rows0)
  BY <1>4, <1>5, <1>11
<1>13. \A w \in SegmentsInRange : \E k \in DOMAIN L : L[k].w = w /\ L[k].state = seg[w].state
  <2> SUFFICES ASSUME NEW w \in SegmentsInRange
               PROVE  \E k \in DOMAIN L : L[k].w = w /\ L[k].state = seg[w].state
    OBVIOUS
  <2>1. PICK k \in 1..n : L[k] = [w |-> w, state |-> seg[w].state, start |-> seg[w].from]
    BY <1>7, <1>9
  <2>2. QED
    BY <1>6, <2>1
<1>14. \A j, k \in DOMAIN L : L[j].w = L[k].w => j = k
  <2> SUFFICES ASSUME NEW j \in 1..n, NEW k \in 1..n, L[j].w = L[k].w PROVE j = k
    BY <1>6
  <2>1. L[j] = L[k]
    BY <1>8, <1>10
  <2>2. QED
    BY <1>5, <2>1
<1>15. QED
  BY <1>1, <1>6, <1>8, <1>10, <1>12, <1>13, <1>14

-----------------------------------------------------------------------------
(* The store: what is ingested, sealed and evicted. *)

request == <<times, ask, at, search, cursor, listing, visited, got, pages, facets,
             counted, excused, due, shut>>

\* A step of the store adds events and keeps those there are.
Grows == /\ UNCHANGED request
         /\ DOMAIN log \subseteq DOMAIN log' /\ \A i \in DOMAIN log : log'[i] = log[i]

LEMMA SeenTyped == TypeInv => Seen \subseteq DOMAIN log /\ Known \subseteq DOMAIN log
<1> SUFFICES ASSUME TypeInv PROVE Seen \subseteq DOMAIN log
  BY DEF TypeInv, Known
<1> SUFFICES ASSUME NEW k \in DOMAIN pages PROVE pages[k].rows \subseteq DOMAIN log
  BY DEF Seen
<1> DEFINE E == [rows : SUBSET DOMAIN log, search : Nat, evicted : BOOLEAN]
<1>1. pages \in Seq(E)
  BY DEF TypeInv
<1>2. pages[k] \in E
  <2> HIDE DEF E
  <2>1. k \in 1..Len(pages)
    BY <1>1
  <2>2. QED
    BY <1>1, <2>1, ElementOfSeq
<1>3. QED
  BY <1>2

\* The types that do not speak of the store.
LEMMA GrowsTyped ==
    ASSUME TypeInv, Grows,
           log' \in Seq([t : Times, w : Windows]), Len(log') <= MaxEvents,
           seg' \in [Windows -> [state : States, from : Times, to : Times]]
    PROVE  TypeInv'
<1> DEFINE E == [rows : SUBSET DOMAIN log, search : Nat, evicted : BOOLEAN]
           F == [rows : SUBSET DOMAIN log', search : Nat, evicted : BOOLEAN]
<1>1. E \subseteq F
  BY DEF Grows
<1>2. pages \in Seq(E)
  BY DEF TypeInv
<1>3. pages \in Seq(F)
  <2> HIDE DEF E, F
  <2> QED
    BY <1>1, <1>2
<1>4. pages' \in Seq([rows : SUBSET DOMAIN log', search : Nat, evicted : BOOLEAN])
  BY <1>3 DEF Grows, request
<1>5. QED
  BY <1>4 DEF TypeInv, Grows, request

LEMMA InsertStep ==
    ASSUME TypeInv, StoreInv, NEW w \in Windows, Insert(w)
    PROVE  /\ Grows /\ TypeInv' /\ StoreInv'
           /\ \A v \in Windows : Ranged(v) => Ranged(v)'
<1> DEFINE t == times[Len(log) + 1]
           n == Len(log) + 1
<1>1. /\ log' = Append(log, [t |-> t, w |-> w]) /\ n <= MaxEvents
      /\ seg' = [seg EXCEPT ![w].state = "active"]
      /\ seg[w].state \in {"none", "active"}
      /\ UNCHANGED request
  <2>1. UNCHANGED request
    BY DEF Insert, request, result
  <2>2. /\ log' = Append(log, [t |-> t, w |-> w]) /\ Len(log) < MaxEvents
        /\ seg' = [seg EXCEPT ![w].state = "active"]
        /\ seg[w].state \in {"none", "active"}
    BY DEF Insert
  <2>3. n <= MaxEvents
    BY <2>2, LogTyped, Typed
  <2>4. QED
    BY <2>1, <2>2, <2>3
<1>2. t \in Times
  <2>1. times \in [1..MaxEvents -> Times]
    BY QueryPagingAssumption DEF TypeInv
  <2>2. n \in 1..MaxEvents
    BY <1>1, LogTyped
  <2>3. QED
    BY <2>1, <2>2
<1>3. /\ log' \in Seq([t : Times, w : Windows]) /\ Len(log') = n
      /\ \A i \in DOMAIN log : log'[i] = log[i]
      /\ log'[n] = [t |-> t, w |-> w]
      /\ DOMAIN log' = DOMAIN log \cup {n} /\ n \notin DOMAIN log
  <2> DEFINE E == [t : Times, w : Windows]
             e == [t |-> t, w |-> w]
  <2>1. log \in Seq(E) /\ e \in E /\ log' = Append(log, e)
    BY <1>1, <1>2 DEF TypeInv
  <2> HIDE DEF E, e
  <2>2. /\ log' \in Seq(E) /\ Len(log') = n /\ log'[n] = e
        /\ \A i \in 1..Len(log) : log'[i] = log[i]
    BY <2>1, AppendProperties
  <2>3. DOMAIN log' = 1..n /\ DOMAIN log = 1..Len(log) /\ Len(log) \in Nat
    BY <2>1, <2>2
  <2>4. QED
    BY <2>2, <2>3 DEF E, e
<1>4. seg \in [Windows -> [state : States, from : Times, to : Times]]
  BY DEF TypeInv
<1>5. /\ seg' \in [Windows -> [state : States, from : Times, to : Times]]
      /\ seg'[w].state = "active" /\ seg'[w].from = seg[w].from /\ seg'[w].to = seg[w].to
      /\ \A v \in Windows \ {w} : seg'[v] = seg[v]
  BY <1>1, <1>4 DEF States
<1> HIDE DEF t, n
<1>6. Grows
  BY <1>1, <1>3 DEF Grows
<1>7. TypeInv'
  BY <1>1, <1>3, <1>5, <1>6, GrowsTyped
<1>8. \A v \in Windows \ {w} : Held(v)' = Held(v)
  BY <1>3 DEF Held
<1>9. n \in Held(w)' /\ Held(w) \subseteq Held(w)'
  BY <1>3 DEF Held
<1>10. StoreInv'
  <2>1. ASSUME NEW i \in DOMAIN log' PROVE seg'[log'[i].w].state # "none"
    <3>1. CASE i = n
      BY <1>3, <1>5, <3>1
    <3>2. CASE i \in DOMAIN log
      BY <1>3, <1>5, <3>2, LogTyped DEF StoreInv
    <3>3. QED
      BY <1>3, <3>1, <3>2
  <2>2. \A v \in Windows : seg'[v].state = "active" => Held(v)' # {}
    BY <1>5, <1>8, <1>9 DEF StoreInv
  <2>3. ASSUME NEW v \in Windows, seg'[v].state \in {"sealed", "archived", "lost"},
               NEW i \in Held(v)'
        PROVE  log'[i].t \in seg'[v].from..seg'[v].to
    <3>1. v # w
      BY <1>5, <2>3
    <3>2. i \in Held(v) /\ i \in DOMAIN log
      BY <1>8, <2>3, <3>1 DEF Held
    <3>3. QED
      BY <1>3, <1>5, <2>3, <3>1, <3>2 DEF StoreInv
  <2>4. QED
    BY <2>1, <2>2, <2>3 DEF StoreInv
<1>11. ASSUME NEW v \in Windows, Ranged(v) PROVE Ranged(v)'
  <2>1. CASE v = w
    <3>1. w \in SegmentsInRange
      BY <1>1, <1>11, <2>1 DEF Ranged
    <3>2. w \in SegmentsInRange'
      BY <1>5, <3>1 DEF SegmentsInRange
    <3>3. QED
      BY <2>1, <3>2 DEF Ranged
  <2>2. CASE v # w
    <3>1. seg'[v] = seg[v] /\ Held(v)' = Held(v)
      BY <1>5, <1>8, <2>2
    <3>2. \A i \in Held(v) : log'[i].t = log[i].t
      BY <1>3 DEF Held
    <3>3. QED
      BY <1>11, <3>1, <3>2 DEF Ranged, SegmentsInRange
  <2>3. QED
    BY <2>1, <2>2
<1>12. QED
  BY <1>6, <1>7, <1>10, <1>11

LEMMA SealStep ==
    ASSUME TypeInv, StoreInv, NEW w \in Windows, Seal(w)
    PROVE  /\ Grows /\ TypeInv' /\ StoreInv'
           /\ \A v \in Windows : Ranged(v) => Ranged(v)'
<1> DEFINE ts == {log[i].t : i \in Held(w)}
           new == [state |-> "sealed", from |-> Min(ts), to |-> Max(ts)]
<1>1. seg[w].state = "active" /\ seg' = [seg EXCEPT ![w] = new] /\ log' = log
      /\ UNCHANGED request
  BY DEF Seal, request, result
<1>2. \A i \in Held(w) : log[i].t \in Times /\ i \in DOMAIN log
  BY LogTyped DEF Held
<1>3. ts \subseteq Times /\ ts # {}
  BY <1>1, <1>2 DEF StoreInv
<1>4. /\ Min(ts) \in ts /\ Max(ts) \in ts
      /\ \A y \in ts : Min(ts) <= y /\ y <= Max(ts)
  <2>1. ts \subseteq Nat
    BY <1>3, Typed
  <2>2. (MaxWindow + 1) * WindowLength - 1 \in Int
    BY Typed
  <2>3. \A y \in ts : y <= (MaxWindow + 1) * WindowLength - 1
    BY <1>3 DEF Times
  <2> DEFINE N == (MaxWindow + 1) * WindowLength - 1
  <2>4. PICK m \in Nat : \A y \in ts : y <= m
    <3>1. PICK y \in ts : TRUE
      BY <1>3
    <3>2. N \in Int /\ \A z \in ts : z <= N
      BY <2>2, <2>3
    <3> HIDE DEF N
    <3>4. N \in Nat
      <4>1. y \in Nat /\ y <= N
        BY <2>1, <3>1, <3>2
      <4>2. QED
        BY <3>2, <4>1
    <3>3. QED
      BY <3>2, <3>4
  <2>5. QED
    BY <1>3, <2>1, <2>4, MinOf, MaxOf
<1>5. \A i \in Held(w) : log[i].t \in ts
  OBVIOUS
<1> HIDE DEF ts
<1>6. seg \in [Windows -> [state : States, from : Times, to : Times]]
  BY DEF TypeInv
<1>7. new \in [state : States, from : Times, to : Times]
  BY <1>3, <1>4 DEF States
<1>8. /\ seg' \in [Windows -> [state : States, from : Times, to : Times]]
      /\ seg'[w] = new
      /\ \A v \in Windows \ {w} : seg'[v] = seg[v]
  BY <1>1, <1>6, <1>7
<1>9. seg'[w].state = "sealed" /\ seg'[w].from = Min(ts) /\ seg'[w].to = Max(ts)
  BY <1>8
<1> HIDE DEF new
<1>10. Grows
  BY <1>1 DEF Grows
<1>11. TypeInv'
  <2>1. log' \in Seq([t : Times, w : Windows]) /\ Len(log') <= MaxEvents
    BY <1>1 DEF TypeInv
  <2>2. QED
    BY <2>1, <1>8, <1>10, GrowsTyped
<1>12. \A v \in Windows : Held(v)' = Held(v)
  BY <1>1 DEF Held
<1>13. \A i \in Held(w) : /\ log[i].t \in Nat /\ Min(ts) \in Nat /\ Max(ts) \in Nat
                          /\ Min(ts) <= log[i].t /\ log[i].t <= Max(ts)
  BY <1>3, <1>4, <1>5, Typed
<1>14. StoreInv'
  <2>1. ASSUME NEW i \in DOMAIN log' PROVE seg'[log'[i].w].state # "none"
    BY <1>1, <1>8, <1>9, LogTyped DEF StoreInv
  <2>2. \A v \in Windows : seg'[v].state = "active" => Held(v)' # {}
    BY <1>8, <1>9, <1>12 DEF StoreInv
  <2>3. ASSUME NEW v \in Windows, seg'[v].state \in {"sealed", "archived", "lost"},
               NEW i \in Held(v)'
        PROVE  log'[i].t \in seg'[v].from..seg'[v].to
    <3>1. CASE v = w
      BY <1>1, <1>9, <1>12, <1>13, <2>3, <3>1
    <3>2. CASE v # w
      BY <1>1, <1>8, <1>12, <2>3, <3>2 DEF StoreInv
    <3>3. QED
      BY <3>1, <3>2
  <2>4. QED
    BY <2>1, <2>2, <2>3 DEF StoreInv
<1>15. ASSUME NEW v \in Windows, Ranged(v) PROVE Ranged(v)'
  <2>1. CASE v = w
    <3>1. CASE w \in SegmentsInRange'
      BY <2>1, <3>1 DEF Ranged
    <3>2. CASE w \notin SegmentsInRange'
      <4>1. ~(Min(ts) <= To /\ Max(ts) >= From)
        BY <1>9, <3>2 DEF SegmentsInRange
      <4>2. \A i \in Held(w) : log[i].t \notin From..To
        BY <1>13, <4>1, Typed
      <4>3. QED
        BY <1>1, <1>9, <1>12, <2>1, <4>2 DEF Ranged
    <3>3. QED
      BY <3>1, <3>2
  <2>2. CASE v # w
    <3>1. seg'[v] = seg[v] /\ Held(v)' = Held(v)
      BY <1>8, <1>12, <2>2
    <3>2. QED
      BY <1>1, <1>15, <3>1 DEF Ranged, SegmentsInRange
  <2>3. QED
    BY <2>1, <2>2
<1>16. QED
  BY <1>10, <1>11, <1>14, <1>15

LEMMA EvictStep ==
    ASSUME TypeInv, StoreInv, NEW w \in Windows, NEW next \in {"archived", "lost"},
           Evict(w, next)
    PROVE  /\ Grows /\ TypeInv' /\ StoreInv'
           /\ \A v \in Windows : Ranged(v) => Ranged(v)'
<1>1. seg[w].state = "sealed" /\ seg' = [seg EXCEPT ![w].state = next] /\ log' = log
      /\ UNCHANGED request
  BY DEF Evict, request, result
<1>2. seg \in [Windows -> [state : States, from : Times, to : Times]]
  BY DEF TypeInv
<1>3. /\ seg' \in [Windows -> [state : States, from : Times, to : Times]]
      /\ seg'[w].state = next /\ seg'[w].from = seg[w].from /\ seg'[w].to = seg[w].to
      /\ \A v \in Windows \ {w} : seg'[v] = seg[v]
  BY <1>1, <1>2 DEF States
<1>4. Grows
  BY <1>1 DEF Grows
<1>5. TypeInv'
  <2>1. log' \in Seq([t : Times, w : Windows]) /\ Len(log') <= MaxEvents
    BY <1>1 DEF TypeInv
  <2>2. QED
    BY <2>1, <1>3, <1>4, GrowsTyped
<1>6. \A v \in Windows : Held(v)' = Held(v)
  BY <1>1 DEF Held
<1>7. StoreInv'
  <2>1. ASSUME NEW i \in DOMAIN log' PROVE seg'[log'[i].w].state # "none"
    BY <1>1, <1>3, LogTyped DEF StoreInv
  <2>2. \A v \in Windows : seg'[v].state = "active" => Held(v)' # {}
    BY <1>3, <1>6 DEF StoreInv
  <2>3. ASSUME NEW v \in Windows, seg'[v].state \in {"sealed", "archived", "lost"},
               NEW i \in Held(v)'
        PROVE  log'[i].t \in seg'[v].from..seg'[v].to
    BY <1>1, <1>3, <1>6, <2>3 DEF StoreInv
  <2>4. QED
    BY <2>1, <2>2, <2>3 DEF StoreInv
<1>8. ASSUME NEW v \in Windows, Ranged(v) PROVE Ranged(v)'
  BY <1>1, <1>3, <1>6, <1>8 DEF Ranged, SegmentsInRange
<1>9. QED
  BY <1>4, <1>5, <1>7, <1>8

\* Whatever happens to the store between two steps of a request, what was
\* listed, read and returned stays what it was.
LEMMA GrowsKeeps ==
    ASSUME Inv, Grows, TypeInv', StoreInv',
           \A v \in Windows : Ranged(v) => Ranged(v)'
    PROVE  Inv'
<1>1. /\ at' = at /\ ask' = ask /\ search' = search /\ cursor' = cursor
      /\ listing' = listing /\ visited' = visited /\ got' = got /\ pages' = pages
      /\ facets' = facets /\ counted' = counted /\ excused' = excused
      /\ due' = due /\ shut' = shut
  BY DEF Grows, request
<1>2. DOMAIN log \subseteq DOMAIN log' /\ \A i \in DOMAIN log : log'[i] = log[i]
  BY DEF Grows
<1>3. /\ TypeInv /\ StoreInv /\ RangeInv /\ ListingInv /\ ListedInv /\ StageInv
      /\ GotInv /\ ReadInv /\ CursorInv /\ DueInv
      /\ PagesDescend /\ MissesExplained /\ FacetsCoverPages /\ CountHonest
  BY DEF Inv
<1>4. Seen' = Seen /\ Known' = Known /\ ByTime' = ByTime
  BY <1>1 DEF Seen, Known, ByTime
<1>5. Seen \subseteq DOMAIN log /\ Known \subseteq DOMAIN log
      /\ due \subseteq DOMAIN log /\ got \subseteq DOMAIN log
  BY <1>3, SeenTyped DEF TypeInv
<1>6. \A n : Base(n) \subseteq Base(n)' /\ \A i \in DOMAIN log : i \in Base(n)' => i \in Base(n)
  BY <1>2 DEF Base
<1>7. \A i \in DOMAIN log : AfterCursor(i)' <=> AfterCursor(i)
  BY <1>1, <1>2 DEF AfterCursor
<1>8. \A a, b \in DOMAIN log : /\ SqlBefore(a, b)' <=> SqlBefore(a, b)
                               /\ Before(ask.order, a, b)' <=> Before(ask.order, a, b)
  BY <1>1, <1>2 DEF SqlBefore, Before, OrderBefore
<1>9. RangeInv'
  <2>1. Marked' = Marked
    BY <1>1, <1>2, <1>4, <1>5 DEF Marked
  <2>2. \A w \in Windows : w \in Marked => Ranged(w)'
    BY <1>3 DEF RangeInv
  <2>3. \A i \in Known : log'[i].t \in From..To
    BY <1>2, <1>3, <1>5 DEF RangeInv
  <2>4. QED
    BY <1>4, <2>1, <2>2, <2>3 DEF RangeInv
<1>10. ListingInv'
  BY <1>1, <1>3 DEF ListingInv
<1>11. ListedInv'
  BY <1>1, <1>2, <1>3, <1>4, <1>5 DEF ListedInv
<1>12. StageInv'
  BY <1>1, <1>3, <1>4, <1>5, <1>6 DEF StageInv
<1>13. GotInv'
  <2>1. Needed' = Needed
    BY <1>1 DEF Needed
  <2>2. QED
    BY <1>1, <1>2, <1>3, <1>5, <1>6, <1>7, <2>1 DEF GotInv
<1>14. ReadInv'
  <2> SUFFICES ASSUME at = "count" \/ (at = "read" /\ ByTime), NEW i \in due,
                      i \in Base(search)', at = "read" => AfterCursor(i)'
               PROVE  i \in got \/ log'[i].w \in shut \/ Pending(i)' \/ LeftOut(i)'
    BY <1>1, <1>4 DEF ReadInv
  <2>1. i \in Base(search) /\ (at = "read" => AfterCursor(i)) /\ log'[i] = log[i]
    <3>1. i \in DOMAIN log
      BY <1>5
    <3>2. i \in Base(search)
      BY <1>1, <1>6, <3>1 DEF Base
    <3>3. QED
      BY <1>2, <1>7, <3>1, <3>2
  <2>2. i \in got \/ log[i].w \in shut \/ Pending(i) \/ LeftOut(i)
    BY <1>3, <2>1 DEF ReadInv
  <2>3. Pending(i) => Pending(i)'
    BY <1>1, <2>1 DEF Pending
  <2>4. LeftOut(i) => LeftOut(i)'
    <3>1. Needed' = Needed
      BY <1>1 DEF Needed
    <3>2. \A b \in got : log'[b] = log[b] /\ (SqlBefore(i, b)' <=> SqlBefore(i, b))
      BY <1>2, <1>5, <1>8
    <3>3. QED
      BY <1>1, <2>1, <3>1, <3>2 DEF LeftOut
  <2>5. QED
    BY <2>1, <2>2, <2>3, <2>4
<1>15. CursorInv'
  BY <1>1, <1>2, <1>3, <1>4, <1>5 DEF CursorInv
<1>16. DueInv'
  BY <1>1, <1>2, <1>3, <1>4, <1>5, <1>7 DEF DueInv
<1>17. PagesDescend'
  <2> SUFFICES ASSUME ByTime, NEW j \in DOMAIN pages, NEW k \in DOMAIN pages, j < k,
                      NEW a \in pages[j].rows, NEW b \in pages[k].rows
               PROVE  Before(ask.order, a, b)'
    BY <1>1, <1>4 DEF PagesDescend
  <2>1. Before(ask.order, a, b)
    BY <1>3 DEF PagesDescend
  <2>2. a \in DOMAIN log /\ b \in DOMAIN log
    BY <1>5 DEF Seen
  <2>3. QED
    BY <1>8, <2>1, <2>2
<1>18. MissesExplained'
  BY <1>1, <1>2, <1>3, <1>4, <1>5 DEF MissesExplained
<1>19. FacetsCoverPages'
  <2> SUFFICES ASSUME at \in {"page", "end"}, facets # None,
                      ~facets.truncated, ~facets.sampled, NEW v \in Services
               PROVE  LET shown == {i \in Seen : EventService[i] = v /\ log'[i].w \notin shut}
                      IN  shown # {} => /\ v \in DOMAIN facets.values
                                        /\ facets.values[v] >= Cardinality(shown)
    BY <1>1, <1>4 DEF FacetsCoverPages
  <2>1. {i \in Seen : EventService[i] = v /\ log'[i].w \notin shut}
           = {i \in Seen : EventService[i] = v /\ log[i].w \notin shut}
    BY <1>2, <1>5
  <2>2. QED
    BY <1>3, <2>1 DEF FacetsCoverPages
<1>20. CountHonest'
  <2> SUFFICES ASSUME counted # None
               PROVE  /\ counted.n <= Cardinality(Base(search)')
                      /\ counted.exact => \A i \in due : i \in got \/ log'[i].w \in shut
    BY <1>1 DEF CountHonest, Base
  <2>1. Cardinality(Base(search)) <= Cardinality(Base(search)')
    <3>1. Base(search) \subseteq Base(search)' /\ Base(search)' \subseteq DOMAIN log'
      BY <1>1, <1>6 DEF Base
    <3>2. IsFiniteSet(DOMAIN log')
      <4>1. log' \in Seq([t : Times, w : Windows])
        BY DEF TypeInv
      <4>2. DOMAIN log' = 1..Len(log') /\ Len(log') \in Int
        BY <4>1
      <4>3. QED
        BY <4>2, FS_Interval
    <3>3. QED
      BY <3>1, <3>2, FS_Subset
  <2>2. counted.n <= Cardinality(Base(search)')
    <3>1. counted.n \in Nat /\ counted.n <= Cardinality(Base(search))
      BY <1>3 DEF TypeInv, CountHonest
    <3>2. IsFiniteSet(Base(search)) /\ IsFiniteSet(Base(search)')
      <4>1. Base(search) \subseteq DOMAIN log /\ Base(search)' \subseteq DOMAIN log'
        BY DEF Base
      <4>2. log' \in Seq([t : Times, w : Windows]) /\ IsFiniteSet(DOMAIN log)
        BY <1>3, LogTyped DEF TypeInv
      <4>3. DOMAIN log' = 1..Len(log') /\ Len(log') \in Int
        BY <4>2
      <4>4. IsFiniteSet(DOMAIN log')
        BY <4>3, FS_Interval
      <4>5. QED
        BY <4>1, <4>2, <4>4, FS_Subset
    <3>3. Cardinality(Base(search)) \in Nat /\ Cardinality(Base(search)') \in Nat
      BY <3>2, FS_CardinalityType
    <3>4. QED
      BY <2>1, <3>1, <3>3
  <2>3. QED
    BY <1>2, <1>3, <1>5, <2>2 DEF CountHonest
<1>21. QED
  BY <1>9, <1>10, <1>11, <1>12, <1>13, <1>14, <1>15, <1>16, <1>17, <1>18, <1>19, <1>20
     DEF Inv

-----------------------------------------------------------------------------
(* The beginning of a page. *)

\* What matches the request and was in its range is listed, or is shut.
LEMMA Relisted ==
    ASSUME TypeInv, StoreInv, NEW order, NEW L \in orderSegments(order),
           NEW i \in DOMAIN log, log[i].t \in From..To, Ranged(log[i].w)
    PROVE  \/ log[i].w \in Gone
           \/ \E k \in DOMAIN L : L[k].w = log[i].w /\ L[k].state \in {"active", "sealed"}
<1> DEFINE w == log[i].w
<1>1. w \in Windows /\ i \in Held(w)
  BY LogTyped DEF Held
<1>2. seg[w].state = "lost" \/ w \in SegmentsInRange
  BY <1>1 DEF Ranged
<1>3. CASE seg[w].state \in {"archived", "lost"}
  BY <1>1, <1>3 DEF Gone
<1>4. CASE seg[w].state \notin {"archived", "lost"}
  <2>1. w \in SegmentsInRange
    BY <1>2, <1>4
  <2>2. seg[w].state \in {"active", "sealed"}
    BY <1>1, <1>4, <2>1 DEF TypeInv, States, SegmentsInRange
  <2>3. PICK k \in DOMAIN L : L[k].w = w /\ L[k].state = seg[w].state
    BY <2>1, ListingOf
  <2>4. QED
    BY <2>2, <2>3
<1>5. QED
  BY <1>3, <1>4

\* A page or a count that starts to be read.
LEMMA ReadingStarts ==
    ASSUME Inv, UNCHANGED <<store, cursor, pages, facets, counted, excused>>,
           at' \in {"read", "count"}, visited' = 0, got' = {}, Gone \subseteq shut',
           at' = "count" => /\ pages = <<>> /\ cursor = None /\ facets = None
                            /\ ask'.via = "api" /\ search' = ask'.words,
           ask' \in [order : Orders, words : 0..1, via : {"api", "ui"}],
           listing' \in orderSegments(ask'.order),
           search' \in Nat, due' \subseteq DOMAIN log, due' \subseteq Base(ask'.words),
           \A i \in due' : \A w \in Windows : log[i].w = w => Ranged(w),
           cursor = None => pages = <<>>, counted = None,
           ask'.via = "api" \/ ask'.words = 0 => search' = ask'.words,
           ask'.via = "api" => Seen \subseteq Base(search'),
           CursorInv', DueInv', PagesDescend'
    PROVE  Inv'
<1>1. /\ times' = times /\ log' = log /\ seg' = seg /\ cursor' = cursor /\ pages' = pages
      /\ facets' = facets /\ counted' = counted /\ excused' = excused
  BY DEF store
<1>2. TypeInv /\ StoreInv /\ RangeInv
  BY DEF Inv
<1>3. \A n : Base(n)' = Base(n)
  BY <1>1 DEF Base
<1>4. Seen' = Seen /\ Seen \subseteq DOMAIN log
  BY <1>1, <1>2, SeenTyped DEF Seen
<1>5. Known' = due' \cup Seen
  BY <1>4 DEF Known
<1>6. \A w \in Windows : Ranged(w)' <=> Ranged(w)
  BY <1>1 DEF Ranged, SegmentsInRange, Held
<1>7. \A i \in Known' : /\ i \in DOMAIN log /\ log[i].t \in From..To
                        /\ \A w \in Windows : log[i].w = w => Ranged(w)
  <2>1. \A i \in due' : i \in DOMAIN log /\ log[i].t \in From..To
    BY DEF Base
  <2>2. \A i \in Seen : i \in DOMAIN log /\ log[i].t \in From..To
    BY <1>2, <1>4 DEF RangeInv, Known
  <2>3. \A i \in Seen : \A w \in Windows : log[i].w = w => Ranged(w)
    BY <1>2 DEF RangeInv, Known, Marked
  <2>4. QED
    BY <1>5, <2>1, <2>2, <2>3
<1> DEFINE L == listing'
<1>8. /\ L \in Seq(Rows0)
      /\ \A k \in DOMAIN L : L[k].w \in SegmentsInRange
      /\ \A j, k \in DOMAIN L : L[j].w = L[k].w => j = k
      /\ \A k \in DOMAIN L : \A j \in 1..k - 1 :
            IF ask'.order = "asc" THEN L[j].start <= L[k].start
                                  ELSE L[j].start >= L[k].start
  BY <1>2, ListingOf
<1>9. TypeInv'
  <2>1. 0 \in 0..Len(listing')
    BY <1>8
  <2>2. QED
    BY <1>1, <1>2, <1>8, <2>1 DEF TypeInv
<1>10. StoreInv'
  BY <1>1, <1>2 DEF StoreInv, Held
<1>11. RangeInv'
  <2>1. ASSUME NEW w \in Windows, w \in Marked' PROVE Ranged(w)
    <3>1. CASE \E k \in DOMAIN listing' : listing'[k].w = w
      BY <1>8, <3>1 DEF Ranged
    <3>2. CASE \E i \in Known' : log'[i].w = w
      BY <1>1, <1>7, <3>2
    <3>3. QED
      BY <2>1, <3>1, <3>2 DEF Marked
  <2>2. QED
    BY <1>1, <1>6, <1>7, <2>1 DEF RangeInv
<1>12. ListingInv'
  BY <1>8 DEF ListingInv
<1>13. \A i \in Known' :
          \/ log[i].w \in shut'
          \/ \E k \in DOMAIN listing' :
                listing'[k].w = log[i].w /\ listing'[k].state \in {"active", "sealed"}
  <2> SUFFICES ASSUME NEW i \in Known'
               PROVE  \/ log[i].w \in shut'
                      \/ \E k \in DOMAIN listing' :
                            listing'[k].w = log[i].w /\ listing'[k].state \in {"active", "sealed"}
    OBVIOUS
  <2>1. i \in DOMAIN log /\ log[i].t \in From..To /\ Ranged(log[i].w)
    BY <1>2, <1>7, LogTyped
  <2>2. QED
    BY <1>2, <2>1, Relisted
<1>14. ListedInv'
  BY <1>1, <1>13 DEF ListedInv
<1>15. StageInv'
  BY <1>1, <1>3, <1>4 DEF StageInv
<1>16. GotInv'
  <2>1. Needed' \in Nat /\ Cardinality({}) = 0
    BY FS_EmptySet, Typed DEF Needed
  <2>2. QED
    BY <2>1, Typed DEF GotInv
<1>17. ReadInv'
  <2> SUFFICES ASSUME NEW i \in due' PROVE log'[i].w \in shut' \/ Pending(i)'
    BY DEF ReadInv
  <2>1. i \in Known'
    BY <1>5
  <2>2. QED
    BY <1>1, <1>13, <2>1, <1>8 DEF Pending
<1>18. MissesExplained' /\ FacetsCoverPages' /\ CountHonest'
  BY <1>1 DEF MissesExplained, FacetsCoverPages, CountHonest
<1>19. QED
  BY <1>9, <1>10, <1>11, <1>12, <1>14, <1>15, <1>16, <1>17, <1>18 DEF Inv

LEMMA QueryStep ==
    ASSUME Inv, NEW order \in Orders, NEW words \in 0..1, NEW via \in {"api", "ui"},
           Query(order, words, via)
    PROVE  Inv'
<1>1. /\ at = "idle" /\ ask' = [order |-> order, words |-> words, via |-> via]
      /\ search' = words /\ RunLists(order)
      /\ due' = {i \in Base(words) : Readable(log[i].w) /\ log[i].w \in SegmentsInRange}
      /\ UNCHANGED <<store, cursor, pages, facets, counted, excused>>
  BY DEF Query, result
<1>2. pages = <<>> /\ cursor = None /\ counted = None
  BY <1>1 DEF Inv, StageInv
<1>3. /\ at' = "read" /\ visited' = 0 /\ got' = {} /\ shut' = shut \cup Gone
      /\ listing' \in orderSegments(order)
  BY <1>1, <1>2 DEF RunLists
<1>4. /\ ask' \in [order : Orders, words : 0..1, via : {"api", "ui"}]
      /\ ask'.order = order /\ ask'.words = words
  BY <1>1
<1>5. due' \subseteq Base(words) /\ due' \subseteq DOMAIN log
      /\ \A i \in due' : \A w \in Windows : log[i].w = w => Ranged(w)
  BY <1>1 DEF Base, Ranged
<1>6. pages' = <<>> /\ cursor' = None
  BY <1>1, <1>2
<1>7. Seen = {} /\ Seen' = {}
  BY <1>2, <1>6 DEF Seen
<1>8. CursorInv' /\ DueInv' /\ PagesDescend'
  <2>1. \A i \in due' : AfterCursor(i)'
    BY <1>6 DEF AfterCursor
  <2>2. QED
    BY <1>6, <2>1 DEF CursorInv, DueInv, PagesDescend
<1>9. search' \in Nat /\ search' = words
  BY <1>1
<1>10. QED
  BY <1>1, <1>2, <1>3, <1>4, <1>5, <1>7, <1>8, <1>9, ReadingStarts

\* The next page, or the same one again.
LEMMA NextPage ==
    ASSUME Inv, at \in {"page", "failed"}, RunLists(ask.order),
           UNCHANGED <<store, ask, cursor, pages, facets, counted, excused, due>>,
           search' \in Nat, ask.via = "api" \/ ask.words = 0 => search' = search
    PROVE  Inv'
<1>1. /\ log' = log /\ seg' = seg /\ times' = times /\ ask' = ask /\ cursor' = cursor
      /\ pages' = pages /\ facets' = facets /\ counted' = counted /\ excused' = excused
      /\ due' = due /\ shut' = shut \cup Gone
  BY DEF store, RunLists
<1>2. /\ TypeInv /\ StoreInv /\ RangeInv /\ ListingInv /\ ListedInv /\ StageInv
      /\ GotInv /\ ReadInv /\ CursorInv /\ DueInv
      /\ PagesDescend /\ MissesExplained /\ FacetsCoverPages /\ CountHonest
  BY DEF Inv
<1>3. counted = None /\ (cursor = None => pages = <<>>) /\ at # "idle"
  BY <1>2 DEF StageInv
<1>4. ask \in [order : Orders, words : 0..1, via : {"api", "ui"}]
  BY <1>2, <1>3 DEF TypeInv
<1>5. /\ ask.via = "api" \/ ask.words = 0 => search' = ask.words
      /\ due \subseteq Base(ask.words)
      /\ ask.via = "api" => Seen \subseteq Base(search')
  BY <1>2, <1>3 DEF StageInv
<1>6. Seen' = Seen /\ ByTime' = ByTime
  BY <1>1 DEF Seen, ByTime
<1>7. \A i : AfterCursor(i)' <=> AfterCursor(i)
  BY <1>1 DEF AfterCursor
<1>8. CursorInv'
  BY <1>1, <1>2, <1>6 DEF CursorInv
<1>9. DueInv'
  BY <1>1, <1>2, <1>6, <1>7 DEF DueInv
<1>10. PagesDescend'
  <2>1. \A a, b : Before(ask.order, a, b)' <=> Before(ask.order, a, b)
    BY <1>1 DEF Before, OrderBefore
  <2>2. QED
    BY <1>1, <1>2, <1>6, <2>1 DEF PagesDescend
<1>11. CASE at' = "read" /\ visited' = 0 /\ got' = {} /\ listing' \in orderSegments(ask.order)
  <2>1. \A i \in due : \A w \in Windows : log[i].w = w => Ranged(w)
    BY <1>2 DEF RangeInv, Marked, Known
  <2>2. due' \subseteq DOMAIN log
    BY <1>1, <1>2 DEF TypeInv
  <2>3. QED
    BY <1>1, <1>3, <1>4, <1>5, <1>8, <1>9, <1>10, <1>11, <2>1, <2>2, ReadingStarts
<1>12. CASE at' = "invalidated" /\ UNCHANGED <<listing, visited, got>>
  <2>1. /\ listing' = listing /\ visited' = visited /\ got' = got
    BY <1>12
  <2>2. Known' = Known /\ Marked' = Marked
    BY <1>1, <1>6, <2>1 DEF Known, Marked
  <2>3. \A n : Base(n)' = Base(n)
    BY <1>1 DEF Base
  <2>4. TypeInv'
    BY <1>1, <1>2, <1>4, <1>12, <2>1 DEF TypeInv
  <2>5. StoreInv'
    BY <1>1, <1>2 DEF StoreInv, Held
  <2>6. RangeInv'
    <3>1. \A w \in Windows : Ranged(w)' <=> Ranged(w)
      BY <1>1 DEF Ranged, SegmentsInRange, Held
    <3>2. QED
      BY <1>1, <1>2, <2>2, <3>1 DEF RangeInv
  <2>7. ListingInv'
    BY <1>1, <1>2, <2>1 DEF ListingInv
  <2>8. ListedInv' /\ GotInv' /\ ReadInv'
    BY <1>12 DEF ListedInv, GotInv, ReadInv
  <2>9. StageInv'
    BY <1>1, <1>3, <1>5, <1>6, <1>12, <2>3 DEF StageInv
  <2>10. MissesExplained' /\ FacetsCoverPages' /\ CountHonest'
    BY <1>1, <1>3, <1>12 DEF MissesExplained, FacetsCoverPages, CountHonest
  <2>11. QED
    BY <1>8, <1>9, <1>10, <2>4, <2>5, <2>6, <2>7, <2>8, <2>9, <2>10 DEF Inv
<1>13. QED
  BY <1>11, <1>12 DEF RunLists

LEMMA LoadMoreStep == ASSUME Inv, LoadMore PROVE Inv'
<1>1. /\ at = "page" /\ search' = NextSearch /\ RunLists(ask.order)
      /\ UNCHANGED <<store, ask, cursor, pages, facets, counted, excused, due>>
  BY DEF LoadMore, result
<1>2. search \in Nat /\ ask.words \in 0..1
  BY <1>1 DEF Inv, TypeInv
<1>3. search' \in Nat /\ (ask.via = "api" \/ ask.words = 0 => search' = search)
  BY <1>1, <1>2 DEF NextSearch
<1>4. QED
  BY <1>1, <1>3, NextPage

LEMMA RetryStep == ASSUME Inv, Retry PROVE Inv'
<1>1. /\ at = "failed" /\ search' = search /\ RunLists(ask.order)
      /\ UNCHANGED <<store, ask, cursor, pages, facets, counted, excused, due>>
  BY DEF Retry, result
<1>2. search \in Nat
  BY DEF Inv, TypeInv
<1>3. QED
  BY <1>1, <1>2, NextPage

LEMMA CountStep ==
    ASSUME Inv, NEW words \in 0..1, Count(words)
    PROVE  Inv'
<1>1. /\ at = "idle" /\ ask' = [order |-> "desc", words |-> words, via |-> "api"]
      /\ search' = words /\ at' = "count" /\ listing' \in orderSegments("desc")
      /\ shut' = Gone
      /\ due' = {i \in Base(words) : Readable(log[i].w) /\ log[i].w \in SegmentsInRange}
      /\ UNCHANGED <<store, cursor, visited, got, pages, facets, counted, excused>>
  BY DEF Count, result
<1>2. /\ pages = <<>> /\ cursor = None /\ counted = None /\ facets = None
      /\ visited = 0 /\ got = {}
  BY <1>1 DEF Inv, StageInv
<1>3. /\ ask' \in [order : Orders, words : 0..1, via : {"api", "ui"}]
      /\ ask'.order = "desc" /\ ask'.words = words /\ ask'.via = "api"
  BY <1>1 DEF Orders
<1>4. due' \subseteq Base(words) /\ due' \subseteq DOMAIN log
      /\ \A i \in due' : \A w \in Windows : log[i].w = w => Ranged(w)
  BY <1>1 DEF Base, Ranged
<1>5. pages' = <<>> /\ cursor' = None /\ visited' = 0 /\ got' = {}
  BY <1>1, <1>2
<1>6. Seen = {}
  BY <1>2 DEF Seen
<1>7. CursorInv' /\ DueInv' /\ PagesDescend'
  BY <1>1, <1>5 DEF CursorInv, DueInv, PagesDescend
<1>8. search' \in Nat
  BY <1>1
<1>9. QED
  BY <1>1, <1>2, <1>3, <1>4, <1>5, <1>6, <1>7, <1>8, ReadingStarts

-----------------------------------------------------------------------------
(* Reading a segment. *)

LEMMA ListingTyped ==
    ASSUME TypeInv
    PROVE  /\ listing \in Seq(Rows0) /\ DOMAIN listing = 1..Len(listing)
           /\ Len(listing) \in Nat /\ visited \in Nat /\ visited <= Len(listing)
           /\ \A k \in DOMAIN listing : listing[k].w \in Windows /\ listing[k].start \in Nat
<1>1. listing \in Seq(Rows0) /\ visited \in 0..Len(listing)
  BY DEF TypeInv
<1>2. DOMAIN listing = 1..Len(listing) /\ Len(listing) \in Nat
  BY <1>1
<1>3. \A k \in DOMAIN listing : listing[k] \in Rows0
  BY <1>1, <1>2, ElementOfSeq
<1>4. \A k \in DOMAIN listing : listing[k].w \in Windows /\ listing[k].start \in Times
  BY <1>3 DEF Rows0
<1>5. visited \in Nat /\ visited <= Len(listing)
  BY <1>1, <1>2
<1>6. \A k \in DOMAIN listing : listing[k].start \in Nat
  BY <1>4, Typed
<1>7. QED
  BY <1>1, <1>2, <1>4, <1>5, <1>6

\* While rows are read, those there are are fewer than are needed, or no more
\* segment is read.
LEMMA GotTyped ==
    ASSUME TypeInv
    PROVE  IsFiniteSet(got) /\ Cardinality(got) \in Nat /\ Needed \in Nat
<1>1. IsFiniteSet(got)
  BY LogTyped, FS_Subset DEF TypeInv
<1>2. QED
  BY <1>1, FS_CardinalityType, Typed DEF Needed

LEMMA SegmentRead ==
    ASSUME Inv, at \in {"read", "count"}, ~Finished,
           NEW B \in Rows(listing[visited + 1].w, Needed - Cardinality(got)),
           got' = got \cup B, visited' = visited + 1,
           listing[visited + 1].state = seg[listing[visited + 1].w].state,
           Readable(listing[visited + 1].w),
           UNCHANGED <<at, shut, store, ask, search, cursor, listing,
                       pages, facets, counted, excused, due>>
    PROVE  Inv'
<1> DEFINE k0 == visited + 1
           w0 == listing[visited + 1].w
<1>1. /\ log' = log /\ seg' = seg /\ times' = times /\ ask' = ask /\ cursor' = cursor
      /\ pages' = pages /\ facets' = facets /\ counted' = counted /\ excused' = excused
      /\ due' = due /\ shut' = shut /\ at' = at /\ search' = search /\ listing' = listing
  BY DEF store
<1>2. /\ TypeInv /\ StoreInv /\ RangeInv /\ ListingInv /\ ListedInv /\ StageInv
      /\ GotInv /\ ReadInv /\ CursorInv /\ DueInv
      /\ PagesDescend /\ MissesExplained /\ FacetsCoverPages /\ CountHonest
  BY DEF Inv
<1>3. /\ k0 \in DOMAIN listing /\ k0 \in Nat /\ k0 > 0 /\ visited < k0
      /\ Cardinality(got) < Needed /\ w0 \in Windows
  BY <1>2, ListingTyped, GotTyped DEF Finished
<1>4. IsFiniteSet(got) /\ Cardinality(got) \in Nat /\ Needed \in Nat
      /\ Needed - Cardinality(got) \in Nat
  BY <1>2, <1>3, GotTyped
<1>5. /\ B \subseteq Offered(w0)
      /\ IsFiniteSet(B) /\ Cardinality(B) \in Nat /\ Cardinality(B) <= Needed - Cardinality(got)
      /\ \A i \in Offered(w0) \ B :
            /\ Cardinality(B) = Needed - Cardinality(got)
            /\ at # "count" => \A b \in B : ~SqlBefore(i, b)
  BY <1>2, <1>3, <1>4, RowsOf
<1>6. \A b \in B : /\ b \in DOMAIN log /\ b \in Base(search) /\ log[b].w = w0
                   /\ at = "read" => AfterCursor(b)
  BY <1>5 DEF Offered, Selected, Held
<1>7. got \cap B = {}
  <2> SUFFICES ASSUME NEW b \in got, b \in B PROVE FALSE
    OBVIOUS
  <2>1. PICK k \in 1..visited : listing[k].w = log[b].w
    BY <1>2 DEF GotInv
  <2>2. k \in DOMAIN listing /\ k # k0
    BY <1>2, <1>3, ListingTyped
  <2>3. QED
    BY <1>2, <1>3, <1>6, <2>1, <2>2 DEF ListingInv
<1>8. Cardinality(got') = Cardinality(got) + Cardinality(B) /\ IsFiniteSet(got')
  <2>1. Cardinality(got \cap B) = 0
    BY <1>7, FS_EmptySet
  <2>2. /\ IsFiniteSet(got \cup B)
        /\ Cardinality(got \cup B)
              = Cardinality(got) + Cardinality(B) - Cardinality(got \cap B)
    BY <1>4, <1>5, FS_Union
  <2>3. QED
    BY <1>4, <1>5, <2>1, <2>2
<1>9. Needed' = Needed
  BY <1>1 DEF Needed
<1>10. Seen' = Seen /\ ByTime' = ByTime
  BY <1>1 DEF Seen, ByTime
<1>11. Known' = Known \cup B
  BY <1>1, <1>10 DEF Known
<1>12. Marked' = Marked
  <2>1. w0 \in Marked
    BY <1>3 DEF Marked
  <2>2. Marked' = Marked \cup {log[b].w : b \in B}
    BY <1>1, <1>11 DEF Marked
  <2>3. QED
    BY <1>6, <2>1, <2>2
<1>13. \A n : Base(n)' = Base(n)
  BY <1>1 DEF Base
<1>14. \A i : AfterCursor(i)' <=> AfterCursor(i)
  BY <1>1 DEF AfterCursor
<1>15. \A a, b : /\ SqlBefore(a, b)' <=> SqlBefore(a, b)
                 /\ Before(ask.order, a, b)' <=> Before(ask.order, a, b)
  BY <1>1 DEF SqlBefore, Before, OrderBefore
<1>16. TypeInv'
  <2>1. visited' \in 0..Len(listing')
    BY <1>1, <1>2, <1>3, ListingTyped
  <2>2. got' \subseteq DOMAIN log'
    BY <1>1, <1>2, <1>6 DEF TypeInv
  <2>3. QED
    BY <1>1, <1>2, <2>1, <2>2 DEF TypeInv
<1>17. StoreInv'
  BY <1>1, <1>2 DEF StoreInv, Held
<1>18. RangeInv'
  <2>1. \A w \in Windows : Ranged(w)' <=> Ranged(w)
    BY <1>1 DEF Ranged, SegmentsInRange, Held
  <2>2. \A b \in B : log[b].t \in From..To
    BY <1>6 DEF Base
  <2>3. QED
    BY <1>1, <1>2, <1>11, <1>12, <2>1, <2>2 DEF RangeInv
<1>19. ListingInv'
  BY <1>1, <1>2 DEF ListingInv
<1>20. ListedInv'
  <2>1. \A b \in B : listing[k0].w = log[b].w /\ listing[k0].state \in {"active", "sealed"}
    BY <1>6 DEF Readable
  <2>2. QED
    BY <1>1, <1>2, <1>3, <1>11, <2>1 DEF ListedInv
<1>21. StageInv'
  BY <1>1, <1>2, <1>10, <1>13 DEF StageInv
<1>22. GotInv'
  <2>1. got' \subseteq Base(search)' /\ Cardinality(got') <= Needed'
    BY <1>1, <1>2, <1>4, <1>5, <1>6, <1>8, <1>9, <1>13 DEF GotInv
  <2>2. \A b \in got' : \E k \in 1..visited' : listing[k].w = log[b].w
    <3>1. \A b \in got : \E k \in 1..visited : listing[k].w = log[b].w
      BY <1>2 DEF GotInv
    <3>2. 1..visited \subseteq 1..visited' /\ k0 \in 1..visited'
      BY <1>2, <1>3, ListingTyped
    <3>3. QED
      BY <1>6, <3>1, <3>2
  <2>3. at = "read" => \A b \in got' : AfterCursor(b)
    BY <1>2, <1>6 DEF GotInv
  <2>4. QED
    BY <1>1, <1>14, <2>1, <2>2, <2>3 DEF GotInv
<1>23. ReadInv'
  <2> SUFFICES ASSUME at = "count" \/ (at = "read" /\ ByTime), NEW i \in due,
                      i \in Base(search), at = "read" => AfterCursor(i)
               PROVE  i \in got' \/ log[i].w \in shut \/ Pending(i)' \/ LeftOut(i)'
    BY <1>1, <1>10, <1>13, <1>14 DEF ReadInv
  <2>1. i \in got \/ log[i].w \in shut \/ Pending(i) \/ LeftOut(i)
    BY <1>2 DEF ReadInv
  <2>2. ~LeftOut(i)
    BY <1>3, <1>4 DEF LeftOut
  <2>3. ASSUME Pending(i) PROVE i \in got' \/ Pending(i)' \/ LeftOut(i)'
    <3>1. PICK k \in visited + 1..Len(listing) : listing[k].w = log[i].w
      BY <2>3 DEF Pending
    <3>2. CASE k # k0
      <4>1. k \in visited' + 1..Len(listing)
        BY <1>2, <1>3, <3>1, <3>2, ListingTyped
      <4>2. QED
        BY <1>1, <3>1, <4>1 DEF Pending
    <3>3. CASE k = k0 /\ i \notin B
      <4>1. i \in Offered(w0)
        BY <3>1, <3>3 DEF Offered, Selected, Held, Base
      <4>2. Cardinality(B) = Needed - Cardinality(got)
            /\ (at # "count" => \A b \in B : ~SqlBefore(i, b))
        BY <1>5, <3>3, <4>1
      <4>3. Cardinality(got') >= Needed
        BY <1>4, <1>5, <1>8, <4>2
      <4>4. visited' > 0 /\ listing[visited'].w = log[i].w
        BY <1>3, <3>1, <3>3
      <4>5. \A b \in got : log[b].w # log[i].w
        <5> SUFFICES ASSUME NEW b \in got, log[b].w = log[i].w PROVE FALSE
          OBVIOUS
        <5>1. PICK m \in 1..visited : listing[m].w = log[b].w
          BY <1>2 DEF GotInv
        <5>2. m \in DOMAIN listing /\ m # k0
          BY <1>2, <1>3, ListingTyped
        <5>3. QED
          BY <1>2, <1>3, <3>1, <3>3, <5>1, <5>2 DEF ListingInv
      <4>6. at = "read" => \A b \in got' : log[b].w = log[i].w => ~SqlBefore(i, b)
        BY <4>2, <4>5
      <4>7. QED
        BY <1>1, <1>9, <1>15, <4>3, <4>4, <4>6 DEF LeftOut
    <3>4. CASE i \in B
      BY <3>4
    <3>5. QED
      BY <3>2, <3>3, <3>4
  <2>4. QED
    BY <2>1, <2>2, <2>3
<1>24. CursorInv'
  BY <1>1, <1>2, <1>10 DEF CursorInv
<1>25. DueInv'
  BY <1>1, <1>2, <1>10, <1>14 DEF DueInv
<1>26. PagesDescend'
  BY <1>1, <1>2, <1>10, <1>15 DEF PagesDescend
<1>27. counted = None
  BY <1>2 DEF StageInv
<1>28. MissesExplained' /\ FacetsCoverPages' /\ CountHonest'
  BY <1>1, <1>27 DEF MissesExplained, FacetsCoverPages, CountHonest
<1>29. QED
  BY <1>16, <1>17, <1>18, <1>19, <1>20, <1>21, <1>22, <1>23, <1>24, <1>25, <1>26, <1>28
     DEF Inv

\* A segment is found shut, or a page fails: what is known stays, more is shut.
LEMMA FoundShut ==
    ASSUME Inv, at \in {"read", "count"}, shut \subseteq shut', visited' \in Nat,
           visited <= visited', visited' <= Len(listing),
           \A k \in visited + 1..visited' : listing[k].w \in shut',
           ~Finished \/ at' = "failed",
           at' = at \/ (at = "read" /\ at' = "failed") \/ (at = "count" /\ at' = "end"),
           UNCHANGED <<store, ask, search, cursor, listing, got,
                       pages, facets, counted, excused, due>>
    PROVE  Inv'
<1>1. /\ log' = log /\ seg' = seg /\ times' = times /\ ask' = ask /\ cursor' = cursor
      /\ pages' = pages /\ facets' = facets /\ counted' = counted /\ excused' = excused
      /\ due' = due /\ got' = got /\ search' = search /\ listing' = listing
  BY DEF store
<1>2. /\ TypeInv /\ StoreInv /\ RangeInv /\ ListingInv /\ ListedInv /\ StageInv
      /\ GotInv /\ ReadInv /\ CursorInv /\ DueInv
      /\ PagesDescend /\ MissesExplained /\ FacetsCoverPages /\ CountHonest
  BY DEF Inv
<1>3. Seen' = Seen /\ ByTime' = ByTime
  BY <1>1 DEF Seen, ByTime
<1>4. Known' = Known /\ Marked' = Marked
  BY <1>1, <1>3 DEF Known, Marked
<1>5. \A n : Base(n)' = Base(n)
  BY <1>1 DEF Base
<1>6. \A i : AfterCursor(i)' <=> AfterCursor(i)
  BY <1>1 DEF AfterCursor
<1>7. \A a, b : Before(ask.order, a, b)' <=> Before(ask.order, a, b)
  BY <1>1 DEF Before, OrderBefore
<1>8. TypeInv'
  <2>1. visited' \in 0..Len(listing')
    BY <1>1, <1>2, ListingTyped
  <2>2. QED
    BY <1>1, <1>2, <2>1 DEF TypeInv
<1>9. StoreInv'
  BY <1>1, <1>2 DEF StoreInv, Held
<1>10. RangeInv'
  <2>1. \A w \in Windows : Ranged(w)' <=> Ranged(w)
    BY <1>1 DEF Ranged, SegmentsInRange, Held
  <2>2. QED
    BY <1>1, <1>2, <1>4, <2>1 DEF RangeInv
<1>11. ListingInv'
  BY <1>1, <1>2 DEF ListingInv
<1>12. ListedInv'
  BY <1>1, <1>2, <1>4 DEF ListedInv
<1>13. StageInv'
  BY <1>1, <1>2, <1>3, <1>5 DEF StageInv
<1>14. GotInv'
  <2>1. CASE at' = at
    <3>1. Needed' = Needed
      BY <2>1 DEF Needed
    <3>2. 1..visited \subseteq 1..visited'
      BY <1>2, ListingTyped
    <3>3. QED
      BY <1>1, <1>2, <1>5, <1>6, <2>1, <3>1, <3>2 DEF GotInv
  <2>2. CASE at' # at
    BY <2>2 DEF GotInv
  <2>3. QED
    BY <2>1, <2>2
<1>15. ReadInv'
  <2>1. CASE at' # at
    BY <2>1 DEF ReadInv
  <2>2. CASE at' = at
    <3> SUFFICES ASSUME at = "count" \/ (at = "read" /\ ByTime), NEW i \in due,
                        i \in Base(search), at = "read" => AfterCursor(i)
                 PROVE  i \in got \/ log[i].w \in shut' \/ Pending(i)'
      BY <1>1, <1>3, <1>5, <1>6, <2>2 DEF ReadInv
    <3>1. i \in got \/ log[i].w \in shut \/ Pending(i) \/ LeftOut(i)
      BY <1>2 DEF ReadInv
    <3>2. ~LeftOut(i)
      <4>1. ~(Cardinality(got) >= Needed)
        BY <2>2 DEF Finished
      <4>2. QED
        BY <4>1 DEF LeftOut
    <3>3. ASSUME Pending(i) PROVE log[i].w \in shut' \/ Pending(i)'
      <4>1. PICK k \in visited + 1..Len(listing) : listing[k].w = log[i].w
        BY <3>3 DEF Pending
      <4>2. k \in visited + 1..visited' \/ k \in visited' + 1..Len(listing)
        <5>1. visited \in Nat /\ Len(listing) \in Nat /\ visited' \in Nat
          BY <1>2, ListingTyped
        <5> HIDE <1>2
        <5>2. k \in Int /\ visited + 1 <= k /\ k <= Len(listing)
          BY <4>1, <5>1
        <5>3. k <= visited' => k \in visited + 1..visited'
          BY <5>1, <5>2
        <5>4. ~(k <= visited') => k \in visited' + 1..Len(listing)
          <6>1. \A a, b \in Nat, j \in Int : ~(j <= a) /\ j <= b => j \in a + 1..b
            OBVIOUS
          <6>2. QED
            BY <5>1, <5>2, <6>1
        <5>5. QED
          BY <5>3, <5>4
      <4>3. QED
        BY <1>1, <4>1, <4>2 DEF Pending
    <3>4. QED
      BY <3>1, <3>2, <3>3
  <2>3. QED
    BY <2>1, <2>2
<1>16. CursorInv'
  BY <1>1, <1>2, <1>3 DEF CursorInv
<1>17. DueInv'
  BY <1>1, <1>2, <1>3, <1>6 DEF DueInv
<1>18. PagesDescend'
  BY <1>1, <1>2, <1>3, <1>7 DEF PagesDescend
<1>19. counted = None /\ (at' = "end" => pages = <<>> /\ facets = None)
  BY <1>2 DEF StageInv
<1>20. MissesExplained' /\ FacetsCoverPages' /\ CountHonest'
  BY <1>1, <1>19 DEF MissesExplained, FacetsCoverPages, CountHonest
<1>21. QED
  BY <1>8, <1>9, <1>10, <1>11, <1>12, <1>13, <1>14, <1>15, <1>16, <1>17, <1>18, <1>20
     DEF Inv

LEMMA ReadSegmentStep == ASSUME Inv, ReadSegment PROVE Inv'
<1> DEFINE row == listing[visited + 1]
<1>1. /\ at \in {"read", "count"} /\ ~Finished /\ visited' = visited + 1
      /\ UNCHANGED <<store, ask, search, cursor, listing, pages, facets, counted,
                     excused, due>>
  BY DEF ReadSegment, result
<1>2. CASE row.state = seg[row.w].state /\ Readable(row.w)
  <2>1. /\ \E B \in Rows(row.w, Needed - Cardinality(got)) : got' = got \cup B
        /\ UNCHANGED <<at, shut>>
    BY <1>2 DEF ReadSegment
  <2>2. QED
    BY <1>1, <1>2, <2>1, SegmentRead
<1>3. CASE ~(row.state = seg[row.w].state /\ Readable(row.w))
  <2>1. /\ shut' = shut \cup {row.w} /\ got' = got
        /\ at' = IF row.state # "sealed" THEN at
                 ELSE IF at = "count" THEN "end" ELSE "failed"
    BY <1>3 DEF ReadSegment
  <2>2. at' = at \/ (at = "read" /\ at' = "failed") \/ (at = "count" /\ at' = "end")
    BY <1>1, <2>1
  <2>3. TypeInv
    BY DEF Inv
  <2>4. /\ visited' \in Nat /\ visited <= visited' /\ visited' <= Len(listing)
        /\ \A k \in visited + 1..visited' : k = visited + 1
    BY <1>1, <2>3, ListingTyped DEF Finished
  <2>5. \A k \in visited + 1..visited' : listing[k].w \in shut'
    BY <2>1, <2>4
  <2>6. QED
    BY <1>1, <2>1, <2>2, <2>4, <2>5, FoundShut
<1>4. QED
  BY <1>2, <1>3

-----------------------------------------------------------------------------
(* The end of a count. *)

LEMMA CountReturnsStep == ASSUME Inv, CountReturns PROVE Inv'
<1> DEFINE total == Cardinality(got)
<1>1. /\ at = "count" /\ Finished /\ at' = "end"
      /\ counted' = [n |-> IF Exact(total) THEN total ELSE LimitGuard - 1,
                     exact |-> Exact(total)]
      /\ log' = log /\ seg' = seg /\ times' = times /\ ask' = ask /\ cursor' = cursor
      /\ pages' = pages /\ facets' = facets /\ excused' = excused /\ visited' = visited
      /\ due' = due /\ got' = got /\ search' = search /\ listing' = listing /\ shut' = shut
  BY DEF CountReturns, store
<1>2. /\ TypeInv /\ StoreInv /\ RangeInv /\ ListingInv /\ ListedInv /\ StageInv
      /\ GotInv /\ ReadInv /\ CursorInv /\ DueInv
      /\ PagesDescend /\ MissesExplained /\ FacetsCoverPages /\ CountHonest
  BY DEF Inv
<1>3. Seen' = Seen /\ ByTime' = ByTime
  BY <1>1 DEF Seen, ByTime
<1>4. Known' = Known /\ Marked' = Marked
  BY <1>1, <1>3 DEF Known, Marked
<1>5. \A n : Base(n)' = Base(n)
  BY <1>1 DEF Base
<1>6. /\ IsFiniteSet(got) /\ total \in Nat /\ Needed = LimitGuard
      /\ LimitGuard \in Nat /\ LimitGuard > 0
  BY <1>1, <1>2, GotTyped, Typed DEF Needed
<1>7. /\ counted'.n \in Nat /\ counted'.exact \in BOOLEAN /\ counted'.n <= total
      /\ counted' = [n |-> counted'.n, exact |-> counted'.exact]
      /\ counted'.exact => total < LimitGuard
  <2> HIDE DEF total
  <2>1. counted' = [n |-> IF total < LimitGuard THEN total ELSE LimitGuard - 1,
                    exact |-> total < LimitGuard]
    BY <1>1 DEF Exact
  <2>2. CASE total < LimitGuard
    <3>1. counted' = [n |-> total, exact |-> TRUE]
      BY <2>1, <2>2
    <3>2. QED
      BY <1>6, <2>2, <3>1
  <2>3. CASE ~(total < LimitGuard)
    <3>1. counted' = [n |-> LimitGuard - 1, exact |-> FALSE]
      <4>1. (total < LimitGuard) = FALSE
        BY <2>3
      <4>2. QED
        BY <2>1, <4>1, Zenon
    <3>2. LimitGuard - 1 \in Nat /\ LimitGuard - 1 <= total
      BY <1>6, <2>3
    <3>3. QED
      BY <3>1, <3>2
  <2>4. QED
    BY <2>2, <2>3
<1>8. TypeInv'
  BY <1>1, <1>2, <1>7 DEF TypeInv
<1>9. StoreInv'
  BY <1>1, <1>2 DEF StoreInv, Held
<1>10. RangeInv'
  <2>1. \A w \in Windows : Ranged(w)' <=> Ranged(w)
    BY <1>1 DEF Ranged, SegmentsInRange, Held
  <2>2. QED
    BY <1>1, <1>2, <1>4, <2>1 DEF RangeInv
<1>11. ListingInv'
  BY <1>1, <1>2 DEF ListingInv
<1>12. ListedInv' /\ GotInv' /\ ReadInv' /\ DueInv'
  BY <1>1 DEF ListedInv, GotInv, ReadInv, DueInv
<1>13. pages = <<>> /\ facets = None /\ cursor = None /\ search = ask.words
  BY <1>1, <1>2 DEF StageInv
<1>14. StageInv'
  BY <1>1, <1>2, <1>3, <1>5, <1>13 DEF StageInv
<1>15. CursorInv' /\ PagesDescend' /\ MissesExplained' /\ FacetsCoverPages'
  BY <1>1, <1>13 DEF CursorInv, PagesDescend, MissesExplained, FacetsCoverPages
<1>16. CountHonest'
  <2>1. counted'.n <= Cardinality(Base(search))
    <3>1. got \subseteq Base(search) /\ Base(search) \subseteq DOMAIN log
      BY <1>1, <1>2 DEF GotInv, Base
    <3>2. IsFiniteSet(Base(search)) /\ Cardinality(Base(search)) \in Nat
      BY <1>2, <3>1, LogTyped, FS_Subset, FS_CardinalityType
    <3>3. total <= Cardinality(Base(search))
      BY <3>1, <3>2, FS_Subset
    <3>4. QED
      BY <1>6, <1>7, <3>2, <3>3
  <2>2. ASSUME counted'.exact, NEW i \in due PROVE i \in got \/ log[i].w \in shut
    <3>1. i \in Base(search)
      BY <1>1, <1>2, <1>13 DEF StageInv
    <3>2. i \in got \/ log[i].w \in shut \/ Pending(i) \/ LeftOut(i)
      BY <1>1, <1>2, <3>1 DEF ReadInv
    <3>3. ~(Cardinality(got) >= Needed) /\ visited = Len(listing)
      BY <1>1, <1>6, <1>7, <2>2 DEF Finished
    <3>4. ~LeftOut(i)
      BY <3>3 DEF LeftOut
    <3>5. ~Pending(i)
      <4>1. visited + 1..Len(listing) = {}
        BY <1>2, <3>3, ListingTyped
      <4>2. QED
        BY <4>1 DEF Pending
    <3>6. QED
      BY <3>2, <3>4, <3>5
  <2>3. QED
    BY <1>1, <1>5, <2>1, <2>2 DEF CountHonest
<1>17. QED
  BY <1>8, <1>9, <1>10, <1>11, <1>12, <1>14, <1>15, <1>16 DEF Inv

-----------------------------------------------------------------------------
(* The end of a page. *)

\* Every row got is of a segment that was listed, at the place it was read.
LEMMA GotPlaced ==
    ASSUME Inv, at = "read", NEW b \in got
    PROVE  \E k \in DOMAIN listing : /\ k <= visited /\ listing[k].w = log[b].w
                                     /\ Place(listing, log[b].w) = k
<1>1. TypeInv /\ GotInv /\ ListingInv
  BY DEF Inv
<1>2. PICK k \in 1..visited : listing[k].w = log[b].w
  BY <1>1 DEF GotInv
<1>3. k \in DOMAIN listing /\ k <= visited
  BY <1>1, ListingTyped
<1>4. Place(listing, log[b].w) = k
  BY <1>1, <1>2, <1>3, PlaceOf
<1>5. QED
  BY <1>2, <1>3, <1>4

\* What a page by time that ends with l leaves out of what is due comes after
\* l, ties with it, is overtaken by it, or is on the page.
LEMMA Accounted ==
    ASSUME Inv, at = "read", ByTime, NEW P \in Page(got), P # {}, NEW i \in due,
           i \in got \/ Pending(i) \/ LeftOut(i)
    PROVE  \/ i \in P \/ i \in Ties(LastRow(P)) \/ i \in Overtaken(LastRow(P))
           \/ IF ask.order = "desc" THEN log[i].t < log[LastRow(P)].t
                                    ELSE log[i].t > log[LastRow(P)].t
<1> DEFINE l == LastRow(P)
<1>1. /\ TypeInv /\ ListingInv /\ GotInv /\ at # "idle"
  BY DEF Inv
<1>2. IsFiniteSet(got) /\ got \subseteq DOMAIN log /\ due \subseteq DOMAIN log
  BY <1>1, GotTyped DEF TypeInv
<1>3. P \subseteq got /\ \A p \in P, s \in got \ P : ~Precedes(s, p)
  BY <1>2, PageOf
<1>4. \A p \in P : \E k \in DOMAIN listing : listing[k].w = log[p].w
  BY <1>3, GotPlaced
<1>5. l \in P
  BY <1>1, <1>2, <1>3, <1>4, LastRowOf
<1> HIDE DEF l
<1>6. log[l].t \in Nat /\ log[i].t \in Nat
  BY <1>1, <1>2, <1>3, <1>5, LogTyped
<1>7. SUFFICES ASSUME i \notin P, log[i].t # log[l].t,
                      ~(IF ask.order = "desc" THEN log[i].t < log[l].t
                                              ELSE log[i].t > log[l].t)
               PROVE  i \in Overtaken(l)
  BY DEF Ties, l
<1>8. IF ask.order = "desc" THEN log[i].t > log[l].t ELSE log[i].t < log[l].t
  BY <1>6, <1>7
<1>9. Before(ask.order, i, l) /\ SqlBefore(i, l)
  BY <1>8, TimeOrder DEF Before, SqlBefore
<1>10. i \notin got
  BY <1>3, <1>5, <1>7, <1>9 DEF Precedes
<1>11. PICK kl \in DOMAIN listing : /\ kl <= visited /\ listing[kl].w = log[l].w
                                    /\ Place(listing, log[l].w) = kl
  BY <1>3, <1>5, GotPlaced
<1>12. PICK k \in DOMAIN listing : listing[k].w = log[i].w /\ kl < k
  <2>1. CASE Pending(i)
    <3>1. PICK k \in visited + 1..Len(listing) : listing[k].w = log[i].w
      BY <2>1 DEF Pending
    <3>2. k \in DOMAIN listing /\ kl < k
      BY <1>1, <1>11, ListingTyped
    <3>3. QED
      BY <3>1, <3>2
  <2>2. CASE LeftOut(i)
    <3>1. visited > 0 /\ listing[visited].w = log[i].w
      BY <2>2 DEF LeftOut
    <3>2. visited \in DOMAIN listing
      BY <1>1, <3>1, ListingTyped
    <3>3. log[l].w # log[i].w
      BY <1>3, <1>5, <1>9, <2>2 DEF LeftOut
    <3>4. kl # visited
      BY <1>11, <3>1, <3>3
    <3>5. kl < visited
      BY <1>1, <1>11, <3>4, ListingTyped
    <3>6. QED
      BY <3>1, <3>2, <3>5
  <2>3. QED
    BY <1>10, <2>1, <2>2
<1>13. Place(listing, log[i].w) = k
  BY <1>1, <1>12, PlaceOf
<1>14. kl \in 1..k - 1
  BY <1>1, <1>12, ListingTyped
<1>15. IF ask.order = "asc" THEN listing[kl].start <= listing[k].start
                            ELSE listing[kl].start >= listing[k].start
  BY <1>1, <1>14 DEF ListingInv
<1>16. IF ask.order = "asc" THEN listing[k].start >= listing[kl].start
                            ELSE listing[k].start <= listing[kl].start
  BY <1>1, <1>15, ListingTyped
<1>17. QED
  BY <1>9, <1>11, <1>12, <1>13, <1>16 DEF Overtaken

\* Facets that are neither truncated nor sampled count each row shown.
LEMMA FacetsOfPage ==
    ASSUME Inv, at = "read", Faceted, NEW P, P \subseteq got,
           ~buildFacetResult.truncated, ~buildFacetResult.sampled, NEW v \in Services,
           NEW shown, shown = {i \in Seen \cup P : /\ EventService[i] = v
                                                   /\ log[i].w \notin shut \cup Closed},
           shown # {}
    PROVE  /\ v \in DOMAIN buildFacetResult.values
           /\ buildFacetResult.values[v] >= Cardinality(shown)
<1>1. TypeInv /\ StageInv /\ GotInv /\ ListedInv
  BY DEF Inv
<1>2. Seen \cup P \subseteq Base(search) /\ Base(search) \subseteq DOMAIN log
  <2>1. Seen \subseteq Base(search)
    <3>1. CASE pages = <<>>
      BY <3>1 DEF Seen
    <3>2. CASE ask.via = "api"
      BY <1>1, <3>2 DEF StageInv
    <3>3. QED
      BY <3>1, <3>2 DEF Faceted
  <2>2. QED
    BY <1>1, <2>1 DEF GotInv, Base
<1>3. IsFiniteSet(Candidates) /\ Cardinality(Candidates) \in Nat
      /\ Candidates \subseteq DOMAIN listing
  <2>1. Candidates \subseteq DOMAIN listing
    BY DEF Candidates
  <2>2. IsFiniteSet(DOMAIN listing)
    BY <1>1, ListingTyped, FS_Interval
  <2>3. QED
    BY <2>1, <2>2, FS_Subset, FS_CardinalityType
<1>4. selectFacetSample = Candidates
  <2>1. Cardinality(Candidates) <= FacetSampleSize /\ FacetSampleSize \in Nat
    <3>1. buildFacetResult.sampled = (Cardinality(Candidates) > FacetSampleSize)
      BY DEF buildFacetResult
    <3>2. ~(Cardinality(Candidates) > FacetSampleSize)
      BY <3>1
    <3>3. QED
      BY <1>3, <3>2, QueryPagingAssumption
  <2>2. ASSUME NEW k \in Candidates
        PROVE  Cardinality({j \in Candidates : Newer(j, k)}) < FacetSampleSize
    <3> DEFINE N == {j \in Candidates : Newer(j, k)}
    <3>1. k \notin N
      <4>1. ~Newer(k, k)
        BY <1>1, <1>3, ListingTyped DEF Newer
      <4>2. QED
        BY <4>1
    <3>2. N \subseteq Candidates /\ N # Candidates
      BY <3>1
    <3> HIDE DEF N
    <3>3. /\ Cardinality(N) \in Nat /\ Cardinality(N) <= Cardinality(Candidates)
          /\ Cardinality(N) # Cardinality(Candidates)
      BY <1>3, <3>2, FS_Subset, FS_CardinalityType
    <3>4. Cardinality(N) < FacetSampleSize
      BY <1>3, <2>1, <3>3
    <3>5. QED
      BY <3>4 DEF N
  <2>3. QED
    BY <2>2 DEF selectFacetSample
<1>5. shown \subseteq FacetRows(v)
  <2> SUFFICES ASSUME NEW i \in shown PROVE i \in FacetRows(v)
    OBVIOUS
  <2>1. i \in Seen \cup P /\ EventService[i] = v /\ log[i].w \notin shut /\ log[i].w \notin Closed
    OBVIOUS
  <2>2. i \in Known
    BY <2>1 DEF Known
  <2>3. PICK k \in DOMAIN listing :
            listing[k].w = log[i].w /\ listing[k].state \in {"active", "sealed"}
    BY <1>1, <2>1, <2>2 DEF ListedInv
  <2>4. k \in selectFacetSample
    BY <1>4, <2>3 DEF Candidates
  <2>5. listing[k].state = seg[log[i].w].state
    BY <2>1, <2>3 DEF Closed
  <2>6. QED
    BY <1>2, <2>1, <2>3, <2>4, <2>5 DEF FacetRows
<1> DEFINE counts == [u \in Services |-> Cardinality(FacetRows(u))]
           found  == {u \in Services : counts[u] > 0}
           over(x) == {u \in found : \/ counts[u] > counts[x]
                                     \/ counts[u] = counts[x] /\ u < x}
           top    == {x \in found : Cardinality(over(x)) < CardinalityCap}
<1>6. /\ buildFacetResult.values = [x \in top |-> counts[x]]
      /\ buildFacetResult.truncated = (Cardinality(found) > CardinalityCap)
  BY DEF buildFacetResult
<1>7. \A u \in Services : counts[u] \in Nat /\ counts[u] = Cardinality(FacetRows(u))
  <2> SUFFICES ASSUME NEW u \in Services PROVE Cardinality(FacetRows(u)) \in Nat
    OBVIOUS
  <2>1. FacetRows(u) \subseteq DOMAIN log
    BY DEF FacetRows, Base
  <2>2. QED
    BY <1>1, <2>1, LogTyped, FS_Subset, FS_CardinalityType
<1>8. Cardinality(shown) \in Nat /\ Cardinality(shown) > 0
      /\ Cardinality(shown) <= Cardinality(FacetRows(v))
  <2>1. IsFiniteSet(FacetRows(v))
    <3>1. FacetRows(v) \subseteq DOMAIN log
      BY DEF FacetRows, Base
    <3>2. QED
      BY <1>1, <3>1, LogTyped, FS_Subset
  <2>2. IsFiniteSet(shown) /\ Cardinality(shown) <= Cardinality(FacetRows(v))
    BY <1>5, <2>1, FS_Subset
  <2>3. Cardinality(shown) \in Nat /\ Cardinality(shown) # 0
    BY <2>2, FS_CardinalityType, FS_EmptySet
  <2>4. QED
    BY <2>2, <2>3
<1> HIDE DEF counts
<1>9. v \in found /\ counts[v] >= Cardinality(shown)
  BY <1>7, <1>8
<1>10. Services \subseteq Nat /\ IsFiniteSet(Services)
  <2> DEFINE all == {EventService[i] : i \in 1..MaxEvents}
             f == [i \in 1..MaxEvents |-> EventService[i]]
  <2>1. Services \subseteq Nat
    BY QueryPagingAssumption DEF Services
  <2>2. f \in Surjection(1..MaxEvents, all)
    BY DEF Surjection
  <2>3. IsFiniteSet(1..MaxEvents)
    BY Typed, FS_Interval
  <2>4. IsFiniteSet(all)
    <3> HIDE DEF f, all
    <3> QED
      BY <2>2, <2>3, FS_Surjection
  <2>5. Services \subseteq all
    BY DEF Services
  <2>6. QED
    BY <2>1, <2>4, <2>5, FS_Subset
<1>11. IsFiniteSet(found) /\ Cardinality(found) \in Nat /\ found \subseteq Services
  <2>1. found \subseteq Services
    OBVIOUS
  <2>2. QED
    BY <1>10, <2>1, FS_Subset, FS_CardinalityType
<1>12. Cardinality(found) <= CardinalityCap /\ CardinalityCap \in Nat
  <2>1. ~(Cardinality(found) > CardinalityCap)
    BY <1>6
  <2>2. QED
    BY <1>11, <2>1, QueryPagingAssumption
<1>13. v \notin over(v)
  <2>1. counts[v] \in Nat /\ v \in Nat
    BY <1>7, <1>10
  <2>2. QED
    BY <2>1
<1>14. over(v) \subseteq found
  OBVIOUS
<1> HIDE DEF found, over
<1>15. Cardinality(over(v)) < CardinalityCap
  <2>1. /\ Cardinality(over(v)) \in Nat /\ Cardinality(over(v)) <= Cardinality(found)
        /\ Cardinality(over(v)) # Cardinality(found)
    BY <1>9, <1>11, <1>13, <1>14, FS_Subset, FS_CardinalityType
  <2>2. QED
    BY <1>11, <1>12, <2>1
<1>16. v \in top
  BY <1>9, <1>15
<1> HIDE DEF top
<1>17. QED
  BY <1>6, <1>9, <1>16

LEMMA PageReturned ==
    ASSUME Inv, at = "read", Finished, NEW P \in Page(got), NEW evicted \in BOOLEAN,
           pages' = Append(pages, [rows |-> P, search |-> search, evicted |-> evicted]),
           excused' = IF P = {} THEN excused
                      ELSE excused \cup Ties(LastRow(P)) \cup Overtaken(LastRow(P)),
           IF Cardinality(got) > Limit THEN cursor' = Cursor(P, got) /\ at' = "page"
                                       ELSE cursor' = None /\ at' = "end",
           facets' = IF Faceted THEN buildFacetResult ELSE None,
           shut' = shut \cup Closed,
           UNCHANGED <<store, ask, search, listing, visited, got, due, counted>>
    PROVE  Inv'
<1>1. /\ log' = log /\ seg' = seg /\ times' = times /\ ask' = ask /\ visited' = visited
      /\ counted' = counted /\ due' = due /\ got' = got /\ search' = search
      /\ listing' = listing
  BY DEF store
<1>2. /\ TypeInv /\ StoreInv /\ RangeInv /\ ListingInv /\ ListedInv /\ StageInv
      /\ GotInv /\ ReadInv /\ CursorInv /\ DueInv
      /\ PagesDescend /\ MissesExplained /\ FacetsCoverPages /\ CountHonest
  BY DEF Inv
<1>3. IsFiniteSet(got) /\ got \subseteq DOMAIN log /\ Cardinality(got) \in Nat
      /\ Needed = Limit + 1 /\ Limit \in Nat /\ Limit > 0
  BY <1>2, GotTyped, Typed DEF TypeInv, Needed
<1>4. /\ P \subseteq got /\ \A p \in P, s \in got \ P : ~Precedes(s, p)
      /\ Cardinality(got) <= Limit => P = got
      /\ P = {} => got = {}
  BY <1>3, PageOf
<1> DEFINE l == LastRow(P)
<1>5. P # {} => l \in P /\ \A q \in P : ~Precedes(l, q)
  <2>1. \A p \in P : \E k \in DOMAIN listing : listing[k].w = log[p].w
    BY <1>4, GotPlaced
  <2>2. QED
    BY <1>2, <1>3, <1>4, <2>1, LastRowOf
<1>6. CASE \/ at' = "page" /\ Cardinality(got) > Limit
           \/ at' = "end" /\ Cardinality(got) <= Limit
  <2> DEFINE page == [rows |-> P, search |-> search, evicted |-> evicted]
             E == [rows : SUBSET DOMAIN log, search : Nat, evicted : BOOLEAN]
             n == Len(pages)
  <2>1. at' = "page" => /\ P # {} /\ l \in P /\ cursor' = [t |-> log[l].t, w |-> log[l].w]
                        /\ cursor' \in [t : Times, w : Windows] /\ cursor' # None
                        /\ cursor'.t = log[l].t
    <3> SUFFICES ASSUME at' = "page"
                 PROVE  /\ P # {} /\ l \in P /\ cursor' = [t |-> log[l].t, w |-> log[l].w]
                        /\ cursor' \in [t : Times, w : Windows] /\ cursor' # None
                        /\ cursor'.t = log[l].t
      OBVIOUS
    <3>1. Cardinality(got) > Limit /\ cursor' = Cursor(P, got)
      BY <1>3, <1>6
    <3>2. got # {}
      BY <1>3, <3>1, FS_EmptySet
    <3>3. P # {} /\ l \in P
      BY <1>4, <1>5, <3>2
    <3>4. cursor' = [t |-> log[l].t, w |-> log[l].w]
      BY <3>1 DEF Cursor
    <3>5. log[l].t \in Times /\ log[l].w \in Windows
      BY <1>2, <1>3, <1>4, <3>3, LogTyped
    <3>6. cursor' \in [t : Times, w : Windows] /\ cursor'.t = log[l].t
      BY <3>4, <3>5
    <3>7. QED
      BY <3>3, <3>4, <3>6, QueryPagingAssumption
  <2>2. at' = "end" => cursor' = None /\ P = got
    BY <1>3, <1>4, <1>6
  <2>3. pages \in Seq(E) /\ page \in E
    BY <1>2, <1>3, <1>4 DEF TypeInv
  <2>4. /\ pages' \in Seq(E) /\ n \in Nat /\ DOMAIN pages = 1..n /\ DOMAIN pages' = 1..n + 1
        /\ pages'[n + 1] = page /\ \A k \in 1..n : pages'[k] = pages[k]
    <3>1. pages' = Append(pages, page)
      OBVIOUS
    <3> HIDE DEF E, page, n
    <3>2. pages' \in Seq(E) /\ Len(pages') = Len(pages) + 1 /\ pages'[Len(pages) + 1] = page
          /\ \A k \in 1..Len(pages) : pages'[k] = pages[k]
      BY <2>3, <3>1, AppendProperties
    <3>3. Len(pages) \in Nat /\ DOMAIN pages = 1..Len(pages) /\ DOMAIN pages' = 1..Len(pages')
      BY <2>3, <3>2
    <3>4. QED
      BY <3>2, <3>3 DEF n
  <2>5. pages'[n + 1].rows = P
    BY <2>4
  <2> HIDE DEF page, n
  <2>6. Seen' = Seen \cup P
    <3>1. n + 1 \in 1..n + 1 /\ \A k \in 1..n + 1 : k = n + 1 \/ k \in 1..n
      BY <2>4
    <3>2. 1..n \subseteq 1..n + 1
      BY <2>4
    <3>3. QED
      BY <2>4, <2>5, <3>1, <3>2 DEF Seen
  <2>7. ByTime' = ByTime /\ Known' = Known /\ Marked' = Marked
    <3>1. Known' = Known
      BY <1>1, <1>4, <2>6 DEF Known
    <3>2. QED
      BY <1>1, <3>1 DEF ByTime, Marked
  <2>8. \A k : Base(k)' = Base(k)
    BY <1>1 DEF Base
  <2>9. \A a, b : Before(ask.order, a, b)' <=> Before(ask.order, a, b)
    BY <1>1 DEF Before, OrderBefore
  <2>10. counted = None /\ at # "idle"
    BY <1>2 DEF StageInv
  <2>11. Seen \subseteq DOMAIN log
    BY <1>2, SeenTyped
  <2>12. TypeInv'
    <3>1. pages' \in Seq([rows : SUBSET DOMAIN log', search : Nat, evicted : BOOLEAN])
      BY <1>1, <2>4
    <3>2. cursor' \in [t : Times, w : Windows] \cup {None}
      BY <1>6, <2>1, <2>2
    <3>3. QED
      BY <1>1, <1>2, <1>6, <3>1, <3>2 DEF TypeInv
  <2>13. StoreInv'
    BY <1>1, <1>2 DEF StoreInv, Held
  <2>14. RangeInv'
    <3>1. \A w \in Windows : Ranged(w)' <=> Ranged(w)
      BY <1>1 DEF Ranged, SegmentsInRange, Held
    <3>2. QED
      BY <1>1, <1>2, <2>7, <3>1 DEF RangeInv
  <2>15. ListingInv'
    BY <1>1, <1>2 DEF ListingInv
  <2>16. ListedInv' /\ GotInv' /\ ReadInv'
    BY <1>6 DEF ListedInv, GotInv, ReadInv
  <2>17. StageInv'
    <3>1. ask.via = "api" => Seen' \subseteq Base(search)
      BY <1>2, <1>4, <2>6, <2>10 DEF StageInv, GotInv
    <3>2. QED
      BY <1>1, <1>2, <1>6, <2>1, <2>8, <2>10, <3>1 DEF StageInv
  <2>18. \A a \in Seen, b \in got : ByTime => Before(ask.order, a, b)
    <3> SUFFICES ASSUME NEW a \in Seen, NEW b \in got, ByTime
                 PROVE  Before(ask.order, a, b)
      OBVIOUS
    <3>1. pages # <<>>
      BY DEF Seen
    <3>2. cursor # None
      BY <1>2, <3>1 DEF StageInv
    <3>3. AfterCursor(b) /\ ask.order \in {"desc", "asc"}
      BY <1>2 DEF GotInv, ByTime
    <3>4. IF ask.order = "desc" THEN log[a].t >= cursor.t ELSE log[a].t <= cursor.t
      BY <1>2, <3>2 DEF CursorInv
    <3>5. IF ask.order = "desc" THEN log[b].t < cursor.t ELSE log[b].t > cursor.t
      BY <3>2, <3>3 DEF AfterCursor
    <3>6. log[a].t \in Nat /\ log[b].t \in Nat /\ cursor.t \in Nat
      <4>1. cursor \in [t : Times, w : Windows]
        BY <1>2, <3>2 DEF TypeInv
      <4>2. QED
        BY <1>2, <1>3, <2>11, <4>1, LogTyped, Typed
    <3>7. IF ask.order = "desc" THEN log[a].t > log[b].t ELSE log[a].t < log[b].t
      BY <3>4, <3>5, <3>6
    <3>8. QED
      BY <3>7, TimeOrder DEF Before
  <2>19. CursorInv'
    <3> SUFFICES ASSUME ByTime, at' = "page", NEW a \in Seen \cup P
                 PROVE  IF ask.order = "desc" THEN log[a].t >= log[l].t
                                              ELSE log[a].t <= log[l].t
      BY <1>1, <1>6, <2>1, <2>2, <2>6, <2>7 DEF CursorInv
    <3>1. l \in P /\ l \in got
      BY <1>4, <2>1
    <3>2. ~Before(ask.order, l, a)
      <4>1. CASE a \in P
        BY <1>5, <2>1, <4>1 DEF Precedes
      <4>2. CASE a \in Seen
        <5>1. Before(ask.order, a, l)
          BY <2>18, <3>1, <4>2
        <5>2. log[a].t \in Nat /\ log[l].t \in Nat
          BY <1>2, <1>3, <2>11, <3>1, <4>2, LogTyped
        <5>3. QED
          BY <5>1, <5>2, TimeOrder DEF Before
      <4>3. QED
        BY <4>1, <4>2
    <3>3. ~(IF ask.order = "desc" THEN log[l].t > log[a].t ELSE log[l].t < log[a].t)
      BY <3>2, TimeOrder DEF Before
    <3>4. log[a].t \in Nat /\ log[l].t \in Nat
      BY <1>2, <1>3, <1>4, <2>11, <3>1, LogTyped
    <3>5. QED
      BY <3>3, <3>4
  <2>20. ASSUME ByTime, ask.via = "api" \/ ask.words = 0, NEW i \in due
         PROVE  \/ i \in Seen \/ i \in excused \/ log[i].w \in shut
                \/ i \in got \/ Pending(i) \/ LeftOut(i)
    <3>1. i \in Base(search)
      BY <1>2, <2>10, <2>20 DEF StageInv
    <3>2. i \in Seen \/ i \in excused \/ log[i].w \in shut \/ AfterCursor(i)
      BY <1>2, <2>20 DEF DueInv
    <3>3. QED
      BY <1>2, <2>20, <3>1, <3>2 DEF ReadInv
  <2>21. DueInv'
    <3> SUFFICES ASSUME ByTime, at' = "page", ask.via = "api" \/ ask.words = 0,
                        NEW i \in due
                 PROVE  i \in Seen' \/ i \in excused' \/ log[i].w \in shut' \/ AfterCursor(i)'
      BY <1>1, <1>6, <2>7 DEF DueInv
    <3>1. CASE i \in Seen \/ i \in excused \/ log[i].w \in shut
      BY <2>6, <3>1
    <3>2. CASE i \in got \/ Pending(i) \/ LeftOut(i)
      <4>1. P # {} /\ cursor' # None /\ cursor'.t = log[l].t
        BY <2>1
      <4>2. \/ i \in P \/ i \in Ties(l) \/ i \in Overtaken(l)
            \/ IF ask.order = "desc" THEN log[i].t < log[l].t ELSE log[i].t > log[l].t
        BY <3>2, <4>1, Accounted
      <4>3. (IF ask.order = "desc" THEN log[i].t < log[l].t ELSE log[i].t > log[l].t)
               => AfterCursor(i)'
        BY <1>1, <4>1 DEF AfterCursor, ByTime
      <4>4. QED
        BY <2>6, <4>1, <4>2, <4>3
    <3>3. QED
      BY <2>20, <3>1, <3>2
  <2>22. PagesDescend'
    <3> SUFFICES ASSUME ByTime, NEW j \in 1..n + 1, NEW k \in 1..n + 1, j < k,
                        NEW a \in pages'[j].rows, NEW b \in pages'[k].rows
                 PROVE  Before(ask.order, a, b)
      BY <1>1, <2>4, <2>7, <2>9 DEF PagesDescend
    <3>1. j \in 1..n
      BY <2>4
    <3>2. pages'[j] = pages[j] /\ a \in Seen
      BY <2>4, <3>1 DEF Seen
    <3>3. CASE k = n + 1
      <4>1. b \in got
        BY <1>4, <2>5, <3>3
      <4>2. QED
        BY <2>18, <3>2, <4>1
    <3>4. CASE k # n + 1
      <4>1. k \in 1..n
        BY <2>4, <3>4
      <4>2. b \in pages[k].rows /\ a \in pages[j].rows
        BY <2>4, <3>2, <4>1
      <4>3. QED
        BY <1>2, <2>4, <3>1, <4>1, <4>2 DEF PagesDescend
    <3>5. QED
      BY <3>3, <3>4
  <2>23. MissesExplained'
    <3> SUFFICES ASSUME ByTime, at' = "end", ask.via = "api" \/ ask.words = 0, NEW i \in due
                 PROVE  i \in Seen' \/ i \in excused' \/ log[i].w \in shut'
      BY <1>1, <2>7 DEF MissesExplained
    <3>1. P = got /\ ~(Cardinality(got) >= Needed)
      BY <1>3, <1>6, <2>2
    <3>2. visited = Len(listing)
      BY <3>1 DEF Finished
    <3>3. ~Pending(i) /\ ~LeftOut(i)
      <4>1. visited + 1..Len(listing) = {}
        BY <1>2, <3>2, ListingTyped
      <4>2. QED
        BY <3>1, <4>1 DEF Pending, LeftOut
    <3>4. i \in Seen \/ i \in excused \/ log[i].w \in shut \/ i \in got
      BY <2>20, <3>3
    <3>5. QED
      BY <2>6, <3>1, <3>4
  <2>24. FacetsCoverPages'
    <3> SUFFICES ASSUME facets' # None, ~facets'.truncated, ~facets'.sampled,
                        NEW v \in Services, NEW shown,
                        shown = {i \in Seen \cup P : EventService[i] = v
                                                     /\ log[i].w \notin shut \cup Closed},
                        shown # {}
                 PROVE  v \in DOMAIN facets'.values /\ facets'.values[v] >= Cardinality(shown)
      BY <1>1, <2>6 DEF FacetsCoverPages
    <3>1. Faceted /\ facets' = buildFacetResult
      OBVIOUS
    <3>2. QED
      BY <1>4, <3>1, FacetsOfPage
  <2>25. CountHonest'
    BY <1>1, <2>10 DEF CountHonest
  <2>26. QED
    BY <2>12, <2>13, <2>14, <2>15, <2>16, <2>17, <2>19, <2>21, <2>22, <2>23, <2>24, <2>25
       DEF Inv
<1>7. QED
  BY <1>3, <1>6

LEMMA RunReturnsStep == ASSUME Inv, RunReturns PROVE Inv'
<1>1. /\ at = "read" /\ Finished /\ shut' = shut \cup Closed
      /\ UNCHANGED <<store, ask, search, listing, visited, got, due>>
  BY DEF RunReturns
<1>2. CASE FacetFails
  <2>1. at' = "failed" /\ UNCHANGED <<cursor, pages, facets, counted, excused>>
    BY <1>2 DEF RunReturns, result
  <2>2. visited' = visited /\ visited \in Nat /\ visited <= Len(listing)
    BY <1>1, ListingTyped DEF Inv
  <2>3. \A k \in visited + 1..visited' : listing[k].w \in shut'
    BY <2>2
  <2>4. QED
    BY <1>1, <2>1, <2>2, <2>3, FoundShut
<1>3. CASE ~FacetFails
  <2> DEFINE evicted == cursor # None /\ listing[Place(listing, cursor.w)].state = "archived"
  <2>1. PICK P \in Page(got) :
          /\ pages' = Append(pages, [rows |-> P, search |-> search, evicted |-> evicted])
          /\ excused' = IF P = {} THEN excused
                        ELSE excused \cup Ties(LastRow(P)) \cup Overtaken(LastRow(P))
          /\ IF Cardinality(got) > Limit THEN cursor' = Cursor(P, got) /\ at' = "page"
                                         ELSE cursor' = None /\ at' = "end"
          /\ facets' = IF Faceted THEN buildFacetResult ELSE None
          /\ UNCHANGED counted
    BY <1>3 DEF RunReturns
  <2>2. evicted \in BOOLEAN
    OBVIOUS
  <2> HIDE DEF evicted
  <2>3. QED
    BY <1>1, <2>1, <2>2, PageReturned
<1>4. QED
  BY <1>2, <1>3

-----------------------------------------------------------------------------
(* The theorems. *)

LEMMA InvInit == Init => Inv
<1> SUFFICES ASSUME Init PROVE Inv
  OBVIOUS
<1>1. /\ times \in Timelines /\ log = <<>> /\ seg = [w \in Windows |-> Range0(w)]
      /\ at = "idle" /\ search = 0 /\ cursor = None
      /\ listing = <<>> /\ visited = 0 /\ got = {}
      /\ pages = <<>> /\ facets = None /\ counted = None
      /\ due = {}
  BY DEF Init
<1>2. DOMAIN log = {} /\ Len(log) = 0 /\ DOMAIN listing = {} /\ Len(listing) = 0
      /\ DOMAIN pages = {}
  BY <1>1
<1>3. Seen = {} /\ Known = {} /\ Marked = {}
  <2>1. Seen = {}
    BY <1>2 DEF Seen
  <2>2. Known = {}
    BY <1>1, <2>1 DEF Known
  <2>3. QED
    BY <1>2, <2>1, <2>2 DEF Marked
<1>4. \A w \in Windows : seg[w].state = "none" /\ Held(w) = {}
  BY <1>1, <1>2 DEF Range0, Held
<1>5. TypeInv
  <2>1. seg \in [Windows -> [state : States, from : Times, to : Times]]
    <3> SUFFICES ASSUME NEW w \in Windows
                 PROVE  Range0(w) \in [state : States, from : Times, to : Times]
      BY <1>1
    <3>1. Range0(w).from \in Times /\ Range0(w).to \in Times
      BY RangeTimes
    <3>2. Range0(w) = [state |-> "none", from |-> Range0(w).from, to |-> Range0(w).to]
      BY DEF Range0
    <3>3. QED
      BY <3>1, <3>2 DEF States
  <2>2. QED
    BY <1>1, <1>2, <2>1, Typed DEF TypeInv
<1>6. StoreInv /\ RangeInv /\ ListingInv /\ ListedInv
  BY <1>1, <1>2, <1>3, <1>4 DEF StoreInv, RangeInv, ListingInv, ListedInv
<1>7. StageInv /\ GotInv /\ ReadInv /\ CursorInv /\ DueInv
  BY <1>1, <1>3 DEF StageInv, GotInv, ReadInv, CursorInv, DueInv
<1>8. PagesDescend /\ MissesExplained /\ FacetsCoverPages /\ CountHonest
  BY <1>1, <1>2 DEF PagesDescend, MissesExplained, FacetsCoverPages, CountHonest
<1>9. QED
  BY <1>5, <1>6, <1>7, <1>8 DEF Inv

LEMMA InvNext == Inv /\ [Next]_vars => Inv'
<1> SUFFICES ASSUME Inv, [Next]_vars PROVE Inv'
  OBVIOUS
<1>1. TypeInv /\ StoreInv
  BY DEF Inv
<1>2. CASE Environment
  <2>1. PICK w \in Windows : Insert(w) \/ Seal(w) \/ Evict(w, "archived") \/ Evict(w, "lost")
    BY <1>2 DEF Environment
  <2>2. /\ Grows /\ TypeInv' /\ StoreInv'
        /\ \A v \in Windows : Ranged(v) => Ranged(v)'
    BY <1>1, <2>1, InsertStep, SealStep, EvictStep
  <2>3. QED
    BY <2>2, GrowsKeeps
<1>3. CASE \E order \in Orders :
             \/ Query(order, 0, "api")
             \/ \E via \in {"api", "ui"} : Query(order, 1, via)
  BY <1>3, QueryStep
<1>4. CASE \E words \in 0..1 : Count(words)
  BY <1>4, CountStep
<1>5. CASE LoadMore \/ Retry \/ Run
  BY <1>5, LoadMoreStep, RetryStep, ReadSegmentStep, RunReturnsStep, CountReturnsStep DEF Run
<1>6. CASE UNCHANGED vars
  <2>1. Grows
    BY <1>6 DEF vars, store, result, request, Grows
  <2>2. log' = log /\ seg' = seg /\ times' = times
    BY <1>6 DEF vars, store
  <2>3. log \in Seq([t : Times, w : Windows]) /\ Len(log) <= MaxEvents
        /\ seg \in [Windows -> [state : States, from : Times, to : Times]]
    BY <1>1 DEF TypeInv
  <2>4. TypeInv'
    BY <1>1, <2>1, <2>2, <2>3, GrowsTyped
  <2>5. StoreInv' /\ \A v \in Windows : Ranged(v) => Ranged(v)'
    BY <1>1, <2>2 DEF StoreInv, Held, Ranged, SegmentsInRange
  <2>6. QED
    BY <2>1, <2>4, <2>5, GrowsKeeps
<1>7. QED
  BY <1>2, <1>3, <1>4, <1>5, <1>6 DEF Next

\* Listings, pages, cursor and counts fit together at every moment (Run, Count).
THEOREM PagingInvAlways == Spec => []Inv
BY InvInit, InvNext, PTL DEF Spec

-----------------------------------------------------------------------------
(* A chain of pages is no longer than its rows. *)

\* Steps that return no page.
LEMMA ShortFrame ==
    ASSUME ChainShort, pages' = pages, cursor' = cursor,
           ask' = ask \/ (pages = <<>> /\ cursor = None)
    PROVE  ChainShort'
<1>1. Seen' = Seen
  BY DEF Seen
<1>2. \A k \in DOMAIN pages' :
         k < Len(pages') \/ cursor' # None => Cardinality(pages'[k].rows) = Limit
  BY DEF ChainShort
<1>3. ASSUME ByTime'
      PROVE  Len(pages') * Limit
                <= Cardinality(Seen') + (IF cursor' = None THEN Limit ELSE 0)
  <2>1. CASE ask' = ask
    BY <1>1, <1>3, <2>1 DEF ChainShort, ByTime
  <2>2. CASE pages = <<>> /\ cursor = None
    <3>1. Seen = {} /\ Len(pages) = 0
      BY <2>2 DEF Seen
    <3>2. Cardinality(Seen') = 0
      BY <1>1, <3>1, FS_EmptySet
    <3>3. QED
      BY <2>2, <3>1, <3>2, Typed
  <2>3. QED
    BY <2>1, <2>2
<1>4. QED
  BY <1>2, <1>3 DEF ChainShort

\* A page that is not the last is full.
LEMMA FullPage ==
    ASSUME NEW S, IsFiniteSet(S), Cardinality(S) > Limit, NEW P \in Page(S)
    PROVE  Cardinality(P) = Limit
<1>1. P \subseteq S /\ Cardinality(P) = Min({Limit, Cardinality(S)})
  BY DEF Page
<1>2. Cardinality(S) \in Nat /\ Limit \in Nat
  BY FS_CardinalityType, Typed
<1>3. Cardinality(P) <= Limit /\ (P = S \/ Cardinality(P) = Limit)
  BY <1>1, <1>2, AsManyAs
<1>4. QED
  BY <1>2, <1>3

\* The rows read for a page are on none of the pages before it (compileCursor).
LEMMA NewRows ==
    ASSUME Inv, at = "read", ByTime
    PROVE  got \cap Seen = {}
<1>1. CASE cursor = None
  <2>1. pages = <<>>
    BY <1>1 DEF Inv, StageInv
  <2>2. QED
    BY <2>1 DEF Seen
<1>2. CASE cursor # None
  <2> SUFFICES ASSUME NEW i \in got, i \in Seen PROVE FALSE
    OBVIOUS
  <2>1. AfterCursor(i)
    BY DEF Inv, GotInv
  <2>2. IF ask.order = "desc" THEN log[i].t >= cursor.t ELSE log[i].t <= cursor.t
    BY <1>2 DEF Inv, CursorInv
  <2>3. i \in DOMAIN log /\ cursor.t \in Times
    BY <1>2 DEF Inv, TypeInv
  <2>4. log[i].t \in Nat /\ cursor.t \in Nat
    BY <2>3, LogTyped, Typed DEF Inv
  <2>5. QED
    BY <1>2, <2>1, <2>2, <2>4 DEF AfterCursor, ByTime
<1>3. QED
  BY <1>1, <1>2

LEMMA ShortPage ==
    ASSUME Inv, ChainShort, at = "read", NEW P \in Page(got), NEW evicted \in BOOLEAN,
           pages' = Append(pages, [rows |-> P, search |-> search, evicted |-> evicted]),
           cursor' = None \/ Cardinality(got) > Limit, UNCHANGED ask
    PROVE  ChainShort'
<1> DEFINE page == [rows |-> P, search |-> search, evicted |-> evicted]
           E == [rows : SUBSET DOMAIN log, search : Nat, evicted : BOOLEAN]
           n == Len(pages)
<1>1. TypeInv /\ StageInv
  BY DEF Inv
<1>2. IsFiniteSet(got) /\ P \subseteq got /\ got \subseteq DOMAIN log
      /\ Cardinality(got) \in Nat /\ Limit \in Nat
  BY <1>1, GotTyped, PageOf, Typed DEF TypeInv
<1>3. pages \in Seq(E) /\ page \in E
  BY <1>1, <1>2 DEF TypeInv
<1>4. /\ n \in Nat /\ DOMAIN pages = 1..n /\ DOMAIN pages' = 1..n + 1 /\ Len(pages') = n + 1
      /\ pages'[n + 1] = page /\ \A k \in 1..n : pages'[k] = pages[k]
  <2>1. pages' = Append(pages, page)
    OBVIOUS
  <2> HIDE DEF E, page, n
  <2>2. pages' \in Seq(E) /\ Len(pages') = Len(pages) + 1 /\ pages'[Len(pages) + 1] = page
        /\ \A k \in 1..Len(pages) : pages'[k] = pages[k]
    BY <1>3, <2>1, AppendProperties
  <2>3. Len(pages) \in Nat /\ DOMAIN pages = 1..Len(pages) /\ DOMAIN pages' = 1..Len(pages')
    BY <1>3, <2>2
  <2>4. QED
    BY <2>2, <2>3 DEF n
<1>5. pages'[n + 1].rows = P
  BY <1>4
<1>6. n = 0 \/ cursor # None
  <2>1. CASE cursor = None
    <3>1. pages = <<>>
      BY <1>1, <2>1 DEF StageInv
    <3>2. QED
      BY <3>1
  <2>2. QED
    BY <2>1
<1> HIDE DEF page, n
<1>7. Seen' = Seen \cup P
  <2>1. n + 1 \in 1..n + 1 /\ \A k \in 1..n + 1 : k = n + 1 \/ k \in 1..n
    BY <1>4
  <2>2. 1..n \subseteq 1..n + 1
    BY <1>4
  <2>3. QED
    BY <1>4, <1>5, <2>1, <2>2 DEF Seen
<1>8. cursor' # None => Cardinality(P) = Limit
  BY <1>2, FullPage
<1>9. \A k \in DOMAIN pages' :
         k < Len(pages') \/ cursor' # None => Cardinality(pages'[k].rows) = Limit
  <2> SUFFICES ASSUME NEW k \in 1..n + 1, k < n + 1 \/ cursor' # None
               PROVE  Cardinality(pages'[k].rows) = Limit
    BY <1>4
  <2>1. CASE k = n + 1
    BY <1>4, <1>5, <1>8, <2>1
  <2>2. CASE k \in 1..n
    <3>1. cursor # None
      BY <1>4, <1>6, <2>2
    <3>2. Cardinality(pages[k].rows) = Limit
      BY <1>4, <2>2, <3>1 DEF ChainShort
    <3>3. QED
      BY <1>4, <2>2, <3>2
  <2>3. QED
    BY <1>4, <2>1, <2>2
<1>10. ASSUME ByTime'
       PROVE  Len(pages') * Limit
                 <= Cardinality(Seen') + (IF cursor' = None THEN Limit ELSE 0)
  <2>1. ByTime
    BY <1>10 DEF ByTime
  <2>2. IsFiniteSet(Seen) /\ IsFiniteSet(P) /\ Cardinality(Seen) \in Nat /\ Cardinality(P) \in Nat
    <3>1. IsFiniteSet(Seen)
      BY <1>1, SeenTyped, LogTyped, FS_Subset
    <3>2. IsFiniteSet(P)
      BY <1>2, FS_Subset
    <3>3. QED
      BY <3>1, <3>2, FS_CardinalityType
  <2>3. Seen \cap P = {}
    BY <1>2, <2>1, NewRows
  <2>4. Cardinality(Seen') = Cardinality(Seen) + Cardinality(P)
    <3>1. Cardinality(Seen \cup P) = Cardinality(Seen) + Cardinality(P) - Cardinality(Seen \cap P)
      BY <2>2, FS_Union
    <3>2. Cardinality(Seen \cap P) = 0
      BY <2>3, FS_EmptySet
    <3>3. QED
      BY <1>7, <2>2, <3>1, <3>2
  <2>5. n * Limit \in Nat /\ n * Limit <= Cardinality(Seen)
    <3>1. CASE n = 0
      BY <1>2, <2>2, <3>1
    <3>2. CASE cursor # None
      <4>1. n * Limit <= Cardinality(Seen)
        BY <2>1, <2>2, <3>2 DEF ChainShort, n
      <4>2. QED
        BY <1>2, <1>4, <4>1
    <3>3. QED
      BY <1>6, <3>1, <3>2
  <2>6. (n + 1) * Limit = n * Limit + Limit
    BY <1>2, <1>4
  <2>7. (n + 1) * Limit <= Cardinality(Seen') + (IF cursor' = None THEN Limit ELSE 0)
    BY <1>2, <1>8, <2>2, <2>4, <2>5, <2>6
  <2>8. QED
    BY <1>4, <2>7
<1>11. QED
  BY <1>9, <1>10 DEF ChainShort

\* Each page uses up rows of its own, whatever falls between the pages (Run).
THEOREM ChainShortAlways == Spec => []ChainShort
<1>1. Init => ChainShort
  <2> SUFFICES ASSUME Init PROVE ChainShort
    OBVIOUS
  <2>1. pages = <<>> /\ ask = None
    BY DEF Init
  <2>2. QED
    BY <2>1 DEF ChainShort, ByTime
<1>2. Inv /\ ChainShort /\ [Next]_vars => ChainShort'
  <2> SUFFICES ASSUME Inv, ChainShort, [Next]_vars PROVE ChainShort'
    OBVIOUS
  <2>1. CASE Environment \/ LoadMore \/ Retry \/ ReadSegment \/ CountReturns \/ UNCHANGED vars
    <3>1. pages' = pages /\ cursor' = cursor /\ ask' = ask
      BY <2>1 DEF Environment, Insert, Seal, Evict, LoadMore, Retry, ReadSegment, CountReturns,
                  vars, result
    <3>2. QED
      BY <3>1, ShortFrame
  <2>2. CASE (\E order \in Orders : \/ Query(order, 0, "api")
                                    \/ \E via \in {"api", "ui"} : Query(order, 1, via))
             \/ \E words \in 0..1 : Count(words)
    <3>1. at = "idle" /\ pages' = pages /\ cursor' = cursor
      BY <2>2 DEF Query, Count, result
    <3>2. pages = <<>> /\ cursor = None
      BY <3>1 DEF Inv, StageInv
    <3>3. QED
      BY <3>1, <3>2, ShortFrame
  <2>3. CASE RunReturns
    <3>1. CASE FacetFails
      <4>1. pages' = pages /\ cursor' = cursor /\ ask' = ask
        BY <2>3, <3>1 DEF RunReturns, result
      <4>2. QED
        BY <4>1, ShortFrame
    <3>2. CASE ~FacetFails
      <4> DEFINE evicted == cursor # None /\ listing[Place(listing, cursor.w)].state = "archived"
      <4>1. PICK P \in Page(got) :
              /\ pages' = Append(pages, [rows |-> P, search |-> search, evicted |-> evicted])
              /\ cursor' = None \/ Cardinality(got) > Limit
        BY <2>3, <3>2 DEF RunReturns
      <4>2. evicted \in BOOLEAN /\ at = "read" /\ ask' = ask
        BY <2>3 DEF RunReturns
      <4> HIDE DEF evicted
      <4>3. QED
        BY <4>1, <4>2, ShortPage
    <3>3. QED
      BY <3>1, <3>2
  <2>4. QED
    BY <2>1, <2>2, <2>3 DEF Next, Run
<1>3. QED
  BY <1>1, <1>2, PagingInvAlways, PTL DEF Spec

\* A client that sorts by time never comes to the bound on pages: while there
\* is a next page, those returned hold no more rows than there are events (Run).
THEOREM ChainEndsInTime ==
    Spec => [](ByTime /\ at = "page" => Len(pages) * Limit <= MaxEvents)
<1>1. Inv /\ ChainShort => (ByTime /\ at = "page" => Len(pages) * Limit <= MaxEvents)
  <2> SUFFICES ASSUME Inv, ChainShort, ByTime, at = "page"
               PROVE  Len(pages) * Limit <= MaxEvents
    OBVIOUS
  <2>1. TypeInv /\ cursor # None
    BY DEF Inv, StageInv
  <2>2. Len(pages) * Limit <= Cardinality(Seen) + 0
    BY <2>1 DEF ChainShort
  <2>3. Len(log) \in Nat /\ DOMAIN log = 1..Len(log) /\ Len(log) <= MaxEvents
    BY <2>1 DEF TypeInv
  <2>4. /\ IsFiniteSet(1..Len(log)) /\ Cardinality(1..Len(log)) = Len(log)
    <3>1. PICK n \in Nat : n = Len(log)
      BY <2>3
    <3>2. 1 \in Int /\ n \in Int
      BY <3>1
    <3>3. IsFiniteSet(1..n) /\ Cardinality(1..n) = IF 1 > n THEN 0 ELSE n - 1 + 1
      BY <3>2, FS_Interval
    <3>4. QED
      BY <3>1, <3>3
  <2>5. Cardinality(Seen) <= Len(log) /\ Cardinality(Seen) \in Nat
    BY <2>1, <2>3, <2>4, SeenTyped, FS_Subset, FS_CardinalityType
  <2>6. Len(pages) \in Nat
    BY <2>1 DEF TypeInv
  <2>7. Len(pages) * Limit \in Nat
    BY <2>6, Typed
  <2>8. QED
    BY <2>2, <2>3, <2>5, <2>7, Typed
<1>2. QED
  BY <1>1, PagingInvAlways, ChainShortAlways, PTL

\* However events, seals and evictions fall between the pages, every row of a
\* page comes strictly after every row of the pages before it, and a page holds
\* no more than was asked for (executor.go: Run, compileCursor).
THEOREM PagesSoundAlways == Spec => []PagesSound
<1>1. Inv => TypeOK /\ PagesDescend
  <2> SUFFICES ASSUME Inv PROVE TypeOK
    BY DEF Inv
  <2>1. TypeInv /\ GotInv
    BY DEF Inv
  <2>2. \A w \in Windows : seg[w].from \in Times /\ seg[w].to \in Times
    BY <2>1 DEF TypeInv
  <2>3. cursor = None \/ cursor.w \in Windows
    BY <2>1 DEF TypeInv
  <2>4. QED
    BY <2>1, <2>2, <2>3 DEF TypeOK, TypeInv, GotInv
<1>2. QED
  BY <1>1, PagingInvAlways, ChainShortAlways, PTL DEF PagesSound

\* A row that was due and is on no page was sealed or evicted away, ties with
\* the last row of a page, or came late and was overtaken (compileCursor,
\* orderSegments).
THEOREM MissesExplainedAlways == Spec => []MissesExplained
<1>1. Inv => MissesExplained
  BY DEF Inv
<1>2. QED
  BY <1>1, PagingInvAlways, PTL

\* The facets count every row shown so far, and a count that says exact left
\* out nothing it could read (computeFacets, Count).
THEOREM ResultsHonestAlways == Spec => []ResultsHonest
<1>1. Inv => ResultsHonest
  BY DEF Inv, ResultsHonest
<1>2. QED
  BY <1>1, PagingInvAlways, PTL
=============================================================================
