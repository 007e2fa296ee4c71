---------------------------- MODULE QueryPaging ----------------------------
(***************************************************************************)
(* Reading a result page by page: Executor.Run with its limit, its sort    *)
(* and its cursor, Executor.Count, the facets of a page, and the two       *)
(* clients that ask for the next page, the JSON API and the "load more"    *)
(* button of the user interface.  Between two pages, and between two       *)
(* segments of one page, events are ingested (late ones into a newer       *)
(* segment), segments are sealed and evicted.                              *)
(*                                                                         *)
(* A segment is named by its window.  An event is named by its place in    *)
(* the log; EventService and EventWords give the two things a query here   *)
(* looks at, a facet field and how many times in a row the searched word   *)
(* stands in the text.                                                     *)
(***************************************************************************)
EXTENDS Naturals, Sequences, FiniteSets, FiniteSetsExt, SequencesExt

CONSTANTS
    MaxWindow,      \* bound: windows 0..MaxWindow
    WindowLength,   \* timestamps in a window
    From, To,       \* time range of the request
    Timelines,      \* timestamps of the events, in the order of their arrival
    EventService,   \* Seq: facet value of the i-th event, None when NULL
    EventWords,     \* Seq: occurrences in a row of the searched word
    None,
    Limit,          \* rows of a page
    LimitGuard,     \* where Count stops
    FacetSampleSize, CardinalityCap,
    MaxEvents, MaxPages, MaxEvictions   \* bounds

Windows == 0..MaxWindow
Times == 0..((MaxWindow + 1) * WindowLength - 1)
Window(t) == t \div WindowLength
Services == {EventService[i] : i \in 1..MaxEvents} \ {None}

ASSUME QueryPagingAssumption ==
    /\ MaxWindow \in Nat /\ WindowLength \in Nat \ {0}
    /\ Timelines \subseteq [1..MaxEvents -> Times]
    /\ From \in Times /\ To \in Times /\ From < To
    /\ Limit \in Nat \ {0} /\ LimitGuard \in Nat \ {0}
    /\ FacetSampleSize \in Nat \ {0} /\ CardinalityCap \in Nat \ {0}
    /\ MaxEvents \in Nat
    /\ MaxEvents = Len(EventService) /\ MaxEvents = Len(EventWords)
    /\ \A i \in 1..MaxEvents : EventService[i] \in Nat \cup {None}
    /\ None \notin [t : Times, w : Windows]
    /\ MaxPages > MaxEvents

VARIABLES
    times,      \* the timeline of this behaviour
    log,        \* the events written: timestamp t, segment w
    seg,        \* catalog rows: state, time_start, time_end
    ask,        \* the request: order, search, via (api, ui), None before it
    at,         \* where the request is
    search,     \* how often the word is repeated in the search of this page
    cursor,     \* cursor of the next page: timestamp and segment, or None
    listing,    \* the rows listed, in reading order, with the state they had
    visited,    \* how many of them were read
    got,        \* rows of the result so far
    pages,      \* pages returned: their rows, the search they answer, whether
                \* the segment of their cursor had been evicted
    facets,     \* facet result of the last page, None before one
    counted,    \* answer of Count, None before one
    due,        \* matching events that could be read at the first listing
    shut,       \* segments that could not be read at some point since
    excused     \* events a page may leave out for good (see RunReturns)

store  == <<times, log, seg>>
result == <<pages, facets, counted, excused>>
vars == <<store, ask, at, search, cursor, listing, visited, got, result,
          due, shut>>

Range0(w) == [state |-> "none", from |-> w * WindowLength,
              to |-> (w + 1) * WindowLength - 1]

Init ==
    /\ times \in Timelines /\ log = << >> /\ seg = [w \in Windows |-> Range0(w)]
    /\ ask = None /\ at = "idle" /\ search = 0 /\ cursor = None
    /\ listing = << >> /\ visited = 0 /\ got = {}
    /\ pages = << >> /\ facets = None /\ counted = None
    /\ due = {} /\ shut = {} /\ excused = {}

(***************************************************************************)
(* The store.  An event goes to the segment of its window, or, when that   *)
(* one is no longer open, to a newer one that is.                          *)
(***************************************************************************)
Held(w) == {i \in DOMAIN log : log[i].w = w}

Insert(w) ==
    /\ Len(log) < MaxEvents
    /\ LET t == times[Len(log) + 1]
       IN  /\ \/ w = Window(t) /\ seg[w].state \in {"none", "active"}
              \/ /\ w > Window(t) /\ seg[w].state = "active"
                 /\ seg[Window(t)].state # "active"
           /\ log' = Append(log, [t |-> t, w |-> w])
    /\ seg' = [seg EXCEPT ![w].state = "active"]
    /\ UNCHANGED <<times, ask, at, search, cursor, listing, visited, got, result,
                   due, shut>>

\* MarkSegmentSealed: the row now spans the timestamps the segment holds.
Seal(w) ==
    /\ seg[w].state = "active"
    /\ LET ts == {log[i].t : i \in Held(w)}
       IN  seg' = [seg EXCEPT ![w] = [state |-> "sealed",
                                      from |-> Min(ts), to |-> Max(ts)]]
    /\ UNCHANGED <<times, log, ask, at, search, cursor, listing, visited, got,
                   result, due, shut>>

\* Retention removes the file: the row stays, as archived, when the archive
\* holds a copy, and is marked lost when it does not.
Evict(w, next) ==
    /\ seg[w].state = "sealed"
    /\ Cardinality({v \in Windows : seg[v].state \in {"archived", "lost"}})
          < MaxEvictions
    /\ seg' = [seg EXCEPT ![w].state = next]
    /\ UNCHANGED <<times, log, ask, at, search, cursor, listing, visited, got,
                   result, due, shut>>

Readable(w) == seg[w].state \in {"active", "sealed"}
Gone == {w \in Windows : seg[w].state \in {"archived", "lost"}}

(***************************************************************************)
(* What a page selects and in which order.                                 *)
(***************************************************************************)
\* a sorts strictly before b.  Among services, the database puts NULL last
\* and compareField reads it as the empty string, which is first.
ServiceBefore(null, a, b) ==
    CASE a = None -> null = "first" /\ b # None
      [] b = None -> null = "last"
      [] OTHER    -> a < b

OrderBefore(order, null, a, b) ==
    CASE order = "desc" -> log[a].t > log[b].t
      [] order = "asc"  -> log[a].t < log[b].t
      [] OTHER          -> ServiceBefore(null, EventService[a], EventService[b])

SqlBefore(a, b) == OrderBefore(ask.order, "last", a, b)
Before(order, a, b) == OrderBefore(order, "first", a, b)

\* CombineAnd(timeC, searchC): filters work like the search here.
Base(n) == {i \in DOMAIN log : log[i].t \in From..To /\ EventWords[i] >= n}

\* Mutant: the rows at the cursor's own timestamp are selected again.
AfterCursorInclusive(i) ==
    \/ cursor = None
    \/ ask.order = "service"
    \/ ask.order = "desc" /\ log[i].t <= cursor.t
    \/ ask.order = "asc" /\ log[i].t >= cursor.t

\* compileCursor.  Its second disjunct compares the segment id of the cursor
\* with itself and holds of no row; a sort that does not start with the
\* timestamp compiles to nothing.
AfterCursor(i) ==
    \/ cursor = None
    \/ ask.order = "service"
    \/ ask.order = "desc" /\ log[i].t < cursor.t
    \/ ask.order = "asc" /\ log[i].t > cursor.t

Selected == {i \in Base(search) : AfterCursor(i)}

\* ORDER BY ... LIMIT n over one segment: rows that compare equal come in any
\* order.
Firsts(S, n) ==
    {B \in SUBSET S : /\ Cardinality(B) = Min({n, Cardinality(S)})
                      /\ \A b \in B, s \in S \ B : ~SqlBefore(s, b)}

Place(rows, w) == CHOOSE k \in DOMAIN rows : rows[k].w = w

\* sort.SliceStable over the rows in reading order.
Precedes(a, b) ==
    \/ Before(ask.order, a, b)
    \/ /\ ~Before(ask.order, b, a)
       /\ Place(listing, log[a].w) < Place(listing, log[b].w)

(***************************************************************************)
(* Run.  SegmentsInRange leaves out lost segments only; orderSegments      *)
(* sorts by time_start when the first sort key is the timestamp, and       *)
(* otherwise keeps the order of the catalog, newest first.                 *)
(***************************************************************************)
SegmentsInRange ==
    {w \in Windows : /\ seg[w].state \notin {"none", "lost"}
                     /\ seg[w].from <= To /\ seg[w].to >= From}

Listed == {[w |-> w, state |-> seg[w].state, start |-> seg[w].from]
              : w \in SegmentsInRange}

\* Mutant: reading order of a descending sort for every sort.
orderSegmentsDescending(order) ==
    {s \in SetToSeqs(Listed) :
        \A j \in DOMAIN s : \A i \in 1..(j - 1) : s[i].start >= s[j].start}

orderSegments(order) ==
    {s \in SetToSeqs(Listed) :
        \A j \in DOMAIN s : \A i \in 1..(j - 1) :
            IF order = "asc" THEN s[i].start <= s[j].start
                             ELSE s[i].start >= s[j].start}

\* A cursor whose segment is not listed any more is refused.
RunLists(order) ==
    /\ shut' = shut \cup Gone
    /\ IF cursor # None /\ cursor.w \notin SegmentsInRange
       THEN /\ at' = "invalidated"
            /\ UNCHANGED <<listing, visited, got>>
       ELSE /\ at' = "read"
            /\ listing' \in orderSegments(order)
            /\ visited' = 0 /\ got' = {}

Query(order, words, via) ==
    /\ at = "idle"
    /\ ask' = [order |-> order, words |-> words, via |-> via]
    /\ search' = words
    /\ RunLists(order)
    /\ due' = {i \in Base(words) : Readable(log[i].w)
                                   /\ log[i].w \in SegmentsInRange}
    /\ UNCHANGED <<store, cursor, result>>

\* The API client sends its request again with the cursor.  The button sends
\* the saved request, whose search already holds the words of q, and
\* toRequest appends the words of q once more.
NextSearch == IF ask.via = "ui" THEN search + ask.words ELSE search

LoadMore ==
    /\ at = "page" /\ Len(pages) < MaxPages
    /\ search' = NextSearch
    /\ RunLists(ask.order)
    /\ UNCHANGED <<store, ask, cursor, result, due>>

\* The same request after an internal error.
Retry ==
    /\ at = "failed"
    /\ RunLists(ask.order)
    /\ UNCHANGED <<store, ask, search, cursor, result, due>>

Needed == IF at = "count" THEN LimitGuard ELSE Limit + 1
Finished == visited = Len(listing) \/ Cardinality(got) >= Needed

\* Rows of one segment, at most limit of them; a count selects in any order.
Rows(w, limit) ==
    IF at = "count"
    THEN LET S == Base(search) \cap Held(w)
         IN  kSubset(Min({limit, Cardinality(S)}), S)
    ELSE Firsts(Selected \cap Held(w), limit)

\* querySegment and countSegment.  A segment listed active that is no longer
\* open gives no rows, one without a local file neither; a file that went
\* between the listing and the read fails the whole request.
ReadSegment ==
    /\ at \in {"read", "count"} /\ ~Finished
    /\ visited' = visited + 1
    /\ LET row == listing[visited + 1]
       IN  IF row.state = seg[row.w].state /\ Readable(row.w)
           THEN /\ \E B \in Rows(row.w, Needed - Cardinality(got)) : got' = got \cup B
                /\ UNCHANGED <<at, shut>>
           ELSE /\ shut' = shut \cup {row.w}
                /\ at' = IF row.state # "sealed" THEN at
                         ELSE IF at = "count" THEN "end" ELSE "failed"
                /\ UNCHANGED got
    /\ UNCHANGED <<store, ask, search, cursor, listing, result, due>>

(***************************************************************************)
(* Facets: selectFacetSample, computeFacets and buildFacetResult.  The     *)
(* cursor is not part of their filter.                                     *)
(***************************************************************************)
Candidates == {k \in DOMAIN listing : listing[k].state \in {"active", "sealed"}}

Newer(j, k) == \/ listing[j].start > listing[k].start
               \/ listing[j].start = listing[k].start /\ j < k

selectFacetSample ==
    {k \in Candidates :
        Cardinality({j \in Candidates : Newer(j, k)}) < FacetSampleSize}

\* Mutant: the facets are computed with the cursor of the page.
FacetRowsPage(v) ==
    {i \in Selected :
        /\ EventService[i] = v
        /\ \E k \in selectFacetSample :
              listing[k].w = log[i].w /\ listing[k].state = seg[log[i].w].state}

\* Rows the sample holds for a value; an active segment that was closed since
\* gives none.
FacetRows(v) ==
    {i \in Base(search) :
        /\ EventService[i] = v
        /\ \E k \in selectFacetSample :
              listing[k].w = log[i].w /\ listing[k].state = seg[log[i].w].state}

buildFacetResult ==
    LET counts == [v \in Services |-> Cardinality(FacetRows(v))]
        found  == {v \in Services : counts[v] > 0}
        top    == {v \in found :
                     Cardinality({u \in found : \/ counts[u] > counts[v]
                                                \/ counts[u] = counts[v] /\ u < v})
                       < CardinalityCap}
    IN  [values |-> [v \in top |-> counts[v]],
         truncated |-> Cardinality(found) > CardinalityCap,
         sampled |-> Cardinality(Candidates) > FacetSampleSize]

\* The request the button sends names no facets.
Faceted == ask.via = "api" \/ pages = << >>

FacetFails == /\ Faceted
              /\ \E k \in selectFacetSample :
                    listing[k].state = "sealed" /\ seg[listing[k].w].state # "sealed"

Closed == {listing[k].w : k \in {j \in DOMAIN listing :
                                   listing[j].state # seg[listing[j].w].state}}

\* The last row of a page becomes the cursor when a row is left over.
Page(S) == {P \in SUBSET S :
              /\ Cardinality(P) = Min({Limit, Cardinality(S)})
              /\ \A p \in P, s \in S \ P : ~Precedes(s, p)}

LastRow(P) == CHOOSE p \in P : \A q \in P : ~Precedes(p, q)

Cursor(P, S) == LET l == LastRow(P) IN [t |-> log[l].t, w |-> log[l].w]

\* Events that should have come before the last row of a page although their
\* segment comes after the segment of that row: one of the two came late.
Overtaken(l) ==
    {i \in due : /\ Before(ask.order, i, l)
                 /\ log[i].w \in {listing[k].w : k \in DOMAIN listing}
                 /\ LET mine   == listing[Place(listing, log[i].w)].start
                        others == listing[Place(listing, log[l].w)].start
                    IN  IF ask.order = "asc" THEN mine >= others ELSE mine <= others}

Ties(l) == {i \in due : log[i].t = log[l].t}

RunReturns ==
    /\ at = "read" /\ Finished
    /\ shut' = shut \cup Closed
    /\ IF FacetFails
       THEN at' = "failed" /\ UNCHANGED <<cursor, result>>
       ELSE \E P \in Page(got) :
              /\ pages' = Append(pages,
                    [rows |-> P, search |-> search,
                     evicted |-> /\ cursor # None
                                 /\ listing[Place(listing, cursor.w)].state = "archived"])
              /\ excused' = IF P = {} THEN excused
                            ELSE excused \cup Ties(LastRow(P)) \cup Overtaken(LastRow(P))
              /\ IF Cardinality(got) > Limit
                 THEN cursor' = Cursor(P, got) /\ at' = "page"
                 ELSE cursor' = None /\ at' = "end"
              /\ facets' = IF Faceted THEN buildFacetResult ELSE None
              /\ UNCHANGED counted
    /\ UNCHANGED <<store, ask, search, listing, visited, got, due>>

\* Executor.Count: segments in the order of the catalog, up to the guard.
Count(words) ==
    /\ at = "idle"
    /\ ask' = [order |-> "desc", words |-> words, via |-> "api"]
    /\ search' = words
    /\ at' = "count"
    /\ listing' \in orderSegments("desc")
    /\ shut' = Gone
    /\ due' = {i \in Base(words) : Readable(log[i].w)
                                   /\ log[i].w \in SegmentsInRange}
    /\ UNCHANGED <<store, cursor, visited, got, result>>

Exact(total) == total < LimitGuard

CountReturns ==
    /\ at = "count" /\ Finished
    /\ LET total == Cardinality(got)
       IN  counted' = [n |-> IF Exact(total) THEN total ELSE LimitGuard - 1,
                       exact |-> Exact(total)]
    /\ at' = "end"
    /\ UNCHANGED <<store, ask, search, cursor, listing, visited, got, pages,
                   facets, excused, due, shut>>

Run == ReadSegment \/ RunReturns \/ CountReturns

Environment ==
    \/ \E w \in Windows : Insert(w) \/ Seal(w) \/ Evict(w, "archived") \/ Evict(w, "lost")

Orders == {"desc", "asc", "service"}

\* The chain is over, or has come to the bound.
Over == at \in {"end", "invalidated"} \/ (at = "page" /\ Len(pages) = MaxPages)

\* Without words in the search bar the two clients are alike.
Next ==
    \/ ~Over /\ Environment
    \/ \E order \in Orders :
          \/ Query(order, 0, "api")
          \/ \E via \in {"api", "ui"} : Query(order, 1, via)
    \/ \E words \in 0..1 : Count(words)
    \/ LoadMore \/ Retry \/ Run
    \/ Over /\ UNCHANGED vars

\* The server answers what it accepted, and the client keeps asking.
Fairness == WF_vars(Run) /\ WF_vars(LoadMore) /\ WF_vars(Retry)

Spec == Init /\ [][Next]_vars /\ Fairness

(***************************************************************************)
(*                              PROPERTIES                                 *)
(***************************************************************************)
ByTime == ask # None /\ ask.order \in {"desc", "asc"}
Seen == UNION {pages[k].rows : k \in DOMAIN pages}

TypeOK ==
    /\ log \in Seq([t : Times, w : Windows])
    /\ \A w \in Windows : seg[w].from \in Times /\ seg[w].to \in Times
    /\ at \in {"idle", "read", "count", "page", "failed", "invalidated", "end"}
    /\ got \subseteq DOMAIN log
    /\ at \in {"read", "count"} => Cardinality(got) <= Needed
    /\ cursor = None \/ cursor.w \in Windows

\* Every row of a page comes strictly after every row of the pages before it,
\* whatever is ingested, sealed or evicted in between: no row is returned
\* twice and no page goes back (compileCursor, Run).
PagesDescend ==
    ByTime => \A j, k \in DOMAIN pages : j < k =>
        \A a \in pages[j].rows, b \in pages[k].rows : Before(ask.order, a, b)

\* When the last page has come, an event that matched and could be read when
\* the first was asked for is on one of them, unless its segment was sealed
\* or evicted meanwhile, it has the timestamp of the last row of a page, or
\* it sits, late, in a segment that is read after a row older than itself.
MissesExplained ==
    ByTime /\ at = "end" /\ counted = None /\ pages # << >>
    /\ (ask.via = "api" \/ ask.words = 0) =>
        \A i \in due : i \in Seen \/ i \in excused \/ log[i].w \in shut

\* The facets of a result that is neither truncated nor sampled count every
\* row shown so far whose segment could be read, the rows of earlier pages
\* included (Run: the base filter of the facets leaves the cursor out).
FacetsCoverPages ==
    /\ at \in {"page", "end"} /\ facets # None
    /\ ~facets.truncated /\ ~facets.sampled
    => \A v \in Services :
         LET shown == {i \in Seen : EventService[i] = v /\ log[i].w \notin shut}
         IN  shown # {} => /\ v \in DOMAIN facets.values
                           /\ facets.values[v] >= Cardinality(shown)

\* Count says exact only of a count that left out no event it could read, and
\* a lower bound is one (Count, limitGuard).
CountHonest ==
    counted # None =>
        /\ counted.n <= Cardinality(Base(search))
        /\ counted.exact => \A i \in due : i \in got \/ log[i].w \in shut

\* Every page but the last is full, and no row of an order by time counts for
\* two pages, so that such a client is at its last page after at most one
\* request more than the rows it saw fill (Run: rows past the limit, nextCursor).
ChainShort ==
    /\ \A k \in DOMAIN pages :
          k < Len(pages) \/ cursor # None => Cardinality(pages[k].rows) = Limit
    /\ ByTime => Len(pages) * Limit
                    <= Cardinality(Seen) + (IF cursor = None THEN Limit ELSE 0)

\* Pages that descend, within the limit, and that lead somewhere (Run).
PagesSound == TypeOK /\ PagesDescend /\ ChainShort

\* The numbers next to the rows: facets and count (facetCounts, Count).
ResultsHonest == FacetsCoverPages /\ CountHonest

\* A client that sorts by time and keeps asking comes to the last page, or is
\* told that its cursor has become invalid.
ChainEnds ==
    (at # "idle" /\ ByTime) ~> (at \in {"end", "invalidated"})

\* savedRequest "carries enough to rebuild the request on the next click".
LoadMoreAsksTheSame ==
    \A k \in DOMAIN pages : pages[k].search = ask.words

\* "Cursors invalidate if their segments are evicted".
EvictedCursorRefused == \A k \in DOMAIN pages : ~pages[k].evicted
=============================================================================
