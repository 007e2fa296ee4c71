--------------------------- MODULE QueryPagingInv ----------------------------
(***************************************************************************)
(* The inductive invariant behind the safety properties of QueryPaging.    *)
(* Its idea: a segment that was listed, or holds a row that is due or was  *)
(* returned, stays within the range of the request until it is lost, so    *)
(* the next page lists it again or finds it shut; and while a page is      *)
(* read, a row that is due and not yet got is in a segment still to come,  *)
(* or was left out by a full segment in favour of rows that come first.    *)
(***************************************************************************)
EXTENDS QueryPaging

States == {"none", "active", "sealed", "archived", "lost"}

Rows0 == [w : Windows, state : States, start : Times]

TypeInv ==
    /\ times \in Timelines
    /\ log \in Seq([t : Times, w : Windows]) /\ Len(log) <= MaxEvents
    /\ seg \in [Windows -> [state : States, from : Times, to : Times]]
    /\ at \in {"idle", "read", "count", "page", "failed", "invalidated", "end"}
    /\ at # "idle" => ask \in [order : Orders, words : 0..1, via : {"api", "ui"}]
    /\ search \in Nat
    /\ cursor \in [t : Times, w : Windows] \cup {None}
    /\ listing \in Seq(Rows0) /\ visited \in 0..Len(listing)
    /\ pages \in Seq([rows : SUBSET DOMAIN log, search : Nat, evicted : BOOLEAN])
    /\ counted \in [n : Nat, exact : BOOLEAN] \cup {None}
    /\ got \subseteq DOMAIN log /\ due \subseteq DOMAIN log

\* An event is in a segment that exists; an open one holds some, and the row
\* of a closed one spans what it holds.
StoreInv ==
    /\ \A i \in DOMAIN log : seg[log[i].w].state # "none"
    /\ \A w \in Windows : seg[w].state = "active" => Held(w) # {}
    /\ \A w \in Windows : seg[w].state \in {"sealed", "archived", "lost"} =>
          \A i \in Held(w) : log[i].t \in seg[w].from..seg[w].to

\* A listing by the request would have the segment, or nothing of it matches.
Ranged(w) ==
    \/ seg[w].state = "lost" \/ w \in SegmentsInRange
    \/ seg[w].state \in {"sealed", "archived"} /\ \A i \in Held(w) : log[i].t \notin From..To

Known == due \cup Seen \cup got

Marked == {listing[k].w : k \in DOMAIN listing} \cup {log[i].w : i \in Known}

RangeInv ==
    /\ \A i \in Known : log[i].t \in From..To
    /\ \A w \in Windows : w \in Marked => Ranged(w)

\* Each segment is listed once, in reading order.
ListingInv ==
    /\ \A j, k \in DOMAIN listing : listing[j].w = listing[k].w => j = k
    /\ \A k \in DOMAIN listing : \A j \in 1..k - 1 :
          IF ask.order = "asc" THEN listing[j].start <= listing[k].start
                               ELSE listing[j].start >= listing[k].start

\* While a page is read, what is known is in a segment listed as readable, or
\* in one that was shut.
ListedInv ==
    at \in {"read", "count"} =>
       \A i \in Known :
          \/ log[i].w \in shut
          \/ \E k \in DOMAIN listing :
                listing[k].w = log[i].w /\ listing[k].state \in {"active", "sealed"}

\* How far the request has come, and of which words it asks.
StageInv ==
    /\ at \in {"idle", "count"} => /\ pages = <<>> /\ cursor = None
                                   /\ facets = None /\ counted = None
    /\ at = "idle" => listing = <<>> /\ visited = 0 /\ got = {} /\ due = {}
    /\ at \in {"read", "failed"} /\ cursor = None => pages = <<>>
    /\ at = "page" => cursor # None
    /\ counted # None => at = "end" /\ pages = <<>> /\ facets = None
    /\ at # "idle" /\ (ask.via = "api" \/ ask.words = 0) => search = ask.words
    /\ at # "idle" => due \subseteq Base(ask.words)
    /\ at # "idle" /\ ask.via = "api" => Seen \subseteq Base(search)
    /\ at = "count" => ask.via = "api" /\ search = ask.words

\* The rows of a page: from segments already read, past the cursor.
GotInv ==
    /\ at \in {"read", "count"} =>
          /\ got \subseteq Base(search) /\ Cardinality(got) <= Needed
          /\ \A b \in got : \E k \in 1..visited : listing[k].w = log[b].w
    /\ at = "read" => \A b \in got : AfterCursor(b)

\* A row that is due and neither got nor shut is still to be read, or was left
\* out by the last segment read.
Pending(i) == \E k \in visited + 1..Len(listing) : listing[k].w = log[i].w
LeftOut(i) ==
    /\ Cardinality(got) >= Needed
    /\ visited > 0 /\ listing[visited].w = log[i].w
    /\ at = "read" => \A b \in got : log[b].w = log[i].w => ~SqlBefore(i, b)

ReadInv ==
    at = "count" \/ (at = "read" /\ ByTime) =>
       \A i \in due :
          i \in Base(search) /\ (at = "read" => AfterCursor(i)) =>
             i \in got \/ log[i].w \in shut \/ Pending(i) \/ LeftOut(i)

\* No row returned so far comes after the cursor.
CursorInv ==
    ByTime /\ cursor # None =>
       \A a \in Seen : IF ask.order = "desc" THEN log[a].t >= cursor.t
                                            ELSE log[a].t <= cursor.t

\* What is due and not accounted for comes after the cursor.
DueInv ==
    ByTime /\ at \in {"read", "page", "failed"} /\ (ask.via = "api" \/ ask.words = 0) =>
       \A i \in due : i \in Seen \/ i \in excused \/ log[i].w \in shut \/ AfterCursor(i)

Inv ==
    /\ TypeInv /\ StoreInv /\ RangeInv /\ ListingInv /\ ListedInv /\ StageInv
    /\ GotInv /\ ReadInv /\ CursorInv /\ DueInv
    /\ PagesDescend /\ MissesExplained /\ FacetsCoverPages /\ CountHonest
=============================================================================
