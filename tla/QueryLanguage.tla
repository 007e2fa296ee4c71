--------------------------- MODULE QueryLanguage ---------------------------
(***************************************************************************)
(* The language of the search bar, from its tokens to the rows: the        *)
(* parser (src/internal/query/parser), the filter tree and its check       *)
(* (filter.go), its meaning in SQL (compile.go, over a database that has   *)
(* three truth values) and its meaning in memory (match.go, for the live   *)
(* tail).                                                                  *)
(*                                                                         *)
(* A text is a sequence of words, the empty one where there is no value: a *)
(* column holds NULL, an attribute is missing or JSON null.  A missing     *)
(* attribute is no field of a row's attributes; a null one, which the      *)
(* extractor keeps, is a field with the empty text.  The empty string is   *)
(* no text here.  Words are compared as the constants say, since spelling  *)
(* and case do not matter; a number is the word it is written as, and both *)
(* sides parse it when a range on an attribute needs it.  Filters compare  *)
(* core columns with words only: what a number bound to a text column does *)
(* is the driver's.                                                        *)
(* A token is a record: its kind, and for "id" and "str" its text w; an    *)
(* "id" has a form, "plain", "dash" (-w), "only" (a lone star), "prefix"   *)
(* (w then a star) or "other" (more wildcards), and a stem, what is left   *)
(* without the dash or the wildcards, "" for a lone dash.                  *)
(***************************************************************************)
EXTENDS Naturals, Sequences, FiniteSets, SequencesExt

CONSTANTS
    PartOf,         \* [word -> words it is a substring of]
    StartOf,        \* [word -> words it is a prefix of]
    NumberOf,       \* [words that read as numbers -> Nat]
    RankOf,         \* [word -> Nat]: the alphabetical order
    MaxFilterDepth

Shaped(w, form, stem) == [k |-> "id", w |-> w, form |-> form, stem |-> stem]
Id(w)   == Shaped(w, "plain", w)
Str(w)  == [k |-> "str", w |-> w]
Tok(k)  == [k |-> k]
EOF     == Tok("eof")

CoreColumns == {"timestamp", "service", "level", "message", "host", "source", "raw"}
coreFields  == CoreColumns \ {"timestamp", "raw"}

(***************************************************************************)
(* Nodes.  A term is free text; the flag flat marks a conjunction written  *)
(* as such, whose terms finalize may lift.                                 *)
(***************************************************************************)
Leaf(field, op, vals) == [k |-> "leaf", field |-> field, op |-> op, vals |-> vals]
Term(w) == [k |-> "term", w |-> w]
GroupOf(op, neg, flat, kids) ==
    [k |-> "group", op |-> op, not |-> neg, flat |-> flat, kids |-> kids]

Core(w) == [attr |-> FALSE, name |-> w]
Attr(w) == [attr |-> TRUE, name |-> w]

\* What a production returns: its node, the position after it, its warnings.
Got(n, p, warn) == [ok |-> TRUE, n |-> n, p |-> p, warn |-> warn]
Fail == [ok |-> FALSE]
Then(r, Next(_)) == IF r.ok THEN Next(r) ELSE Fail

At(ts, p) == IF p <= Len(ts) THEN ts[p] ELSE EOF
Kind(ts, p) == At(ts, p).k
IsWord(ts, p) == Kind(ts, p) \in {"id", "str"}
Keyword(ts, p, word) ==
    Kind(ts, p) = "id" /\ At(ts, p) = Id(word)

\* Mutant: OR and TO may start a factor of the conjunction.
canStartFactorOr(ts, p) ==
    Kind(ts, p) \in {"(", "str", "@", "id"} /\ ~Keyword(ts, p, "AND")

canStartFactor(ts, p) ==
    \/ Kind(ts, p) \in {"(", "str", "@"}
    \/ Kind(ts, p) = "id" /\ ~\E kw \in {"OR", "AND", "TO"} : Keyword(ts, p, kw)

(***************************************************************************)
(* Values.                                                                 *)
(***************************************************************************)
OpenBound(t) == t.w = "*"

makeValueLeaf(field, t, p) ==
    IF t.k = "str" \/ t.form \in {"plain", "dash"} THEN Got(Leaf(field, "eq", <<t.w>>), p, {})
    ELSE CASE t.form = "only"   -> Got(Leaf(field, "exists", << >>), p, {})
           [] t.form = "prefix" -> Got(Leaf(field, "starts_with", <<t.stem>>), p, {})
           [] OTHER             -> Got(Leaf(field, "contains", <<t.stem>>), p, {"slow"})

Comparisons == [gt |-> ">", gte |-> ">=", lt |-> "<", lte |-> "<="]

\* parseRange, from its opening bracket.  The first word is taken as the lower
\* bound even when it is TO.
parseRange(ts, p, field, inclusive) ==
    LET hasLo == IsWord(ts, p + 1)
        to    == IF hasLo THEN p + 2 ELSE p + 1
        hasHi == IsWord(ts, to + 1)
        close == IF hasHi THEN to + 2 ELSE to + 1
        Bound(has, q, op) ==
            IF has /\ ~OpenBound(ts[q]) THEN <<Leaf(field, op, <<ts[q].w>>)>>
                                        ELSE << >>
        kids  == Bound(hasLo, p + 1, IF inclusive THEN "gte" ELSE "gt")
                 \o Bound(hasHi, to + 1, IF inclusive THEN "lte" ELSE "lt")
    IN  IF \/ ~Keyword(ts, to, "TO")
           \/ Kind(ts, close) # (IF inclusive THEN "]" ELSE "}")
        THEN Fail
        ELSE Got(CASE Len(kids) = 0 -> Leaf(field, "exists", << >>)
                   [] Len(kids) = 1 -> kids[1]
                   [] OTHER         -> GroupOf("and", FALSE, FALSE, kids),
                 close + 1, {})

\* parseValueList, from the word after the parenthesis or the separator.
RECURSIVE parseValueList(_, _, _, _)
parseValueList(ts, p, field, vals) ==
    IF ~IsWord(ts, p) THEN Fail
    ELSE LET all == Append(vals, ts[p].w)
         IN  CASE Kind(ts, p + 1) = "," \/ Keyword(ts, p + 1, "OR") ->
                    parseValueList(ts, p + 2, field, all)
               [] Kind(ts, p + 1) = ")" ->
                    Got(Leaf(field, IF Len(all) = 1 THEN "eq" ELSE "in", all), p + 2, {})
               [] OTHER -> Fail

\* parsePredicateRHS, from the token after the colon.
parsePredicateRHS(ts, p, field) ==
    CASE \E op \in DOMAIN Comparisons : Comparisons[op] = Kind(ts, p) ->
           LET op == CHOOSE o \in DOMAIN Comparisons : Comparisons[o] = Kind(ts, p)
           IN  IF IsWord(ts, p + 1)
               THEN Got(Leaf(field, op, <<ts[p + 1].w>>), p + 2, {})
               ELSE Fail
      [] Kind(ts, p) = "[" -> parseRange(ts, p, field, TRUE)
      [] Kind(ts, p) = "{" -> parseRange(ts, p, field, FALSE)
      [] Kind(ts, p) = "(" -> parseValueList(ts, p + 1, field, << >>)
      [] IsWord(ts, p)     -> makeValueLeaf(field, ts[p], p + 1)
      [] OTHER             -> Fail

\* parseIdentAtom: a word before a colon is a field, whichever it is.
parseIdentAtom(ts, p) ==
    IF Kind(ts, p + 1) # ":" THEN Got(Term(ts[p].w), p + 1, {})
    ELSE Then(parsePredicateRHS(ts, p + 2, Core(ts[p].w)),
              LAMBDA r : Got(r.n, r.p, r.warn \cup
                             (IF ts[p].w \in coreFields THEN {} ELSE {"bare"})))

\* parseAttributePredicate: @path alone asks whether the attribute is there.
parseAttributePredicate(ts, p) ==
    CASE Kind(ts, p + 1) # "id" -> Fail
      [] Kind(ts, p + 2) = ":"  -> parsePredicateRHS(ts, p + 3, Attr(ts[p + 1].w))
      [] OTHER -> Got(Leaf(Attr(ts[p + 1].w), "exists", << >>), p + 2, {})

(***************************************************************************)
(* The grammar.  OR binds weakest, AND is written or implied, and NOT or a *)
(* dash negates one atom.                                                  *)
(***************************************************************************)
RECURSIVE parseDisjunction(_, _)

parseAtom(ts, p) ==
    CASE Kind(ts, p) = "(" ->
           Then(parseDisjunction(ts, p + 1),
                LAMBDA r : IF Kind(ts, r.p) = ")" THEN Got(r.n, r.p + 1, r.warn) ELSE Fail)
      [] Kind(ts, p) = "@"   -> parseAttributePredicate(ts, p)
      [] Kind(ts, p) = "id"  -> parseIdentAtom(ts, p)
      [] Kind(ts, p) = "str" -> Got(Term(ts[p].w), p + 1, {})
      [] OTHER               -> Fail

Negated(r) == Got(GroupOf("and", TRUE, FALSE, <<r.n>>), r.p, r.warn)

\* A lone dash is a token of its own, otherwise it is cut off the word.
parseFactor(ts, p) ==
    LET dashed == Kind(ts, p) = "id" /\ ts[p].form = "dash"
    IN  CASE Keyword(ts, p, "NOT") \/ (dashed /\ ts[p].stem = "") ->
               Then(parseAtom(ts, p + 1), Negated)
          [] dashed -> Then(parseAtom([ts EXCEPT ![p] = Id(@.stem)], p), Negated)
          [] OTHER  -> parseAtom(ts, p)

Joined(op, flat, kids, p, warn) ==
    IF Len(kids) = 1 THEN Got(kids[1], p, warn)
                     ELSE Got(GroupOf(op, FALSE, flat, kids), p, warn)

RECURSIVE parseConjunction(_, _, _, _)
parseConjunction(ts, p, kids, warn) ==
    Then(parseFactor(ts, p),
         LAMBDA r :
            LET all == Append(kids, r.n)  ws == warn \cup r.warn
            IN  CASE Keyword(ts, r.p, "AND")  -> parseConjunction(ts, r.p + 1, all, ws)
                  [] canStartFactor(ts, r.p) -> parseConjunction(ts, r.p, all, ws)
                  [] OTHER -> Joined("and", TRUE, all, r.p, ws))

RECURSIVE Branches(_, _, _, _)
Branches(ts, p, kids, warn) ==
    Then(parseConjunction(ts, p, << >>, {}),
         LAMBDA r :
            LET all == Append(kids, r.n)  ws == warn \cup r.warn
            IN  IF Keyword(ts, r.p, "OR") THEN Branches(ts, r.p + 1, all, ws)
                ELSE Joined("or", FALSE, all, r.p, ws))

parseDisjunction(ts, p) == Branches(ts, p, << >>, {})

(***************************************************************************)
(* finalize: the terms at the top are the search, joined; those below OR,  *)
(* NOT or parentheses become leaves that look into the message.            *)
(***************************************************************************)
RECURSIVE HasTerm(_), Convert(_)
HasTerm(n) == CASE n.k = "term" -> TRUE
                [] n.k = "leaf" -> FALSE
                [] OTHER -> \E i \in DOMAIN n.kids : HasTerm(n.kids[i])

Convert(n) ==
    CASE n.k = "term"  -> Leaf(Core("message"), "contains", <<n.w>>)
      [] n.k = "group" -> GroupOf(n.op, n.not, FALSE,
                                  [i \in DOMAIN n.kids |-> Convert(n.kids[i])])
      [] OTHER         -> n

NoFilter == [k |-> "none"]

IsTerm(n) == n.k = "term"

Top(root) ==
    IF root.k = "group" /\ root.op = "and" /\ ~root.not /\ root.flat
    THEN root.kids ELSE <<root>>

Terms(top) == SelectSeq(top, IsTerm)

finalize(root, warn) ==
    LET terms == Terms(Top(root))
        keep  == SelectSeq(Top(root), LAMBDA c : ~IsTerm(c))
    IN  [ok |-> TRUE,
         search |-> [i \in DOMAIN terms |-> terms[i].w],
         filter |-> IF keep = << >> THEN NoFilter
                    ELSE GroupOf("and", FALSE, FALSE, [i \in DOMAIN keep |-> Convert(keep[i])]),
         warn |-> warn \cup (IF \E i \in DOMAIN keep : HasTerm(keep[i])
                             THEN {"nested"} ELSE {})]

Parse(ts) ==
    IF ts = << >> THEN [ok |-> TRUE, search |-> << >>, filter |-> NoFilter, warn |-> {}]
    ELSE Then(parseDisjunction(ts, 1),
              LAMBDA r : IF r.p <= Len(ts) THEN Fail ELSE finalize(r.n, r.warn))

(***************************************************************************)
(* The filter tree: Validate, and what Compile accepts.                    *)
(***************************************************************************)
RECURSIVE Depth(_), Known(_), Validates(_)
Depth(n) == IF n.k # "group" THEN 0
            ELSE 1 + FoldSeq(LAMBDA c, d : IF Depth(c) > d THEN Depth(c) ELSE d, 0, n.kids)

Validates(n) ==
    IF n.k = "group" THEN /\ n.kids # << >>
                          /\ \A i \in DOMAIN n.kids : Validates(n.kids[i])
    ELSE IF n.op = "exists" THEN TRUE ELSE Len(n.vals) >= 1

Known(n) ==
    IF n.k = "group" THEN \A i \in DOMAIN n.kids : Known(n.kids[i])
    ELSE n.field.attr \/ n.field.name \in CoreColumns

\* The error code of Run for a filter.
CodeOf(f) == CASE f = NoFilter                -> "ok"
               [] Depth(f) > MaxFilterDepth   -> "filter_too_deep"
               [] ~Validates(f) \/ ~Known(f)  -> "invalid_filter"
               [] OTHER                       -> "ok"

(***************************************************************************)
(* Rows.                                                                   *)
(***************************************************************************)
Fields(field, ev) == IF field.attr THEN ev.attr ELSE ev.core

\* What json_extract_string or the column gives: nothing for a null, too.
Text(field, ev) ==
    IF field.name \in DOMAIN Fields(field, ev) THEN Fields(field, ev)[field.name]
                                              ELSE << >>

\* An attribute that is there and null: json_extract gives a value for it.
NullAttr(field, ev) ==
    field.attr /\ field.name \in DOMAIN ev.attr /\ ev.attr[field.name] = << >>

Holds(w, word) == w = word \/ (w \in DOMAIN PartOf /\ word \in PartOf[w])
Begins(w, word) == w = word \/ (w \in DOMAIN StartOf /\ word \in StartOf[w])

Compares(op, a, b) == CASE op = "gt"  -> a > b
                        [] op = "gte" -> a >= b
                        [] op = "lt"  -> a < b
                        [] op = "lte" -> a <= b

IsNumber(text) == Len(text) = 1 /\ text[1] \in DOMAIN NumberOf

\* A leaf other than a range on a text that is there.
LeafHolds(l, text) ==
    CASE l.op = "exists"      -> TRUE
      [] l.op \in {"eq", "in"} -> \E i \in DOMAIN l.vals : text = <<l.vals[i]>>
      [] l.op \in {"neq", "not_in"} -> \A i \in DOMAIN l.vals : text # <<l.vals[i]>>
      [] l.op = "contains"    -> \E i \in DOMAIN text : Holds(l.vals[1], text[i])
      [] l.op = "starts_with" -> Begins(l.vals[1], text[1])

Ranges == DOMAIN Comparisons

(***************************************************************************)
(* SQL: "T", "F", "N" for NULL, "E" when the statement fails on the row.   *)
(* Only an existence test is decided on NULL, and that of an attribute     *)
(* takes JSON null for a value: it asks json_extract, the others ask       *)
(* json_extract_string.  A range with a numeric bound casts the text to a  *)
(* number, which fails unless another operand decides first; the database  *)
(* may still evaluate it (CanFail).                                        *)
(***************************************************************************)
Bool(b) == IF b THEN "T" ELSE "F"

CastsText(l) == l.op \in Ranges /\ l.field.attr /\ l.vals[1] \in DOMAIN NumberOf

SqlLeaf(l, ev) ==
    LET text == Text(l.field, ev)
    IN  CASE l.op = "exists" -> Bool(text # << >> \/ NullAttr(l.field, ev))
          [] text = << >>    -> "N"
          [] l.op \notin Ranges -> Bool(LeafHolds(l, text))
          [] CastsText(l) ->
               IF IsNumber(text)
               THEN Bool(Compares(l.op, NumberOf[text[1]], NumberOf[l.vals[1]]))
               ELSE "E"
          [] OTHER -> Bool(Compares(l.op, RankOf[text[1]], RankOf[l.vals[1]]))

RECURSIVE Sql(_, _), CanFail(_, _)
Sql(n, ev) ==
    IF n.k = "leaf" THEN SqlLeaf(n, ev)
    ELSE LET kids  == {Sql(n.kids[i], ev) : i \in DOMAIN n.kids}
             ends  == IF n.op = "and" THEN "F" ELSE "T"
             value == CASE ends \in kids -> ends
                        [] "E" \in kids  -> "E"
                        [] "N" \in kids  -> "N"
                        [] OTHER         -> IF n.op = "and" THEN "T" ELSE "F"
         IN  IF n.not /\ value \in {"T", "F"} THEN Bool(value = "F") ELSE value

CanFail(n, ev) ==
    IF n.k = "leaf" THEN SqlLeaf(n, ev) = "E"
                    ELSE \E i \in DOMAIN n.kids : CanFail(n.kids[i], ev)

(***************************************************************************)
(* Match: two truth values; a missing field, or a null one, does not exist *)
(* and differs from every value, and an attribute that is no number is     *)
(* compared as a text.                                                     *)
(***************************************************************************)
MatchLeaf(l, ev) ==
    LET text == Text(l.field, ev)
    IN  CASE ~Known(l)       -> FALSE
          [] text = << >>    -> l.op \in {"neq", "not_in"}
          [] l.op \notin Ranges -> LeafHolds(l, text)
          [] l.field.attr /\ IsNumber(text) /\ l.vals[1] \in DOMAIN NumberOf ->
               Compares(l.op, NumberOf[text[1]], NumberOf[l.vals[1]])
          [] OTHER -> Compares(l.op, RankOf[text[1]], RankOf[l.vals[1]])

RECURSIVE Match(_, _)
Match(n, ev) ==
    CASE n = NoFilter   -> TRUE
      [] n.k = "leaf"   -> MatchLeaf(n, ev)
      [] n.k = "group" /\ n.kids = << >> -> TRUE
      [] OTHER ->
           (IF n.op = "and" THEN \A i \in DOMAIN n.kids : Match(n.kids[i], ev)
                            ELSE \E i \in DOMAIN n.kids : Match(n.kids[i], ev)) # n.not

\* The words of a search stand in a row in the text.
Phrase(words, text) ==
    \/ words = << >>
    \/ Len(words) = 1 /\ \E i \in DOMAIN text : Holds(words[1], text[i])
    \/ \E i \in DOMAIN text : i + Len(words) - 1 <= Len(text)
                            /\ SubSeq(text, i, i + Len(words) - 1) = words

CompileSearch(words, ev) ==
    Phrase(words, ev.core["message"]) \/ Phrase(words, ev.core["raw"])

\* Mutant: the raw line is not looked into.
MatchSearchMessage(words, ev) == Phrase(words, ev.core["message"])

MatchSearch(words, ev) ==
    \/ words = << >>
    \/ Phrase(words, ev.core["message"]) \/ Phrase(words, ev.core["raw"])
=============================================================================
