----------------------------- MODULE SearchBar -----------------------------
(***************************************************************************)
(* A client of the query language: it types a search bar, or sends a       *)
(* filter tree, and asks both POST /api/query and the live tail for it.    *)
(* The bar is typed in chunks, a chunk being a few tokens; ref says what a *)
(* chunk is in the grammar of the documentation, "raw" for a token that is *)
(* no chunk of it by itself.                                               *)
(***************************************************************************)
EXTENDS QueryLanguage

CONSTANTS
    Rows,           \* the events stored, which the tail sees as well
    Alphabets,      \* sets of [chunks, length]: what is typed, and how much
    Trees,          \* filter trees sent as "filter"
    None

VARIABLES
    alphabet,       \* the alphabet of this behaviour
    bar,            \* the chunks typed
    tree,           \* the tree in the request, None without one
    found,          \* answer of the query: code, rows, warnings
    tailed          \* what the tail passes: code, rows

vars == <<alphabet, bar, tree, found, tailed>>

Init == /\ alphabet \in Alphabets
        /\ bar = << >> /\ tree = None /\ found = None /\ tailed = None

Type(c) ==
    /\ Len(bar) < alphabet.length
    /\ bar' = Append(bar, c)
    /\ found' = None /\ tailed' = None
    /\ UNCHANGED <<alphabet, tree>>

Send(t) ==
    /\ Len(bar) <= 1 /\ tree = None
    /\ tree' = t
    /\ found' = None /\ tailed' = None
    /\ UNCHANGED <<alphabet, bar>>

Tokens == FlattenSeq([i \in DOMAIN bar |-> bar[i].toks])

Answer(code, rows, warn) == [code |-> code, rows |-> rows, warn |-> warn]

\* What both sides start from: the parsed bar, or the tree.
Request == IF tree = None THEN Parse(Tokens)
           ELSE [ok |-> TRUE, filter |-> tree, search |-> << >>, warn |-> {}]
Exclusive == bar # << >> /\ tree # None

QueryCode(r) == CASE Exclusive -> "bad_request"
                  [] ~Exclusive /\ ~r.ok -> "invalid_query_syntax"
                  [] OTHER -> CodeOf(r.filter)

\* handleQuery and Run: a row the statement cannot be evaluated on fails the
\* whole query, unless the search or another operand ruled it out first.
Query ==
    /\ found = None
    /\ LET r == Request
           Value0(e) == IF r.filter = NoFilter THEN "T" ELSE Sql(r.filter, e)
           searched  == IF r.ok THEN {e \in Rows : CompileSearch(r.search, e)} ELSE {}
           code      == QueryCode(r)
       IN  \/ /\ code # "ok"
              /\ found' = Answer(code, {}, IF r.ok THEN r.warn ELSE {})
           \/ /\ code = "ok" /\ \A e \in searched : Value0(e) # "E"
              /\ found' = Answer("ok", {e \in searched : Value0(e) = "T"}, r.warn)
           \/ /\ code = "ok" /\ r.filter # NoFilter
              /\ \E e \in Rows : CanFail(r.filter, e)
              /\ found' = Answer("internal_error", {}, r.warn)
    /\ UNCHANGED <<alphabet, bar, tree, tailed>>

\* parseSubscribe validates the tree but compiles nothing, so that a field
\* nobody knows is no error here; it refuses to pass everything.
SubscribeCode(r) ==
    CASE Exclusive \/ ~r.ok                          -> "invalid"
      [] OTHER ->
         CASE r.filter = NoFilter /\ r.search = << >> -> "filter_required"
           [] r.filter # NoFilter /\ (Depth(r.filter) > MaxFilterDepth \/ ~Validates(r.filter))
                                                      -> "invalid"
           [] OTHER                                   -> "ok"

Subscribe ==
    /\ tailed = None
    /\ LET r == Request  code == SubscribeCode(r)
       IN  tailed' = Answer(code,
                            IF code # "ok" THEN {}
                            ELSE {e \in Rows : Match(r.filter, e) /\ MatchSearch(r.search, e)},
                            {})
    /\ UNCHANGED <<alphabet, bar, tree, found>>

Next == \/ \E c \in alphabet.chunks : Type(c)
        \/ \E t \in Trees : Send(t)
        \/ Query \/ Subscribe

Spec == Init /\ [][Next]_vars

(***************************************************************************)
(* The grammar of the documentation, over the chunks, as sets of readings: *)
(* a reading says which rows are in (yes) and which are out (no); a row    *)
(* without the field is in neither, nor in their negation.                 *)
(***************************************************************************)
Ref(i) == bar[i].ref
And(a, b) == [yes |-> a.yes \cap b.yes, no |-> a.no \cup b.no]
Or(a, b)  == [yes |-> a.yes \cup b.yes, no |-> a.no \cap b.no]
Not(a)    == [yes |-> a.no, no |-> a.yes]

RECURSIVE Disjunction(_, _)

Atom(i, j) ==
    CASE i = j /\ Ref(i).k \in {"atom", "term"} -> {[yes |-> Ref(i).yes, no |-> Ref(i).no]}
      [] i < j /\ Ref(i).k = "open" /\ Ref(j).k = "close" -> Disjunction(i + 1, j - 1)
      [] OTHER -> {}

Factor(i, j) ==
    Atom(i, j) \cup (IF i < j /\ Ref(i).k = "not" THEN {Not(a) : a \in Atom(i + 1, j)}
                                                   ELSE {})

RECURSIVE Conjunction(_, _)
Conjunction(i, j) ==
    Factor(i, j) \cup
    UNION {LET rest == IF Ref(k + 1).k = "and" THEN k + 2 ELSE k + 1
           IN  {And(a, b) : a \in Factor(i, k), b \in Conjunction(rest, j)} : k \in i..(j - 1)}

Disjunction(i, j) ==
    Conjunction(i, j) \cup
    UNION {{Or(a, b) : a \in Conjunction(i, k - 1), b \in Disjunction(k + 1, j)}
             : k \in {m \in (i + 1)..(j - 1) : Ref(m).k = "or"}}

Readings == IF bar = << >> THEN {[yes |-> Rows, no |-> {}]} ELSE Disjunction(1, Len(bar))
TermsTyped == {i \in DOMAIN bar : Ref(i).k = "term"}

(***************************************************************************)
(*                              PROPERTIES                                 *)
(***************************************************************************)
\* A bar that the documented grammar derives has one reading, is accepted, and
\* the query returns the rows of that reading, unless a range fails on a row
\* (parser.go, compile.go).  Of several free-text words, see TermsAreAnded.
GrammarMeaning ==
    /\ found # None /\ tree = None /\ Readings # {}
    /\ Cardinality(TermsTyped) <= 1
    => /\ Cardinality(Readings) = 1
       /\ found.code \in {"ok", "internal_error"}
       /\ found.code = "ok" => found.rows = (CHOOSE r \in Readings : TRUE).yes

RECURSIVE Negates(_)
Negates(n) == IF n.k = "group"
              THEN n.not \/ \E i \in DOMAIN n.kids : Negates(n.kids[i])
              ELSE n.k = "leaf" /\ n.op \in {"neq", "not_in"}

\* A row on which an existence test of the filter meets a null attribute.
RECURSIVE NullTested(_, _)
NullTested(n, e) ==
    CASE n.k = "group" -> \E i \in DOMAIN n.kids : NullTested(n.kids[i], e)
      [] n.k = "leaf"  -> n.op = "exists" /\ NullAttr(n.field, e)
      [] OTHER         -> FALSE

\* The tail passes every row the query returns for the same request, but for
\* those with a null attribute whose existence the request asks for; and it
\* passes no other when nothing is negated and no range fails (match.go,
\* compile.go).  The null is where the two sides differ: IS NOT NULL of
\* json_extract against cur != nil (compile.go:130, match.go:316).
TailCoversQuery ==
    /\ found # None /\ tailed # None /\ found.code = "ok"
    /\ (bar # << >> \/ tree # None)
    => /\ tailed.code = "ok"
       /\ \A e \in found.rows \ tailed.rows : NullTested(Request.filter, e)
       /\ ~Negates(Request.filter)
          /\ (Request.filter # NoFilter => \A e \in Rows : ~CanFail(Request.filter, e))
          => tailed.rows \subseteq found.rows

\* A bar that parses is only refused by the query for its depth, or for a
\* field that the parser has warned of (parseIdentAtom, compileLeaf).
RefusalsWarned ==
    found # None /\ tree = None /\ found.code = "invalid_filter" => "bare" \in found.warn

RECURSIVE WordsOf(_)
WordsOf(n) == CASE n.k = "group" -> UNION {WordsOf(n.kids[i]) : i \in DOMAIN n.kids}
                [] n.k = "leaf"  -> {n.field.name} \cup Range(n.vals)
                [] OTHER         -> {}

\* No word of a bar that parses is lost between the filter and the search:
\* each is a field, a value or a term (finalize, convertNestedTerms).
NothingDropped ==
    found # None /\ tree = None /\ Parse(Tokens).ok =>
        LET r == Parse(Tokens)
            kept == WordsOf(r.filter) \cup Range(r.search)
        IN  \A i \in DOMAIN Tokens :
              Tokens[i].k \in {"id", "str"} /\ Tokens[i].w \notin {"AND", "OR", "NOT", "TO", "-", "*"}
              => Tokens[i].w \in kept \/ (Tokens[i].k = "id" /\ Tokens[i].stem \in kept)

\* What the parser and the compiler make of a bar: the rows of its grammar,
\* every word of it, and no refusal unannounced (parser.go, compile.go).
ParserTrue == GrammarMeaning /\ RefusalsWarned /\ NothingDropped

\* "It mirrors the SQL compiler's semantics so a row that lives in memory
\* matches the same filter as it would after sealing" (match.go:13-16).  It does
\* not: of a negated missing field, and of a null attribute.
MatchMirrorsSQL ==
    found # None /\ tailed # None /\ found.code = "ok" => tailed.rows = found.rows

\* "Multiple terms are AND-combined" (docs/search-syntax.md).
TermsAreAnded ==
    /\ found # None /\ tree = None /\ bar # << >>
    /\ \A i \in DOMAIN bar : Ref(i).k = "term"
    => found.rows = {e \in Rows : \A i \in DOMAIN bar : e \in Ref(i).yes}
=============================================================================
