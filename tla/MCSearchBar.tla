---------------------------- MODULE MCSearchBar ----------------------------
(***************************************************************************)
(* Six rows, one whose attribute is null and two that have none, and four  *)
(* alphabets: the structure of a query, its operators, the forms of a      *)
(* predicate, and single tokens in any order.                              *)
(***************************************************************************)
EXTENDS SearchBar

MCPartOf   == [ap |-> {"api"}]
MCStartOf  == [ap |-> {"api"}]
\* The words "1" and "2" read as numbers.
MCNumberOf == [w \in {"1", "2"} |-> IF w = "1" THEN 1 ELSE 2]
MCRankOf   == [w \in {"1", "2", "api", "web", "err", "slow", "db"} |->
                 CASE w = "1" -> 1 [] w = "2" -> 2 [] w = "api" -> 3 [] w = "db" -> 4
                   [] w = "err" -> 5 [] w = "slow" -> 6 [] w = "web" -> 7]

Row(service, host, message, raw, attr) ==
    [core |-> [service |-> service, host |-> host, message |-> message, raw |-> raw],
     attr |-> attr]
K(text) == [k |-> text]

MCRows == {
    Row(<<"api">>, <<"err">>, <<"db", "slow">>, <<"db", "slow">>, K(<<"1">>)),
    Row(<<"web">>, << >>,     <<"slow">>,       <<"slow">>,       K(<<"2">>)),
    Row(<<"api">>, << >>,     <<"slow", "db">>, <<"slow", "db">>, << >>),
    Row(<< >>,     <<"err">>, <<"web">>,        <<"web", "api">>, K(<<"web">>)),
    Row(<<"web">>, <<"slow">>, <<"api">>,       <<"api">>,        << >>),
    Row(<<"api">>, <<"slow">>, <<"slow">>,      <<"slow">>,       K(<< >>))}

Atom0(toks, field, Sat(_)) ==
    [toks |-> toks,
     ref  |-> [k |-> "atom", yes |-> {e \in MCRows : Text(field, e) # << >> /\ Sat(Text(field, e))},
               no  |-> {e \in MCRows : Text(field, e) # << >> /\ ~Sat(Text(field, e))}]]
\* Of the existence of an attribute the documentation says "present and
\* non-null" (search-syntax.md:144), the statement takes a null one for there:
\* the reading here is the statement's.
There(field, e) == Text(field, e) # << >> \/ NullAttr(field, e)
Has(field, toks) ==
    [toks |-> toks, ref |-> [k |-> "atom", yes |-> {e \in MCRows : There(field, e)},
                             no |-> {e \in MCRows : ~There(field, e)}]]
Word(w) ==
    [toks |-> <<Id(w)>>,
     ref  |-> [k |-> "term", yes |-> {e \in MCRows : \E i \in DOMAIN e.core.message : e.core.message[i] = w},
               no  |-> {e \in MCRows : \A i \in DOMAIN e.core.message : e.core.message[i] # w}]]
Mark(kind, toks) == [toks |-> toks, ref |-> [k |-> kind]]

Star    == Shaped("*", "only", "")
ApStar  == Shaped("ap*", "prefix", "ap")
StarAp  == Shaped("*ap*", "other", "ap")
Dash    == Shaped("-", "dash", "")
DashDb  == Shaped("-db", "dash", "db")

Api == Atom0(<<Id("service"), Tok(":"), Id("api")>>, Core("service"), LAMBDA t : t = <<"api">>)
Err == Atom0(<<Id("host"), Tok(":"), Str("err")>>, Core("host"), LAMBDA t : t = <<"err">>)
Open == Mark("open", <<Tok("(")>>)
Close == Mark("close", <<Tok(")")>>)
OrMark == Mark("or", <<Id("OR")>>)

Structure == {Api, Err, Word("slow"), OrMark, Open, Close}
Operators == {Api, Word("slow"), Word("db"), OrMark, Mark("and", <<Id("AND")>>),
              Mark("not", <<Id("NOT")>>), Mark("not", <<Dash>>)}
Forms == {
    Atom0(<<Id("service"), Tok(":"), ApStar>>, Core("service"), LAMBDA t : t = <<"api">>),
    Atom0(<<Id("service"), Tok(":"), StarAp>>, Core("service"), LAMBDA t : t = <<"api">>),
    Atom0(<<Id("service"), Tok(":"), Tok("("), Id("api"), Tok(","), Id("web"), Tok(")")>>,
          Core("service"), LAMBDA t : t \in {<<"api">>, <<"web">>}),
    Atom0(<<Id("host"), Tok(":"), Tok("("), Id("err"), Id("OR"), Id("slow"), Tok(")")>>,
          Core("host"), LAMBDA t : t \in {<<"err">>, <<"slow">>}),
    Has(Core("host"), <<Id("host"), Tok(":"), Star>>),
    Has(Attr("k"), <<Tok("@"), Id("k"), Tok(":"), Star>>),
    Atom0(<<Tok("@"), Id("k"), Tok(":"), Tok("["), Id("1"), Id("TO"), Star, Tok("]")>>,
          Attr("k"), LAMBDA t : t \in {<<"1">>, <<"2">>}),
    Atom0(<<Tok("@"), Id("k"), Tok(":"), Tok("{"), Id("1"), Id("TO"), Id("2"), Tok("}")>>,
          Attr("k"), LAMBDA t : FALSE),
    Atom0(<<Tok("@"), Id("k"), Tok(":"), Tok(">"), Id("1")>>, Attr("k"), LAMBDA t : t = <<"2">>),
    Atom0(<<Tok("@"), Id("k"), Tok(":"), Id("1")>>, Attr("k"), LAMBDA t : t = <<"1">>),
    Mark("raw", <<Id("color"), Tok(":"), Id("web")>>),
    Mark("not", <<Id("NOT")>>), OrMark}
Single == {Mark("raw", <<t>>) : t \in
    {Id("host"), Id("api"), Id("TO"), Id("OR"), DashDb, Star, Tok(":"), Tok("@"),
     Tok("["), Tok("]"), Tok("("), Tok(")"), Tok(",")}}

MCAlphabets == {[chunks |-> Structure, length |-> 5], [chunks |-> Operators, length |-> 4],
                [chunks |-> Forms, length |-> 3], [chunks |-> Single, length |-> 4]}

Not0(n) == GroupOf("and", TRUE, FALSE, <<n>>)
Neq == Leaf(Core("host"), "neq", <<"err">>)
Exists == Leaf(Attr("k"), "exists", << >>)
MCTrees == {
    Neq, Not0(Neq), Exists, Not0(Exists),
    GroupOf("or", FALSE, FALSE, <<Exists, Leaf(Core("service"), "eq", <<"web">>)>>), Leaf(Attr("k"), "not_in", <<"1", "2">>),
    GroupOf("or", FALSE, FALSE, <<Neq, Leaf(Core("service"), "contains", <<"ap">>)>>),
    GroupOf("and", FALSE, FALSE, << >>), Leaf(Core("service"), "eq", << >>),
    Not0(Not0(Not0(Not0(Leaf(Core("service"), "eq", <<"api">>)))))}
=============================================================================
