------------------------------ MODULE MCSearch ------------------------------
(* Documents, queries and configuration for the model-checking run of Search. *)
EXTENDS Search

F(key, seg) == [key |-> key, seg |-> seg]
MCPostFields ==
  <<F("id", 6), F("weight", 3), F("title_hit", 1), F("tag_hit", 1), F("spare", 1),
    F("offset1", 2), F("offset2", 2), F("hit_count", 2)>>

Op(key, op) == [key |-> key, op |-> op, type |-> "", token |-> "", optional |-> FALSE,
                position |-> FALSE, hit_field |-> "", hit_weight |-> 0]
MCKeyOps ==
  <<[Op("cat", "PREFIX") EXCEPT !.type = "LIST", !.token = "cat:", !.optional = TRUE],
    Op("id", "DOC_ID"),
    [Op("owner", "PREFIX") EXCEPT !.type = "INT", !.token = "by:", !.optional = TRUE],
    [Op("tag", "NLP") EXCEPT !.hit_field = "tag_hit", !.hit_weight = 5, !.optional = TRUE],
    [Op("title", "NLP") EXCEPT !.hit_field = "title_hit", !.hit_weight = 3, !.position = TRUE]>>

IntV(n) == [kind |-> "int", v |-> n]
W(w) == <<"", w>>
Tok(w, off) == [term |-> W(w), off |-> off, sons |-> <<>>]
Text(toks) == [kind |-> "text", toks |-> toks]
Doc(title, a) == [key \in {"id", "title", "a"} |->
  IF key = "id" THEN IntV(7) ELSE IF key = "a" THEN IntV(a) ELSE Text(title)]
With(d, key, v) == [x \in DOMAIN d \cup {key} |-> IF x = key THEN v ELSE d[x]]

MCDocs ==
  { With(Doc(<<Tok("x", 1), Tok("y", 2)>>, 1), "tag", Text(<<Tok("x", 0)>>)),
    With(With(With(Doc(<<Tok("y", 0), Tok("y", 1), Tok("", 2), Tok("y", 3), Tok("y", 4)>>, 2),
              "owner", IntV("9")), "tag", Text(<<Tok("z", 0)>>)),
         "cat", [kind |-> "list", vs |-> <<"1", "2", "1">>]),
    \* The word xy and its parts; the second x is far behind the first.
    With(Doc(<<[Tok("xy", 1) EXCEPT !.sons = <<Tok("x", 1), Tok("y", 2)>>], Tok("x", 5)>>, 3),
         "tag", Text(<<Tok("x", 0), Tok("x", 1)>>)),
    With(Doc(<<>>, 0), "title", IntV(1)),
    With(Doc(<<>>, 0), "cat", IntV("1")) }

Q(ts, filt, orderby, offset, size) ==
  [root |-> "object", terms |-> ts, filt |-> filt, orderby |-> orderby, offset |-> offset, size |-> size]
E1(t, w, syn) == [form |-> "good", term |-> t, weight |-> w, syn |-> syn]
Bad(form) == [E1(W("x"), 1, <<>>) EXCEPT !.form = form]
TermLists ==
  { <<E1(W("x"), 2, <<>>)>>, <<E1(W("y"), 0, <<W("q"), W("x")>>), E1(<<"by:", "9">>, 2, <<>>)>>,
    <<E1(W("q"), 1, <<W("z"), W("z"), W("z"), W("y")>>), E1(<<"by:", "9">>, 3, <<>>)>>,
    <<E1(W("x"), 1, <<>>), E1(W("y"), 1, <<W("xy")>>), E1(W("z"), 4, <<>>)>> }
L(kind, type, value) == [kind |-> kind, key |-> "a", type |-> type, value |-> value]
Filters ==
  { <<>>, <<L("int", "EQUAL", 2)>>, <<L("real", "BIGGER", 2)>>,
    <<[kind |-> "real", key |-> "a", type |-> "ZONE", min |-> 1, max |-> 2], L("real", "SMALLER", 1)>>,
    <<[kind |-> "real", key |-> "a", type |-> "SET", vset |-> {1, 3}]>>, <<L("real", "EQUAL", 3)>> }
\* Filters that are refused or kill the process, the first one deciding.
Other(key) == [L("other", "EQUAL", 2) EXCEPT !.key = key]
BadFilters ==
  { <<L("real", "NONE", 2)>>, <<L("real", "EQUAL", 2), Other("a")>>, <<Other("b"), Other("a")>>,
    <<L("value", "EQUAL", 2), L("int", "EQUAL", 2)>>, <<L("int", "EQUAL", 2), Other("a")>> }
BadTerms ==
  { <<E1(W("x"), 1, <<>>), Bad("malformed"), Bad("value")>>, <<E1(W("x"), 1, <<>>), Bad("value")>> }
MCRequests ==
  {Q(t, <<>>, "", p[1], p[2]) : t \in TermLists, p \in {<<0, 0>>, <<1, 1>>, <<4, 9>>}}
  \cup {Q(t, <<>>, "a", p[1], p[2]) : t \in TermLists, p \in {<<1, 2>>, <<0 - 1, 1>>}}
  \cup {Q(t, f, "b", 0, 3) : t \in {<<E1(W("y"), 1, <<W("xy")>>)>>}, f \in Filters}
  \cup {Q(<<>>, <<>>, "", 0, 1)}
  \cup {[Q(<<>>, <<>>, "", 0, 1) EXCEPT !.root = r] : r \in {"no JSON", "value"}}
  \cup {Q(t, <<>>, "", 0, 1) : t \in BadTerms}
  \cup {Q(<<E1(W("x"), 1, <<>>)>>, f, "", 0, 1) : f \in BadFilters}
=============================================================================
