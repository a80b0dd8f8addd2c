------------------------------- MODULE Plugin -------------------------------
(***************************************************************************)
(* flexse_plugin::add (plugin/flexse/flexse_plugin.cpp): a document becomes*)
(* a map from terms to postings.                                           *)
(*                                                                         *)
(* A document is a function from its keys to values: [kind |-> "null"],    *)
(* [kind |-> "int", v], [kind |-> "list", vs], or [kind |-> "text", toks]  *)
(* with the tokens the segmenter (external) finds in the text, each with   *)
(* its character offset and its sub-tokens.  A word is <<"", word>>, a     *)
(* prefixed value <<token, value>>.                                        *)
(***************************************************************************)
EXTENDS StructMask

CONSTANTS
  PostFields,  \* the fields of a posting, configuration of m_post_maskmap
  KeyOps       \* m_key_op_map, in the order of its keys

Post == Layout(PostFields)
Item(key) == Post.items[key]
Has(key) == key \in DOMAIN Post.items
EmptyTerm == <<"", "">>
NullValue == [kind |-> "null"]
ValueOf(doc, key) == IF key \in DOMAIN doc THEN doc[key] ELSE NullValue

\* What the constructor accepts: one DOC_ID, at most one field with positions,
\* its offset fields, the hit field of every weighted one.
ConfigOk ==
  /\ \E i \in DOMAIN KeyOps : KeyOps[i].op = "DOC_ID"
  /\ \A i, j \in DOMAIN KeyOps : i # j => KeyOps[i].key # KeyOps[j].key
  /\ \A i, j \in DOMAIN KeyOps : KeyOps[i].position /\ KeyOps[j].position => i = j
  /\ \A i \in DOMAIN KeyOps : KeyOps[i].position => Has("offset1") /\ Has("offset2")
  /\ \A i \in DOMAIN KeyOps : KeyOps[i].hit_weight > 0 => Has(KeyOps[i].hit_field)

ASSUME PluginAssumption == Post.ok /\ Has("id") /\ Has("weight") /\ ConfigOk

-----------------------------------------------------------------------------
(***************************************************************************)
(* The tokens of one field.                                                *)
(***************************************************************************)
HIT == 1
CountHit(cell) == IF Has("hit_count") THEN Inc(cell, Item("hit_count"), HIT) ELSE cell

\* A term seen for the first time in this field.
FirstSeen(op, off) ==
  LET hit == IF op.hit_weight > 0
               THEN Set(Set(Zero(Post), Item("weight"), op.hit_weight), Item(op.hit_field), HIT)
               ELSE Zero(Post)
      pos == IF op.position /\ off <= MaxValue(Item("offset1"))
               THEN Set(hit, Item("offset1"), off) ELSE hit
  IN  CountHit(pos)

\* Is a second position recorded?  The bound is twice the largest value of the
\* field, while what is stored is the distance from the first position.
SecondFits(op, cell, off) ==
  /\ op.position /\ Get(cell, Item("offset1")) > 0
  /\ off <= 2 * MaxValue(Item("offset2"))

\* A term seen again.
SeenAgain(op, cell, off) ==
  CountHit(IF SecondFits(op, cell, off)
             THEN Set(cell, Item("offset2"), off - Get(cell, Item("offset1")))
             ELSE cell)

IsNew(m, term) == term # EmptyTerm /\ term \notin DOMAIN m
Again(op, m, t) ==
  (t.term :> SeenAgain(op, IF t.term \in DOMAIN m THEN m[t.term] ELSE Zero(Post), t.off)) @@ m

WithSon(op, m, t) ==
  IF IsNew(m, t.term) THEN (t.term :> FirstSeen(op, t.off)) @@ m ELSE Again(op, m, t)

\* Sub-tokens are looked at only where their token is new.
WithToken(op, m, t) ==
  IF IsNew(m, t.term)
    THEN FoldLeft(LAMBDA n, s : WithSon(op, n, s), (t.term :> FirstSeen(op, t.off)) @@ m, t.sons)
    ELSE Again(op, m, t)

FieldTerms(op, toks) == FoldLeft(LAMBDA m, t : WithToken(op, m, t), <<>>, toks)

\* A term of several fields: every field of the posting is added, up to its maximum.
Summed(cell, new) ==
  FoldSet(LAMBDA key, c : Inc(c, Item(key), Get(new, Item(key))), cell, DOMAIN Post.items)
Joined(terms, field) ==
  [t \in DOMAIN terms \cup DOMAIN field |->
    IF t \notin DOMAIN terms THEN field[t]
    ELSE IF t \notin DOMAIN field THEN terms[t]
    ELSE Summed(terms[t], field[t])]

Prefixed(op, vs, terms) ==
  terms @@ [t \in {<<op.token, vs[i]>> : i \in DOMAIN vs} |-> Zero(Post)]

-----------------------------------------------------------------------------
(***************************************************************************)
(* One key of m_key_op_map.  The result is [ok, doc_id, terms]; ~ok is the *)
(* return of -1.                                                           *)
(***************************************************************************)
AddKey(st, op, doc) ==
  LET v == ValueOf(doc, op.key)
      fail == [st EXCEPT !.ok = FALSE]
  IN  CASE v.kind = "null" -> IF op.optional THEN st ELSE fail
        [] v.kind # "null" /\ op.op = "DOC_ID" ->
             IF v.kind = "int" THEN [st EXCEPT !.doc_id = v.v] ELSE fail
        [] v.kind # "null" /\ op.op = "PREFIX" /\ op.type = "INT" ->
             [st EXCEPT !.terms = Prefixed(op, <<v.v>>, @)]
        [] v.kind # "null" /\ op.op = "PREFIX" /\ op.type = "LIST" ->
             IF v.kind = "list" THEN [st EXCEPT !.terms = Prefixed(op, v.vs, @)] ELSE fail
        [] v.kind # "null" /\ op.op = "NLP" ->
             IF v.kind = "text" THEN [st EXCEPT !.terms = Joined(@, FieldTerms(op, v.toks))] ELSE fail
=============================================================================
