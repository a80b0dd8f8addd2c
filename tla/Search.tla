------------------------------- MODULE Search -------------------------------
(***************************************************************************)
(* From a document to the answer that contains it: the update thread hands *)
(* a document to the plugin and indexes its terms; a query thread          *)
(* (flexse/query_thread.cpp) reads the lists of the query's terms and the  *)
(* plugin merges, filters, orders and pages them.                          *)
(*                                                                         *)
(* The index is one list per term, newest first (what IndexGroup promises  *)
(* between two updates); updates that run into a query are DocStore's and  *)
(* IndexGroup's subject, not this module's.                                *)
(***************************************************************************)
EXTENDS Plugin, Algo, TLC

CONSTANTS
  Docs,       \* the documents that may be sent
  Requests,   \* the queries that may be sent
  MaxDocs,    \* documents ever indexed (bound)
  Keep,       \* MAX_MERGE_KEEP_NUM and the limits of offset and size (2000)
  BufCells    \* attribute cells that fit in the send buffer

ASSUME SearchAssumption == MaxDocs \in Nat \ {0} /\ Keep \in Nat \ {0} /\ BufCells \in Nat

VARIABLES
  pc,      \* what the thread at work does next; "dead" when the process has died
  doc, k, st,            \* add: the document, the next key, the result so far
  docs,    \* history: the documents indexed, by inner id
  index,   \* the posting lists
  attrs,   \* m_docattr_bitlist, by inner id: [id, a]
  gone,    \* inner ids with a mod or a del bit
  req,     \* the query
  page,    \* query_param.offset and size
  terms,   \* term_vector
  logics,  \* filt_vector
  pairs,   \* merged_vector
  buf,     \* the cells in retBuff
  reply    \* [all, cells] once answered

addVars   == <<doc, k, st, docs, index, attrs>>
queryVars == <<req, page, terms, logics, pairs, buf, reply>>
vars == <<pc, addVars, gone, queryVars>>

NoReply == [all |-> 0, cells |-> <<>>, ok |-> FALSE]
NoQuery == [root |-> "object", terms |-> <<>>, filt |-> <<>>, orderby |-> "", offset |-> 0, size |-> 0]
NoDoc == <<>>
Start == [ok |-> TRUE, doc_id |-> 0, terms |-> <<>>]
ListOf(term) == IF term \in DOMAIN index THEN index[term] ELSE <<>>

\* What the masks read from a posting.
Posting(cell) == [id |-> Num(cell[0]), w |-> Get(cell, Item("weight"))]
Posts(term) == [i \in DOMAIN ListOf(term) |-> Posting(ListOf(term)[i])]

Init ==
  /\ pc = "idle" /\ doc = NoDoc /\ k = 1 /\ st = Start /\ docs = <<>>
  /\ index = <<>> /\ attrs = <<>> /\ gone = {}
  /\ req = NoQuery /\ page = [offset |-> 0, size |-> 0] /\ terms = <<>> /\ logics = <<>>
  /\ pairs = <<>> /\ buf = <<>> /\ reply = NoReply

-----------------------------------------------------------------------------
(***************************************************************************)
(* Update.                                                                 *)
(***************************************************************************)
AddBegin ==
  /\ pc = "idle" /\ Len(docs) < MaxDocs
  /\ doc' \in Docs /\ k' = 1 /\ st' = Start /\ pc' = "key"
  /\ UNCHANGED <<docs, index, attrs, gone, queryVars>>

\* The next key; the first one that fails ends add.
AddNext ==
  /\ pc = "key" /\ k <= Len(KeyOps)
  /\ LET new == AddKey(st, KeyOps[k], doc) IN
     IF new.ok THEN st' = new /\ k' = k + 1 /\ UNCHANGED <<pc, doc>>
               ELSE st' = Start /\ k' = 1 /\ pc' = "idle" /\ doc' = NoDoc
  /\ UNCHANGED <<docs, index, attrs, gone, queryVars>>

\* The attributes are those of m_attr_maskmap the document has as integers; then
\* the first word of every posting becomes the inner id, and the lists grow.
AddDone ==
  LET id == Len(docs) + 1
      Numbered(cell) == [cell EXCEPT ![0] = Bits(id)]
  IN
  /\ pc = "key" /\ k > Len(KeyOps)
  /\ docs' = Append(docs, doc)
  /\ attrs' = Append(attrs, [id |-> id, a |-> ValueOf(doc, "a").v])
  /\ index' = [t \in DOMAIN index \cup DOMAIN st.terms |->
                 IF t \in DOMAIN st.terms THEN <<Numbered(st.terms[t])>> \o ListOf(t) ELSE index[t]]
  /\ pc' = "idle" /\ doc' = NoDoc /\ k' = 1 /\ st' = Start
  /\ UNCHANGED <<gone, queryVars>>

\* A document is changed or deleted: its inner id gets a bit.
Drop ==
  /\ pc = "idle" /\ gone' \in {gone \cup {id} : id \in (DOMAIN docs) \ gone}
  /\ Len(docs) = MaxDocs /\ gone = {} /\ reply = NoReply
  /\ UNCHANGED <<pc, addVars, queryVars>>

-----------------------------------------------------------------------------
(***************************************************************************)
(* Query.                                                                  *)
(***************************************************************************)
SizeOf(r) == IF r.size > 0 /\ r.size <= Keep THEN r.size ELSE Keep
OffsetOf(r) == IF r.offset >= 0 /\ r.offset <= Keep THEN r.offset ELSE 0

\* ServiceApp, and the test of offset + size at the head of query().
PageOf(r) == IF OffsetOf(r) + SizeOf(r) > Keep THEN [offset |-> 0, size |-> Keep]
             ELSE [offset |-> OffsetOf(r), size |-> SizeOf(r)]

\* A query that is refused is answered with nothing.
Refuses == reply' = [NoReply EXCEPT !.ok = TRUE] /\ pc' = "idle"

\* An assertion of jsoncpp fails, or it throws and nothing catches.
Dies == pc' = "dead" /\ UNCHANGED reply

\* The text is no JSON, or a value that is neither an object nor null; or it has no terms; or it has.
QueryBegin ==
  /\ pc = "idle" /\ Len(docs) = MaxDocs /\ reply = NoReply
  /\ req' \in Requests /\ page' = PageOf(req')
  /\ \/ req'.root = "value" /\ Dies
     \/ (req'.root = "no JSON" \/ (req'.root = "object" /\ req'.terms = <<>>)) /\ Refuses
     \/ req'.root = "object" /\ req'.terms # <<>> /\ pc' = "terms" /\ UNCHANGED reply
  /\ terms' = <<>> /\ logics' = <<>>
  /\ UNCHANGED <<addVars, gone, pairs, buf>>

\* get_term_list: the list of each term, or-merged with those of its first three
\* synonyms that have one; a term without postings is left out.
TermList(e) ==
  LET own == [posts |-> Posts(e.term), weight |-> IF e.weight = 0 THEN 1 ELSE e.weight]
      syn == SelectSeq([i \in 1..Min({3, Len(e.syn)}) |-> [posts |-> Posts(e.syn[i]), weight |-> 0]],
                       LAMBDA l : l.posts # <<>>)
      all == <<own>> \o syn
  IN  IF syn = <<>> THEN own ELSE [own EXCEPT !.posts = OrMerge(all, Total(all))]

\* An element of TERMLIST is well formed, malformed (no term or weight of the right type), or a value
\* that is no object; the first one that is not well formed ends the query or the process.
GetTerms ==
  LET i == SelectInSeq(req.terms, LAMBDA e : e.form # "good") IN
  /\ pc = "terms"
  /\ \/ /\ i = 0 /\ pc' = "filt" /\ UNCHANGED reply
        /\ terms' = SelectSeq([j \in DOMAIN req.terms |-> TermList(req.terms[j])], LAMBDA l : l.posts # <<>>)
     \/ i # 0 /\ req.terms[i].form = "malformed" /\ Refuses /\ UNCHANGED terms
     \/ i # 0 /\ req.terms[i].form = "value" /\ Dies /\ UNCHANGED terms
  /\ UNCHANGED <<addVars, gone, req, page, logics, pairs, buf>>

\* A filter by the type of its METHOD.  "real": one that asInt() converts, a real number or a Boolean;
\* "int" and none are refused; "other": a string, an array, an object or a number out of range, on
\* which asInt() throws once the field is known; "value": the filter itself is no object.
FiltDies(f) == f.kind = "value" \/ (f.kind = "other" /\ f.key = "a")

\* The field is in m_attr_maskmap, and there is such a method with operands of its type.
FiltOk(f) == f.kind = "real" /\ f.key = "a" /\ f.type \in {"EQUAL", "BIGGER", "SMALLER", "SET", "ZONE"}

\* get_filt_list: the first filter that is not accepted decides.
GetFilt ==
  LET i == SelectInSeq(req.filt, LAMBDA f : ~FiltOk(f)) IN
  /\ pc = "filt"
  /\ \/ i = 0 /\ logics' = req.filt /\ pc' = "merge" /\ UNCHANGED reply
     \/ i # 0 /\ ~FiltDies(req.filt[i]) /\ Refuses /\ UNCHANGED logics
     \/ i # 0 /\ FiltDies(req.filt[i]) /\ Dies /\ UNCHANGED logics
  /\ UNCHANGED <<addVars, gone, req, page, terms, pairs, buf>>

\* weight_merge keeps the Keep heaviest.
Merge ==
  /\ pc = "merge"
  /\ pairs' \in TopSorted(WeightPairs(terms), Keep)
  /\ pc' = "live"
  /\ UNCHANGED <<addVars, gone, req, page, terms, logics, buf, reply>>

\* Documents with a mod or del bit go, then those the filters refuse.
Live ==
  /\ pc = "live"
  /\ pairs' = Filter(SelectSeq(pairs, LAMBDA r : r.id \notin gone), attrs, logics)
  /\ pc' = "copy"
  /\ UNCHANGED <<addVars, gone, req, page, terms, logics, buf, reply>>

\* The attribute cells of as many as the buffer holds, ordered by a field if asked.
Cells == [i \in 1..Min({Len(pairs), BufCells}) |-> attrs[pairs[i].id]]
Copy ==
  /\ pc = "copy"
  /\ buf' = IF req.orderby = "a" THEN FieldPartialSort(Cells, "a", Len(Cells)) ELSE Cells
  /\ pc' = "page"
  /\ UNCHANGED <<addVars, gone, req, page, terms, logics, pairs, reply>>

\* The page is moved to the front of the buffer, cell by cell.
Moved(b) ==
  FoldLeft(LAMBDA c, i : [c EXCEPT ![i - page.offset] = c[i]], b,
           [j \in 1..Max({0, Min({page.size, Len(b) - page.offset})}) |-> page.offset + j])
Page ==
  /\ pc = "page"
  /\ reply' = [ok |-> TRUE, all |-> Len(buf),
               cells |-> SubSeq(Moved(buf), 1, Max({0, Min({page.size, Len(buf) - page.offset})}))]
  /\ pc' = "idle"
  /\ UNCHANGED <<addVars, gone, req, page, terms, logics, pairs, buf>>

(***************************************************************************)
(* ranking on a posting list writes the new weight back under its mask; no *)
(* query calls it, nor ranking on pairs, group_count or a partial sort.    *)
(***************************************************************************)
RankPosting(cell, rules) ==
  Set(cell, Item("weight"), Ranked(Posting(cell).w, Posting(cell).id, attrs, rules))

Next == AddBegin \/ AddNext \/ AddDone \/ Drop
        \/ QueryBegin \/ GetTerms \/ GetFilt \/ Merge \/ Live \/ Copy \/ Page
Spec == Init /\ [][Next]_vars
-----------------------------------------------------------------------------
(***************************************************************************)
(* What a posting should say, from the document alone.                     *)
(***************************************************************************)
TextOps(d) == {i \in DOMAIN KeyOps : KeyOps[i].op = "NLP" /\ ValueOf(d, KeyOps[i].key).kind = "text"}
Toks(d, i) == ValueOf(d, KeyOps[i].key).toks
\* Sub-tokens count once per word.
Fresh(toks, j) == \A h \in 1..j - 1 : toks[h].term # toks[j].term
Places(toks, t) ==
  {<<j, 0, toks[j].off>> : j \in {h \in DOMAIN toks : toks[h].term = t}}
  \cup UNION {{<<j, s, toks[j].sons[s].off>> : s \in {r \in DOMAIN toks[j].sons : toks[j].sons[r].term = t}}
              : j \in {h \in DOMAIN toks : Fresh(toks, h)}}
HitOps(d, t) == {i \in TextOps(d) : Places(Toks(d, i), t) # {}}
CappedAt(key, n) == Min({n, MaxValue(Item(key))})
RefWeight(d, t) == CappedAt("weight", MapThenSumSet(LAMBDA i : KeyOps[i].hit_weight, HitOps(d, t)))
RefCount(d, t) == CappedAt("hit_count",
                    MapThenSumSet(LAMBDA i : Cardinality(Places(Toks(d, i), t)), HitOps(d, t)))

\* The words of its texts, and its prefixed values.
RefTerms(d) ==
  UNION {{toks[j].term : j \in DOMAIN toks}
         \cup UNION {{toks[j].sons[s].term : s \in DOMAIN toks[j].sons} : j \in DOMAIN toks}
         : toks \in {Toks(d, i) : i \in TextOps(d)}}
  \cup {<<KeyOps[i].token, ValueOf(d, KeyOps[i].key).v>> :
         i \in {j \in DOMAIN KeyOps : KeyOps[j].op = "PREFIX" /\ ValueOf(d, KeyOps[j].key).kind = "int"}}
  \cup UNION {{<<KeyOps[i].token, v>> : v \in ToSet(ValueOf(d, KeyOps[i].key).vs)} :
         i \in {j \in DOMAIN KeyOps : KeyOps[j].op = "PREFIX" /\ ValueOf(d, KeyOps[j].key).kind = "list"}}

\* A second position too far from the first does not fit in its field, and the
\* posting's other fields are then anything.
TooFar(d, t) ==
  \E i \in HitOps(d, t) : KeyOps[i].position
    /\ \E p, q \in Places(Toks(d, i), t) : q[3] - p[3] > MaxValue(Item("offset2"))

\* A document is indexed under exactly its words and prefixed values, and each
\* posting carries the weight once per field that has the word ("保证该field内的term
\* 只增加一次hit_weight"), the hit flags and the number of hits, each up to what
\* its bits hold.
PostingsExact ==
  (pc = "key" /\ k > Len(KeyOps)) =>
    /\ DOMAIN st.terms = RefTerms(doc)
    /\ \A t \in (DOMAIN st.terms) \ {EmptyTerm} :
      LET cell == st.terms[t] IN
      TooFar(doc, t) \/
        /\ Get(cell, Item("weight")) = RefWeight(doc, t)
        /\ Get(cell, Item("hit_count")) = RefCount(doc, t)
        /\ \A i \in DOMAIN KeyOps : KeyOps[i].hit_weight > 0 =>
             (Get(cell, Item(KeyOps[i].hit_field)) = 1) = (i \in HitOps(doc, t))

-----------------------------------------------------------------------------
(***************************************************************************)
(* What an answer should be, from the documents and the query alone.       *)
(***************************************************************************)
\* Every document with its terms and their weights.
RefPostings == [d \in Docs |-> [t \in RefTerms(d) |-> RefWeight(d, t)]]

Spelled(e) == <<e.term>> \o SubSeq(e.syn, 1, Min({3, Len(e.syn)}))
HitsOf(posts, e) == {i \in DOMAIN Spelled(e) : Spelled(e)[i] \in DOMAIN posts}
Atleast1(n) == IF n = 0 THEN 1 ELSE n
\* What term e adds to a document: the first spelling the document has decides.
TermScore(posts, e) ==
  LET hits == HitsOf(posts, e) IN
  IF hits = {} THEN 0 ELSE Atleast1(e.weight) * Atleast1(posts[Spelled(e)[Min(hits)]])
RefScore(id) ==
  LET posts == RefPostings[docs[id]] IN
  MapThenSumSet(LAMBDA j : TermScore(posts, req.terms[j]), DOMAIN req.terms)
Wanted(id) == id \notin gone /\ \A i \in DOMAIN req.filt : Holds(req.filt[i], attrs[id].a)
\* The matching documents with their weight and what they are ordered by.
Scored ==
  {[id |-> p[1], w |-> p[2], by |-> IF req.orderby = "a" THEN attrs[p[1]].a ELSE p[2]]
     : p \in {q \in {<<id, RefScore(id)>> : id \in DOMAIN docs} : q[2] > 0}}
Answered == pc = "idle" /\ reply.ok
Accepted == /\ req.root = "object" /\ req.terms # <<>>
            /\ \A i \in DOMAIN req.terms : req.terms[i].form = "good"
            /\ \A i \in DOMAIN req.filt : FiltOk(req.filt[i])

\* The answer holds matching documents that live, pass the filters and are among
\* the Keep heaviest, none twice, the best first; as long as no more than Keep
\* match and the buffer holds them, none is missing: all_num counts them and the
\* page starts behind exactly offset of them.
AnswerExact ==
  (Answered /\ Accepted) =>
    LET all == Scored
        eligible == {d \in all : Wanted(d.id)}
        found == [i \in DOMAIN reply.cells |-> CHOOSE d \in all : d.id = reply.cells[i].id]
        ids == {d.id : d \in all}
    IN
    (\A d \in all : d.w < 2^SumBits) =>
    /\ IsInjective(reply.cells)
    /\ \A i \in DOMAIN found :
         /\ reply.cells[i].id \in ids /\ reply.cells[i] = attrs[found[i].id]
         /\ found[i] \in eligible
         /\ Cardinality({d \in all : d.w > found[i].w}) < Keep
    /\ \A i, j \in DOMAIN found : i < j => found[i].by >= found[j].by
    /\ (Cardinality(all) <= Keep /\ Cardinality(eligible) <= BufCells) =>
         /\ reply.all = Cardinality(eligible)
         /\ Len(found) = Max({0, Min({page.size, reply.all - page.offset})})
         /\ \A i \in DOMAIN found :
              /\ Cardinality({d \in eligible : d.by > found[i].by}) < page.offset + i
              /\ Cardinality({d \in eligible : d.by >= found[i].by}) >= page.offset + i

\* The query's filters as ranking logics.
Rules == [i \in DOMAIN req.filt |-> req.filt[i] @@ [weight |-> i + 1]]
RefRanked(r) ==
  r.w + MapThenSumSet(LAMBDA i : i + 1, {i \in DOMAIN req.filt : Holds(req.filt[i], attrs[r.id].a)})

\* The library functions no query calls do what they say: a partial sort puts the
\* largest first, in order ("按照某个属性选取TOP-N"); groups partition the cells;
\* ranking adds the weight of every logic that holds, and in a posting leaves the
\* other fields alone as long as the new weight fits in its bits.
LibraryExact ==
  pc = "page" =>
    /\ \A part \in 0..Len(Cells) :
         LET s == FieldPartialSort(Cells, "a", part) IN
         /\ \A i, j \in 1..part : i < j => s[i].a >= s[j].a
         /\ IsInjective([i \in 1..part |-> s[i]])
         /\ \A i \in 1..part : Contains(Cells, s[i])
         /\ part > 0 => \A c \in ToSet(Cells) \ {s[i] : i \in 1..part} : c.a <= s[part].a
    /\ LET g == GroupCount(Cells, "a") IN
         /\ DOMAIN g = {c.a : c \in ToSet(Cells)}
         /\ \A v \in DOMAIN g : g[v] = Cardinality({c \in ToSet(Cells) : c.a = v})
    /\ ToSet(Ranking(pairs, attrs, Rules)) =
         {[id |-> r.id, w |-> RefRanked(r) % 2^SumBits] : r \in ToSet(pairs)}
    /\ \A e \in ToSet(req.terms) : \A cell \in ToSet(ListOf(e.term)) :
         LET w == RefRanked(Posting(cell))
             m == Item("weight")
             new == RankPosting(cell, Rules)
             Rest(c) == [c EXCEPT ![m.off] = @ \ m.mask]
         IN  w <= MaxValue(m) => Get(new, m) = w /\ Rest(new) = Rest(cell)
=============================================================================
