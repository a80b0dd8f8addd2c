-------------------------------- MODULE Algo --------------------------------
(***************************************************************************)
(* The algorithms of a query (utils/algo/algo.cpp): merging posting lists, *)
(* filtering, weighting, ordering and counting.                            *)
(*                                                                         *)
(* A posting is [id, w]: what _GET_LIST_VALUE_ reads under the id and the  *)
(* weight mask.  An attribute cell is a record of the values read under    *)
(* the attribute masks.  A list is in descending order of id.              *)
(***************************************************************************)
EXTENDS Integers, Sequences, SequencesExt, FiniteSetsExt

CONSTANT SumBits   \* bits of the uint32_t a weight is summed in (32 in the code)

ASSUME SumAssumption == SumBits \in Nat \ {0}

-----------------------------------------------------------------------------
(***************************************************************************)
(* One logic of filter and ranking: does value v satisfy it?               *)
(***************************************************************************)
Holds(l, v) ==
  CASE l.type = "EQUAL"   -> v = l.value
    [] l.type = "SET"     -> v \in l.vset
    [] l.type = "BIGGER"  -> v >= l.value
    [] l.type = "SMALLER" -> v <= l.value
    [] l.type = "ZONE"    -> l.min <= v /\ v <= l.max

\* filter: the documents that satisfy every logic, compacted in place.
Filter(list, attrs, logics) ==
  SelectSeq(list, LAMBDA r : \A k \in DOMAIN logics : Holds(logics[k], attrs[r.id][logics[k].key]))

\* ranking: each logic that holds adds its weight.
Ranked(w, id, attrs, logics) ==
  FoldLeft(LAMBDA s, l : IF Holds(l, attrs[id][l.key]) THEN (s + l.weight) % 2^SumBits ELSE s,
           w, logics)
Ranking(list, attrs, logics) ==
  [i \in DOMAIN list |-> [list[i] EXCEPT !.w = Ranked(@, list[i].id, attrs, logics)]]

-----------------------------------------------------------------------------
(***************************************************************************)
(* or_merge and weight_merge walk all lists at once, one pointer per list  *)
(* (0 when the list is finished; -1 in the code).                          *)
(***************************************************************************)
Started(lists) == [i \in DOMAIN lists |-> IF lists[i].posts = <<>> THEN 0 ELSE 1]
Open(ptr) == {i \in DOMAIN ptr : ptr[i] > 0}
Head1(lists, ptr, i) == lists[i].posts[ptr[i]]
MaxId(lists, ptr) == Max({Head1(lists, ptr, i).id : i \in Open(ptr)})
AtMax(lists, ptr) == {i \in Open(ptr) : Head1(lists, ptr, i).id = MaxId(lists, ptr)}

\* Every list at the largest id moves on.
Advance(lists, ptr) ==
  [i \in DOMAIN ptr |->
    IF i \notin AtMax(lists, ptr) THEN ptr[i]
    ELSE IF ptr[i] = Len(lists[i].posts) THEN 0 ELSE ptr[i] + 1]

Total(lists) == FoldLeft(LAMBDA s, l : s + Len(l.posts), 0, lists)

\* Mutant: the last list with the id provides the posting.
ProviderLast(lists, ptr) == Max(AtMax(lists, ptr))

\* The first list with the id provides the posting.
Provider(lists, ptr) == Min(AtMax(lists, ptr))

\* leftsize is in bytes and is decreased by words, so it admits four times the
\* postings the buffer holds.
OrMerge(lists, bufPosts) ==
  LET Step(s) == [ptr |-> Advance(lists, s.ptr),
                  out |-> Append(s.out, Head1(lists, s.ptr, Provider(lists, s.ptr)))]
      Run[n \in 0..Total(lists)] ==
        IF n = 0 THEN [ptr |-> Started(lists), out |-> <<>>]
        ELSE LET s == Run[n - 1] IN
             IF Open(s.ptr) # {} /\ 4 * bufPosts - Len(s.out) >= 1 THEN Step(s) ELSE s
  IN  Run[Total(lists)].out

WeightOf(post) == IF post.w = 0 THEN 1 ELSE post.w

\* The pairs weight_merge collects, before they are sorted.
WeightPairs(lists) ==
  LET Weight(ptr) ==
        MapThenSumSet(LAMBDA i : lists[i].weight * WeightOf(Head1(lists, ptr, i)), AtMax(lists, ptr))
      Step(s) == [ptr |-> Advance(lists, s.ptr),
                  out |-> Append(s.out, [id |-> MaxId(lists, s.ptr), w |-> Weight(s.ptr) % 2^SumBits])]
      Run[n \in 0..Total(lists)] ==
        IF n = 0 THEN [ptr |-> Started(lists), out |-> <<>>]
        ELSE LET s == Run[n - 1] IN IF Open(s.ptr) # {} THEN Step(s) ELSE s
  IN  Run[Total(lists)].out

\* compare_result
Heavier(a, b) == a.w >= b.w

\* What sort and partial_sort may return: pairs of equal weight in any order.
TopSorted(pairs, keep) ==
  {SubSeq(s, 1, Min({keep, Len(s)})) : s \in {t \in SetToSeqs(ToSet(pairs)) : IsSorted(t, Heavier)}}

-----------------------------------------------------------------------------
(***************************************************************************)
(* field_partial_sort: a heap sort by the field key.  Positions count from *)
(* 0, as in the code.                                                      *)
(***************************************************************************)
At(l, i, key) == l[i + 1][key]
Child(l, n, i, key) ==
  LET c == 2 * i + 1 IN
  IF c # n - 1 /\ At(l, c + 1, key) > At(l, c, key) THEN c + 1 ELSE c

\* The positions heap_adjust passes on its way down from k.
SiftPath(l, n, k, key) ==
  LET Path[i \in 0..n] ==
        IF 2 * i + 1 < n /\ At(l, k, key) < At(l, Child(l, n, i, key), key)
          THEN <<i>> \o Path[Child(l, n, i, key)] ELSE <<i>>
  IN  Path[k]

\* Each element on the path moves up to its parent's place, the first to the end.
HeapAdjust(l, n, k, key) ==
  LET p == SiftPath(l, n, k, key) IN
  FoldLeft(LAMBDA h, q : [h EXCEPT ![p[q] + 1] = l[p[q + 1] + 1]],
           [l EXCEPT ![Last(p) + 1] = l[k + 1]], [q \in 1..Len(p) - 1 |-> q])

Swap(l, i, j) == [l EXCEPT ![i + 1] = l[j + 1], ![j + 1] = l[i + 1]]
Down(from, to) == [i \in 1..Max({from - to + 1, 0}) |-> from - i + 1]

\* Mutant: the heap is not restored after the root is taken.
TakenOnly(l, i, key) == Swap(l, 0, i)

\* The root goes to the end, the rest becomes a heap again.
Taken(l, i, key) == HeapAdjust(Swap(l, 0, i), i, 0, key)

FieldPartialSort(l, key, part) ==
  LET n == Len(l)
      heap == FoldLeft(LAMBDA h, i : HeapAdjust(h, n, i, key), l, Down(n \div 2 - 1, 0))
      stop == Max({n - 1 - part, 0})
      up == FoldLeft(LAMBDA h, i : Taken(h, i, key), heap, Down(n - 1, stop + 1))
  IN  IF part > n \div 2 THEN Reverse(up)
      ELSE FoldLeft(LAMBDA h, i : [h EXCEPT ![i] = up[n + 1 - i]], up, [i \in 1..part |-> i])

\* group_count
GroupCount(cells, key) ==
  FoldLeft(LAMBDA m, c :
      IF c[key] \in DOMAIN m THEN [m EXCEPT ![c[key]] = @ + 1] ELSE (c[key] :> 1) @@ m,
    <<>>, cells)
=============================================================================
