--------------------------- MODULE MCPostingList ----------------------------
(* Three small blocks, one large: the pool runs out while a chain grows;
   one term gets enough postings for links to be merged twice in one set. *)
EXTENDS PostingList

MCCounts == <<3, 1>>
MCMaxSets == [k \in Keys |-> IF k = 2 THEN 17 ELSE 1]
=============================================================================
