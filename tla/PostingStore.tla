---------------------------- MODULE PostingStore ----------------------------
(***************************************************************************)
(* What index_group promises its callers during one life of the process,   *)
(* without layers, files or threads: a set of postings <<term, id>> that   *)
(* every query sees whole.  An insertion is searchable at once and becomes *)
(* the head of its term's list; a posting leaves the store only when its   *)
(* list already holds MaxList newer ones.                                  *)
(***************************************************************************)
EXTENDS Integers, FiniteSets

CONSTANTS Terms, Ids, MaxList
VARIABLES store, alive
vars == <<store, alive>>

Init == store = {} /\ alive = TRUE

Insert(t, id) ==
  /\ alive
  /\ \A p \in store : p[1] = t => p[2] < id
  /\ store' = store \cup {<<t, id>>}
  /\ UNCHANGED alive

\* The merges cut each list at MaxList.
Trim ==
  /\ alive
  /\ store' \subseteq store
  /\ \A p \in store \ store' :
       Cardinality({q \in store : q[1] = p[1] /\ q[2] > p[2]}) >= MaxList
  /\ UNCHANGED alive

\* The process dies and takes the store with it.
Stop == alive /\ alive' = FALSE /\ store' = {}

Next ==
  \/ \E t \in Terms : \E id \in Ids : Insert(t, id)
  \/ Trim
  \/ Stop

Spec == Init /\ [][Next]_vars
=============================================================================
