----------------------------- MODULE MCDocStore -----------------------------
(* Documents with an inner id are alike. *)
EXTENDS DocStore, TLC

Symmetry == Permutations(Outer)
=============================================================================
