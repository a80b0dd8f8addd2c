---------------------------- MODULE MCIndexGroup ----------------------------
(* Constants for the model-checking runs of IndexGroup. *)
EXTENDS IndexGroup

CONSTANTS a, b

MCTerms == {a, b}
\* Lists of one term that grow past MaxList, and messages that share their terms.
MCTermsOf3 == <<{a, b}, {a}, {a, b}>>
MCTermsOfRun == <<{a}, {a}, {a, b}>>
=============================================================================
