------------------------------- MODULE MCReviews -------------------------------
(***************************************************************************)
(* Reviews for TLC: subjects, and the kinds a rule may hide, are           *)
(* interchangeable.                                                        *)
(***************************************************************************)
EXTENDS Reviews, TLC

Symmetry == Permutations(Subject) \union Permutations(Kind \ Unsuppressible)
=============================================================================
