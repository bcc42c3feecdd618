----------------------------- MODULE MCSessions -----------------------------
(* A small instance of Sessions, in which requests are interchangeable.    *)
EXTENDS Sessions, TLC

Symmetry == Permutations(Request)
=============================================================================
