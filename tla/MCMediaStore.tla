---------------------------- MODULE MCMediaStore ----------------------------
(* A small instance of MediaStore, in which members, files and requests    *)
(* are interchangeable.                                                    *)
EXTENDS MediaStore, TLC

Symmetry == Permutations(Request) \cup Permutations(Member)
              \cup Permutations(Media) \cup Permutations(Poster)
=============================================================================
