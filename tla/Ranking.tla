------------------------------- MODULE Ranking -------------------------------
(***************************************************************************)
(* Lists as the server makes them: a set of rows, in an order that ranks   *)
(* any two of them, cut to a length.                                       *)
(***************************************************************************)
EXTENDS Integers, FiniteSets, Sequences, FiniteSetsExt

ranked(S, outranks(_, _)) ==
  [i \in 1..Cardinality(S) |->
     CHOOSE x \in S : Cardinality({y \in S : outranks(y, x)}) = i - 1]

first(list, n) == SubSeq(list, 1, Min({Len(list), n}))

(* The members that pass, in their order: SelectSeq, by the positions it   *)
(* keeps, since no prover expands the library's.                           *)
kept(list, passes(_)) ==
  LET places == ranked({i \in DOMAIN list : passes(list[i])}, LAMBDA i, j : i < j)
  IN [k \in DOMAIN places |-> list[places[k]]]

membersOf(list) == {list[i] : i \in DOMAIN list}
sumOf(figure(_), S) == MapThenSumSet(figure, S)

=============================================================================
