----------------------------- MODULE MCAccounts -----------------------------
(* A small instance of Accounts, in which phones and requests are          *)
(* interchangeable.                                                        *)
EXTENDS Accounts, TLC

Symmetry == Permutations(Request) \cup Permutations(Phone)
=============================================================================
