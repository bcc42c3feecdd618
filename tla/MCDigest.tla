------------------------------ MODULE MCDigest ------------------------------
(* A small instance of Digest: hours of two slots and days of two hours,   *)
(* and a quiet time of half a day.                                         *)
EXTENDS Digest, TLC

CONSTANTS ann, bob

(* Ann has a summary in the day's second hour, Bob none at first.          *)
MCInitPrefs ==
  (ann :> [enabled |-> TRUE, hour |-> 1, offset |-> 0])
    @@ (bob :> [enabled |-> FALSE, hour |-> 0, offset |-> 0])

(* The app refreshes the offset on launch; a member changes the hour.      *)
MCPatches == {[offset |-> -4], [enabled |-> TRUE, hour |-> 0]}
MCOnePatch == {[enabled |-> TRUE, hour |-> 0]}
=============================================================================
