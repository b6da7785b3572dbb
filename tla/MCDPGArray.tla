----------------------------- MODULE MCDPGArray -----------------------------
(* An instance of the Doppelganger array: 4 tags in two sets of two ways,  *)
(* one set of two data entries.  Three map values compete for the two      *)
(* entries, and two of the addresses share a tag set.                      *)
EXTENDS DPGArray, TLC

CONSTANTS a1, a2, a3, m1, m2, m3

MCAddr == {a1, a2, a3}
MCMap  == {m1, m2, m3}
MCHash == (a1 :> 0 @@ a2 :> 0 @@ a3 :> 1) @@ (m1 :> 0 @@ m2 :> 0 @@ m3 :> 0)
MCSymmetry == Permutations({a1, a2}) \cup Permutations(MCMap)
=============================================================================
