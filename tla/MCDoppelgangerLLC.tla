------------------------- MODULE MCDoppelgangerLLC --------------------------
(* Two caches above, two approximable lines, and a program that changes    *)
(* the map of a line at any time (MCLLCWrite.cfg).                         *)
EXTENDS DoppelgangerLLC, TLC

CONSTANTS p1, p2, a1, a2, m1, m2

TwoAddr  == {a1, a2}
TwoChild == {p1, p2}
MCMap    == {m1, m2}
MCHash   == [k \in TwoAddr \cup MCMap |-> IF k = a1 THEN 1 ELSE IF k = a2 THEN 2 ELSE 0]
MCSymmetry == {f @@ g : f \in Permutations(TwoChild), g \in Permutations(MCMap)}
=============================================================================
