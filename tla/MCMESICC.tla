------------------------------ MODULE MCMESICC ------------------------------
(* Two cache trees for the coherence controllers:                          *)
(*   MCMESICCTree: an LLC over an L2 with two L1s, and a third L1 directly *)
(*     below the LLC, one line (invalidations crossing an inner cache);    *)
(*   MCMESICCChain: an LLC over an L2 with one L1, and an L1, two lines.   *)
EXTENDS MESICC, TLC

CONSTANTS llc, l2, l1a, l1b, l1c, x, y

LineSym     == Permutations({x, y})

TreeNode    == {llc, l2, l1a, l1b, l1c}
TreeParent  == (l2 :> llc @@ l1c :> llc @@ l1a :> l2 @@ l1b :> l2)

ChainNode   == {llc, l2, l1a, l1c}
ChainParent == (l2 :> llc @@ l1c :> llc @@ l1a :> l2)
=============================================================================
