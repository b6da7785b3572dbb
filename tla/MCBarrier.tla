----------------------------- MODULE MCBarrier ------------------------------
EXTENDS Barrier, TLC

CONSTANTS t1, t2, t3, t4

Threads4 == {t1, t2, t3, t4}
MCSymmetry == Permutations(Thread)
=============================================================================
