-------------------------- MODULE MCFutexMatching ---------------------------
EXTENDS FutexMatching

CONSTANTS t1, t2, t3
Threads == {t1, t2, t3}
\* none, one, all as INT_MAX, and all as UINT_MAX
MCValues == {0, 1, 9, -1}
=============================================================================
