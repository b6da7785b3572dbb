---------------------------- MODULE MCScheduler -----------------------------
(* Instances of the scheduler.                                             *)
(*   MCScheduler.cfg: three threads on two contexts; the third may only    *)
(*     run on the first, and is the one that sleeps.                       *)
(*   MCSchedulerLive.cfg, MCSchedulerRace.cfg: two threads, one context.   *)
EXTENDS Scheduler, TLC

CONSTANTS t1, t2, t3, c1, c2, sc

Threads2 == {t1, t2}
Threads3 == {t1, t2, t3}
Contexts1 == {c1}
Contexts2 == {c1, c2}
Syscalls == {sc}
Pinned == [th \in Threads3 |-> IF th = t3 THEN {c1} ELSE Contexts2]
Anywhere == [th \in Thread |-> Context]
Sleepers == {t3}
OneProcess == [th \in Thread |-> 1]
MCSymmetry == Permutations({t1, t2})
=============================================================================
