------------------------------ MODULE Barrier -------------------------------
(***************************************************************************)
(* The phase barrier, zsim/src/barrier.h.  Simulated time advances in      *)
(* phases; in each phase every thread of the barrier runs once, at most    *)
(* parallelThreads of them at a time, in the order of a run list.  Threads *)
(* leave (for a system call) and join at any time; one that comes back in  *)
(* the phase it left in must still finish that phase.                      *)
(*                                                                         *)
(* join, leave and sync run under the scheduler's lock and are atomic but  *)
(* for the wait on a futex at the end of join and sync.  The thread that   *)
(* is first to find a phase complete ends it for all of them.              *)
(*                                                                         *)
(* A "thread" of the barrier is a context (core) of the scheduler: when    *)
(* the process that has one dies, another may take it over.                *)
(***************************************************************************)
EXTENDS Integers, FiniteSets

CONSTANTS
  Thread,           \* 0 .. MAX_THREADS-1 in the code
  parallelThreads,  \* how many may run at a time
  CleanupPeriod,    \* every how many phases the run list is cleaned up: 32
  MaxLeaves,        \* how often a thread may leave in a phase: a bound, as a
                    \* phase is a number of cycles and a run takes some
  Kills             \* may a thread be killed while it waits?

ASSUME BarrierAssumption ==
  /\ IsFiniteSet(Thread)
  /\ parallelThreads \in Nat \ {0}
  /\ CleanupPeriod \in Nat \ {0}
  /\ MaxLeaves \in Nat \ {0}
  /\ Kills \in BOOLEAN

VARIABLES
  b,       \* the fields of the barrier, and three history variables:
           \*   done    threads that have synced in this phase
           \*   leaves  how often each thread has left in this phase
           \*   killed  some thread was killed in its wait
  inWait,  \* threads in the futex wait of join or sync
  fault    \* an assertion or panic of the code was hit

vars == <<b, inWait, fault>>

Init ==
  /\ b = [state |-> [t \in Thread |-> "OFFLINE"],
          futexWord |-> [t \in Thread |-> 0],
          lastIdx |-> [t \in Thread |-> 0],
          runList |-> <<>>,     \* a function on 0 .. runListSize-1
          runListSize |-> 0, curThreadIdx |-> 0,
          runningThreads |-> 0, leftThreads |-> 0, phaseCount |-> 0,
          done |-> {}, leaves |-> [t \in Thread |-> 0],
          killed |-> FALSE]
  /\ inWait = {}
  /\ fault = FALSE

Indices(x) == 0 .. x.runListSize - 1
In(x, s) == {t \in Thread : x.state[t] = s}

-----------------------------------------------------------------------------
(* The private operations: each yields the barrier after it, checkEndPhase *)
(* the barriers that the random shuffle can leave.                         *)

\* The indices of waiting threads from the current one to before k
WaitingUpTo(x, k) ==
  {i \in x.curThreadIdx .. k - 1 : x.state[x.runList[i]] = "WAITING"}

\* checkRunList: wake the next waiting threads, as many as may run.
CheckRunList(x) ==
  LET room == parallelThreads - x.runningThreads
      stop == CHOOSE k \in x.curThreadIdx .. x.runListSize :
                /\ \/ Cardinality(WaitingUpTo(x, k)) = room
                   \/ k = x.runListSize
                /\ \A j \in x.curThreadIdx .. k - 1 :
                     Cardinality(WaitingUpTo(x, j)) < room
      woken == {x.runList[i] : i \in WaitingUpTo(x, stop)}
  IN
  [x EXCEPT
     !.state = [t \in Thread |-> IF t \in woken THEN "RUNNING" ELSE @[t]],
     !.futexWord = [t \in Thread |-> IF t \in woken THEN 0 ELSE @[t]],
     !.lastIdx = [t \in Thread |-> IF t \in woken
                                     THEN CHOOSE i \in WaitingUpTo(x, stop) : x.runList[i] = t
                                     ELSE @[t]],
     !.curThreadIdx = stop,
     !.runningThreads = @ + Cardinality(woken)]

\* A step of the cleanup pass: a thread that LEFT goes OFFLINE, and the last
\* thread of the list takes its place.
CleanupStep(p) ==
  LET wtid == p.bar.runList[p.idx]
      stid == p.bar.runList[p.newSize - 1]
  IN IF p.bar.state[wtid] = "LEFT"
       THEN [bar |-> [p.bar EXCEPT !.state[wtid] = "OFFLINE",
                                   !.runList[p.idx] = stid,
                                   !.lastIdx[stid] = p.idx],
             idx |-> p.idx, newSize |-> p.newSize - 1]
       ELSE [bar |-> p.bar, idx |-> p.idx + 1, newSize |-> p.newSize]

\* A pass over n entries takes n steps.
CleanupPass(x) ==
  LET pass[n \in 0 .. x.runListSize] ==
        IF n = 0 THEN [bar |-> x, idx |-> 0, newSize |-> x.runListSize]
        ELSE CleanupStep(pass[n - 1])
  IN pass

Cleanup(x) ==
  LET last == CleanupPass(x)[x.runListSize] IN
  [last.bar EXCEPT
     !.runList = [i \in 0 .. last.newSize - 1 |-> last.bar.runList[i]],
     !.runListSize = last.newSize,
     !.leftThreads = 0]

\* Fisher-Yates: any order of the list.  A thread that stays first is not
\* touched.
Shuffles(x) ==
  {[x EXCEPT
      !.runList = l,
      !.lastIdx = [t \in Thread |->
        IF \E i \in Indices(x) : l[i] = t /\ (i # 0 \/ x.runList[0] # t)
          THEN CHOOSE i \in Indices(x) : l[i] = t ELSE @[t]]] :
    l \in {f \in [Indices(x) -> Thread] :
             \A t \in Thread : (\E i \in Indices(x) : f[i] = t)
                                 <=> (\E i \in Indices(x) : x.runList[i] = t)}}

\* checkEndPhase
EndsPhase(x) ==
  /\ x.curThreadIdx = x.runListSize
  /\ x.runningThreads = 0
  /\ x.leftThreads # x.runListSize
PhaseEnded(x) ==
  [x EXCEPT !.curThreadIdx = 0,
            !.phaseCount = (@ + 1) % CleanupPeriod,
            !.done = {},
            !.leaves = [t \in Thread |-> 0]]
CheckEndPhase(x) ==
  IF ~EndsPhase(x) THEN {x}
  ELSE LET ended == PhaseEnded(x)
           clean == IF x.phaseCount = 0 THEN Cleanup(ended) ELSE ended
       IN IF parallelThreads < clean.runListSize THEN Shuffles(clean) ELSE {clean}

\* faulty: nobody is woken for the new phase
TryWakeNextOnce(x) == UNION {CheckEndPhase(y) : y \in {CheckRunList(w) : w \in {x}}}
TryWakeNext(x) ==
  UNION {{CheckRunList(z) : z \in CheckEndPhase(y)} : y \in {CheckRunList(w) : w \in {x}}}

-----------------------------------------------------------------------------
(* The operations                                                          *)

\* After join or sync of t: it waits unless it has been woken already.
Proceed(t) ==
  inWait' = IF b'.state[t] = "WAITING" THEN inWait \cup {t} ELSE inWait

Waiting(x, t) == [x EXCEPT !.state[t] = "WAITING", !.futexWord[t] = 1]

\* The run list with t at its end
Append(x, t) ==
  [x EXCEPT !.runList = [i \in 0 .. x.runListSize |->
                           IF i = x.runListSize THEN t ELSE x.runList[i]],
            !.runListSize = @ + 1]

\* faulty: the other thread is not told its place, or not moved
RescheduleUntold(x, t) ==
  LET here == x.lastIdx[t]
      there == x.curThreadIdx - 1
      other == x.runList[there]
  IN [x EXCEPT !.curThreadIdx = there,
               !.runList = [@ EXCEPT ![here] = other, ![there] = t],
               !.lastIdx[t] = there]
RescheduleUnswapped(x, t) == [x EXCEPT !.curThreadIdx = @ - 1]

\* t ran in this phase: it trades places with the last thread the list has
\* passed, and the list steps back to it.
Reschedule(x, t) ==
  LET here == x.lastIdx[t]
      there == x.curThreadIdx - 1
      other == x.runList[there]
  IN [x EXCEPT !.curThreadIdx = there,
               !.runList = [@ EXCEPT ![here] = other, ![there] = t],
               !.lastIdx = [@ EXCEPT ![other] = here, ![t] = there]]

\* faulty: a thread that comes back waits for the next phase
HadItsTurnNever(t) == FALSE

\* The thread left in this phase, after its turn.
HadItsTurn(t) == b.state[t] = "LEFT" /\ b.curThreadIdx > b.lastIdx[t]

Join(t) ==
  LET left == [b EXCEPT !.leftThreads = @ - 1]
      listed == IF b.state[t] = "OFFLINE" THEN Append(b, t)
                ELSE IF HadItsTurn(t) THEN Reschedule(left, t) ELSE left
  IN
  /\ b.state[t] \in {"LEFT", "OFFLINE"}
  /\ HadItsTurn(t) => b.runList[b.lastIdx[t]] = t
  /\ b' \in TryWakeNext(Waiting(listed, t))
  /\ Proceed(t)
  /\ UNCHANGED fault

\* The assertion of the reschedule fails, and the program ends.
JoinFails(t) ==
  /\ HadItsTurn(t)
  /\ b.runList[b.lastIdx[t]] # t
  /\ fault' = TRUE
  /\ UNCHANGED <<b, inWait>>

\* faulty: a thread that leaves is taken to be running
LeftRunning(x, t) ==
  [x EXCEPT !.state[t] = "LEFT",
            !.leftThreads = @ + 1,
            !.leaves[t] = @ + 1,
            !.runningThreads = @ - 1]

\* leave, up to the tryWakeNext of a thread that was running
Left(x, t) ==
  [x EXCEPT !.state[t] = "LEFT",
            !.leftThreads = @ + 1,
            !.leaves[t] = @ + 1,
            !.runningThreads = IF x.state[t] = "RUNNING" THEN @ - 1 ELSE @]

Leave(t) ==
  /\ b.state[t] = "RUNNING" /\ t \notin inWait
  /\ b.leaves[t] < MaxLeaves
  /\ b' \in TryWakeNext(Left(b, t))
  /\ UNCHANGED <<inWait, fault>>

Sync(t) ==
  /\ b.state[t] = "RUNNING" /\ t \notin inWait
  /\ b' \in TryWakeNext([Waiting(b, t) EXCEPT !.runningThreads = @ - 1,
                                              !.done = @ \cup {t}])
  /\ Proceed(t)
  /\ UNCHANGED fault

\* The wait ends: the futex word is 0.
WakeUp(t) ==
  /\ t \in inWait
  /\ b.futexWord[t] # 1
  /\ inWait' = inWait \ {t}
  /\ fault' = (b.state[t] # "RUNNING")
  /\ UNCHANGED b

\* The watchdog cleans up after a process that died in the wait: finish calls
\* leave for it, and the context is free for another thread.
LeaveKilled(t) ==
  /\ Kills
  /\ t \in inWait
  /\ b.leaves[t] < MaxLeaves
  /\ LET gone == [Left(b, t) EXCEPT !.killed = TRUE, !.done = @ \ {t}] IN
     IF b.state[t] = "RUNNING" THEN b' \in TryWakeNext(gone) ELSE b' = gone
  /\ inWait' = inWait \ {t}
  /\ UNCHANGED fault

Next ==
  /\ ~fault
  /\ \E t \in Thread : \/ Join(t) \/ JoinFails(t)
                       \/ Leave(t) \/ LeaveKilled(t)
                       \/ Sync(t) \/ WakeUp(t)

Spec == Init /\ [][Next]_vars
-----------------------------------------------------------------------------
(* Properties                                                              *)

States == {"OFFLINE", "WAITING", "RUNNING", "LEFT"}

\* The types of the variables
TypeOK ==
  /\ b.state \in [Thread -> States]
  /\ b.futexWord \in [Thread -> {0, 1}]
  /\ b.lastIdx \in [Thread -> Nat]
  /\ b.runListSize \in Nat
  /\ b.runList \in [Indices(b) -> Thread]
  /\ b.curThreadIdx \in 0 .. b.runListSize
  /\ b.phaseCount \in 0 .. CleanupPeriod - 1
  /\ b.done \subseteq Thread
  /\ b.leaves \in [Thread -> 0 .. MaxLeaves]
  /\ b.killed \in BOOLEAN
  /\ inWait \subseteq Thread
  /\ fault \in BOOLEAN

\* As long as threads leave by themselves, no assertion is hit: a thread that
\* leaves and joins is found in the run list where it was last; one that is woken
\* is running.  (A thread that is killed in its first wait leaves a stale lastIdx,
\* and the next thread on its context may fail the assertion of join.)
OnlyKillsFault == fault => b.killed

\* The run list holds each thread that is not OFFLINE once; the counters count
\* the threads in each state, and no more run than may.
CountsRight ==
  /\ TypeOK
  /\ \A i, j \in Indices(b) : b.runList[i] = b.runList[j] => i = j
  /\ {b.runList[i] : i \in Indices(b)} = Thread \ In(b, "OFFLINE")
  /\ b.runningThreads = Cardinality(In(b, "RUNNING"))
  /\ b.leftThreads = Cardinality(In(b, "LEFT"))
  /\ b.runningThreads <= parallelThreads

\* Nobody sleeps who was woken, and nobody waits who could run: a waiting
\* thread has its futex word set, and is behind threads that fill all the room
\* or has already run in this phase.  (A stale lastIdx, after a thread was
\* killed in its wait, leaves another waiting with room to run.)
NoLostWakeup ==
  \A t \in In(b, "WAITING") :
    /\ b.futexWord[t] = 1
    /\ t \in b.done \/ b.runningThreads = parallelThreads \/ b.killed

\* A thread that has synced does not run again before the phase ends.
OncePerPhase == b.done \cap In(b, "RUNNING") = {}

\* join never ends a phase ("You can't cause a phase to end here"), but for a
\* thread with a stale lastIdx.
JoinEndsNoPhase ==
  [][\A t \in Thread : Join(t) /\ ~b.killed => b'.phaseCount = b.phaseCount]_vars
=============================================================================
