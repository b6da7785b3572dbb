--------------------------- MODULE BarrierProofs ----------------------------
(***************************************************************************)
(* Theorems about the phase barrier, for any number of threads, any limit  *)
(* on those that run and any length of a phase: the counters are right,    *)
(* each thread runs once in a phase, no wake-up is lost, join ends no      *)
(* phase, and no assertion is hit as long as nobody is killed.             *)
(*                                                                         *)
(* The invariant BInv is kept by each part of an operation: checkRunList,  *)
(* checkEndPhase with its cleanup and shuffle, and what join, leave and    *)
(* sync do before them.  That nobody waits who could run holds only when   *)
(* the last checkRunList is over.                                          *)
(***************************************************************************)
EXTENDS Barrier, FiniteSetTheorems, FunctionTheorems, NaturalsInduction, TLAPS

\* The fields of a barrier
Fields(x) ==
  x = [state |-> x.state, futexWord |-> x.futexWord, lastIdx |-> x.lastIdx,
       runList |-> x.runList, runListSize |-> x.runListSize, curThreadIdx |-> x.curThreadIdx,
       runningThreads |-> x.runningThreads, leftThreads |-> x.leftThreads,
       phaseCount |-> x.phaseCount, done |-> x.done, leaves |-> x.leaves, killed |-> x.killed]

\* ... and their types
Typed(x) ==
  /\ x.state \in [Thread -> States]
  /\ x.futexWord \in [Thread -> {0, 1}]
  /\ x.lastIdx \in [Thread -> Nat]
  /\ x.runListSize \in Nat
  /\ x.runList \in [0 .. x.runListSize - 1 -> Thread]
  /\ x.curThreadIdx \in 0 .. x.runListSize
  /\ x.phaseCount \in 0 .. CleanupPeriod - 1
  /\ x.done \subseteq Thread
  /\ x.leaves \in [Thread -> 0 .. MaxLeaves]
  /\ x.killed \in BOOLEAN

\* The run list holds every thread that is not OFFLINE, once.
Listed(x) ==
  /\ \A i, j \in 0 .. x.runListSize - 1 : x.runList[i] = x.runList[j] => i = j
  /\ \A i \in 0 .. x.runListSize - 1 : x.state[x.runList[i]] # "OFFLINE"
  /\ \A t \in Thread : x.state[t] # "OFFLINE" =>
       \E i \in 0 .. x.runListSize - 1 : x.runList[i] = t

Counted(x) ==
  /\ x.runningThreads = Cardinality(In(x, "RUNNING"))
  /\ x.leftThreads = Cardinality(In(x, "LEFT"))
  /\ x.runningThreads <= parallelThreads

\* From the current index on, nobody has had a turn in this phase.
Ahead(x) ==
  /\ x.done \subseteq In(x, "WAITING")
  /\ \A i \in x.curThreadIdx .. x.runListSize - 1 :
       x.state[x.runList[i]] # "RUNNING" /\ x.runList[i] \notin x.done

\* Who waits sleeps.
Asleep(x) == \A t \in Thread : x.state[t] = "WAITING" => x.futexWord[t] = 1

\* Unless a thread was killed in its wait: the index that join would look at is
\* right, and those that wait behind the current index have run.
Told(x) ==
  \A t \in Thread : x.state[t] \in {"RUNNING", "LEFT"} =>
    x.lastIdx[t] \in 0 .. x.runListSize - 1 /\ x.runList[x.lastIdx[t]] = t
Behind(x) ==
  \A i \in 0 .. x.curThreadIdx - 1 :
    x.state[x.runList[i]] = "WAITING" => x.runList[i] \in x.done

\* What the operations keep, also between their parts
BInv(x) ==
  /\ Fields(x) /\ Typed(x) /\ Listed(x) /\ Counted(x) /\ Ahead(x) /\ Asleep(x)
  /\ ~x.killed => Told(x) /\ Behind(x)

\* What they leave at their ends: nobody waits who could run.
Awake(x) ==
  \A t \in Thread : x.state[t] = "WAITING" =>
    t \in x.done \/ x.runningThreads = parallelThreads \/ x.killed

Live(x) == {t \in Thread : x.state[t] \in {"WAITING", "RUNNING"}}

\* From barrier x to barrier y nobody stops running or starts to wait, and done
\* does not grow.
Onward(x, y) ==
  /\ \A t \in Thread : x.state[t] = "RUNNING" => y.state[t] = "RUNNING"
  /\ \A t \in Thread : y.state[t] = "WAITING" => x.state[t] = "WAITING"
  /\ y.done \subseteq x.done

IInv ==
  /\ BInv(b) /\ Awake(b)
  /\ inWait \subseteq Live(b)
  /\ fault \in BOOLEAN /\ (fault => b.killed)

-----------------------------------------------------------------------------
(* Sets of threads and of numbers                                          *)

\* A nonempty set of natural numbers has a least one.
LEMMA LeastNat ==
  ASSUME NEW S \in SUBSET Nat, S # {}
  PROVE  \E m \in S : \A n \in S : m <= n
<1> DEFINE R == {ss \in Nat \X Nat : ss[1] < ss[2]}
<1>1. IsWellFoundedOn(R, Nat)
  BY NatLessThanWellFounded, Zenon DEF OpToRel
<1>2. PICK m \in S : \A n \in S : ~(<<n, m>> \in R)
  <2> HIDE DEF R
  <2> QED  BY <1>1, WFMin
<1>3. \A n \in S : m <= n
  <2> SUFFICES ASSUME NEW n \in S PROVE m <= n
    OBVIOUS
  <2>1. ~(<<n, m>> \in R)
    BY <1>2
  <2> QED  BY <2>1 DEF R
<1> QED  BY <1>3

\* How many threads are in a state
LEMMA Threads ==
  ASSUME NEW S \in SUBSET Thread
  PROVE  IsFiniteSet(S) /\ Cardinality(S) \in Nat /\ (Cardinality(S) = 0 <=> S = {})
BY BarrierAssumption, FS_Subset, FS_CardinalityType, FS_EmptySet

\* The counters of the barrier are naturals and in range.
LEMMA Numbers ==
  ASSUME NEW x, BInv(x)
  PROVE  /\ x.runningThreads \in Nat /\ x.leftThreads \in Nat
         /\ parallelThreads - x.runningThreads \in Nat
         /\ x.runListSize \in Nat /\ x.curThreadIdx \in Nat
         /\ x.curThreadIdx <= x.runListSize
<1>1. In(x, "RUNNING") \in SUBSET Thread /\ In(x, "LEFT") \in SUBSET Thread
  BY DEF In
<1>2. x.runningThreads \in Nat /\ x.leftThreads \in Nat
  BY <1>1, Threads DEF BInv, Counted
<1> QED  BY <1>2, BarrierAssumption DEF BInv, Counted, Typed

-----------------------------------------------------------------------------
(* checkRunList                                                            *)

\* The waiting threads up to an index are one more at most with each step.
LEMMA WaitingCount ==
  ASSUME NEW x, BInv(x), NEW k \in x.curThreadIdx .. x.runListSize
  PROVE  LET W(j) == WaitingUpTo(x, j) IN
         /\ IsFiniteSet(W(k)) /\ Cardinality(W(k)) \in Nat
         /\ k = x.curThreadIdx => Cardinality(W(k)) = 0
         /\ k # x.curThreadIdx =>
              /\ k - 1 \in x.curThreadIdx .. x.runListSize
              /\ Cardinality(W(k)) <= Cardinality(W(k - 1)) + 1
<1> DEFINE c == x.curThreadIdx
<1>1. c \in Nat /\ x.runListSize \in Nat /\ k \in Nat
  BY Numbers
<1>2. \A j \in c .. x.runListSize : IsFiniteSet(WaitingUpTo(x, j)) /\ Cardinality(WaitingUpTo(x, j)) \in Nat
  <2> SUFFICES ASSUME NEW j \in c .. x.runListSize
               PROVE  IsFiniteSet(WaitingUpTo(x, j)) /\ Cardinality(WaitingUpTo(x, j)) \in Nat
    OBVIOUS
  <2>1. IsFiniteSet(c .. j - 1)
    <3>1. c \in Int /\ j - 1 \in Int
      BY <1>1
    <3> HIDE DEF c
    <3> QED  BY <3>1, FS_Interval
  <2>2. WaitingUpTo(x, j) \in SUBSET (c .. j - 1)
    BY DEF WaitingUpTo
  <2> QED  BY <2>1, <2>2, FS_Subset, FS_CardinalityType
<1>3. ASSUME k = c PROVE Cardinality(WaitingUpTo(x, k)) = 0
  <2>1. WaitingUpTo(x, k) = {}
    BY <1>1, <1>3 DEF WaitingUpTo
  <2> QED  BY <2>1, FS_EmptySet
<1>4. ASSUME k # c
      PROVE  /\ k - 1 \in c .. x.runListSize
             /\ Cardinality(WaitingUpTo(x, k)) <= Cardinality(WaitingUpTo(x, k - 1)) + 1
  <2>1. k - 1 \in c .. x.runListSize
    BY <1>1, <1>4
  <2>2. WaitingUpTo(x, k) \in SUBSET (WaitingUpTo(x, k - 1) \cup {k - 1})
    BY <1>1, <1>4 DEF WaitingUpTo
  <2>3. /\ IsFiniteSet(WaitingUpTo(x, k - 1) \cup {k - 1})
        /\ Cardinality(WaitingUpTo(x, k - 1) \cup {k - 1}) <= Cardinality(WaitingUpTo(x, k - 1)) + 1
    <3> DEFINE V == WaitingUpTo(x, k - 1)
    <3>1. IsFiniteSet(V) /\ Cardinality(V) \in Nat
      BY <1>2, <2>1
    <3> HIDE DEF V
    <3>2. /\ IsFiniteSet(V \cup {k - 1})
          /\ Cardinality(V \cup {k - 1}) = IF k - 1 \in V THEN Cardinality(V) ELSE Cardinality(V) + 1
      BY <3>1, FS_AddElement
    <3>3. IsFiniteSet(V \cup {k - 1}) /\ Cardinality(V \cup {k - 1}) <= Cardinality(V) + 1
      BY <3>1, <3>2
    <3> QED  BY <3>3 DEF V
  <2>4. Cardinality(WaitingUpTo(x, k)) <= Cardinality(WaitingUpTo(x, k - 1) \cup {k - 1})
    BY <2>2, <2>3, FS_Subset
  <2> QED  BY <1>2, <2>1, <2>3, <2>4, FS_CardinalityType
<1> QED  BY <1>2, <1>3, <1>4

\* Where checkRunList stops: no more threads may run, or it is at the end.
Stops(x, k) ==
  /\ k \in x.curThreadIdx .. x.runListSize
  /\ \/ Cardinality(WaitingUpTo(x, k)) = parallelThreads - x.runningThreads
     \/ k = x.runListSize
  /\ \A j \in x.curThreadIdx .. k - 1 :
       Cardinality(WaitingUpTo(x, j)) < parallelThreads - x.runningThreads

\* The walk down the run list stops somewhere.
LEMMA SomeStop ==
  ASSUME NEW x, BInv(x) PROVE \E k : Stops(x, k)
<1> DEFINE c == x.curThreadIdx  n == x.runListSize
           room == parallelThreads - x.runningThreads
           K == {k \in c .. n : k = n \/ Cardinality(WaitingUpTo(x, k)) >= room}
<1>1. c \in Nat /\ n \in Nat /\ c <= n /\ room \in Nat
  BY Numbers
<1>2. K \in SUBSET Nat /\ n \in K
  BY <1>1
<1>3. PICK k \in K : \A j \in K : k <= j
  <2> HIDE DEF K
  <2> QED  BY <1>2, LeastNat
<1>4. k \in c .. n /\ k \in Nat
  BY <1>1
<1>5. ASSUME NEW j \in c .. k - 1 PROVE Cardinality(WaitingUpTo(x, j)) < room
  <2>1. j \in c .. n /\ j < k /\ j \notin K
    BY <1>1, <1>3, <1>4
  <2> QED  BY <1>1, <2>1, WaitingCount
<1>6. Cardinality(WaitingUpTo(x, k)) <= room
  <2>1. CASE k = c
    BY <1>1, <1>4, <2>1, WaitingCount
  <2>2. CASE k # c
    <3>1. Cardinality(WaitingUpTo(x, k - 1)) < room
      BY <1>1, <1>4, <1>5, <2>2
    <3> QED  BY <1>1, <1>4, <2>2, <3>1, WaitingCount
  <2> QED  BY <2>1, <2>2
<1>7. Cardinality(WaitingUpTo(x, k)) = room \/ k = n
  BY <1>1, <1>3, <1>4, <1>6, WaitingCount
<1> QED  BY <1>4, <1>5, <1>7 DEF Stops

\* No more are woken than may run.
LEMMA StopFits ==
  ASSUME NEW x, BInv(x), NEW k, Stops(x, k)
  PROVE  /\ k \in Nat /\ k \in x.curThreadIdx .. x.runListSize
         /\ IsFiniteSet(WaitingUpTo(x, k)) /\ Cardinality(WaitingUpTo(x, k)) \in Nat
         /\ x.runningThreads + Cardinality(WaitingUpTo(x, k)) <= parallelThreads
<1>1. k \in x.curThreadIdx .. x.runListSize /\ k \in Nat
  BY Numbers DEF Stops
<1>2. IsFiniteSet(WaitingUpTo(x, k)) /\ Cardinality(WaitingUpTo(x, k)) \in Nat
  BY <1>1, WaitingCount
<1>3. CASE k = x.curThreadIdx
  BY <1>1, <1>2, <1>3, Numbers, WaitingCount, BarrierAssumption
<1>4. CASE k # x.curThreadIdx
  <2>1. k - 1 \in x.curThreadIdx .. k - 1
    BY <1>1, <1>4, Numbers
  <2>2. Cardinality(WaitingUpTo(x, k - 1)) < parallelThreads - x.runningThreads
    BY <2>1 DEF Stops
  <2>3. k - 1 \in x.curThreadIdx .. x.runListSize /\ Cardinality(WaitingUpTo(x, k - 1)) \in Nat
    BY <1>1, <1>4, WaitingCount
  <2> QED  BY <1>1, <1>2, <1>4, <2>2, <2>3, Numbers, WaitingCount, BarrierAssumption
<1> QED  BY <1>1, <1>2, <1>3, <1>4

\* The threads woken up to index k
Woken(x, k) == {x.runList[i] : i \in WaitingUpTo(x, k)}

\* It wakes as many threads as places it passes.
LEMMA WokenCount ==
  ASSUME NEW x, BInv(x), NEW k, Stops(x, k)
  PROVE  /\ Cardinality(Woken(x, k)) = Cardinality(WaitingUpTo(x, k))
         /\ \A t \in Woken(x, k) : t \in Thread /\ x.state[t] = "WAITING"
<1>1. /\ k \in x.curThreadIdx .. x.runListSize /\ IsFiniteSet(WaitingUpTo(x, k))
      /\ x.curThreadIdx \in Nat /\ x.runListSize \in Nat
  BY StopFits, Numbers
<1> DEFINE W == WaitingUpTo(x, k)
           f == [i \in W |-> x.runList[i]]
<1>2. \A i \in W : i \in 0 .. x.runListSize - 1 /\ x.state[x.runList[i]] = "WAITING"
  BY <1>1 DEF WaitingUpTo
<1>3. f \in Bijection(W, Woken(x, k))
  <2>1. f \in [W -> Woken(x, k)]
    BY DEF Woken
  <2>2. \A i, j \in W : f[i] = f[j] => i = j
    BY <1>2 DEF BInv, Listed
  <2>3. \A t \in Woken(x, k) : \E i \in W : f[i] = t
    BY DEF Woken
  <2> HIDE DEF f, W
  <2> QED  BY <2>1, <2>2, <2>3 DEF Bijection, Injection, Surjection, IsInjective
<1>4. Cardinality(Woken(x, k)) = Cardinality(W)
  BY <1>1, <1>3, FS_Bijection DEF ExistsBijection
<1>5. \A t \in Woken(x, k) : t \in Thread /\ x.state[t] = "WAITING"
  BY <1>2 DEF Woken, BInv, Typed
<1> QED  BY <1>4, <1>5

\* The barrier after checkRunList, which stops at index k
Checked(x, k, y) ==
  /\ Stops(x, k) /\ Fields(y)
  /\ y.state = [t \in Thread |-> IF t \in Woken(x, k) THEN "RUNNING" ELSE x.state[t]]
  /\ y.futexWord = [t \in Thread |-> IF t \in Woken(x, k) THEN 0 ELSE x.futexWord[t]]
  /\ y.lastIdx = [t \in Thread |->
       IF t \in Woken(x, k) THEN CHOOSE i \in WaitingUpTo(x, k) : x.runList[i] = t
       ELSE x.lastIdx[t]]
  /\ y.curThreadIdx = k
  /\ y.runningThreads = x.runningThreads + Cardinality(Woken(x, k))
  /\ y.runList = x.runList /\ y.runListSize = x.runListSize
  /\ y.leftThreads = x.leftThreads /\ y.phaseCount = x.phaseCount
  /\ y.done = x.done /\ y.leaves = x.leaves /\ y.killed = x.killed

\* checkRunList is such a walk.
LEMMA CheckRunListIs ==
  ASSUME NEW x, BInv(x)
  PROVE  \E k : Checked(x, k, CheckRunList(x))
<1> DEFINE room == parallelThreads - x.runningThreads
           k2 == CHOOSE j \in x.curThreadIdx .. x.runListSize :
                   /\ \/ Cardinality(WaitingUpTo(x, j)) = room
                      \/ j = x.runListSize
                   /\ \A i \in x.curThreadIdx .. j - 1 :
                        Cardinality(WaitingUpTo(x, i)) < room
<1>1. Stops(x, k2)
  BY SomeStop DEF Stops
<1> DEFINE s == [t \in Thread |-> IF t \in Woken(x, k2) THEN "RUNNING" ELSE x.state[t]]
           f == [t \in Thread |-> IF t \in Woken(x, k2) THEN 0 ELSE x.futexWord[t]]
           g == [t \in Thread |->
                  IF t \in Woken(x, k2) THEN CHOOSE i \in WaitingUpTo(x, k2) : x.runList[i] = t
                  ELSE x.lastIdx[t]]
           r == x.runningThreads + Cardinality(Woken(x, k2))
<1>2. CheckRunList(x) = [x EXCEPT !.state = s, !.futexWord = f, !.lastIdx = g,
                                  !.curThreadIdx = k2, !.runningThreads = r]
  BY DEF CheckRunList, Woken
<1>3. Fields(x)
  BY DEF BInv
<1> HIDE DEF s, f, g, r, k2
<1> DEFINE y == CheckRunList(x)
<1>4. /\ Fields(y)
      /\ y.state = s /\ y.futexWord = f /\ y.lastIdx = g /\ y.curThreadIdx = k2
      /\ y.runningThreads = r
      /\ y.runList = x.runList /\ y.runListSize = x.runListSize
      /\ y.leftThreads = x.leftThreads /\ y.phaseCount = x.phaseCount
      /\ y.done = x.done /\ y.leaves = x.leaves /\ y.killed = x.killed
  BY <1>2, <1>3 DEF Fields
<1>5. Checked(x, k2, y)
  BY <1>1, <1>4 DEF s, f, g, r, Checked
<1> QED  BY <1>5

\* checkRunList keeps the invariant and leaves nobody waiting who could run;
\* if somebody was, somebody runs.
LEMMA CheckRunListKeeps ==
  ASSUME NEW x, BInv(x)
  PROVE  LET y == CheckRunList(x) IN
         /\ BInv(y) /\ Awake(y) /\ Live(y) = Live(x)
         /\ y.killed = x.killed /\ y.phaseCount = x.phaseCount
         /\ Onward(x, y) /\ y.done = x.done
         /\ (\E i \in x.curThreadIdx .. x.runListSize - 1 : x.state[x.runList[i]] = "WAITING")
              => y.runningThreads # 0
<1> DEFINE y == CheckRunList(x)
<1>1. PICK k : Checked(x, k, y)
  BY CheckRunListIs
<1> HIDE DEF y
<1> DEFINE c == x.curThreadIdx  n == x.runListSize
           W == WaitingUpTo(x, k)  U == Woken(x, k)
<1>2. /\ k \in Nat /\ c \in Nat /\ n \in Nat /\ k \in c .. n /\ c <= n
      /\ IsFiniteSet(W) /\ Cardinality(W) \in Nat /\ Cardinality(U) = Cardinality(W)
      /\ x.runningThreads \in Nat
      /\ x.runningThreads + Cardinality(U) <= parallelThreads
  BY <1>1, StopFits, WokenCount, Numbers DEF Checked
<1>3. /\ \A t \in U : t \in Thread /\ x.state[t] = "WAITING"
      /\ \A i \in 0 .. n - 1 : x.runList[i] \in U <=> i \in W
      /\ \A t \in U : \E i \in W : x.runList[i] = t
      /\ \A i \in 0 .. n - 1 : i \in W <=> i \in c .. k - 1 /\ x.state[x.runList[i]] = "WAITING"
      /\ W \subseteq 0 .. n - 1
  <2>1. \A t \in U : t \in Thread /\ x.state[t] = "WAITING"
    BY <1>1, WokenCount DEF Checked
  <2>2. \A t \in U : \E i \in W : x.runList[i] = t
    BY DEF Woken
  <2>3. W \subseteq 0 .. n - 1
    BY <1>2 DEF WaitingUpTo
  <2>4. \A i \in 0 .. n - 1 : x.runList[i] \in U <=> i \in W
    BY <2>2, <2>3 DEF Woken, BInv, Listed
  <2>5. \A i \in 0 .. n - 1 : i \in W <=> i \in c .. k - 1 /\ x.state[x.runList[i]] = "WAITING"
    BY <1>2 DEF WaitingUpTo
  <2> QED  BY <2>1, <2>2, <2>3, <2>4, <2>5
<1> HIDE DEF W, U
<1>4. /\ Fields(y)
      /\ \A t \in Thread : y.state[t] = IF t \in U THEN "RUNNING" ELSE x.state[t]
      /\ \A t \in Thread : y.futexWord[t] = IF t \in U THEN 0 ELSE x.futexWord[t]
      /\ \A t \in U : y.lastIdx[t] \in W /\ x.runList[y.lastIdx[t]] = t
      /\ \A t \in Thread : t \notin U => y.lastIdx[t] = x.lastIdx[t]
      /\ y.runList = x.runList /\ y.runListSize = n /\ y.curThreadIdx = k
      /\ y.runningThreads = x.runningThreads + Cardinality(U)
      /\ y.leftThreads = x.leftThreads /\ y.phaseCount = x.phaseCount
      /\ y.done = x.done /\ y.leaves = x.leaves /\ y.killed = x.killed
  <2>1. \A t \in U : y.lastIdx[t] = CHOOSE i \in W : x.runList[i] = t
    BY <1>1, <1>3 DEF Checked, W, U
  <2>2. \A t \in U : y.lastIdx[t] \in W /\ x.runList[y.lastIdx[t]] = t
    BY <1>3, <2>1
  <2> QED  BY <1>1, <2>2 DEF Checked, U
<1>5. Typed(x) /\ Listed(x) /\ Counted(x) /\ Ahead(x) /\ Asleep(x)
  BY DEF BInv
<1>6. Typed(y)
  <2>1. y.state \in [Thread -> States] /\ y.futexWord \in [Thread -> {0, 1}]
    BY <1>1, <1>5 DEF Checked, Typed, States
  <2>2. y.lastIdx \in [Thread -> Nat]
    <3>1. ASSUME NEW t \in Thread PROVE y.lastIdx[t] \in Nat
      <4>1. CASE t \in U
        <5>1. y.lastIdx[t] \in 0 .. n - 1
          BY <1>3, <1>4, <4>1
        <5> QED  BY <1>2, <5>1
      <4>2. CASE t \notin U
        BY <1>4, <1>5, <4>2 DEF Typed
      <4> QED  BY <4>1, <4>2
    <3>2. y.lastIdx = [t \in Thread |-> y.lastIdx[t]]
      BY <1>1 DEF Checked
    <3> QED  BY <3>1, <3>2
  <2> QED  BY <1>2, <1>4, <1>5, <2>1, <2>2 DEF Typed
<1>7. Listed(y)
  <2>1. \A i \in 0 .. n - 1 : x.runList[i] \in Thread
    BY <1>5 DEF Typed
  <2>2. \A i \in 0 .. n - 1 : y.state[x.runList[i]] # "OFFLINE"
    BY <1>4, <1>5, <2>1 DEF Listed
  <2>3. \A t \in Thread : y.state[t] # "OFFLINE" => x.state[t] # "OFFLINE"
    BY <1>3, <1>4
  <2> QED  BY <1>4, <1>5, <2>2, <2>3 DEF Listed
<1>8. Counted(y)
  <2>1. In(y, "RUNNING") = In(x, "RUNNING") \cup U /\ In(x, "RUNNING") \cap U = {}
    BY <1>3, <1>4 DEF In
  <2>2. In(y, "LEFT") = In(x, "LEFT")
    BY <1>3, <1>4 DEF In
  <2>3. IsFiniteSet(In(x, "RUNNING")) /\ IsFiniteSet(U) /\ Cardinality(U) \in Nat
    <3>1. In(x, "RUNNING") \in SUBSET Thread /\ U \in SUBSET Thread
      BY <1>3 DEF In
    <3> QED  BY <3>1, Threads
  <2>4. Cardinality(In(y, "RUNNING")) = Cardinality(In(x, "RUNNING")) + Cardinality(U)
    <3>1. Cardinality(In(x, "RUNNING") \cup U)
            = Cardinality(In(x, "RUNNING")) + Cardinality(U) - Cardinality(In(x, "RUNNING") \cap U)
      BY <2>3, FS_Union
    <3> QED  BY <1>2, <1>5, <2>1, <2>3, <3>1, FS_EmptySet DEF Counted
  <2> QED  BY <1>2, <1>4, <1>5, <2>2, <2>4 DEF Counted
<1>9. Ahead(y)
  <2>1. y.done \subseteq In(y, "WAITING")
    <3> SUFFICES ASSUME NEW t \in x.done PROVE t \in In(y, "WAITING")
      BY <1>4
    <3>1. t \in Thread /\ x.state[t] = "WAITING"
      BY <1>5 DEF Ahead, In
    <3>2. t \notin U
      BY <1>2, <1>3, <1>5 DEF Ahead
    <3> QED  BY <1>4, <3>1, <3>2 DEF In
  <2>2. ASSUME NEW i \in k .. n - 1 PROVE y.state[x.runList[i]] # "RUNNING" /\ x.runList[i] \notin x.done
    <3>1. i \in 0 .. n - 1 /\ i \in c .. n - 1 /\ i \notin c .. k - 1
      BY <1>2
    <3>2. x.runList[i] \in Thread /\ x.runList[i] \notin U
      BY <1>3, <1>5, <3>1 DEF Typed
    <3> QED  BY <1>4, <1>5, <3>1, <3>2 DEF Ahead
  <2> QED  BY <1>4, <2>1, <2>2 DEF Ahead
<1>10. Asleep(y)
  BY <1>4, <1>5 DEF Asleep
<1>11. ASSUME ~y.killed PROVE Told(y) /\ Behind(y)
  <2>1. Told(x) /\ Behind(x)
    BY <1>4, <1>11 DEF BInv
  <2>2. Told(y)
    <3> SUFFICES ASSUME NEW t \in Thread, y.state[t] \in {"RUNNING", "LEFT"}
                 PROVE  y.lastIdx[t] \in 0 .. n - 1 /\ x.runList[y.lastIdx[t]] = t
      BY <1>4 DEF Told
    <3>1. CASE t \in U
      BY <1>3, <1>4, <3>1
    <3>2. CASE t \notin U
      BY <1>4, <2>1, <3>2 DEF Told
    <3> QED  BY <3>1, <3>2
  <2>3. Behind(y)
    <3> SUFFICES ASSUME NEW i \in 0 .. k - 1, y.state[x.runList[i]] = "WAITING"
                 PROVE  x.runList[i] \in x.done
      BY <1>4 DEF Behind
    <3>1. i \in 0 .. n - 1 /\ x.runList[i] \in Thread
      BY <1>2, <1>5 DEF Typed
    <3>2. x.runList[i] \notin U /\ x.state[x.runList[i]] = "WAITING"
      BY <1>4, <3>1
    <3>3. i \in 0 .. c - 1
      BY <1>2, <1>3, <3>1, <3>2
    <3> QED  BY <2>1, <3>2, <3>3 DEF Behind
  <2> QED  BY <2>2, <2>3
<1>12. BInv(y)
  BY <1>4, <1>6, <1>7, <1>8, <1>9, <1>10, <1>11 DEF BInv
<1>13. Live(y) = Live(x)
  BY <1>3, <1>4 DEF Live
<1>14. Cardinality(U) = parallelThreads - x.runningThreads \/ k = n
  BY <1>1, <1>2 DEF Checked, Stops, W
<1>15. Awake(y)
  <2> SUFFICES ASSUME NEW t \in Thread, y.state[t] = "WAITING",
                      y.runningThreads # parallelThreads, ~y.killed
               PROVE  t \in y.done
    BY DEF Awake
  <2>1. k = n
    BY <1>2, <1>4, <1>14, BarrierAssumption
  <2>2. PICK i \in 0 .. n - 1 : y.runList[i] = t
    BY <1>4, <1>7 DEF Listed
  <2> QED  BY <1>4, <1>11, <2>1, <2>2 DEF Behind
<1>16. ASSUME NEW i \in c .. n - 1, x.state[x.runList[i]] = "WAITING"
       PROVE  y.runningThreads # 0
  <2>1. CASE Cardinality(U) = parallelThreads - x.runningThreads
    BY <1>2, <1>4, <2>1, BarrierAssumption
  <2>2. CASE k = n
    <3>1. i \in W
      BY <1>2, <1>3, <1>16, <2>2
    <3>2. Cardinality(W) # 0
      BY <1>2, <3>1, FS_EmptySet
    <3> QED  BY <1>2, <1>4, <3>2
  <2> QED  BY <1>14, <2>1, <2>2
<1>17. Onward(x, y)
  BY <1>3, <1>4 DEF Onward
<1> QED  BY <1>4, <1>12, <1>13, <1>15, <1>16, <1>17 DEF y

-----------------------------------------------------------------------------
(* The end of a phase                                                      *)

\* The barrier when a phase has ended, before it is cleaned up
LEMMA PhaseEndedKeeps ==
  ASSUME NEW x, BInv(x), EndsPhase(x)
  PROVE  LET y == PhaseEnded(x) IN
         /\ BInv(y) /\ In(y, "RUNNING") = {} /\ y.done = {} /\ y.curThreadIdx = 0
         /\ y.state = x.state /\ y.killed = x.killed
<1> DEFINE y == PhaseEnded(x)
           pc == (x.phaseCount + 1) % CleanupPeriod
           lv == [t \in Thread |-> 0]
<1>1. Fields(x) /\ Typed(x) /\ Listed(x) /\ Counted(x) /\ Ahead(x) /\ Asleep(x)
  BY DEF BInv
<1>2. y = [x EXCEPT !.curThreadIdx = 0, !.phaseCount = pc, !.done = {}, !.leaves = lv]
  BY <1>1 DEF PhaseEnded, Fields
<1>3. pc \in 0 .. CleanupPeriod - 1 /\ lv \in [Thread -> 0 .. MaxLeaves]
  BY <1>1, BarrierAssumption DEF Typed
<1> HIDE DEF pc, lv, y
<1>4. /\ Fields(y)
      /\ y.state = x.state /\ y.futexWord = x.futexWord /\ y.lastIdx = x.lastIdx
      /\ y.runList = x.runList /\ y.runListSize = x.runListSize /\ y.curThreadIdx = 0
      /\ y.runningThreads = x.runningThreads /\ y.leftThreads = x.leftThreads
      /\ y.phaseCount = pc /\ y.done = {} /\ y.leaves = lv /\ y.killed = x.killed
  BY <1>1, <1>2 DEF Fields
<1>5. In(x, "RUNNING") = {} /\ In(y, "RUNNING") = {}
  <2>1. x.runningThreads = 0 /\ In(x, "RUNNING") \in SUBSET Thread
    BY DEF EndsPhase, In
  <2> QED  BY <1>1, <1>4, <2>1, Threads DEF Counted, In
<1>6. Typed(y)
  BY <1>1, <1>3, <1>4 DEF Typed
<1>7. Listed(y) /\ Asleep(y)
  BY <1>1, <1>4 DEF Listed, Asleep
<1>8. Counted(y)
  BY <1>1, <1>4 DEF Counted, In
<1>9. Ahead(y)
  <2>1. ASSUME NEW i \in 0 .. x.runListSize - 1 PROVE x.state[x.runList[i]] # "RUNNING"
    BY <1>1, <1>5 DEF Typed, In
  <2> QED  BY <1>4, <2>1 DEF Ahead
<1>10. ~y.killed => Told(y) /\ Behind(y)
  BY <1>4, Numbers DEF BInv, Told, Behind
<1> QED  BY <1>4, <1>5, <1>6, <1>7, <1>8, <1>9, <1>10 DEF BInv, y

\* The pass over the run list does a step for each of its entries.
LEMMA CleanupPassIs ==
  ASSUME NEW x, x.runListSize \in Nat
  PROVE  LET f == CleanupPass(x) IN
         /\ f[0] = [bar |-> x, idx |-> 0, newSize |-> x.runListSize]
         /\ \A n \in 1 .. x.runListSize : f[n] = CleanupStep(f[n - 1])
<1> DEFINE p0 == [bar |-> x, idx |-> 0, newSize |-> x.runListSize]
           Is(g, m) == g = [n \in 0 .. m |-> IF n = 0 THEN p0 ELSE CleanupStep(g[n - 1])]
           Bad == {m \in 0 .. x.runListSize : ~ \E g : Is(g, m)}
<1>1. CleanupPass(x) = CHOOSE f : Is(f, x.runListSize)
  BY DEF CleanupPass
<1>2. Bad = {}
  <2> SUFFICES ASSUME Bad # {} PROVE FALSE
    OBVIOUS
  <2>1. PICK m \in Bad : \A n \in Bad : m <= n
    <3>1. Bad \in SUBSET Nat
      OBVIOUS
    <3> HIDE DEF Bad
    <3> QED  BY <3>1, LeastNat
  <2>2. m \in 0 .. x.runListSize /\ ~ \E g : Is(g, m)
    BY <2>1
  <2>3. CASE m = 0
    <3> DEFINE g == [n \in 0 .. 0 |-> p0]
    <3>1. g = [n \in 0 .. 0 |-> IF n = 0 THEN p0 ELSE CleanupStep(g[n - 1])]
      <4> HIDE DEF p0
      <4> QED  OBVIOUS
    <3>2. Is(g, 0)
      BY <3>1
    <3> QED  BY <2>2, <2>3, <3>2
  <2>4. CASE m # 0
    <3>1. m - 1 \in 0 .. x.runListSize /\ m - 1 \notin Bad
      BY <2>1, <2>2, <2>4
    <3>2. PICK g : Is(g, m - 1)
      BY <3>1
    <3> DEFINE h == [n \in 0 .. m |-> IF n = m THEN CleanupStep(g[m - 1]) ELSE g[n]]
    <3>3. \A n \in 0 .. m - 1 : h[n] = g[n]
      BY <2>2
    <3>4. \A n \in 0 .. m : h[n] = IF n = 0 THEN p0 ELSE CleanupStep(h[n - 1])
      <4> HIDE DEF p0
      <4>1. h[m] = CleanupStep(h[m - 1]) /\ m # 0
        BY <2>2, <2>4, <3>3
      <4>2. \A n \in 0 .. m - 1 : h[n] = IF n = 0 THEN p0 ELSE CleanupStep(h[n - 1])
        <5> HIDE DEF h
        <5>1. \A n \in 0 .. m - 1 : g[n] = IF n = 0 THEN p0 ELSE CleanupStep(g[n - 1])
          BY <3>2
        <5>2. \A n \in 0 .. m - 1 : n # 0 => n - 1 \in 0 .. m - 1
          OBVIOUS
        <5> QED  BY <3>3, <5>1, <5>2
      <4> HIDE DEF h
      <4> QED  BY <2>2, <4>1, <4>2
    <3>5. Is(h, m)
      <4>1. h = [n \in 0 .. m |-> h[n]]
        OBVIOUS
      <4> HIDE DEF h, p0
      <4> QED  BY <3>4, <4>1
    <3> QED  BY <2>2, <3>5
  <2> QED  BY <2>3, <2>4
<1>3. Is(CleanupPass(x), x.runListSize)
  <2>1. x.runListSize \in 0 .. x.runListSize
    OBVIOUS
  <2>2. \E g : Is(g, x.runListSize)
    BY <1>2, <2>1
  <2> HIDE DEF Is
  <2> QED  BY <1>1, <2>2
<1> DEFINE f == CleanupPass(x)
<1>4. f = [n \in 0 .. x.runListSize |-> IF n = 0 THEN p0 ELSE CleanupStep(f[n - 1])]
  BY <1>3
<1> HIDE DEF f, p0
<1>5. f[0] = p0 /\ \A n \in 1 .. x.runListSize : f[n] = CleanupStep(f[n - 1])
  BY <1>4
<1> QED  BY <1>5 DEF f, p0

\* What a step of the pass keeps: k steps have passed idx entries and taken out
\* the others.
Passed(x, p, k) ==
  /\ Fields(p.bar)
  /\ p.bar.state \in [Thread -> States] /\ p.bar.lastIdx \in [Thread -> Nat]
  /\ p.bar.runList \in [0 .. x.runListSize - 1 -> Thread]
  /\ p.idx \in Nat /\ p.newSize \in Nat
  /\ p.idx <= p.newSize /\ p.newSize <= x.runListSize
  /\ p.idx + (x.runListSize - p.newSize) = k
PassedList(p) ==
  /\ \A i, j \in 0 .. p.newSize - 1 : p.bar.runList[i] = p.bar.runList[j] => i = j
  /\ \A i \in 0 .. p.newSize - 1 : p.bar.state[p.bar.runList[i]] # "OFFLINE"
  /\ \A t \in Thread : p.bar.state[t] # "OFFLINE" =>
       \E i \in 0 .. p.newSize - 1 : p.bar.runList[i] = t
  /\ \A i \in 0 .. p.idx - 1 : p.bar.state[p.bar.runList[i]] # "LEFT"
PassedSame(x, y) ==
  /\ \A t \in Thread :
       y.state[t] = x.state[t] \/ (x.state[t] = "LEFT" /\ y.state[t] = "OFFLINE")
  /\ y.futexWord = x.futexWord /\ y.runListSize = x.runListSize
  /\ y.curThreadIdx = x.curThreadIdx /\ y.runningThreads = x.runningThreads
  /\ y.leftThreads = x.leftThreads /\ y.phaseCount = x.phaseCount
  /\ y.done = x.done /\ y.leaves = x.leaves /\ y.killed = x.killed

\* One step of the clean-up of the run list
LEMMA CleanupStepKeeps ==
  ASSUME NEW x, x.runListSize \in Nat, NEW p, NEW k \in Nat, k < x.runListSize,
         Passed(x, p, k), PassedList(p), PassedSame(x, p.bar)
  PROVE  LET q == CleanupStep(p) IN
         Passed(x, q, k + 1) /\ PassedList(q) /\ PassedSame(x, q.bar)
<1> DEFINE n == p.newSize  i == p.idx  L == p.bar.runList  S == p.bar.state
           wtid == L[i]  stid == L[n - 1]  q == CleanupStep(p)
<1>1. /\ i \in Nat /\ n \in Nat /\ i < n /\ n <= x.runListSize
      /\ i + (x.runListSize - n) = k
      /\ i \in 0 .. n - 1 /\ n - 1 \in 0 .. n - 1 /\ n - 1 \in Nat
      /\ i \in 0 .. x.runListSize - 1 /\ n - 1 \in 0 .. x.runListSize - 1
  BY DEF Passed
<1>2. /\ S \in [Thread -> States] /\ L \in [0 .. x.runListSize - 1 -> Thread]
      /\ p.bar.lastIdx \in [Thread -> Nat] /\ Fields(p.bar)
      /\ wtid \in Thread /\ stid \in Thread
  BY <1>1 DEF Passed
<1>3. CASE S[wtid] = "LEFT"
  <2> DEFINE S2 == [S EXCEPT ![wtid] = "OFFLINE"]
             L2 == [L EXCEPT ![i] = stid]
             I2 == [p.bar.lastIdx EXCEPT ![stid] = i]
             y == [p.bar EXCEPT !.state = S2, !.runList = L2, !.lastIdx = I2]
  <2>1. [p.bar EXCEPT !.state[wtid] = "OFFLINE", !.runList[i] = stid, !.lastIdx[stid] = i] = y
    BY <1>2 DEF Fields
  <2>2. q = [bar |-> y, idx |-> i, newSize |-> n - 1]
    <3> HIDE DEF y
    <3> QED  BY <1>3, <2>1 DEF CleanupStep
  <2>3. /\ S2 \in [Thread -> States] /\ L2 \in [0 .. x.runListSize - 1 -> Thread]
        /\ I2 \in [Thread -> Nat]
    BY <1>1, <1>2 DEF States
  <2>4. /\ \A t \in Thread : S2[t] = IF t = wtid THEN "OFFLINE" ELSE S[t]
        /\ \A j \in 0 .. x.runListSize - 1 : L2[j] = IF j = i THEN stid ELSE L[j]
    BY <1>2
  <2> HIDE DEF S2, L2, I2
  <2> DEFINE z == p.bar
  <2>z. Fields(z) /\ y = [z EXCEPT !.state = S2, !.runList = L2, !.lastIdx = I2]
    BY <1>2
  <2> HIDE DEF z, y
  <2>5. /\ Fields(y) /\ y.state = S2 /\ y.runList = L2 /\ y.lastIdx = I2
        /\ y.futexWord = z.futexWord /\ y.runListSize = z.runListSize
        /\ y.curThreadIdx = z.curThreadIdx /\ y.runningThreads = z.runningThreads
        /\ y.leftThreads = z.leftThreads /\ y.phaseCount = z.phaseCount
        /\ y.done = z.done /\ y.leaves = z.leaves /\ y.killed = z.killed
    BY <2>z DEF Fields
  <2> USE DEF z
  <2> HIDE DEF y, q
  <2>6. q.bar = y /\ q.idx = i /\ q.newSize = n - 1
    BY <2>2
  <2>7. Passed(x, q, k + 1)
    <3>1. n - 1 \in Nat /\ i <= n - 1 /\ n - 1 <= x.runListSize
          /\ i + (x.runListSize - (n - 1)) = k + 1
      BY <1>1
    <3> QED  BY <1>1, <2>3, <2>5, <2>6, <3>1 DEF Passed
  <2>8. PassedSame(x, q.bar)
    <3>1. x.state[wtid] = "LEFT"
      BY <1>2, <1>3 DEF PassedSame
    <3> QED  BY <2>4, <2>5, <2>6, <3>1 DEF PassedSame
  <2>9. PassedList(q)
    <3>1. /\ \A j, m \in 0 .. n - 1 : L[j] = L[m] => j = m
          /\ \A j \in 0 .. n - 1 : S[L[j]] # "OFFLINE"
          /\ \A t \in Thread : S[t] # "OFFLINE" => \E j \in 0 .. n - 1 : L[j] = t
          /\ \A j \in 0 .. i - 1 : S[L[j]] # "LEFT"
      BY DEF PassedList
    <3>2. \A j \in 0 .. n - 2 : /\ j \in 0 .. n - 1 /\ j # n - 1
                                /\ j \in 0 .. x.runListSize - 1
                                /\ L2[j] = IF j = i THEN stid ELSE L[j]
      BY <1>1, <2>4
    <3> HIDE DEF n, i, L, S
    <3>3. \A j, m \in 0 .. n - 2 : L2[j] = L2[m] => j = m
      BY <1>1, <3>1, <3>2
    <3>4. \A j \in 0 .. n - 2 : L2[j] \in Thread /\ L2[j] # wtid
      BY <1>1, <1>2, <3>1, <3>2
    <3>5. \A j \in 0 .. n - 2 : S2[L2[j]] # "OFFLINE"
      BY <1>1, <2>4, <3>1, <3>2, <3>4
    <3>6. ASSUME NEW t \in Thread, S2[t] # "OFFLINE"
          PROVE  \E j \in 0 .. n - 2 : L2[j] = t
      <4>1. t # wtid /\ S[t] # "OFFLINE"
        BY <2>4, <3>6
      <4>2. PICK j \in 0 .. n - 1 : L[j] = t
        BY <3>1, <4>1
      <4>3. CASE j = n - 1
        <5>1. i \in 0 .. n - 2
          BY <1>1, <4>1, <4>2, <4>3
        <5> QED  BY <3>2, <4>2, <4>3, <5>1
      <4>4. CASE j # n - 1
        <5>1. j \in 0 .. n - 2 /\ j # i
          BY <1>1, <4>1, <4>2, <4>4
        <5> QED  BY <3>2, <4>2, <5>1
      <4> QED  BY <4>3, <4>4
    <3>7. \A j \in 0 .. i - 1 : S2[L2[j]] # "LEFT"
      <4> SUFFICES ASSUME NEW j \in 0 .. i - 1 PROVE S2[L2[j]] # "LEFT"
        OBVIOUS
      <4>1. j \in 0 .. n - 2 /\ j # i
        BY <1>1
      <4>2. L2[j] = L[j] /\ L2[j] \in Thread /\ L2[j] # wtid
        BY <3>2, <3>4, <4>1
      <4> QED  BY <2>4, <3>1, <4>2
    <3>8. q.newSize - 1 = n - 2
      BY <1>1, <2>6
    <3> QED  BY <2>5, <2>6, <3>3, <3>5, <3>6, <3>7, <3>8 DEF PassedList
  <2> QED  BY <2>7, <2>8, <2>9 DEF q
<1>4. CASE S[wtid] # "LEFT"
  <2>1. q = [bar |-> p.bar, idx |-> i + 1, newSize |-> n]
    BY <1>4 DEF CleanupStep
  <2> HIDE DEF q
  <2>2. q.bar = p.bar /\ q.idx = i + 1 /\ q.newSize = n
    BY <2>1
  <2>3. Passed(x, q, k + 1)
    <3>1. i + 1 \in Nat /\ i + 1 <= n /\ (i + 1) + (x.runListSize - n) = k + 1
      BY <1>1
    <3> QED  BY <1>1, <1>2, <2>2, <3>1 DEF Passed
  <2>4. PassedList(q)
    <3>1. \A j \in 0 .. i : j \in 0 .. i - 1 \/ j = i
      BY <1>1
    <3>2. q.idx - 1 = i
      BY <1>1, <2>2
    <3> QED  BY <1>4, <2>2, <3>1, <3>2 DEF PassedList
  <2> QED  BY <2>2, <2>3, <2>4 DEF q
<1> QED  BY <1>3, <1>4

\* The pass ends with nobody LEFT in the list.
LEMMA CleanupPassKeeps ==
  ASSUME NEW x, BInv(x)
  PROVE  LET p == CleanupPass(x)[x.runListSize] IN
         /\ Passed(x, p, x.runListSize) /\ PassedList(p) /\ PassedSame(x, p.bar)
         /\ p.idx = p.newSize
<1> DEFINE f == CleanupPass(x)  n == x.runListSize
           Kept(m) == Passed(x, f[m], m) /\ PassedList(f[m]) /\ PassedSame(x, f[m].bar)
           Bad == {m \in 0 .. n : ~Kept(m)}
<1>1. n \in Nat /\ Fields(x) /\ Typed(x) /\ Listed(x)
  BY DEF BInv, Typed
<1>2. /\ f[0] = [bar |-> x, idx |-> 0, newSize |-> n]
      /\ \A m \in 1 .. n : f[m] = CleanupStep(f[m - 1])
  BY <1>1, CleanupPassIs
<1> HIDE DEF f
<1>3. Kept(0)
  <2>1. f[0].bar = x /\ f[0].idx = 0 /\ f[0].newSize = n
    BY <1>2
  <2>2. Passed(x, f[0], 0)
    BY <1>1, <2>1 DEF Passed, Typed
  <2>3. PassedList(f[0])
    BY <1>1, <2>1 DEF PassedList, Listed
  <2>4. PassedSame(x, f[0].bar)
    BY <2>1 DEF PassedSame
  <2> QED  BY <2>2, <2>3, <2>4
<1>4. ASSUME NEW m \in 1 .. n, Kept(m - 1) PROVE Kept(m)
  <2>1. m - 1 \in Nat /\ m - 1 < n /\ (m - 1) + 1 = m
    BY <1>1
  <2>2. f[m] = CleanupStep(f[m - 1])
    BY <1>2
  <2> QED  BY <1>1, <1>4, <2>1, <2>2, CleanupStepKeeps
<1>5. Bad = {}
  <2> SUFFICES ASSUME Bad # {} PROVE FALSE
    OBVIOUS
  <2>1. PICK m \in Bad : \A j \in Bad : m <= j
    <3>1. Bad \in SUBSET Nat
      OBVIOUS
    <3> HIDE DEF Bad
    <3> QED  BY <3>1, LeastNat
  <2>2. m \in 0 .. n /\ ~Kept(m)
    BY <2>1
  <2> HIDE DEF Kept
  <2>3. m # 0
    BY <1>3, <2>2
  <2>4. m \in 1 .. n /\ m - 1 \in 0 .. n /\ m - 1 \notin Bad
    BY <1>1, <2>1, <2>2, <2>3
  <2> QED  BY <1>4, <2>2, <2>4
<1>6. Kept(n)
  <2> HIDE DEF Kept
  <2>1. n \in 0 .. n /\ n \notin Bad
    BY <1>1, <1>5
  <2> QED  BY <2>1
<1>7. f[n].idx = f[n].newSize
  BY <1>1, <1>6 DEF Passed
<1> QED  BY <1>6, <1>7 DEF f

\* The cleanup keeps the invariant: it takes out the threads that LEFT, and
\* no others.
LEMMA CleanupKeeps ==
  ASSUME NEW x, BInv(x), In(x, "RUNNING") = {}, x.done = {}, x.curThreadIdx = 0
  PROVE  LET y == Cleanup(x) IN
         /\ BInv(y) /\ In(y, "RUNNING") = {} /\ y.done = {} /\ y.curThreadIdx = 0
         /\ Live(y) = Live(x) /\ y.killed = x.killed
<1> DEFINE p == CleanupPass(x)[x.runListSize]  z == p.bar  n == p.newSize
           l == [i \in 0 .. n - 1 |-> z.runList[i]]
           y == Cleanup(x)
<1>1. /\ Passed(x, p, x.runListSize) /\ PassedList(p) /\ PassedSame(x, z)
      /\ p.idx = n
  BY CleanupPassKeeps
<1>2. Fields(z) /\ n \in Nat /\ n <= x.runListSize /\ x.runListSize \in Nat
  BY <1>1, Numbers DEF Passed
<1>3. y = [z EXCEPT !.runList = l, !.runListSize = n, !.leftThreads = 0]
  BY DEF Cleanup
<1>4. \A i \in 0 .. n - 1 : i \in 0 .. x.runListSize - 1 /\ l[i] = z.runList[i]
  BY <1>2
<1>5. l \in [0 .. n - 1 -> Thread]
  BY <1>1, <1>4 DEF Passed
<1> HIDE DEF l, y, z, n
<1>6. /\ Fields(y)
      /\ y.state = z.state /\ y.futexWord = z.futexWord /\ y.lastIdx = z.lastIdx
      /\ y.runList = l /\ y.runListSize = n /\ y.curThreadIdx = z.curThreadIdx
      /\ y.runningThreads = z.runningThreads /\ y.leftThreads = 0
      /\ y.phaseCount = z.phaseCount /\ y.done = z.done /\ y.leaves = z.leaves
      /\ y.killed = z.killed
  BY <1>2, <1>3 DEF Fields
<1>7. /\ \A t \in Thread :
           z.state[t] = x.state[t] \/ (x.state[t] = "LEFT" /\ z.state[t] = "OFFLINE")
      /\ z.futexWord = x.futexWord
      /\ z.curThreadIdx = 0 /\ z.runningThreads = x.runningThreads
      /\ z.phaseCount = x.phaseCount
      /\ z.done = {} /\ z.leaves = x.leaves /\ z.killed = x.killed
  BY <1>1 DEF PassedSame
<1>8. /\ \A i, j \in 0 .. n - 1 : z.runList[i] = z.runList[j] => i = j
      /\ \A i \in 0 .. n - 1 : z.state[z.runList[i]] # "OFFLINE" /\ z.state[z.runList[i]] # "LEFT"
      /\ \A t \in Thread : z.state[t] # "OFFLINE" => \E i \in 0 .. n - 1 : z.runList[i] = t
  BY <1>1 DEF PassedList, n, z
<1>9. Typed(x) /\ Counted(x) /\ Asleep(x) /\ z.state \in [Thread -> States] /\ z.lastIdx \in [Thread -> Nat]
  BY <1>1 DEF BInv, Passed, z
<1>10. \A t \in Thread : z.state[t] # "LEFT" /\ z.state[t] # "RUNNING"
  <2> SUFFICES ASSUME NEW t \in Thread PROVE z.state[t] # "LEFT" /\ z.state[t] # "RUNNING"
    OBVIOUS
  <2>1. x.state[t] # "RUNNING"
    BY DEF In
  <2>2. z.state[t] # "RUNNING"
    BY <1>7, <2>1
  <2>3. z.state[t] # "LEFT"
    BY <1>8
  <2> QED  BY <2>2, <2>3
<1>11. In(y, "RUNNING") = {} /\ In(y, "LEFT") = {}
  BY <1>6, <1>10 DEF In
<1>12. Typed(y)
  BY <1>2, <1>5, <1>6, <1>7, <1>9 DEF Typed
<1>13. Listed(y)
  BY <1>4, <1>6, <1>8 DEF Listed
<1>14. Counted(y)
  BY <1>6, <1>7, <1>9, <1>11, FS_EmptySet DEF Counted
<1>15. Ahead(y)
  BY <1>4, <1>5, <1>6, <1>7, <1>10 DEF Ahead
<1>16. Asleep(y)
  BY <1>6, <1>7, <1>9 DEF Asleep
<1>17. Told(y) /\ Behind(y)
  BY <1>6, <1>7, <1>10 DEF Told, Behind
<1>18. Live(y) = Live(x)
  BY <1>6, <1>7 DEF Live
<1> QED  BY <1>6, <1>7, <1>11, <1>12, <1>13, <1>14, <1>15, <1>16, <1>17, <1>18 DEF BInv, y

\* A list with the threads of another of its length, which has each of them
\* once, also has each of them once.
Once(n, l) == \A i, j \in 0 .. n - 1 : l[i] = l[j] => i = j
SameThreads(n, l, m) ==
  \A t \in Thread : (\E i \in 0 .. n - 1 : m[i] = t) <=> (\E i \in 0 .. n - 1 : l[i] = t)

\* A run list with the same threads has each of them once, too.
LEMMA SameThreadsOnce ==
  ASSUME NEW n \in Nat, NEW l \in [0 .. n - 1 -> Thread], NEW m \in [0 .. n - 1 -> Thread],
         Once(n, l), SameThreads(n, l, m)
  PROVE  Once(n, m)
<1> USE DEF Once, SameThreads
<1> DEFINE D == 0 .. n - 1  R == {l[i] : i \in D}
<1>1. IsFiniteSet(D)
  <2>1. 0 \in Int /\ n - 1 \in Int
    OBVIOUS
  <2> QED  BY <2>1, FS_Interval
<1>2. l \in Bijection(D, R)
  <2>1. l \in [D -> R] /\ (\A t \in R : \E i \in D : l[i] = t)
    OBVIOUS
  <2>2. \A i, j \in D : l[i] = l[j] => i = j
    OBVIOUS
  <2> HIDE DEF D, R
  <2> QED  BY <2>1, <2>2 DEF Bijection, Injection, Surjection, IsInjective
<1>3. Cardinality(D) = Cardinality(R)
  BY <1>1, <1>2, FS_Bijection DEF ExistsBijection
<1>4. m \in Surjection(D, R)
  <2>1. m \in [D -> R]
    <3>1. \A i \in D : m[i] \in R
      <4> SUFFICES ASSUME NEW i \in D PROVE m[i] \in R
        OBVIOUS
      <4>1. m[i] \in Thread
        OBVIOUS
      <4>2. \E j \in D : l[j] = m[i]
        BY <4>1
      <4> QED  BY <4>2
    <3> HIDE DEF R
    <3> QED  BY <3>1
  <2>2. \A t \in R : \E i \in D : m[i] = t
    OBVIOUS
  <2> HIDE DEF D, R
  <2> QED  BY <2>1, <2>2 DEF Surjection
<1>5. m \in Injection(D, R)
  <2> HIDE DEF D, R
  <2> QED  BY <1>1, <1>3, <1>4, FS_SurjSameCardinalityImpliesInj
<1>6. \A i, j \in D : m[i] = m[j] => i = j
  <2> HIDE DEF D, R
  <2>1. m \in [D -> R]
    BY <1>4 DEF Surjection
  <2> QED  BY <1>5, <2>1 DEF Injection, IsInjective
<1> QED  BY <1>6

\* The shuffle keeps the invariant: a thread that LEFT is told its new place.
LEMMA ShufflesKeep ==
  ASSUME NEW x, BInv(x), In(x, "RUNNING") = {}, x.done = {}, x.curThreadIdx = 0,
         NEW y \in Shuffles(x)
  PROVE  BInv(y) /\ Live(y) = Live(x) /\ y.killed = x.killed /\ y.done = {}
<1> DEFINE n == x.runListSize
           Moved(l, t) == \E i \in Indices(x) : l[i] = t /\ (i # 0 \/ x.runList[0] # t)
           At(l, t) == CHOOSE i \in Indices(x) : l[i] = t
           Told2(l) == [t \in Thread |-> IF Moved(l, t) THEN At(l, t) ELSE x.lastIdx[t]]
<1>1. PICK l \in [Indices(x) -> Thread] :
        /\ \A t \in Thread : (\E i \in Indices(x) : l[i] = t)
                               <=> (\E i \in Indices(x) : x.runList[i] = t)
        /\ y = [x EXCEPT !.runList = l, !.lastIdx = Told2(l)]
  BY DEF Shuffles
<1>2. /\ n \in Nat /\ Indices(x) = 0 .. n - 1 /\ Fields(x) /\ Typed(x) /\ Listed(x)
      /\ Counted(x) /\ Ahead(x) /\ Asleep(x) /\ (~x.killed => Told(x))
  BY Numbers DEF BInv, Indices
<1>3. \A t \in Thread : Moved(l, t) => At(l, t) \in 0 .. n - 1 /\ l[At(l, t)] = t
  BY <1>2
<1>4. Told2(l) \in [Thread -> Nat]
  <2>1. \A t \in Thread : (IF Moved(l, t) THEN At(l, t) ELSE x.lastIdx[t]) \in Nat
    BY <1>2, <1>3 DEF Typed
  <2> HIDE DEF Moved, At
  <2> QED  BY <2>1
<1> DEFINE I2 == Told2(l)
<1>5. \A t \in Thread : I2[t] = IF Moved(l, t) THEN At(l, t) ELSE x.lastIdx[t]
  OBVIOUS
<1>6. Fields(x) /\ y = [x EXCEPT !.runList = l, !.lastIdx = I2]
  BY <1>1, <1>2
<1> HIDE DEF I2
<1>7. /\ Fields(y)
      /\ y.state = x.state /\ y.futexWord = x.futexWord /\ y.lastIdx = I2
      /\ y.runList = l /\ y.runListSize = n /\ y.curThreadIdx = 0
      /\ y.runningThreads = x.runningThreads /\ y.leftThreads = x.leftThreads
      /\ y.phaseCount = x.phaseCount /\ y.done = {} /\ y.leaves = x.leaves
      /\ y.killed = x.killed
  BY <1>6 DEF Fields
<1>8. \A i, j \in 0 .. n - 1 : l[i] = l[j] => i = j
  <2>1. x.runList \in [0 .. n - 1 -> Thread] /\ \A i, j \in 0 .. n - 1 : x.runList[i] = x.runList[j] => i = j
    BY <1>2 DEF Typed, Listed
  <2>2. l \in [0 .. n - 1 -> Thread] /\ n \in Nat
    BY <1>1, <1>2
  <2>3. \A t \in Thread : (\E i \in 0 .. n - 1 : l[i] = t) <=> (\E i \in 0 .. n - 1 : x.runList[i] = t)
    BY <1>1, <1>2
  <2> DEFINE m == x.runList
  <2> HIDE DEF n, m
  <2>4. m \in [0 .. n - 1 -> Thread] /\ Once(n, m) /\ SameThreads(n, m, l)
    BY <2>1, <2>3 DEF m, n, Once, SameThreads
  <2>5. Once(n, l)
    BY <2>2, <2>4, SameThreadsOnce
  <2> QED  BY <2>5 DEF Once
<1>9. \A i \in 0 .. n - 1 : l[i] \in Thread /\ \E j \in 0 .. n - 1 : x.runList[j] = l[i]
  <2> SUFFICES ASSUME NEW i \in 0 .. n - 1
               PROVE  l[i] \in Thread /\ \E j \in 0 .. n - 1 : x.runList[j] = l[i]
    OBVIOUS
  <2>1. l[i] \in Thread
    BY <1>1, <1>2
  <2> QED  BY <1>1, <1>2, <2>1
<1>10. Listed(y)
  <2>1. ASSUME NEW i \in 0 .. n - 1 PROVE x.state[l[i]] # "OFFLINE"
    <3>1. PICK j \in 0 .. n - 1 : x.runList[j] = l[i]
      BY <1>9
    <3>2. x.state[x.runList[j]] # "OFFLINE"
      BY <1>2 DEF Listed
    <3> QED  BY <3>1, <3>2
  <2>2. \A t \in Thread : x.state[t] # "OFFLINE" => \E i \in 0 .. n - 1 : l[i] = t
    BY <1>1, <1>2 DEF Listed
  <2> QED  BY <1>7, <1>8, <2>1, <2>2 DEF Listed
<1>11. Typed(y)
  <2>1. x.done = {} /\ I2 \in [Thread -> Nat] /\ l \in [0 .. n - 1 -> Thread]
    BY <1>1, <1>2, <1>4 DEF I2
  <2> QED  BY <1>2, <1>7, <2>1 DEF Typed
<1>12. \A t \in Thread : x.state[t] # "RUNNING"
  BY DEF In
<1>13. Counted(y) /\ Asleep(y) /\ Behind(y)
  BY <1>2, <1>7 DEF Counted, Asleep, Behind, In
<1>14. Ahead(y)
  BY <1>7, <1>9, <1>12 DEF Ahead
<1>15. ASSUME ~y.killed PROVE Told(y)
  <2> SUFFICES ASSUME NEW t \in Thread, x.state[t] \in {"RUNNING", "LEFT"}
               PROVE  I2[t] \in 0 .. n - 1 /\ l[I2[t]] = t
    BY <1>7 DEF Told
  <2>1. CASE Moved(l, t)
    <3> HIDE DEF Moved, At
    <3> QED  BY <1>3, <1>5, <2>1
  <2>2. CASE ~Moved(l, t)
    <3>1. x.lastIdx[t] \in 0 .. n - 1 /\ x.runList[x.lastIdx[t]] = t
      BY <1>2, <1>7, <1>15 DEF Told
    <3>2. PICK i \in 0 .. n - 1 : l[i] = t
      BY <1>1, <1>2, <3>1
    <3>3. i = 0 /\ x.runList[0] = t
      BY <1>2, <2>2, <3>2
    <3>4. x.lastIdx[t] = 0
      BY <1>2, <3>1, <3>2, <3>3 DEF Listed
    <3>5. I2[t] = x.lastIdx[t]
      <4> HIDE DEF Moved, At
      <4> QED  BY <1>5, <2>2
    <3> QED  BY <3>2, <3>3, <3>4, <3>5
  <2> QED  BY <2>1, <2>2
<1>16. Live(y) = Live(x)
  BY <1>7 DEF Live
<1> QED  BY <1>7, <1>10, <1>11, <1>13, <1>14, <1>15, <1>16 DEF BInv

\* checkEndPhase keeps the invariant and who is in the barrier.
LEMMA CheckEndPhaseKeeps ==
  ASSUME NEW x, BInv(x), NEW y \in CheckEndPhase(x)
  PROVE  /\ BInv(y) /\ Live(y) = Live(x) /\ y.killed = x.killed
         /\ y # x => EndsPhase(x) /\ y.done = {}
<1>1. CASE ~EndsPhase(x)
  <2>1. y = x
    BY <1>1 DEF CheckEndPhase
  <2> QED  BY <2>1
<1>2. CASE EndsPhase(x)
  <2> DEFINE e == PhaseEnded(x)
             w == IF x.phaseCount = 0 THEN Cleanup(e) ELSE e
  <2>1. /\ BInv(e) /\ In(e, "RUNNING") = {} /\ e.done = {} /\ e.curThreadIdx = 0
        /\ e.state = x.state /\ e.killed = x.killed
    BY <1>2, PhaseEndedKeeps
  <2>2. Live(e) = Live(x)
    BY <2>1 DEF Live
  <2> HIDE DEF e
  <2>3. /\ BInv(w) /\ In(w, "RUNNING") = {} /\ w.done = {} /\ w.curThreadIdx = 0
        /\ Live(w) = Live(x) /\ w.killed = x.killed
    BY <2>1, <2>2, CleanupKeeps
  <2>4. y \in IF parallelThreads < w.runListSize THEN Shuffles(w) ELSE {w}
    BY <1>2 DEF CheckEndPhase, e
  <2> HIDE DEF w
  <2>5. BInv(y) /\ Live(y) = Live(x) /\ y.killed = x.killed /\ y.done = {}
    BY <2>3, <2>4, ShufflesKeep
  <2> QED  BY <1>2, <2>5
<1> QED  BY <1>1, <1>2

\* ... and so does tryWakeNext, which leaves nobody waiting who could run.  It
\* ends no phase when somebody waits from the current index on; when it ends one
\* nobody runs, and who waits has run.
LEMMA TryWakeNextKeeps ==
  ASSUME NEW x, BInv(x), NEW y \in TryWakeNext(x)
  PROVE  /\ BInv(y) /\ Awake(y) /\ Live(y) = Live(x) /\ y.killed = x.killed
         /\ (\E i \in x.curThreadIdx .. x.runListSize - 1 : x.state[x.runList[i]] = "WAITING")
              => y.phaseCount = x.phaseCount
         /\ Onward(x, y)
         /\ y.phaseCount # x.phaseCount /\ ~x.killed =>
              y.done = {} /\ In(x, "RUNNING") = {} /\ In(x, "WAITING") \subseteq x.done
<1> DEFINE w == CheckRunList(x)
<1>1. PICK z \in CheckEndPhase(w) : y = CheckRunList(z)
  BY DEF TryWakeNext
<1>2. /\ BInv(w) /\ Live(w) = Live(x) /\ w.killed = x.killed /\ w.phaseCount = x.phaseCount
      /\ Onward(x, w) /\ w.done = x.done
      /\ (\E i \in x.curThreadIdx .. x.runListSize - 1 : x.state[x.runList[i]] = "WAITING")
           => w.runningThreads # 0
  BY CheckRunListKeeps
<1> HIDE DEF w
<1>3. /\ BInv(z) /\ Live(z) = Live(w) /\ z.killed = w.killed
      /\ z # w => EndsPhase(w) /\ z.done = {}
  BY <1>2, CheckEndPhaseKeeps
<1>4. /\ BInv(y) /\ Awake(y) /\ Live(y) = Live(z) /\ Onward(z, y) /\ y.done = z.done
      /\ y.killed = z.killed /\ y.phaseCount = z.phaseCount
  BY <1>1, <1>3, CheckRunListKeeps
<1>5. z # w => w.runningThreads = 0
  BY <1>3 DEF EndsPhase
<1>6. CASE z = w
  BY <1>2, <1>4, <1>6 DEF Onward
<1>7. CASE z # w
  <2>1. EndsPhase(w) /\ w.runningThreads = 0 /\ z.done = {}
    BY <1>3, <1>5, <1>7
  <2>2. \A t \in Thread : w.state[t] # "RUNNING"
    <3>1. In(w, "RUNNING") \in SUBSET Thread /\ Cardinality(In(w, "RUNNING")) = 0
      BY <1>2, <2>1 DEF BInv, Counted, In
    <3>2. In(w, "RUNNING") = {}
      BY <3>1, Threads, FS_EmptySet
    <3> QED  BY <3>2 DEF In
  <2>3. \A t \in Thread : x.state[t] # "RUNNING" /\ (x.state[t] = "WAITING" => w.state[t] = "WAITING")
    BY <1>2, <2>2 DEF Onward, Live
  <2>4. Onward(x, y)
    <3>1. \A t \in Thread : z.state[t] = "WAITING" => w.state[t] = "WAITING"
      BY <1>3, <2>2 DEF Live
    <3> QED  BY <1>2, <1>4, <2>1, <2>3, <3>1 DEF Onward
  <2>5. ASSUME ~x.killed, NEW t \in Thread, x.state[t] = "WAITING" PROVE t \in x.done
    <3>1. Behind(w) /\ Listed(w) /\ w.state[t] = "WAITING" /\ w.curThreadIdx = w.runListSize
      BY <1>2, <2>1, <2>3, <2>5 DEF BInv, EndsPhase
    <3>2. PICK i \in 0 .. w.runListSize - 1 : w.runList[i] = t
      BY <3>1 DEF Listed
    <3> QED  BY <1>2, <3>1, <3>2 DEF Behind
  <2> QED  BY <1>2, <1>3, <1>4, <2>1, <2>3, <2>4, <2>5 DEF In
<1> QED  BY <1>6, <1>7

-----------------------------------------------------------------------------
(* What join, leave and sync do before tryWakeNext                         *)

\* A thread that is OFFLINE joins at the end of the run list.
LEMMA AppendKeeps ==
  ASSUME NEW x, BInv(x), NEW t \in Thread, x.state[t] = "OFFLINE"
  PROVE  LET y == Waiting(Append(x, t), t) IN
         /\ BInv(y) /\ Live(y) = Live(x) \cup {t}
         /\ y.killed = x.killed /\ y.phaseCount = x.phaseCount
         /\ \E i \in y.curThreadIdx .. y.runListSize - 1 : y.state[y.runList[i]] = "WAITING"
<1> DEFINE n == x.runListSize
           S == [x.state EXCEPT ![t] = "WAITING"]
           F == [x.futexWord EXCEPT ![t] = 1]
           L == [i \in 0 .. n |-> IF i = n THEN t ELSE x.runList[i]]
           y == Waiting(Append(x, t), t)
<1>1. /\ Fields(x) /\ Typed(x) /\ Listed(x) /\ Counted(x) /\ Ahead(x) /\ Asleep(x)
      /\ n \in Nat /\ x.curThreadIdx \in 0 .. n
  BY DEF BInv, Typed
<1>2. y = [x EXCEPT !.state = S, !.futexWord = F, !.runList = L, !.runListSize = n + 1]
  <2> HIDE DEF L
  <2>1. Append(x, t) = [x EXCEPT !.runList = L, !.runListSize = n + 1]
    BY DEF Append, L
  <2> QED  BY <1>1, <2>1 DEF Waiting, Fields
<1>3. /\ \A u \in Thread : S[u] = IF u = t THEN "WAITING" ELSE x.state[u]
      /\ \A u \in Thread : F[u] = IF u = t THEN 1 ELSE x.futexWord[u]
      /\ S \in [Thread -> States] /\ F \in [Thread -> {0, 1}]
  BY <1>1 DEF Typed, States
<1>4. /\ \A i \in 0 .. n : L[i] = IF i = n THEN t ELSE x.runList[i]
      /\ L \in [0 .. n -> Thread]
  BY <1>1 DEF Typed
<1> HIDE DEF S, F, L, y
<1>5. /\ Fields(y)
      /\ y.state = S /\ y.futexWord = F /\ y.lastIdx = x.lastIdx
      /\ y.runList = L /\ y.runListSize = n + 1 /\ y.curThreadIdx = x.curThreadIdx
      /\ y.runningThreads = x.runningThreads /\ y.leftThreads = x.leftThreads
      /\ y.phaseCount = x.phaseCount /\ y.done = x.done /\ y.leaves = x.leaves
      /\ y.killed = x.killed
  BY <1>1, <1>2 DEF Fields
<1>6. /\ n + 1 \in Nat /\ (n + 1) - 1 = n
      /\ \A i \in 0 .. n : i = n \/ i \in 0 .. n - 1
      /\ \A i \in 0 .. n - 1 : i \in 0 .. n /\ i # n
      /\ n \in 0 .. n
  BY <1>1
<1>7. \A i \in 0 .. n - 1 : x.runList[i] # t /\ x.runList[i] \in Thread /\ L[i] = x.runList[i]
  BY <1>1, <1>4, <1>6 DEF Listed, Typed
<1>8. L[n] = t
  BY <1>4, <1>6
<1>9. Typed(y)
  <2>1. x.curThreadIdx \in 0 .. n + 1
    BY <1>1
  <2> QED  BY <1>1, <1>3, <1>4, <1>5, <1>6, <2>1 DEF Typed
<1>10. Listed(y)
  <2>1. \A i, j \in 0 .. n : L[i] = L[j] => i = j
    BY <1>1, <1>6, <1>7, <1>8 DEF Listed
  <2>2. \A i \in 0 .. n : S[L[i]] # "OFFLINE"
    BY <1>1, <1>3, <1>6, <1>7, <1>8 DEF Listed
  <2>3. \A u \in Thread : S[u] # "OFFLINE" => \E i \in 0 .. n : L[i] = u
    <3> SUFFICES ASSUME NEW u \in Thread, S[u] # "OFFLINE" PROVE \E i \in 0 .. n : L[i] = u
      OBVIOUS
    <3>1. CASE u = t
      BY <1>6, <1>8, <3>1
    <3>2. CASE u # t
      BY <1>1, <1>3, <1>6, <1>7, <3>2 DEF Listed
    <3> QED  BY <3>1, <3>2
  <2> QED  BY <1>5, <1>6, <2>1, <2>2, <2>3 DEF Listed
<1>11. In(y, "RUNNING") = In(x, "RUNNING") /\ In(y, "LEFT") = In(x, "LEFT")
  BY <1>3, <1>5 DEF In
<1>12. Counted(y)
  BY <1>1, <1>5, <1>11 DEF Counted
<1>13. Ahead(y)
  <2>1. x.done \subseteq In(y, "WAITING") /\ t \notin x.done
    BY <1>1, <1>3, <1>5 DEF Ahead, In
  <2>2. ASSUME NEW i \in x.curThreadIdx .. n PROVE S[L[i]] # "RUNNING" /\ L[i] \notin x.done
    <3>1. CASE i = n
      BY <1>3, <1>8, <2>1, <3>1
    <3>2. CASE i # n
      <4>1. i \in x.curThreadIdx .. n - 1 /\ i \in 0 .. n - 1
        BY <1>1, <3>2
      <4> QED  BY <1>1, <1>3, <1>7, <4>1 DEF Ahead
    <3> QED  BY <3>1, <3>2
  <2> QED  BY <1>5, <1>6, <2>1, <2>2 DEF Ahead
<1>14. Asleep(y)
  BY <1>1, <1>3, <1>5 DEF Asleep
<1>15. ASSUME ~y.killed PROVE Told(y) /\ Behind(y)
  <2>1. Told(x) /\ Behind(x)
    BY <1>5, <1>15 DEF BInv
  <2>2. Told(y)
    <3> SUFFICES ASSUME NEW u \in Thread, S[u] \in {"RUNNING", "LEFT"}
                 PROVE  x.lastIdx[u] \in 0 .. n /\ L[x.lastIdx[u]] = u
      BY <1>5, <1>6 DEF Told
    <3>1. x.state[u] \in {"RUNNING", "LEFT"}
      BY <1>3
    <3>2. x.lastIdx[u] \in 0 .. n - 1 /\ x.runList[x.lastIdx[u]] = u
      BY <2>1, <3>1 DEF Told
    <3> QED  BY <1>6, <1>7, <3>2
  <2>3. \A i \in 0 .. x.curThreadIdx - 1 : i \in 0 .. n - 1
    BY <1>1
  <2>4. Behind(y)
    BY <1>3, <1>5, <1>7, <2>1, <2>3 DEF Behind
  <2> QED  BY <2>2, <2>4
<1>16. BInv(y)
  BY <1>5, <1>9, <1>10, <1>12, <1>13, <1>14, <1>15 DEF BInv
<1>17. Live(y) = Live(x) \cup {t}
  BY <1>3, <1>5 DEF Live
<1>18. n \in x.curThreadIdx .. (n + 1) - 1 /\ S[L[n]] = "WAITING"
  BY <1>1, <1>3, <1>8
<1> QED  BY <1>5, <1>16, <1>17, <1>18 DEF y

\* Of the threads in a state, one goes or comes.
LEMMA OneLess ==
  ASSUME NEW S \in SUBSET Thread, NEW t \in S
  PROVE  Cardinality(S \ {t}) = Cardinality(S) - 1
BY Threads, FS_RemoveElement

\* A thread more
LEMMA OneMore ==
  ASSUME NEW S \in SUBSET Thread, NEW t \in Thread, t \notin S
  PROVE  Cardinality(S \cup {t}) = Cardinality(S) + 1
BY Threads, FS_AddElement

\* A thread that LEFT is back before its turn: it waits where it was.
LEMMA RejoinKeeps ==
  ASSUME NEW x, BInv(x), NEW t \in Thread, x.state[t] = "LEFT",
         ~(x.curThreadIdx > x.lastIdx[t])
  PROVE  LET y == Waiting([x EXCEPT !.leftThreads = @ - 1], t) IN
         /\ BInv(y) /\ Live(y) = Live(x) \cup {t}
         /\ y.killed = x.killed /\ y.phaseCount = x.phaseCount
         /\ ~y.killed =>
              \E i \in y.curThreadIdx .. y.runListSize - 1 : y.state[y.runList[i]] = "WAITING"
<1> DEFINE n == x.runListSize
           S == [x.state EXCEPT ![t] = "WAITING"]
           F == [x.futexWord EXCEPT ![t] = 1]
           y == Waiting([x EXCEPT !.leftThreads = @ - 1], t)
<1>1. /\ Fields(x) /\ Typed(x) /\ Listed(x) /\ Counted(x) /\ Ahead(x) /\ Asleep(x)
      /\ n \in Nat /\ x.curThreadIdx \in 0 .. n
  BY DEF BInv, Typed
<1>2. y = [x EXCEPT !.state = S, !.futexWord = F, !.leftThreads = x.leftThreads - 1]
  BY <1>1 DEF Waiting, Fields
<1>3. /\ \A u \in Thread : S[u] = IF u = t THEN "WAITING" ELSE x.state[u]
      /\ \A u \in Thread : F[u] = IF u = t THEN 1 ELSE x.futexWord[u]
      /\ S \in [Thread -> States] /\ F \in [Thread -> {0, 1}]
  BY <1>1 DEF Typed, States
<1> HIDE DEF S, F, y
<1>4. /\ Fields(y)
      /\ y.state = S /\ y.futexWord = F /\ y.lastIdx = x.lastIdx
      /\ y.runList = x.runList /\ y.runListSize = n /\ y.curThreadIdx = x.curThreadIdx
      /\ y.runningThreads = x.runningThreads /\ y.leftThreads = x.leftThreads - 1
      /\ y.phaseCount = x.phaseCount /\ y.done = x.done /\ y.leaves = x.leaves
      /\ y.killed = x.killed
  BY <1>1, <1>2 DEF Fields
<1>5. Typed(y)
  BY <1>1, <1>3, <1>4 DEF Typed
<1>6. Listed(y)
  <2>1. \A i \in 0 .. n - 1 : x.runList[i] \in Thread /\ x.state[x.runList[i]] # "OFFLINE"
    BY <1>1 DEF Listed, Typed
  <2>2. \A i \in 0 .. n - 1 : S[x.runList[i]] # "OFFLINE"
    BY <1>3, <2>1
  <2>3. \A u \in Thread : S[u] # "OFFLINE" => x.state[u] # "OFFLINE"
    BY <1>3
  <2> QED  BY <1>1, <1>4, <2>2, <2>3 DEF Listed
<1>7. In(y, "RUNNING") = In(x, "RUNNING") /\ In(y, "LEFT") = In(x, "LEFT") \ {t} /\ t \in In(x, "LEFT")
  BY <1>3, <1>4 DEF In
<1>8. Counted(y)
  <2>1. In(x, "LEFT") \in SUBSET Thread
    BY DEF In
  <2>2. Cardinality(In(y, "LEFT")) = Cardinality(In(x, "LEFT")) - 1
    BY <1>7, <2>1, OneLess
  <2> QED  BY <1>1, <1>4, <1>7, <2>2 DEF Counted
<1>9. x.done \subseteq In(y, "WAITING") /\ t \notin x.done
  BY <1>1, <1>3, <1>4 DEF Ahead, In
<1>10. \A i \in 0 .. n - 1 : x.runList[i] \in Thread
  BY <1>1 DEF Typed
<1>11. Ahead(y)
  <2>1. ASSUME NEW i \in x.curThreadIdx .. n - 1
        PROVE  S[x.runList[i]] # "RUNNING" /\ x.runList[i] \notin x.done
    <3>1. i \in 0 .. n - 1
      BY <1>1
    <3> QED  BY <1>1, <1>3, <1>9, <1>10, <3>1 DEF Ahead
  <2> QED  BY <1>4, <1>9, <2>1 DEF Ahead
<1>12. Asleep(y)
  BY <1>1, <1>3, <1>4 DEF Asleep
<1>13. ASSUME ~y.killed
       PROVE  Told(y) /\ Behind(y)
              /\ x.lastIdx[t] \in x.curThreadIdx .. n - 1 /\ S[x.runList[x.lastIdx[t]]] = "WAITING"
  <2>1. Told(x) /\ Behind(x)
    BY <1>4, <1>13 DEF BInv
  <2>2. Told(y)
    BY <1>3, <1>4, <2>1 DEF Told
  <2>3. x.lastIdx[t] \in 0 .. n - 1 /\ x.runList[x.lastIdx[t]] = t
    BY <2>1 DEF Told
  <2>4. x.lastIdx[t] \in x.curThreadIdx .. n - 1
    BY <1>1, <2>3
  <2>5. ASSUME NEW i \in 0 .. x.curThreadIdx - 1, S[x.runList[i]] = "WAITING"
        PROVE  x.runList[i] \in x.done
    <3>1. i \in 0 .. n - 1 /\ i # x.lastIdx[t]
      BY <1>1, <2>4
    <3>2. x.runList[i] # t
      BY <1>1, <2>3, <3>1 DEF Listed
    <3> QED  BY <1>3, <1>10, <2>1, <2>5, <3>1, <3>2 DEF Behind
  <2>6. Behind(y)
    BY <1>4, <2>5 DEF Behind
  <2> QED  BY <1>3, <2>2, <2>3, <2>4, <2>6
<1>14. BInv(y)
  BY <1>4, <1>5, <1>6, <1>8, <1>11, <1>12, <1>13 DEF BInv
<1>15. Live(y) = Live(x) \cup {t}
  BY <1>3, <1>4 DEF Live
<1>16. ~y.killed => \E i \in y.curThreadIdx .. y.runListSize - 1 : y.state[y.runList[i]] = "WAITING"
  BY <1>4, <1>13
<1> QED  BY <1>4, <1>14, <1>15, <1>16 DEF y

\* A thread that LEFT after its turn is back: it trades places with the last
\* thread the list has passed, and that one is told.
LEMMA RescheduleKeeps ==
  ASSUME NEW x, BInv(x), NEW t \in Thread, x.state[t] = "LEFT",
         x.curThreadIdx > x.lastIdx[t], x.runList[x.lastIdx[t]] = t
  PROVE  LET y == Waiting(Reschedule([x EXCEPT !.leftThreads = @ - 1], t), t) IN
         /\ BInv(y) /\ Live(y) = Live(x) \cup {t}
         /\ y.killed = x.killed /\ y.phaseCount = x.phaseCount
         /\ \E i \in y.curThreadIdx .. y.runListSize - 1 : y.state[y.runList[i]] = "WAITING"
<1> DEFINE n == x.runListSize  c == x.curThreadIdx
           here == x.lastIdx[t]  there == c - 1  other == x.runList[there]
           S == [x.state EXCEPT ![t] = "WAITING"]
           F == [x.futexWord EXCEPT ![t] = 1]
           L == [x.runList EXCEPT ![here] = other, ![there] = t]
           I == [x.lastIdx EXCEPT ![other] = here, ![t] = there]
           z == [x EXCEPT !.leftThreads = @ - 1]
           y == Waiting(Reschedule(z, t), t)
<1>1. /\ Fields(x) /\ Typed(x) /\ Listed(x) /\ Counted(x) /\ Ahead(x) /\ Asleep(x)
      /\ n \in Nat /\ c \in 0 .. n
  BY DEF BInv, Typed
<1>2. /\ here \in Nat /\ here < c /\ here \in 0 .. n - 1
      /\ there \in Nat /\ there \in 0 .. n - 1 /\ here <= there /\ there = c - 1
      /\ other \in Thread
  <2>1. here \in Nat
    BY <1>1 DEF Typed
  <2>2. here < c /\ here \in 0 .. n - 1 /\ there \in Nat /\ there \in 0 .. n - 1 /\ here <= there
    BY <1>1, <2>1
  <2> QED  BY <1>1, <2>1, <2>2 DEF Typed
<1>3. y = [x EXCEPT !.state = S, !.futexWord = F, !.lastIdx = I, !.runList = L,
                    !.curThreadIdx = there, !.leftThreads = x.leftThreads - 1]
  <2>1. /\ Fields(z) /\ z = [x EXCEPT !.leftThreads = x.leftThreads - 1]
        /\ z.lastIdx = x.lastIdx /\ z.curThreadIdx = c /\ z.runList = x.runList
        /\ z.state = x.state /\ z.futexWord = x.futexWord
    BY <1>1 DEF Fields
  <2> HIDE DEF z
  <2>2. Reschedule(z, t) = [z EXCEPT !.curThreadIdx = there, !.runList = L, !.lastIdx = I]
    BY <2>1 DEF Reschedule
  <2> DEFINE w == Reschedule(z, t)
  <2> HIDE DEF L, I
  <2>3. w = [z EXCEPT !.curThreadIdx = there, !.runList = L, !.lastIdx = I]
    BY <2>2
  <2> HIDE DEF w
  <2>4. w.state = x.state /\ w.futexWord = x.futexWord
    BY <2>1, <2>3 DEF Fields
  <2>5. Waiting(w, t) = [w EXCEPT !.state = S, !.futexWord = F]
    BY <2>4 DEF Waiting
  <2> HIDE DEF S, F
  <2>6. Waiting(w, t) = [x EXCEPT !.state = S, !.futexWord = F, !.lastIdx = I, !.runList = L,
                           !.curThreadIdx = there, !.leftThreads = x.leftThreads - 1]
    BY <1>1, <2>1, <2>3, <2>5 DEF Fields
  <2> QED  BY <2>6 DEF w
<1>4. /\ \A u \in Thread : S[u] = IF u = t THEN "WAITING" ELSE x.state[u]
      /\ \A u \in Thread : F[u] = IF u = t THEN 1 ELSE x.futexWord[u]
      /\ S \in [Thread -> States] /\ F \in [Thread -> {0, 1}]
  BY <1>1 DEF Typed, States
<1>5. /\ \A i \in 0 .. n - 1 : L[i] = IF i = there THEN t
                                      ELSE IF i = here THEN other ELSE x.runList[i]
      /\ L \in [0 .. n - 1 -> Thread]
  BY <1>1, <1>2 DEF Typed
<1>6. /\ \A u \in Thread : I[u] = IF u = t THEN there ELSE IF u = other THEN here ELSE x.lastIdx[u]
      /\ I \in [Thread -> Nat]
  BY <1>1, <1>2 DEF Typed
<1>7. \A i \in 0 .. n - 1 :
        /\ x.runList[i] \in Thread /\ x.state[x.runList[i]] # "OFFLINE"
        /\ x.runList[i] = t <=> i = here
        /\ x.runList[i] = other <=> i = there
  <2>1. \A i \in 0 .. n - 1 : x.runList[i] \in Thread /\ x.state[x.runList[i]] # "OFFLINE"
    BY <1>1 DEF Typed, Listed
  <2>2. \A i, j \in 0 .. n - 1 : x.runList[i] = x.runList[j] => i = j
    BY <1>1 DEF Listed
  <2> QED  BY <1>2, <2>1, <2>2
<1> HIDE DEF S, F, L, I, y, there, here, other
<1>8. /\ Fields(y)
      /\ y.state = S /\ y.futexWord = F /\ y.lastIdx = I
      /\ y.runList = L /\ y.runListSize = n /\ y.curThreadIdx = there
      /\ y.runningThreads = x.runningThreads /\ y.leftThreads = x.leftThreads - 1
      /\ y.phaseCount = x.phaseCount /\ y.done = x.done /\ y.leaves = x.leaves
      /\ y.killed = x.killed
  BY <1>1, <1>3 DEF Fields
<1>9. Typed(y)
  <2>1. there \in 0 .. n
    BY <1>1, <1>2
  <2> QED  BY <1>1, <1>4, <1>5, <1>6, <1>8, <2>1 DEF Typed
<1>10. /\ L[there] = t /\ (here # there => L[here] = other)
       /\ (here = there => other = t)
       /\ \A i \in 0 .. n - 1 : i # here /\ i # there => L[i] = x.runList[i]
  BY <1>2, <1>5, <1>7
<1>11. Listed(y)
  <2>1. \A i, j \in 0 .. n - 1 : L[i] = L[j] => i = j
    <3>1. \A i, j \in 0 .. n - 1 : x.runList[i] = x.runList[j] => i = j
      BY <1>1 DEF Listed
    <3> QED  BY <1>2, <1>5, <1>7, <3>1
  <2>2. \A i \in 0 .. n - 1 : L[i] \in Thread /\ x.state[L[i]] # "OFFLINE"
    BY <1>2, <1>5, <1>7
  <2>3. \A i \in 0 .. n - 1 : S[L[i]] # "OFFLINE"
    BY <1>4, <2>2
  <2>4. ASSUME NEW u \in Thread, S[u] # "OFFLINE" PROVE \E i \in 0 .. n - 1 : L[i] = u
    <3>1. CASE u = t
      BY <1>2, <1>10, <3>1
    <3>2. CASE u # t
      <4>1. x.state[u] # "OFFLINE"
        BY <1>4, <2>4, <3>2
      <4>2. PICK i \in 0 .. n - 1 : x.runList[i] = u
        BY <1>1, <4>1 DEF Listed
      <4>3. i # here
        BY <1>7, <3>2, <4>2
      <4>4. CASE i = there
        BY <1>2, <1>7, <1>10, <4>2, <4>3, <4>4
      <4>5. CASE i # there
        BY <1>10, <4>2, <4>3, <4>5
      <4> QED  BY <4>4, <4>5
    <3> QED  BY <3>1, <3>2
  <2> QED  BY <1>8, <2>1, <2>3, <2>4 DEF Listed
<1>12. In(y, "RUNNING") = In(x, "RUNNING") /\ In(y, "LEFT") = In(x, "LEFT") \ {t} /\ t \in In(x, "LEFT")
  BY <1>4, <1>8 DEF In
<1>13. Counted(y)
  <2>1. In(x, "LEFT") \in SUBSET Thread
    BY DEF In
  <2>2. Cardinality(In(y, "LEFT")) = Cardinality(In(x, "LEFT")) - 1
    BY <1>12, <2>1, OneLess
  <2> QED  BY <1>1, <1>8, <1>12, <2>2 DEF Counted
<1>14. x.done \subseteq In(y, "WAITING") /\ t \notin x.done
  BY <1>1, <1>4, <1>8 DEF Ahead, In
<1>15. Ahead(y)
  <2>1. ASSUME NEW i \in there .. n - 1 PROVE S[L[i]] # "RUNNING" /\ L[i] \notin x.done
    <3>1. CASE i = there
      BY <1>4, <1>10, <1>14, <3>1
    <3>2. CASE i # there
      <4>1. i \in c .. n - 1 /\ i \in 0 .. n - 1 /\ i # here
        BY <1>1, <1>2, <3>2
      <4>2. L[i] = x.runList[i] /\ x.runList[i] # t
        BY <1>7, <1>10, <3>2, <4>1
      <4> QED  BY <1>1, <1>4, <1>7, <4>1, <4>2 DEF Ahead
    <3> QED  BY <3>1, <3>2
  <2> QED  BY <1>8, <1>14, <2>1 DEF Ahead
<1>16. Asleep(y)
  BY <1>1, <1>4, <1>8 DEF Asleep
<1>17. ASSUME ~y.killed PROVE Told(y)
  <2> SUFFICES ASSUME NEW u \in Thread, S[u] \in {"RUNNING", "LEFT"}
               PROVE  I[u] \in 0 .. n - 1 /\ L[I[u]] = u
    BY <1>8 DEF Told
  <2>1. u # t /\ x.state[u] \in {"RUNNING", "LEFT"}
    BY <1>4
  <2>2. Told(x)
    BY <1>8, <1>17 DEF BInv
  <2>3. x.lastIdx[u] \in 0 .. n - 1 /\ x.runList[x.lastIdx[u]] = u
    BY <2>1, <2>2 DEF Told
  <2>4. CASE u = other
    BY <1>2, <1>6, <1>10, <2>1, <2>4
  <2>5. CASE u # other
    <3>1. x.lastIdx[u] # here /\ x.lastIdx[u] # there
      BY <1>7, <2>1, <2>3, <2>5
    <3>2. I[u] = x.lastIdx[u]
      BY <1>6, <2>1, <2>5
    <3> QED  BY <1>10, <2>3, <3>1, <3>2
  <2> QED  BY <2>4, <2>5
<1>18. ASSUME ~y.killed PROVE Behind(y)
  <2> SUFFICES ASSUME NEW i \in 0 .. there - 1, S[L[i]] = "WAITING" PROVE L[i] \in x.done
    BY <1>8 DEF Behind
  <2>1. Behind(x)
    BY <1>8, <1>18 DEF BInv
  <2>2. i \in 0 .. c - 1 /\ i \in 0 .. n - 1 /\ i # there /\ there \in 0 .. c - 1
    BY <1>1, <1>2
  <2>3. CASE i = here
    <3>1. L[i] = other /\ other # t
      BY <1>2, <1>7, <1>10, <2>2, <2>3
    <3>2. x.state[other] = "WAITING"
      BY <1>2, <1>4, <3>1
    <3>3. other = x.runList[there]
      BY DEF other
    <3> QED  BY <2>1, <2>2, <3>1, <3>2, <3>3 DEF Behind
  <2>4. CASE i # here
    <3>1. L[i] = x.runList[i] /\ x.runList[i] # t /\ x.runList[i] \in Thread
      BY <1>7, <1>10, <2>2, <2>4
    <3>2. x.state[x.runList[i]] = "WAITING"
      BY <1>4, <3>1
    <3> QED  BY <2>1, <2>2, <3>1, <3>2 DEF Behind
  <2> QED  BY <2>3, <2>4
<1>19. BInv(y)
  BY <1>8, <1>9, <1>11, <1>13, <1>15, <1>16, <1>17, <1>18 DEF BInv
<1>20. Live(y) = Live(x) \cup {t}
  BY <1>4, <1>8 DEF Live
<1>21. there \in there .. n - 1 /\ S[L[there]] = "WAITING"
  BY <1>2, <1>4, <1>10
<1> QED  BY <1>8, <1>19, <1>20, <1>21 DEF y

\* A running thread leaves.
LEMMA LeftKeeps ==
  ASSUME NEW x, BInv(x), NEW t \in Thread, x.state[t] = "RUNNING", x.leaves[t] < MaxLeaves
  PROVE  LET y == Left(x, t) IN
         /\ BInv(y) /\ Live(y) = Live(x) \ {t} /\ y.killed = x.killed
<1> DEFINE n == x.runListSize
           S == [x.state EXCEPT ![t] = "LEFT"]
           V == [x.leaves EXCEPT ![t] = @ + 1]
           y == Left(x, t)
<1>1. /\ Fields(x) /\ Typed(x) /\ Listed(x) /\ Counted(x) /\ Ahead(x) /\ Asleep(x)
      /\ n \in Nat /\ x.curThreadIdx \in 0 .. n
  BY DEF BInv, Typed
<1>2. y = [x EXCEPT !.state = S, !.leftThreads = x.leftThreads + 1, !.leaves = V,
                    !.runningThreads = x.runningThreads - 1]
  BY <1>1 DEF Left, Fields
<1>3. /\ \A u \in Thread : S[u] = IF u = t THEN "LEFT" ELSE x.state[u]
      /\ S \in [Thread -> States]
  BY <1>1 DEF Typed, States
<1>4. V \in [Thread -> 0 .. MaxLeaves]
  <2>1. x.leaves \in [Thread -> 0 .. MaxLeaves] /\ MaxLeaves \in Nat
    BY <1>1, BarrierAssumption DEF Typed
  <2>2. x.leaves[t] + 1 \in 0 .. MaxLeaves
    BY <2>1
  <2> QED  BY <2>1, <2>2
<1> HIDE DEF S, V, y
<1>5. /\ Fields(y)
      /\ y.state = S /\ y.futexWord = x.futexWord /\ y.lastIdx = x.lastIdx
      /\ y.runList = x.runList /\ y.runListSize = n /\ y.curThreadIdx = x.curThreadIdx
      /\ y.runningThreads = x.runningThreads - 1 /\ y.leftThreads = x.leftThreads + 1
      /\ y.phaseCount = x.phaseCount /\ y.done = x.done /\ y.leaves = V
      /\ y.killed = x.killed
  BY <1>1, <1>2 DEF Fields
<1>6. Typed(y)
  BY <1>1, <1>3, <1>4, <1>5 DEF Typed
<1>7. \A i \in 0 .. n - 1 : x.runList[i] \in Thread
  BY <1>1 DEF Typed
<1>8. Listed(y)
  <2>1. \A i \in 0 .. n - 1 : x.state[x.runList[i]] # "OFFLINE"
    BY <1>1 DEF Listed
  <2>2. \A i \in 0 .. n - 1 : S[x.runList[i]] # "OFFLINE"
    BY <1>3, <1>7, <2>1
  <2>3. \A u \in Thread : S[u] # "OFFLINE" => x.state[u] # "OFFLINE"
    BY <1>3
  <2> QED  BY <1>1, <1>5, <2>2, <2>3 DEF Listed
<1>9. /\ In(y, "RUNNING") = In(x, "RUNNING") \ {t} /\ t \in In(x, "RUNNING")
      /\ In(y, "LEFT") = In(x, "LEFT") \cup {t} /\ t \notin In(x, "LEFT")
  BY <1>3, <1>5 DEF In
<1>10. Counted(y)
  <2>1. In(x, "LEFT") \in SUBSET Thread /\ In(x, "RUNNING") \in SUBSET Thread
    BY DEF In
  <2>2. /\ Cardinality(In(y, "LEFT")) = Cardinality(In(x, "LEFT")) + 1
        /\ Cardinality(In(y, "RUNNING")) = Cardinality(In(x, "RUNNING")) - 1
    BY <1>9, <2>1, OneLess, OneMore
  <2>3. x.runningThreads - 1 <= parallelThreads
    BY <1>1, Numbers, BarrierAssumption DEF Counted
  <2> QED  BY <1>1, <1>5, <2>2, <2>3 DEF Counted
<1>11. x.done \subseteq In(y, "WAITING")
  BY <1>1, <1>3, <1>5 DEF Ahead, In
<1>12. Ahead(y)
  <2>1. ASSUME NEW i \in x.curThreadIdx .. n - 1
        PROVE  S[x.runList[i]] # "RUNNING" /\ x.runList[i] \notin x.done
    <3>1. i \in 0 .. n - 1
      BY <1>1
    <3> QED  BY <1>1, <1>3, <1>7, <3>1 DEF Ahead
  <2> QED  BY <1>5, <1>11, <2>1 DEF Ahead
<1>13. Asleep(y)
  BY <1>1, <1>3, <1>5 DEF Asleep
<1>14. ASSUME ~y.killed PROVE Told(y) /\ Behind(y)
  <2>1. Told(x) /\ Behind(x)
    BY <1>5, <1>14 DEF BInv
  <2>2. Told(y)
    BY <1>3, <1>5, <2>1 DEF Told
  <2>3. \A i \in 0 .. x.curThreadIdx - 1 : i \in 0 .. n - 1
    BY <1>1
  <2>4. Behind(y)
    BY <1>3, <1>5, <1>7, <2>1, <2>3 DEF Behind
  <2> QED  BY <2>2, <2>4
<1>15. BInv(y)
  BY <1>5, <1>6, <1>8, <1>10, <1>12, <1>13, <1>14 DEF BInv
<1>16. Live(y) = Live(x) \ {t}
  BY <1>3, <1>5 DEF Live
<1> QED  BY <1>5, <1>15, <1>16 DEF y

\* A thread is killed in its wait, woken or not.
LEMMA KilledKeeps ==
  ASSUME NEW x, BInv(x), NEW t \in Thread, t \in Live(x), x.leaves[t] < MaxLeaves
  PROVE  LET y == [Left(x, t) EXCEPT !.killed = TRUE, !.done = @ \ {t}] IN
         BInv(y) /\ Live(y) = Live(x) \ {t} /\ y.killed
<1> DEFINE n == x.runListSize
           S == [x.state EXCEPT ![t] = "LEFT"]
           V == [x.leaves EXCEPT ![t] = @ + 1]
           R == IF x.state[t] = "RUNNING" THEN x.runningThreads - 1 ELSE x.runningThreads
           w == Left(x, t)
           y == [w EXCEPT !.killed = TRUE, !.done = @ \ {t}]
<1>1. /\ Fields(x) /\ Typed(x) /\ Listed(x) /\ Counted(x) /\ Ahead(x) /\ Asleep(x)
      /\ n \in Nat /\ x.curThreadIdx \in 0 .. n
      /\ x.state[t] \in {"WAITING", "RUNNING"}
  BY DEF BInv, Typed, Live
<1>2. w = [x EXCEPT !.state = S, !.leftThreads = x.leftThreads + 1, !.leaves = V,
                    !.runningThreads = R]
  BY <1>1 DEF Left, Fields
<1>3. /\ \A u \in Thread : S[u] = IF u = t THEN "LEFT" ELSE x.state[u]
      /\ S \in [Thread -> States]
  BY <1>1 DEF Typed, States
<1>4. V \in [Thread -> 0 .. MaxLeaves]
  <2>1. x.leaves \in [Thread -> 0 .. MaxLeaves] /\ MaxLeaves \in Nat
    BY <1>1, BarrierAssumption DEF Typed
  <2>2. x.leaves[t] + 1 \in 0 .. MaxLeaves
    BY <2>1
  <2> QED  BY <2>1, <2>2
<1> HIDE DEF S, V, R, w
<1>5. y = [x EXCEPT !.state = S, !.leftThreads = x.leftThreads + 1, !.leaves = V,
                    !.runningThreads = R, !.killed = TRUE, !.done = x.done \ {t}]
  BY <1>1, <1>2 DEF Fields
<1> HIDE DEF y
<1>6. /\ Fields(y)
      /\ y.state = S /\ y.futexWord = x.futexWord /\ y.lastIdx = x.lastIdx
      /\ y.runList = x.runList /\ y.runListSize = n /\ y.curThreadIdx = x.curThreadIdx
      /\ y.runningThreads = R /\ y.leftThreads = x.leftThreads + 1
      /\ y.phaseCount = x.phaseCount /\ y.done = x.done \ {t} /\ y.leaves = V
      /\ y.killed = TRUE
  BY <1>1, <1>5 DEF Fields
<1>7. Typed(y)
  BY <1>1, <1>3, <1>4, <1>6 DEF Typed
<1>8. \A i \in 0 .. n - 1 : x.runList[i] \in Thread
  BY <1>1 DEF Typed
<1>9. Listed(y)
  <2>1. \A i \in 0 .. n - 1 : x.state[x.runList[i]] # "OFFLINE"
    BY <1>1 DEF Listed
  <2>2. \A i \in 0 .. n - 1 : S[x.runList[i]] # "OFFLINE"
    BY <1>3, <1>8, <2>1
  <2>3. \A u \in Thread : S[u] # "OFFLINE" => x.state[u] # "OFFLINE"
    BY <1>1, <1>3
  <2> QED  BY <1>1, <1>6, <2>2, <2>3 DEF Listed
<1>10. /\ In(y, "RUNNING") = In(x, "RUNNING") \ {t}
       /\ t \in In(x, "RUNNING") <=> x.state[t] = "RUNNING"
       /\ In(y, "LEFT") = In(x, "LEFT") \cup {t} /\ t \notin In(x, "LEFT")
  BY <1>1, <1>3, <1>6 DEF In
<1>11. Counted(y)
  <2>1. In(x, "LEFT") \in SUBSET Thread /\ In(x, "RUNNING") \in SUBSET Thread
    BY DEF In
  <2>2. Cardinality(In(y, "LEFT")) = Cardinality(In(x, "LEFT")) + 1
    BY <1>10, <2>1, OneMore
  <2>3. R = Cardinality(In(y, "RUNNING"))
    <3>1. CASE x.state[t] = "RUNNING"
      BY <1>1, <1>10, <2>1, <3>1, OneLess DEF Counted, R
    <3>2. CASE x.state[t] # "RUNNING"
      <4>1. In(y, "RUNNING") = In(x, "RUNNING")
        BY <1>10, <3>2
      <4> QED  BY <1>1, <3>2, <4>1 DEF Counted, R
    <3> QED  BY <3>1, <3>2
  <2>4. R <= parallelThreads
    BY <1>1, Numbers, BarrierAssumption DEF Counted, R
  <2> QED  BY <1>1, <1>6, <2>2, <2>3, <2>4 DEF Counted
<1>12. x.done \ {t} \subseteq In(y, "WAITING")
  BY <1>1, <1>3, <1>6 DEF Ahead, In
<1>13. Ahead(y)
  <2>1. ASSUME NEW i \in x.curThreadIdx .. n - 1
        PROVE  S[x.runList[i]] # "RUNNING" /\ x.runList[i] \notin x.done
    <3>1. i \in 0 .. n - 1
      BY <1>1
    <3> QED  BY <1>1, <1>3, <1>8, <3>1 DEF Ahead
  <2> QED  BY <1>6, <1>12, <2>1 DEF Ahead
<1>14. Asleep(y)
  BY <1>1, <1>3, <1>6 DEF Asleep
<1>15. BInv(y)
  BY <1>6, <1>7, <1>9, <1>11, <1>13, <1>14 DEF BInv
<1>16. Live(y) = Live(x) \ {t}
  BY <1>3, <1>6 DEF Live
<1> QED  BY <1>6, <1>15, <1>16 DEF y, w

\* A running thread syncs.
LEMMA SyncKeeps ==
  ASSUME NEW x, BInv(x), NEW t \in Thread, x.state[t] = "RUNNING"
  PROVE  LET y == [Waiting(x, t) EXCEPT !.runningThreads = @ - 1, !.done = @ \cup {t}] IN
         BInv(y) /\ Live(y) = Live(x) /\ y.killed = x.killed
<1> DEFINE n == x.runListSize
           S == [x.state EXCEPT ![t] = "WAITING"]
           F == [x.futexWord EXCEPT ![t] = 1]
           w == Waiting(x, t)
           y == [w EXCEPT !.runningThreads = @ - 1, !.done = @ \cup {t}]
<1>1. /\ Fields(x) /\ Typed(x) /\ Listed(x) /\ Counted(x) /\ Ahead(x) /\ Asleep(x)
      /\ n \in Nat /\ x.curThreadIdx \in 0 .. n
  BY DEF BInv, Typed
<1>2. w = [x EXCEPT !.state = S, !.futexWord = F]
  BY <1>1 DEF Waiting, Fields
<1>3. /\ \A u \in Thread : S[u] = IF u = t THEN "WAITING" ELSE x.state[u]
      /\ \A u \in Thread : F[u] = IF u = t THEN 1 ELSE x.futexWord[u]
      /\ S \in [Thread -> States] /\ F \in [Thread -> {0, 1}]
  BY <1>1 DEF Typed, States
<1> HIDE DEF S, F, w
<1>4. y = [x EXCEPT !.state = S, !.futexWord = F, !.runningThreads = x.runningThreads - 1,
                    !.done = x.done \cup {t}]
  BY <1>1, <1>2 DEF Fields
<1> HIDE DEF y
<1>5. /\ Fields(y)
      /\ y.state = S /\ y.futexWord = F /\ y.lastIdx = x.lastIdx
      /\ y.runList = x.runList /\ y.runListSize = n /\ y.curThreadIdx = x.curThreadIdx
      /\ y.runningThreads = x.runningThreads - 1 /\ y.leftThreads = x.leftThreads
      /\ y.phaseCount = x.phaseCount /\ y.done = x.done \cup {t} /\ y.leaves = x.leaves
      /\ y.killed = x.killed
  BY <1>1, <1>4 DEF Fields
<1>6. Typed(y)
  BY <1>1, <1>3, <1>5 DEF Typed
<1>7. \A i \in 0 .. n - 1 : x.runList[i] \in Thread
  BY <1>1 DEF Typed
<1>8. Listed(y)
  <2>1. \A i \in 0 .. n - 1 : x.state[x.runList[i]] # "OFFLINE"
    BY <1>1 DEF Listed
  <2>2. \A i \in 0 .. n - 1 : S[x.runList[i]] # "OFFLINE"
    BY <1>3, <1>7, <2>1
  <2>3. \A u \in Thread : S[u] # "OFFLINE" => x.state[u] # "OFFLINE"
    BY <1>3
  <2> QED  BY <1>1, <1>5, <2>2, <2>3 DEF Listed
<1>9. /\ In(y, "RUNNING") = In(x, "RUNNING") \ {t} /\ t \in In(x, "RUNNING")
      /\ In(y, "LEFT") = In(x, "LEFT")
  BY <1>3, <1>5 DEF In
<1>10. Counted(y)
  <2>1. In(x, "RUNNING") \in SUBSET Thread
    BY DEF In
  <2>2. Cardinality(In(y, "RUNNING")) = Cardinality(In(x, "RUNNING")) - 1
    BY <1>9, <2>1, OneLess
  <2>3. x.runningThreads - 1 <= parallelThreads
    BY <1>1, Numbers, BarrierAssumption DEF Counted
  <2> QED  BY <1>1, <1>5, <1>9, <2>2, <2>3 DEF Counted
<1>11. x.done \cup {t} \subseteq In(y, "WAITING")
  BY <1>1, <1>3, <1>5 DEF Ahead, In
<1>12. Ahead(y)
  <2>1. ASSUME NEW i \in x.curThreadIdx .. n - 1
        PROVE  S[x.runList[i]] # "RUNNING" /\ x.runList[i] \notin x.done \cup {t}
    <3>1. i \in 0 .. n - 1
      BY <1>1
    <3>2. x.state[x.runList[i]] # "RUNNING" /\ x.runList[i] \notin x.done
      BY <1>1 DEF Ahead
    <3> QED  BY <1>3, <1>7, <3>1, <3>2
  <2> QED  BY <1>5, <1>11, <2>1 DEF Ahead
<1>13. Asleep(y)
  BY <1>1, <1>3, <1>5 DEF Asleep
<1>14. ASSUME ~y.killed PROVE Told(y) /\ Behind(y)
  <2>1. Told(x) /\ Behind(x)
    BY <1>5, <1>14 DEF BInv
  <2>2. Told(y)
    BY <1>3, <1>5, <2>1 DEF Told
  <2>3. \A i \in 0 .. x.curThreadIdx - 1 : i \in 0 .. n - 1
    BY <1>1
  <2>4. Behind(y)
    BY <1>3, <1>5, <1>7, <2>1, <2>3 DEF Behind
  <2> QED  BY <2>2, <2>4
<1>15. BInv(y)
  BY <1>5, <1>6, <1>8, <1>10, <1>12, <1>13, <1>14 DEF BInv
<1>16. Live(y) = Live(x)
  BY <1>3, <1>5 DEF Live
<1> QED  BY <1>5, <1>15, <1>16 DEF y, w

-----------------------------------------------------------------------------
(* The invariant                                                           *)

\* The initial states
LEMMA InitInv == Init => IInv
<1> SUFFICES ASSUME Init PROVE IInv
  OBVIOUS
<1>1. /\ Fields(b) /\ b.state = [t \in Thread |-> "OFFLINE"]
      /\ b.futexWord = [t \in Thread |-> 0] /\ b.lastIdx = [t \in Thread |-> 0]
      /\ b.runList = <<>> /\ b.runListSize = 0 /\ b.curThreadIdx = 0
      /\ b.runningThreads = 0 /\ b.leftThreads = 0 /\ b.phaseCount = 0
      /\ b.done = {} /\ b.leaves = [t \in Thread |-> 0] /\ b.killed = FALSE
  BY DEF Init, Fields
<1>2. b.runList \in [0 .. b.runListSize - 1 -> Thread]
  <2>1. <<>> \in [{} -> Thread]
    OBVIOUS
  <2>2. 0 .. b.runListSize - 1 = {}
    BY <1>1
  <2> QED  BY <1>1, <2>1, <2>2
<1>3. Typed(b)
  <2>1. b.state \in [Thread -> States] /\ b.futexWord \in [Thread -> {0, 1}]
        /\ b.lastIdx \in [Thread -> Nat]
    BY <1>1 DEF States
  <2>2. b.leaves \in [Thread -> 0 .. MaxLeaves] /\ b.phaseCount \in 0 .. CleanupPeriod - 1
    BY <1>1, BarrierAssumption
  <2>3. b.runListSize \in Nat /\ b.curThreadIdx \in 0 .. b.runListSize
        /\ b.done \subseteq Thread
    BY <1>1
  <2>4. b.killed \in BOOLEAN
    BY <1>1, Zenon
  <2> QED  BY <1>2, <2>1, <2>2, <2>3, <2>4 DEF Typed
<1>4. Listed(b) /\ Ahead(b) /\ Asleep(b) /\ Told(b) /\ Behind(b)
  BY <1>1 DEF Listed, Ahead, Asleep, Told, Behind
<1>5. Counted(b)
  <2>1. In(b, "RUNNING") = {} /\ In(b, "LEFT") = {}
    BY <1>1 DEF In
  <2>2. 0 <= parallelThreads
    BY BarrierAssumption
  <2>3. Cardinality({}) = 0
    BY FS_EmptySet
  <2>4. b.runningThreads = Cardinality(In(b, "RUNNING")) /\ b.leftThreads = Cardinality(In(b, "LEFT"))
    BY <1>1, <2>1, <2>3
  <2>5. b.runningThreads <= parallelThreads
    BY <1>1, <2>2
  <2> QED  BY <2>4, <2>5 DEF Counted
<1>6. Awake(b) /\ Live(b) = {}
  BY <1>1 DEF Awake, Live
<1> QED  BY <1>1, <1>3, <1>4, <1>5, <1>6 DEF IInv, BInv, Init

\* The invariant holds after a step to a barrier that keeps it.
LEMMA BarrierIs ==
  ASSUME NEW y, BInv(y), Awake(y), b' = y,
         inWait' \subseteq Live(y), fault' \in BOOLEAN, fault' => y.killed
  PROVE  IInv'
<1>1. Fields(b)' /\ Typed(b)'
  BY DEF BInv, Fields, Typed
<1>2. Listed(b)' /\ Counted(b)' /\ Ahead(b)' /\ Asleep(b)'
  BY DEF BInv, Listed, Counted, Ahead, Asleep, In
<1>3. (~b.killed => Told(b) /\ Behind(b))'
  BY DEF BInv, Told, Behind
<1>4. Awake(b)' /\ (inWait \subseteq Live(b))' /\ (fault \in BOOLEAN /\ (fault => b.killed))'
  BY DEF Awake, Live
<1> QED  BY <1>1, <1>2, <1>3, <1>4 DEF IInv, BInv

\* tryWakeNext takes a barrier that keeps the invariant to one that does.
LEMMA AfterTryWakeNext ==
  ASSUME NEW x, BInv(x), b' \in TryWakeNext(x),
         inWait' \subseteq Live(x), fault' \in BOOLEAN, fault' => x.killed
  PROVE  IInv'
<1> DEFINE c == b'
<1>1. c \in TryWakeNext(x)
  OBVIOUS
<1> HIDE DEF c
<1>2. PICK y \in TryWakeNext(x) : y = c
  BY <1>1
<1>3. BInv(y) /\ Awake(y) /\ Live(y) = Live(x) /\ y.killed = x.killed
  BY TryWakeNextKeeps
<1>4. b' = y
  BY <1>2 DEF c
<1> QED  BY <1>3, <1>4, BarrierIs

\* join keeps the invariant, and ends no phase unless somebody was killed.
LEMMA JoinKeeps ==
  ASSUME IInv, NEW t \in Thread, Join(t)
  PROVE  IInv' /\ (~b.killed => b'.phaseCount = b.phaseCount)
<1> DEFINE left == [b EXCEPT !.leftThreads = @ - 1]
           listed == IF b.state[t] = "OFFLINE" THEN Append(b, t)
                     ELSE IF HadItsTurn(t) THEN Reschedule(left, t) ELSE left
           x == Waiting(listed, t)
<1>1. /\ b.state[t] \in {"LEFT", "OFFLINE"}
      /\ HadItsTurn(t) => b.runList[b.lastIdx[t]] = t
      /\ b' \in TryWakeNext(x)
      /\ inWait' = IF b'.state[t] = "WAITING" THEN inWait \cup {t} ELSE inWait
      /\ fault' = fault
  BY DEF Join, Proceed
<1>2. BInv(b)
  BY DEF IInv
<1>3. /\ BInv(x) /\ Live(x) = Live(b) \cup {t}
      /\ x.killed = b.killed /\ x.phaseCount = b.phaseCount
      /\ ~x.killed =>
           \E i \in x.curThreadIdx .. x.runListSize - 1 : x.state[x.runList[i]] = "WAITING"
  <2>1. CASE b.state[t] = "OFFLINE"
    <3>1. x = Waiting(Append(b, t), t)
      BY <2>1
    <3> QED  BY <1>2, <2>1, <3>1, AppendKeeps
  <2>2. CASE b.state[t] = "LEFT" /\ ~HadItsTurn(t)
    <3>1. x = Waiting(left, t)
      BY <2>2
    <3>2. ~(b.curThreadIdx > b.lastIdx[t])
      BY <2>2 DEF HadItsTurn
    <3> QED  BY <1>2, <2>2, <3>1, <3>2, RejoinKeeps
  <2>3. CASE b.state[t] = "LEFT" /\ HadItsTurn(t)
    <3>1. x = Waiting(Reschedule(left, t), t)
      BY <2>3
    <3>2. b.curThreadIdx > b.lastIdx[t] /\ b.runList[b.lastIdx[t]] = t
      BY <1>1, <2>3 DEF HadItsTurn
    <3> QED  BY <1>2, <2>3, <3>1, <3>2, RescheduleKeeps
  <2> QED  BY <1>1, <2>1, <2>2, <2>3
<1> HIDE DEF x
<1> DEFINE c == b'
<1>4. c \in TryWakeNext(x)
  BY <1>1
<1> HIDE DEF c
<1>5. PICK y \in TryWakeNext(x) : y = c
  BY <1>4
<1>6. /\ BInv(y) /\ Awake(y) /\ Live(y) = Live(x) /\ y.killed = x.killed
      /\ ~x.killed => y.phaseCount = x.phaseCount
  BY <1>3, TryWakeNextKeeps
<1>7. y = b'
  BY <1>5 DEF c
<1>8. IInv'
  <2>1. inWait' \subseteq Live(y)
    BY <1>1, <1>3, <1>6 DEF IInv
  <2>2. fault' \in BOOLEAN /\ (fault' => y.killed)
    BY <1>1, <1>3, <1>6 DEF IInv
  <2> QED  BY <1>6, <1>7, <2>1, <2>2, BarrierIs
<1> QED  BY <1>3, <1>6, <1>7, <1>8

\* A thread comes to the end of its phase.
LEMMA SyncInv ==
  ASSUME IInv, NEW t \in Thread, Sync(t)
  PROVE  IInv'
<1> DEFINE x == [Waiting(b, t) EXCEPT !.runningThreads = @ - 1, !.done = @ \cup {t}]
<1>1. /\ b.state[t] = "RUNNING" /\ b' \in TryWakeNext(x)
      /\ inWait' \subseteq inWait \cup {t} /\ fault' = fault
  BY DEF Sync, Proceed
<1>2. BInv(x) /\ Live(x) = Live(b) /\ x.killed = b.killed
  BY <1>1, SyncKeeps DEF IInv
<1> HIDE DEF x
<1>3. inWait' \subseteq Live(x)
  BY <1>1, <1>2 DEF IInv, Live
<1>4. fault' \in BOOLEAN /\ (fault' => x.killed)
  BY <1>1, <1>2 DEF IInv
<1> QED  BY <1>1, <1>2, <1>3, <1>4, AfterTryWakeNext

\* A thread leaves.
LEMMA LeaveInv ==
  ASSUME IInv, NEW t \in Thread, Leave(t)
  PROVE  IInv'
<1> DEFINE x == Left(b, t)
<1>1. /\ b.state[t] = "RUNNING" /\ t \notin inWait /\ b.leaves[t] < MaxLeaves
      /\ b' \in TryWakeNext(x) /\ inWait' = inWait /\ fault' = fault
  BY DEF Leave
<1>2. BInv(x) /\ Live(x) = Live(b) \ {t} /\ x.killed = b.killed
  BY <1>1, LeftKeeps DEF IInv
<1> HIDE DEF x
<1>3. inWait' \subseteq Live(x)
  BY <1>1, <1>2 DEF IInv
<1>4. fault' \in BOOLEAN /\ (fault' => x.killed)
  BY <1>1, <1>2 DEF IInv
<1> QED  BY <1>1, <1>2, <1>3, <1>4, AfterTryWakeNext

\* A thread leaves that was killed in its wait.
LEMMA LeaveKilledInv ==
  ASSUME IInv, NEW t \in Thread, LeaveKilled(t)
  PROVE  IInv'
<1> DEFINE x == [Left(b, t) EXCEPT !.killed = TRUE, !.done = @ \ {t}]
<1>1. /\ t \in inWait /\ b.leaves[t] < MaxLeaves
      /\ b' \in TryWakeNext(x) \/ b' = x
      /\ inWait' = inWait \ {t} /\ fault' = fault
  BY DEF LeaveKilled
<1>2. t \in Live(b)
  BY <1>1 DEF IInv
<1>3. BInv(x) /\ Live(x) = Live(b) \ {t} /\ x.killed
  BY <1>1, <1>2, KilledKeeps DEF IInv
<1> HIDE DEF x
<1>4. inWait' \subseteq Live(x)
  BY <1>1, <1>3 DEF IInv
<1>5. fault' \in BOOLEAN /\ (fault' => x.killed)
  BY <1>1, <1>3 DEF IInv
<1>6. CASE b' \in TryWakeNext(x)
  BY <1>3, <1>4, <1>5, <1>6, AfterTryWakeNext
<1>7. CASE b' = x
  <2>1. Awake(x)
    BY <1>3 DEF Awake
  <2> QED  BY <1>3, <1>4, <1>5, <1>7, <2>1, BarrierIs
<1> QED  BY <1>1, <1>6, <1>7

\* A step that leaves the barrier alone keeps the invariant.
LEMMA SameBarrier ==
  ASSUME IInv, b' = b, inWait' \subseteq inWait, fault' \in BOOLEAN, fault' => b.killed
  PROVE  IInv'
<1> DEFINE c == b
<1>1. BInv(c) /\ Awake(c) /\ inWait' \subseteq Live(c) /\ (fault' => c.killed) /\ b' = c
  BY DEF IInv
<1> HIDE DEF c
<1>2. PICK y : y = c
  OBVIOUS
<1>3. BInv(y) /\ Awake(y) /\ inWait' \subseteq Live(y) /\ (fault' => y.killed) /\ b' = y
  BY <1>1, <1>2
<1> QED  BY <1>3, BarrierIs

-----------------------------------------------------------------------------
(* What the scheduler, whose contexts are the threads here, relies on      *)

\* While nobody is killed, no assertion fails.
LEMMA NoneFails ==
  ASSUME IInv, ~b.killed
  PROVE  ~fault
BY DEF IInv

\* join finds its thread where it looks for it; the others go on as they were,
\* and the phase does too.
LEMMA JoinFindsIt ==
  ASSUME IInv, ~b.killed, NEW t \in Thread, HadItsTurn(t)
  PROVE  b.runList[b.lastIdx[t]] = t
BY DEF IInv, BInv, Told, HadItsTurn

\* The barrier with a thread that waits
LEMMA WaitingIs ==
  ASSUME NEW x, Fields(x), NEW t
  PROVE  LET w == Waiting(x, t) IN
         /\ Fields(w) /\ w.state = [x.state EXCEPT ![t] = "WAITING"] /\ w.done = x.done
         /\ w.phaseCount = x.phaseCount
<1> DEFINE S == [x.state EXCEPT ![t] = "WAITING"]
           F == [x.futexWord EXCEPT ![t] = 1]
           w == Waiting(x, t)
<1>1. w = [x EXCEPT !.state = S, !.futexWord = F]
  BY DEF Waiting, Fields
<1> HIDE DEF w, S, F
<1>2. Fields(w) /\ w.state = S /\ w.done = x.done /\ w.phaseCount = x.phaseCount
  BY <1>1 DEF Fields
<1> QED  BY <1>2 DEF w, S

\* What a join does to those in the barrier
LEMMA JoinTells ==
  ASSUME IInv, ~b.killed, NEW t \in Thread, Join(t)
  PROVE  /\ IInv' /\ ~b'.killed /\ b'.phaseCount = b.phaseCount
         /\ Live(b') = Live(b) \cup {t}
         /\ \A u \in Thread : b.state[u] = "RUNNING" => b'.state[u] = "RUNNING"
         /\ \A u \in Thread : b'.state[u] = "WAITING" => b.state[u] = "WAITING" \/ u = t
         /\ b'.done \subseteq b.done /\ t \notin b.done
<1> DEFINE left == [b EXCEPT !.leftThreads = @ - 1]
           listed == IF b.state[t] = "OFFLINE" THEN Append(b, t)
                     ELSE IF HadItsTurn(t) THEN Reschedule(left, t) ELSE left
           x == Waiting(listed, t)
<1>1. b.state[t] \in {"LEFT", "OFFLINE"} /\ b' \in TryWakeNext(x)
      /\ (HadItsTurn(t) => b.runList[b.lastIdx[t]] = t)
  BY DEF Join
<1>2. BInv(b) /\ Fields(b) /\ b.state \in [Thread -> States]
  BY DEF IInv, BInv, Typed
<1>3. BInv(x) /\ Live(x) = Live(b) \cup {t} /\ x.killed = b.killed
  <2>1. CASE b.state[t] = "OFFLINE"
    <3>1. x = Waiting(Append(b, t), t)
      BY <2>1
    <3> QED  BY <1>2, <2>1, <3>1, AppendKeeps
  <2>2. CASE b.state[t] = "LEFT" /\ ~HadItsTurn(t)
    <3>1. x = Waiting(left, t)
      BY <2>2
    <3>2. ~(b.curThreadIdx > b.lastIdx[t])
      BY <2>2 DEF HadItsTurn
    <3> QED  BY <1>2, <2>2, <3>1, <3>2, RejoinKeeps
  <2>3. CASE b.state[t] = "LEFT" /\ HadItsTurn(t)
    <3>1. x = Waiting(Reschedule(left, t), t)
      BY <2>3
    <3>2. b.curThreadIdx > b.lastIdx[t] /\ b.runList[b.lastIdx[t]] = t
      BY <1>1, <2>3 DEF HadItsTurn
    <3> QED  BY <1>2, <2>3, <3>1, <3>2, RescheduleKeeps
  <2> QED  BY <1>1, <2>1, <2>2, <2>3
<1>4. listed.state = b.state /\ listed.done = b.done /\ Fields(listed)
  BY <1>2 DEF Append, Reschedule, Fields
<1> HIDE DEF listed
<1>5. x.state = [b.state EXCEPT ![t] = "WAITING"] /\ x.done = b.done
  BY <1>4 DEF Waiting, Fields
<1> HIDE DEF x
<1> DEFINE c == b'
<1>6. c \in TryWakeNext(x)
  BY <1>1
<1> HIDE DEF c
<1>7. PICK y \in TryWakeNext(x) : y = c
  BY <1>6
<1>8. Live(y) = Live(x) /\ y.killed = x.killed /\ Onward(x, y)
  BY <1>3, TryWakeNextKeeps
<1>9. y = b'
  BY <1>7 DEF c
<1>10. IInv' /\ b'.phaseCount = b.phaseCount
  BY JoinKeeps
<1>11. t \notin b.done
  BY <1>1, <1>2 DEF BInv, Ahead, In
<1>12. \A u \in Thread : b.state[u] = "RUNNING" => x.state[u] = "RUNNING"
  BY <1>1, <1>2, <1>5
<1>13. \A u \in Thread : x.state[u] = "WAITING" => b.state[u] = "WAITING" \/ u = t
  BY <1>2, <1>5
<1> QED  BY <1>3, <1>5, <1>8, <1>9, <1>10, <1>11, <1>12, <1>13 DEF Onward

\* When leave ends a phase its thread was the last to run.
LEMMA LeaveTells ==
  ASSUME IInv, ~b.killed, NEW t \in Thread, Leave(t)
  PROVE  /\ IInv' /\ ~b'.killed
         /\ Live(b') = Live(b) \ {t}
         /\ \A u \in Thread \ {t} : b.state[u] = "RUNNING" => b'.state[u] = "RUNNING"
         /\ \A u \in Thread : b'.state[u] = "WAITING" => b.state[u] = "WAITING"
         /\ b'.done \subseteq b.done
         /\ b'.phaseCount # b.phaseCount =>
              b'.done = {} /\ \A u \in Live(b) \ {t} : b.state[u] = "WAITING" /\ u \in b.done
<1> DEFINE x == Left(b, t)
<1>1. b.state[t] = "RUNNING" /\ b.leaves[t] < MaxLeaves /\ b' \in TryWakeNext(x)
  BY DEF Leave
<1>2. BInv(b) /\ Fields(b) /\ b.state \in [Thread -> States]
  BY DEF IInv, BInv, Typed
<1>3. BInv(x) /\ Live(x) = Live(b) \ {t} /\ x.killed = b.killed
  BY <1>1, <1>2, LeftKeeps
<1>4. x.state = [b.state EXCEPT ![t] = "LEFT"] /\ x.done = b.done /\ x.phaseCount = b.phaseCount
  BY <1>2 DEF Left, Fields
<1> HIDE DEF x
<1> DEFINE c == b'
<1>5. c \in TryWakeNext(x)
  BY <1>1
<1> HIDE DEF c
<1>6. PICK y \in TryWakeNext(x) : y = c
  BY <1>5
<1>7. /\ Live(y) = Live(x) /\ y.killed = x.killed /\ Onward(x, y)
      /\ y.phaseCount # x.phaseCount =>
           y.done = {} /\ In(x, "RUNNING") = {} /\ In(x, "WAITING") \subseteq x.done
  BY <1>3, TryWakeNextKeeps
<1>8. y = b'
  BY <1>6 DEF c
<1>9. IInv'
  BY LeaveInv
<1>10. \A u \in Thread : x.state[u] = IF u = t THEN "LEFT" ELSE b.state[u]
  BY <1>2, <1>4
<1>11. ASSUME y.phaseCount # x.phaseCount, NEW u \in Live(b) \ {t}
       PROVE  b.state[u] = "WAITING" /\ u \in b.done
  <2>1. u \in Thread /\ b.state[u] \in {"WAITING", "RUNNING"} /\ x.state[u] = b.state[u]
    BY <1>10 DEF Live
  <2>2. In(x, "RUNNING") = {} /\ In(x, "WAITING") \subseteq x.done
    BY <1>7, <1>11
  <2> QED  BY <1>4, <2>1, <2>2 DEF In
<1> QED  BY <1>3, <1>4, <1>7, <1>8, <1>9, <1>10, <1>11 DEF Onward

\* So it is with sync.
LEMMA SyncTells ==
  ASSUME IInv, ~b.killed, NEW t \in Thread, Sync(t)
  PROVE  /\ IInv' /\ ~b'.killed
         /\ Live(b') = Live(b)
         /\ \A u \in Thread \ {t} : b.state[u] = "RUNNING" => b'.state[u] = "RUNNING"
         /\ \A u \in Thread : b'.state[u] = "WAITING" => b.state[u] = "WAITING" \/ u = t
         /\ b'.done \subseteq b.done \cup {t}
         /\ b'.phaseCount # b.phaseCount =>
              b'.done = {} /\ \A u \in Live(b) \ {t} : b.state[u] = "WAITING" /\ u \in b.done
<1> DEFINE x == [Waiting(b, t) EXCEPT !.runningThreads = @ - 1, !.done = @ \cup {t}]
<1>1. b.state[t] = "RUNNING" /\ b' \in TryWakeNext(x)
  BY DEF Sync
<1>2. BInv(b) /\ Fields(b) /\ b.state \in [Thread -> States]
  BY DEF IInv, BInv, Typed
<1>3. BInv(x) /\ Live(x) = Live(b) /\ x.killed = b.killed
  BY <1>1, <1>2, SyncKeeps
<1>4. PICK w : /\ x = [w EXCEPT !.runningThreads = @ - 1, !.done = @ \cup {t}]
               /\ Fields(w) /\ w.state = [b.state EXCEPT ![t] = "WAITING"] /\ w.done = b.done
               /\ w.phaseCount = b.phaseCount
  <2> DEFINE w == Waiting(b, t)
  <2>1. /\ Fields(w) /\ w.state = [b.state EXCEPT ![t] = "WAITING"] /\ w.done = b.done
        /\ w.phaseCount = b.phaseCount
    BY <1>2, WaitingIs
  <2>2. x = [w EXCEPT !.runningThreads = @ - 1, !.done = @ \cup {t}]
    OBVIOUS
  <2> HIDE DEF w, x
  <2> QED  BY <2>1, <2>2
<1> HIDE DEF x
<1>5. x.state = [b.state EXCEPT ![t] = "WAITING"] /\ x.done = b.done \cup {t}
      /\ x.phaseCount = b.phaseCount
  BY <1>4 DEF Fields
<1> DEFINE c == b'
<1>6. c \in TryWakeNext(x)
  BY <1>1
<1> HIDE DEF c
<1>7. PICK y \in TryWakeNext(x) : y = c
  BY <1>6
<1>8. /\ Live(y) = Live(x) /\ y.killed = x.killed /\ Onward(x, y)
      /\ y.phaseCount # x.phaseCount =>
           y.done = {} /\ In(x, "RUNNING") = {} /\ In(x, "WAITING") \subseteq x.done
  BY <1>3, TryWakeNextKeeps
<1>9. y = b'
  BY <1>7 DEF c
<1>10. IInv'
  BY SyncInv
<1>11. \A u \in Thread : x.state[u] = IF u = t THEN "WAITING" ELSE b.state[u]
  BY <1>2, <1>5
<1>12. ASSUME y.phaseCount # x.phaseCount, NEW u \in Live(b) \ {t}
       PROVE  b.state[u] = "WAITING" /\ u \in b.done
  <2>1. u \in Thread /\ b.state[u] \in {"WAITING", "RUNNING"} /\ x.state[u] = b.state[u]
    BY <1>11 DEF Live
  <2>2. In(x, "RUNNING") = {} /\ In(x, "WAITING") \subseteq x.done
    BY <1>8, <1>12
  <2> QED  BY <1>5, <2>1, <2>2 DEF In
<1> QED  BY <1>3, <1>5, <1>8, <1>9, <1>10, <1>11, <1>12 DEF Onward

\* Who is in the wait of join or sync and is woken runs.
LEMMA WakeUpTells ==
  ASSUME IInv, ~b.killed, NEW t \in Thread, WakeUp(t)
  PROVE  /\ IInv' /\ b' = b /\ inWait' = inWait \ {t}
         /\ t \in inWait /\ b.state[t] = "RUNNING"
<1>1. /\ t \in inWait /\ b.futexWord[t] # 1 /\ inWait' = inWait \ {t}
      /\ fault' = (b.state[t] # "RUNNING") /\ b' = b
  BY DEF WakeUp
<1>2. b.state[t] = "RUNNING"
  BY <1>1 DEF IInv, BInv, Live, Asleep
<1> QED  BY <1>1, <1>2, SameBarrier

\* Every step
LEMMA NextInv == IInv /\ [Next]_vars => IInv'
<1> SUFFICES ASSUME IInv, [Next]_vars PROVE IInv'
  OBVIOUS
<1>1. CASE UNCHANGED vars
  BY <1>1, SameBarrier DEF vars, IInv
<1>2. ASSUME NEW t \in Thread, Join(t) PROVE IInv'
  BY <1>2, JoinKeeps
<1>3. ASSUME NEW t \in Thread, JoinFails(t) PROVE IInv'
  \* As long as nobody was killed, the index that join looks at is right.
  <2>1. /\ b.state[t] = "LEFT" /\ b.runList[b.lastIdx[t]] # t
        /\ fault' = TRUE /\ UNCHANGED <<b, inWait>>
    BY <1>3 DEF JoinFails, HadItsTurn
  <2>2. b.killed
    <3> SUFFICES ASSUME ~b.killed PROVE FALSE
      OBVIOUS
    <3>1. Told(b)
      BY DEF IInv, BInv
    <3> QED  BY <2>1, <3>1 DEF Told
  <2> QED  BY <2>1, <2>2, SameBarrier DEF IInv
<1>4. ASSUME NEW t \in Thread, Leave(t) PROVE IInv'
  BY <1>4, LeaveInv
<1>5. ASSUME NEW t \in Thread, LeaveKilled(t) PROVE IInv'
  BY <1>5, LeaveKilledInv
<1>6. ASSUME NEW t \in Thread, Sync(t) PROVE IInv'
  BY <1>6, SyncInv
<1>7. ASSUME NEW t \in Thread, WakeUp(t) PROVE IInv'
  \* Whose futex word is not 1 does not wait, and who is in the wait runs then.
  <2>1. /\ t \in inWait /\ b.futexWord[t] # 1 /\ inWait' = inWait \ {t}
        /\ fault' = (b.state[t] # "RUNNING") /\ b' = b
    BY <1>7 DEF WakeUp
  <2>2. b.state[t] = "RUNNING"
    <3>1. t \in Live(b) /\ Asleep(b)
      BY <2>1 DEF IInv, BInv
    <3>2. b.state[t] \in {"WAITING", "RUNNING"} /\ (b.state[t] = "WAITING" => b.futexWord[t] = 1)
      BY <3>1 DEF Live, Asleep
    <3> QED  BY <2>1, <3>2
  <2> QED  BY <2>1, <2>2, SameBarrier DEF IInv
<1> QED  BY <1>1, <1>2, <1>3, <1>4, <1>5, <1>6, <1>7 DEF Next

\* What the other theorems follow from: the run list holds each thread once,
\* the counters count, nobody ahead has had a turn, and unless somebody was
\* killed each thread that may come back knows where it is.
THEOREM Invariance == Spec => []IInv
BY InitInv, NextInv, PTL DEF Spec

\* As long as threads leave by themselves, no assertion of join or sync is hit:
\* a thread that comes back in the phase it left in is found where it was last,
\* through any reschedules, cleanups and shuffles in between, and one that is
\* woken is running.
THEOREM NoFaultUnlessKilled == Spec => []OnlyKillsFault
<1>1. IInv => OnlyKillsFault
  BY DEF IInv, OnlyKillsFault
<1> QED  BY <1>1, Invariance, PTL

\* The variables have their types, the run list holds each thread that is not
\* OFFLINE once, runningThreads and leftThreads count the threads in their
\* states, and no more run than may.
THEOREM CountersRight == Spec => []CountsRight
<1>1. IInv => CountsRight
  <2> SUFFICES ASSUME IInv PROVE CountsRight
    OBVIOUS
  <2>1. Typed(b) /\ Listed(b) /\ Counted(b) /\ Indices(b) = 0 .. b.runListSize - 1
    BY DEF IInv, BInv, Indices
  <2>2. inWait \subseteq Thread /\ fault \in BOOLEAN
    BY DEF IInv, Live
  <2>3. TypeOK
    BY <2>1, <2>2 DEF TypeOK, Typed
  <2>4. {b.runList[i] : i \in Indices(b)} = Thread \ In(b, "OFFLINE")
    <3>1. ASSUME NEW i \in Indices(b) PROVE b.runList[i] \in Thread \ In(b, "OFFLINE")
      BY <2>1 DEF Typed, Listed, In
    <3>2. ASSUME NEW t \in Thread \ In(b, "OFFLINE") PROVE \E i \in Indices(b) : b.runList[i] = t
      BY <2>1 DEF Listed, In
    <3> QED  BY <3>1, <3>2
  <2> QED  BY <2>1, <2>3, <2>4 DEF CountsRight, Listed, Counted
<1> QED  BY <1>1, Invariance, PTL

\* A waiting thread sleeps on a futex word that is set, and has run in this
\* phase, or is behind as many threads as may run, or somebody was killed: the
\* two passes of tryWakeNext wake everybody there is room for.
THEOREM NobodyWaitsInVain == Spec => []NoLostWakeup
<1>1. IInv => NoLostWakeup
  BY DEF IInv, BInv, Asleep, Awake, NoLostWakeup, In
<1> QED  BY <1>1, Invariance, PTL

\* A thread that has synced is not woken again before the phase ends, whoever
\* leaves, joins, swaps places or is killed meanwhile.
THEOREM RunsOncePerPhase == Spec => []OncePerPhase
<1>1. IInv => OncePerPhase
  BY DEF IInv, BInv, Ahead, OncePerPhase, In
<1> QED  BY <1>1, Invariance, PTL

\* A join never ends the phase, as its comment in the code says, unless somebody
\* was killed: the thread that joins waits from the current index on, so the first
\* checkRunList leaves somebody running.
THEOREM JoinsEndNoPhase == Spec => JoinEndsNoPhase
<1>1. IInv /\ [Next]_vars =>
        [\A t \in Thread : Join(t) /\ ~b.killed => b'.phaseCount = b.phaseCount]_vars
  BY JoinKeeps
<1> QED  BY <1>1, Invariance, PTL DEF Spec, JoinEndsNoPhase
=============================================================================
