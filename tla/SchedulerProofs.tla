-------------------------- MODULE SchedulerProofs ---------------------------
(***************************************************************************)
(* Proofs about the thread scheduler.  Its barrier is that of module       *)
(* Barrier, and BarrierProofs says what the barrier's operations do; here  *)
(* is what the scheduler makes of it.  SInv is the state of the scheduler  *)
(* between two steps, Placed where each thread is in its code, Watched and *)
(* Watching what the watchdog holds, and Agreed what the barrier and the   *)
(* scheduler say of each other.                                            *)
(***************************************************************************)
EXTENDS Scheduler, FiniteSetTheorems, FunctionTheorems, NaturalsInduction,
        SequenceTheorems, TLAPS

BP == INSTANCE BarrierProofs WITH
        Thread <- Context, MaxLeaves <- MaxCalls * Cardinality(Thread), Kills <- FALSE

-----------------------------------------------------------------------------
(* Sequences                                                               *)

\* A set of naturals has a least element.
LEMMA LeastNat ==
  ASSUME NEW S \in SUBSET Nat, S # {}
  PROVE  \E m \in S : \A n \in S : m <= n
<1> DEFINE R == {ss \in Nat \X Nat : ss[1] < ss[2]}
<1>1. IsWellFoundedOn(R, Nat)
  BY NatLessThanWellFounded, Zenon DEF OpToRel
<1>2. PICK m \in S : \A n \in S : ~(<<n, m>> \in R)
  <2> HIDE DEF R
  <2> QED  BY <1>1, WFMin
<1>3. \A n \in S : m <= n
  <2> SUFFICES ASSUME NEW n \in S PROVE m <= n
    OBVIOUS
  <2>1. ~(<<n, m>> \in R)
    BY <1>2
  <2> QED  BY <2>1 DEF R
<1> QED  BY <1>3

\* An element at the end of a queue
LEMMA Appended ==
  ASSUME NEW S, NEW q \in Seq(S), NEW e \in S
  PROVE  /\ Append(q, e) \in Seq(S)
         /\ ToSet(Append(q, e)) = ToSet(q) \cup {e}
         /\ Distinct(q) /\ e \notin ToSet(q) => Distinct(Append(q, e))
<1> DEFINE r == Append(q, e)
<1>1. /\ r \in Seq(S) /\ Len(r) = Len(q) + 1 /\ Len(q) \in Nat
      /\ DOMAIN r = 1 .. Len(r) /\ DOMAIN q = 1 .. Len(q)
      /\ \A j \in 1 .. Len(q) : r[j] = q[j]
      /\ r[Len(q) + 1] = e
  OBVIOUS
<1> HIDE DEF r
<1>2. ToSet(r) = ToSet(q) \cup {e}
  <2>1. ASSUME NEW j \in 1 .. Len(q) + 1 PROVE r[j] \in ToSet(q) \cup {e}
    <3>1. j \in 1 .. Len(q) \/ j = Len(q) + 1
      BY <1>1
    <3> QED  BY <1>1, <3>1 DEF ToSet
  <2>2. ASSUME NEW j \in 1 .. Len(q) PROVE q[j] \in ToSet(r)
    <3>1. j \in 1 .. Len(r) /\ r[j] = q[j]
      BY <1>1
    <3> QED  BY <1>1, <3>1 DEF ToSet
  <2>3. e \in ToSet(r)
    <3>1. Len(q) + 1 \in 1 .. Len(r)
      BY <1>1
    <3> QED  BY <1>1, <3>1 DEF ToSet
  <2> QED  BY <1>1, <2>1, <2>2, <2>3 DEF ToSet
<1>3. ASSUME Distinct(q), e \notin ToSet(q) PROVE Distinct(r)
  <2>1. \A j \in 1 .. Len(q) : q[j] # e
    BY <1>1, <1>3 DEF ToSet
  <2>2. \A j \in 1 .. Len(r) : j \in 1 .. Len(q) \/ j = Len(q) + 1
    BY <1>1
  <2> QED  BY <1>1, <1>3, <2>1, <2>2 DEF Distinct
<1> QED  BY <1>1, <1>2, <1>3 DEF r

\* What Without computes, step by step
LEMMA WithoutIs ==
  ASSUME NEW q, NEW gone, Len(q) \in Nat
  PROVE  \E f : /\ f[0] = <<>> /\ f[Len(q)] = Without(q, gone)
                /\ \A n \in 1 .. Len(q) :
                     f[n] = IF q[n] \in gone THEN f[n - 1] ELSE Append(f[n - 1], q[n])
<1> DEFINE Step(r, n) == IF q[n] \in gone THEN r ELSE Append(r, q[n])
           Is(g, m) == g = [n \in 0 .. m |-> IF n = 0 THEN <<>> ELSE Step(g[n - 1], n)]
           Bad == {m \in 0 .. Len(q) : ~ \E g : Is(g, m)}
           f == CHOOSE g : Is(g, Len(q))
<1>1. Without(q, gone) = f[Len(q)]
  <2>1. \A g, n : Step(g[n - 1], n) = IF q[n] \in gone THEN g[n - 1] ELSE Append(g[n - 1], q[n])
    OBVIOUS
  <2> QED  BY Zenon DEF Without
<1> HIDE DEF Step
<1>2. Bad = {}
  <2> SUFFICES ASSUME Bad # {} PROVE FALSE
    OBVIOUS
  <2>1. PICK m \in Bad : \A n \in Bad : m <= n
    <3>1. Bad \in SUBSET Nat
      OBVIOUS
    <3> HIDE DEF Bad
    <3> QED  BY <3>1, LeastNat
  <2>2. m \in 0 .. Len(q) /\ ~ \E g : Is(g, m)
    BY <2>1
  <2>3. CASE m = 0
    <3> DEFINE g == [n \in 0 .. 0 |-> <<>>]
    <3>1. g = [n \in 0 .. 0 |-> IF n = 0 THEN <<>> ELSE Step(g[n - 1], n)]
      OBVIOUS
    <3>2. Is(g, 0)
      BY <3>1
    <3> QED  BY <2>2, <2>3, <3>2
  <2>4. CASE m # 0
    <3>1. m - 1 \in 0 .. Len(q) /\ m - 1 \notin Bad
      BY <2>1, <2>2, <2>4
    <3>2. PICK g : Is(g, m - 1)
      BY <3>1
    <3> DEFINE h == [n \in 0 .. m |-> IF n = m THEN Step(g[m - 1], m) ELSE g[n]]
    <3>3. \A n \in 0 .. m - 1 : h[n] = g[n]
      BY <2>2
    <3>4. \A n \in 0 .. m : h[n] = IF n = 0 THEN <<>> ELSE Step(h[n - 1], n)
      <4>1. h[m] = Step(h[m - 1], m) /\ m # 0
        BY <2>2, <2>4, <3>3
      <4>2. \A n \in 0 .. m - 1 : h[n] = IF n = 0 THEN <<>> ELSE Step(h[n - 1], n)
        <5> HIDE DEF h
        <5>1. \A n \in 0 .. m - 1 : g[n] = IF n = 0 THEN <<>> ELSE Step(g[n - 1], n)
          BY <3>2
        <5>2. \A n \in 0 .. m - 1 : n # 0 => n - 1 \in 0 .. m - 1
          OBVIOUS
        <5> QED  BY <3>3, <5>1, <5>2
      <4> HIDE DEF h
      <4> QED  BY <2>2, <4>1, <4>2
    <3>5. Is(h, m)
      <4>1. h = [n \in 0 .. m |-> h[n]]
        OBVIOUS
      <4> HIDE DEF h
      <4> QED  BY <3>4, <4>1
    <3> QED  BY <2>2, <3>5
  <2> QED  BY <2>3, <2>4
<1>3. Is(f, Len(q))
  <2>1. Len(q) \in 0 .. Len(q)
    OBVIOUS
  <2>2. \E g : Is(g, Len(q))
    BY <1>2, <2>1
  <2> HIDE DEF Is
  <2> QED  BY <2>2
<1>4. f = [n \in 0 .. Len(q) |-> IF n = 0 THEN <<>> ELSE Step(f[n - 1], n)]
  BY <1>3
<1> HIDE DEF f
<1>5. f[0] = <<>> /\ \A n \in 1 .. Len(q) : f[n] = Step(f[n - 1], n)
  BY <1>4
<1> QED  BY <1>1, <1>5 DEF Step

\* Two elements of r are in the same order in q.
Within(r, q) ==
  \A i, j \in DOMAIN r : i < j => \E k, l \in DOMAIN q : k < l /\ q[k] = r[i] /\ q[l] = r[j]

\* It keeps the order of the elements that stay.
LEMMA WithoutKeeps ==
  ASSUME NEW S, NEW q \in Seq(S), NEW gone
  PROVE  LET r == Without(q, gone) IN
         /\ r \in Seq(S) /\ ToSet(r) = ToSet(q) \ gone
         /\ Within(r, q)
         /\ Distinct(q) => Distinct(r)
<1>1. Len(q) \in Nat /\ DOMAIN q = 1 .. Len(q) /\ \A n \in 1 .. Len(q) : q[n] \in S
  OBVIOUS
<1>2. PICK f : /\ f[0] = <<>> /\ f[Len(q)] = Without(q, gone)
               /\ \A n \in 1 .. Len(q) :
                    f[n] = IF q[n] \in gone THEN f[n - 1] ELSE Append(f[n - 1], q[n])
  BY <1>1, WithoutIs
<1> DEFINE Order(r, n) == \A i, j \in DOMAIN r : i < j =>
             \E k, l \in 1 .. n : k < l /\ q[k] = r[i] /\ q[l] = r[j]
           Kept(n) == /\ f[n] \in Seq(S)
                      /\ ToSet(f[n]) = {q[i] : i \in 1 .. n} \ gone
                      /\ Order(f[n], n)
           Bad == {n \in 0 .. Len(q) : ~Kept(n)}
<1>3. Kept(0)
  BY <1>2 DEF ToSet
<1>4. ASSUME NEW n \in 1 .. Len(q), Kept(n - 1) PROVE Kept(n)
  <2> DEFINE r == f[n - 1]
  <2>0. 1 .. n = (1 .. n - 1) \cup {n} /\ n \in Nat
    BY <1>1
  <2>1. CASE q[n] \in gone
    <3>1. f[n] = r
      BY <1>2, <2>1
    <3>2. {q[i] : i \in 1 .. n} \ gone = {q[i] : i \in 1 .. n - 1} \ gone
      BY <2>0, <2>1
    <3>3. Order(r, n)
      BY <1>4, <2>0
    <3> QED  BY <1>4, <3>1, <3>2, <3>3
  <2>2. CASE q[n] \notin gone
    <3>1. f[n] = Append(r, q[n]) /\ r \in Seq(S) /\ q[n] \in S
      BY <1>1, <1>2, <1>4, <2>2
    <3>2. f[n] \in Seq(S) /\ ToSet(f[n]) = ToSet(r) \cup {q[n]}
      BY <3>1, Appended
    <3>3. {q[i] : i \in 1 .. n} \ gone = ({q[i] : i \in 1 .. n - 1} \ gone) \cup {q[n]}
      BY <2>0, <2>2
    <3>4. ASSUME NEW i \in DOMAIN f[n], NEW j \in DOMAIN f[n], i < j
          PROVE  \E k, l \in 1 .. n : k < l /\ q[k] = f[n][i] /\ q[l] = f[n][j]
      <4>1. /\ DOMAIN r = 1 .. Len(r) /\ DOMAIN f[n] = 1 .. Len(r) + 1 /\ Len(r) \in Nat
            /\ \A m \in 1 .. Len(r) : f[n][m] = r[m]
            /\ f[n][Len(r) + 1] = q[n]
        BY <3>1
      <4>2. i \in DOMAIN r /\ f[n][i] = r[i]
        BY <3>4, <4>1
      <4>3. CASE j \in DOMAIN r
        <5>1. f[n][j] = r[j]
          BY <4>1, <4>3
        <5>2. PICK k \in 1 .. n - 1, l \in 1 .. n - 1 : k < l /\ q[k] = r[i] /\ q[l] = r[j]
          BY <1>4, <3>4, <4>2, <4>3
        <5> QED  BY <2>0, <4>2, <5>1, <5>2
      <4>4. CASE j \notin DOMAIN r
        <5>1. f[n][j] = q[n]
          BY <4>1, <4>4
        <5>2. r[i] \in ToSet(r)
          BY <4>2 DEF ToSet
        <5>3. PICK k \in 1 .. n - 1 : q[k] = r[i]
          BY <1>4, <5>2
        <5>4. k < n /\ k \in 1 .. n /\ n \in 1 .. n
          BY <2>0
        <5> QED  BY <4>2, <5>1, <5>3, <5>4
      <4> QED  BY <4>3, <4>4
    <3> QED  BY <1>4, <3>2, <3>3, <3>4
  <2> QED  BY <2>1, <2>2
<1>5. Bad = {}
  <2> SUFFICES ASSUME Bad # {} PROVE FALSE
    OBVIOUS
  <2>1. PICK m \in Bad : \A n \in Bad : m <= n
    <3>1. Bad \in SUBSET Nat
      OBVIOUS
    <3> HIDE DEF Bad
    <3> QED  BY <3>1, LeastNat
  <2>2. m \in 0 .. Len(q) /\ ~Kept(m)
    BY <2>1
  <2> HIDE DEF Kept
  <2>3. m # 0
    BY <1>3, <2>2
  <2>4. m \in 1 .. Len(q) /\ m - 1 \in 0 .. Len(q) /\ m - 1 \notin Bad
    BY <1>1, <2>1, <2>2, <2>3
  <2> QED  BY <1>4, <2>2, <2>4
<1>6. Kept(Len(q))
  <2> HIDE DEF Kept
  <2>1. Len(q) \in 0 .. Len(q) /\ Len(q) \notin Bad
    BY <1>1, <1>5
  <2> QED  BY <2>1
<1> DEFINE r == Without(q, gone)
<1>0. r = f[Len(q)]
  BY <1>2
<1> HIDE DEF r
<1>7. /\ r \in Seq(S) /\ ToSet(r) = {q[i] : i \in 1 .. Len(q)} \ gone
      /\ \A i, j \in DOMAIN r : i < j =>
           \E k, l \in 1 .. Len(q) : k < l /\ q[k] = r[i] /\ q[l] = r[j]
  <2>1. /\ f[Len(q)] \in Seq(S) /\ ToSet(f[Len(q)]) = {q[i] : i \in 1 .. Len(q)} \ gone
        /\ Order(f[Len(q)], Len(q))
    BY <1>6
  <2>2. Order(r, Len(q))
    BY <1>0, <2>1
  <2> QED  BY <1>0, <2>1, <2>2
<1>8. Distinct(q) => Distinct(r)
  <2> SUFFICES ASSUME Distinct(q), NEW i \in DOMAIN r, NEW j \in DOMAIN r, r[i] = r[j], i < j
               PROVE  FALSE
    <3>1. DOMAIN r = 1 .. Len(r) /\ Len(r) \in Nat
      BY <1>7
    <3>2. \A i, j \in DOMAIN r : i < j \/ j < i \/ i = j
      BY <3>1
    <3> QED  BY <3>2 DEF Distinct
  <2>1. PICK k \in 1 .. Len(q), l \in 1 .. Len(q) : k < l /\ q[k] = r[i] /\ q[l] = r[j]
    BY <1>7
  <2>2. k = l
    BY <1>1, <2>1 DEF Distinct
  <2> QED  BY <2>1, <2>2
<1>9. ToSet(q) = {q[i] : i \in 1 .. Len(q)}
  BY <1>1 DEF ToSet
<1>10. Within(r, q)
  BY <1>1, <1>7 DEF Within
<1> QED  BY <1>7, <1>8, <1>9, <1>10 DEF r

\* The least member of a set of naturals
LEMMA LeastIs ==
  ASSUME NEW I \in SUBSET Nat, I # {}
  PROVE  Min(I) \in I /\ \A i \in I : Min(I) <= i
<1>1. \E m \in I : \A n \in I : m <= n
  BY LeastNat
<1> QED  BY <1>1 DEF Min

\* An element put into a queue, before the one that was the i-th
LEMMA Inserted ==
  ASSUME NEW S, NEW q \in Seq(S), NEW e \in S, NEW i \in 1 .. Len(q)
  PROVE  LET r == InsertAt(q, i, e) IN
         /\ r \in Seq(S) /\ Len(r) = Len(q) + 1
         /\ \A j \in 1 .. Len(q) + 1 :
              r[j] = IF j < i THEN q[j] ELSE IF j = i THEN e ELSE q[j - 1]
<1> DEFINE front == SubSeq(q, 1, i - 1)  back == SubSeq(q, i, Len(q))
           mid == front \o <<e>>
<1>1. /\ front \in Seq(S) /\ Len(front) = i - 1
      /\ \A j \in 1 .. i - 1 : front[j] = q[j]
  OBVIOUS
<1>2. /\ back \in Seq(S) /\ Len(back) = Len(q) - i + 1
      /\ \A j \in 1 .. Len(q) - i + 1 : back[j] = q[i + j - 1]
  OBVIOUS
<1> HIDE DEF front, back
<1>3. mid \in Seq(S) /\ Len(mid) = i
      /\ \A j \in 1 .. i : mid[j] = IF j < i THEN q[j] ELSE e
  BY <1>1
<1> HIDE DEF mid
<1> DEFINE r == mid \o back
<1>0. Len(q) \in Nat /\ i \in Nat
  OBVIOUS
<1>4. r \in Seq(S) /\ Len(r) = Len(q) + 1
  <2>1. Len(r) = Len(mid) + Len(back) /\ r \in Seq(S)
    BY <1>2, <1>3, ConcatProperties
  <2> HIDE DEF r
  <2> QED  BY <1>0, <1>2, <1>3, <2>1
<1>5. ASSUME NEW j \in 1 .. Len(q) + 1
      PROVE  r[j] = IF j < i THEN q[j] ELSE IF j = i THEN e ELSE q[j - 1]
  <2>1. CASE j <= i
    BY <1>2, <1>3, <2>1
  <2>2. CASE j > i
    <3>1. r[j] = back[j - i]
      BY <1>2, <1>3, <2>2
    <3>2. j - i \in 1 .. Len(q) - i + 1 /\ i + (j - i) - 1 = j - 1
      BY <2>2
    <3> QED  BY <1>2, <2>2, <3>1, <3>2
  <2>3. j \in Nat
    BY <1>0
  <2> HIDE DEF r
  <2> QED  BY <1>0, <2>1, <2>2, <2>3
<1>6. r = InsertAt(q, i, e)
  BY DEF InsertAt, r, mid, front, back
<1> HIDE DEF r
<1> QED  BY <1>4, <1>5, <1>6

\* The end of a queue, after its first n elements
Rest(q, n) == SubSeq(q, n + 1, Len(q))

\* What is left of a queue without its first n elements
LEMMA Tailed ==
  ASSUME NEW S, NEW q \in Seq(S), NEW n \in 0 .. Len(q), Distinct(q)
  PROVE  LET r == Rest(q, n) IN
         /\ r \in Seq(S) /\ Distinct(r)
         /\ ToSet(r) = ToSet(q) \ {q[i] : i \in 1 .. n}
         /\ Within(r, q)
<1> DEFINE r == Rest(q, n)
<1>1. /\ r \in Seq(S) /\ Len(r) = Len(q) - n /\ DOMAIN r = 1 .. Len(q) - n /\ Len(q) \in Nat
      /\ DOMAIN q = 1 .. Len(q) /\ n \in Nat
      /\ \A j \in 1 .. Len(q) - n : r[j] = q[j + n]
  BY DEF Rest
<1> HIDE DEF r
<1>2. \A i \in DOMAIN r : i + n \in DOMAIN q /\ r[i] = q[i + n]
  BY <1>1
<1>3. Distinct(r)
  BY <1>1, <1>2 DEF Distinct
<1>4. ToSet(r) = ToSet(q) \ {q[i] : i \in 1 .. n}
  <2>1. ASSUME NEW j \in DOMAIN r PROVE r[j] \in ToSet(q) \ {q[i] : i \in 1 .. n}
    <3>1. r[j] \in ToSet(q)
      BY <1>2 DEF ToSet
    <3>2. ASSUME NEW i \in 1 .. n PROVE q[i] # r[j]
      <4>1. i \in DOMAIN q /\ i # j + n
        BY <1>1
      <4> QED  BY <1>2, <4>1 DEF Distinct
    <3> QED  BY <3>1, <3>2
  <2>2. ASSUME NEW k \in DOMAIN q, k \notin 1 .. n PROVE q[k] \in ToSet(r)
    <3>1. k - n \in DOMAIN r /\ r[k - n] = q[k]
      BY <1>1, <2>2
    <3> QED  BY <3>1 DEF ToSet
  <2> QED  BY <2>1, <2>2 DEF ToSet
<1>5. ASSUME NEW i \in DOMAIN r, NEW j \in DOMAIN r, i < j
      PROVE  \E k, l \in DOMAIN q : k < l /\ q[k] = r[i] /\ q[l] = r[j]
  <2>1. i + n < j + n
    BY <1>1, <1>5
  <2> QED  BY <1>2, <2>1
<1>6. Within(r, q)
  BY <1>5 DEF Within
<1> QED  BY <1>1, <1>3, <1>4, <1>6 DEF r

-----------------------------------------------------------------------------
(* The invariant of the scheduler                                          *)

\* Every thread is in the same process.
SameProcess == \A t, u \in Thread : proc[t] = proc[u]

Schedulers ==
  [state : [Thread -> ThreadStates], cid : [Thread -> Context],
   handoffThread : [Thread -> Thread \cup {None}], futexWord : [Thread -> {0, 1}],
   marked : [Thread -> BOOLEAN], left : [Thread -> 0 .. MaxSleep],
   curThread : [Context -> Thread \cup {None}],
   freeList : Seq(Context), runQueue : Seq(Thread), outQueue : Seq(Thread),
   sleepQueue : Seq(Thread), fakeLeaves : Seq([th : Thread, pc : Syscall]),
   blockingSyscalls : SUBSET (Nat \X Syscall),
   phase : 0 .. schedQuantum - 1, calls : [Thread -> 0 .. MaxCalls], failed : BOOLEAN]

\* Schedulers x and y differ in the fields N at most.
FieldNames == {"state", "cid", "handoffThread", "futexWord", "marked", "left", "curThread",
               "freeList", "runQueue", "outQueue", "sleepQueue", "fakeLeaves",
               "blockingSyscalls", "phase", "calls", "failed"}
SameBut(x, y, N) == \A f \in FieldNames \ N : y[f] = x[f]

\* A context and its thread know each other.
Scheduled == {"RUNNING", "OUT"}
Owned(x) ==
  /\ \A th \in Thread : \A c \in Context :
       x.curThread[c] = th <=> x.state[th] \in Scheduled /\ x.cid[th] = c
  /\ \A th \in Thread : x.state[th] \in Scheduled => x.cid[th] \in mask[th]

\* The lists hold what they should, once.  Context k is neither free nor taken:
\* an operation is about to give it to a thread (None: there is no such context).
Listed(x, k) ==
  /\ \A c \in Context : c \in ToSet(x.freeList) <=> x.curThread[c] = None /\ c # k
  /\ k # None => x.curThread[k] = None
  /\ \A th \in Thread : th \in ToSet(x.outQueue) <=> x.state[th] = "OUT"
  /\ \A th \in Thread : th \in ToSet(x.sleepQueue) <=> x.state[th] = "SLEEPING"
  /\ Distinct(x.freeList) /\ Distinct(x.outQueue) /\ Distinct(x.sleepQueue)

\* The sleepers are in the order in which they are due.
Ordered(x) ==
  \A i, j \in DOMAIN x.sleepQueue :
    i < j => x.left[x.sleepQueue[i]] <= x.left[x.sleepQueue[j]]

\* Who waits for a context is in the run queue or has been promised one, but for
\* the threads L, which an operation is about to give one or to put there.
Promised(x, L) ==
  /\ Distinct(x.runQueue)
  /\ \A th \in Thread : th \in ToSet(x.runQueue) <=>
       /\ x.state[th] = "QUEUED" /\ th \notin L
       /\ \A v \in Thread : x.handoffThread[v] # th
  /\ \A v \in Thread : x.handoffThread[v] # None =>
       /\ x.state[v] = "RUNNING"
       /\ x.state[x.handoffThread[v]] = "QUEUED" /\ x.handoffThread[v] \notin L
       /\ x.cid[v] \in mask[x.handoffThread[v]]
  /\ \A u, v \in Thread :
       x.handoffThread[u] # None /\ x.handoffThread[u] = x.handoffThread[v] => u = v

\* What a queued thread may run on is running another.
Busy(x, c) == x.curThread[c] # None /\ x.state[x.curThread[c]] = "RUNNING"
Conserving(x, k) == \A th \in ToSet(x.runQueue) : \A c \in mask[th] \ {k} : Busy(x, c)

\* Who waits, or is about to, has its futex word set; who sleeps has phases left.
Words(x, L) ==
  \A th \in Thread :
    /\ x.state[th] = "QUEUED" /\ th \notin L => x.futexWord[th] = 1
    /\ x.state[th] = "SLEEPING" => x.futexWord[th] = 1 /\ x.left[th] > 0
    /\ x.marked[th] => x.futexWord[th] = 1 /\ x.left[th] > 0 /\ x.state[th] = "RUNNING"

Fakes(x) == \A f \in ToSet(x.fakeLeaves) : x.state[f.th] = "RUNNING"

SInv(x, L, k) ==
  /\ x \in Schedulers
  /\ Owned(x) /\ Listed(x, k) /\ Ordered(x) /\ Promised(x, L) /\ Conserving(x, k)
  /\ Words(x, L) /\ Fakes(x)

Typed(x) ==
  /\ x.state \in [Thread -> ThreadStates] /\ x.cid \in [Thread -> Context]
  /\ x.handoffThread \in [Thread -> Thread \cup {None}]
  /\ x.futexWord \in [Thread -> {0, 1}] /\ x.marked \in [Thread -> BOOLEAN]
  /\ x.left \in [Thread -> 0 .. MaxSleep] /\ x.curThread \in [Context -> Thread \cup {None}]
  /\ x.freeList \in Seq(Context) /\ x.runQueue \in Seq(Thread)
  /\ x.outQueue \in Seq(Thread) /\ x.sleepQueue \in Seq(Thread)
  /\ x.fakeLeaves \in Seq([th : Thread, pc : Syscall])
  /\ x.phase \in 0 .. schedQuantum - 1 /\ x.calls \in [Thread -> 0 .. MaxCalls]
  /\ x.failed \in BOOLEAN

\* The record of the scheduler, field by field
LEMMA Types ==
  ASSUME NEW x \in Schedulers
  PROVE  Typed(x)
BY DEF Schedulers, Typed

\* The elements of the queues
LEMMA Members ==
  ASSUME NEW S, NEW q \in Seq(S)
  PROVE  /\ ToSet(q) \subseteq S
         /\ \A i \in DOMAIN q : q[i] \in ToSet(q) /\ q[i] \in S /\ i \in Nat
BY DEF ToSet

\* The thread in a fake leave
LEMMA FakesOf ==
  ASSUME NEW x \in Schedulers
  PROVE  \A f \in ToSet(x.fakeLeaves) : f.th \in Thread
<1>1. x.fakeLeaves \in Seq([th : Thread, pc : Syscall])
  BY DEF Schedulers
<1>2. ToSet(x.fakeLeaves) \subseteq [th : Thread, pc : Syscall]
  BY <1>1, Members
<1> QED  BY <1>2

\* No thread and no context is None; a mask holds contexts.
LEMMA Nobody == None \notin Thread /\ None \notin Context /\ \A th \in Thread : mask[th] \subseteq Context
BY SchedulerAssumption

\* What a change must leave alone, for the promises to hold ...
LEMMA PromisedStays ==
  ASSUME NEW x \in Schedulers, NEW y, NEW L, NEW M, Promised(x, L),
         y.runQueue = x.runQueue, y.handoffThread = x.handoffThread,
         \A u \in Thread :
           /\ y.state[u] = "QUEUED" /\ u \notin M <=> x.state[u] = "QUEUED" /\ u \notin L
           /\ x.handoffThread[u] # None => y.state[u] = "RUNNING" /\ y.cid[u] = x.cid[u]
  PROVE  Promised(y, M)
<1>1. \A u \in Thread : x.handoffThread[u] \in Thread \cup {None}
  BY Types DEF Typed
<1>2. \A u \in Thread : u \in ToSet(y.runQueue) <=>
        y.state[u] = "QUEUED" /\ u \notin M /\ \A v \in Thread : y.handoffThread[v] # u
  BY DEF Promised
<1>3. ASSUME NEW v \in Thread, y.handoffThread[v] # None
      PROVE  /\ y.state[v] = "RUNNING"
             /\ y.state[y.handoffThread[v]] = "QUEUED" /\ y.handoffThread[v] \notin M
             /\ y.cid[v] \in mask[y.handoffThread[v]]
  BY <1>1, <1>3 DEF Promised
<1> QED  BY <1>2, <1>3 DEF Promised

\* ... and for no work to be left
LEMMA ConservingStays ==
  ASSUME NEW x \in Schedulers, NEW y, NEW k, NEW j, Conserving(x, k),
         ToSet(y.runQueue) \subseteq ToSet(x.runQueue),
         \A c \in Context : c # j /\ (c = k \/ Busy(x, c)) => Busy(y, c)
  PROVE  Conserving(y, j)
<1>1. \A th \in ToSet(y.runQueue) : th \in ToSet(x.runQueue) /\ mask[th] \subseteq Context
  <2>1. x.runQueue \in Seq(Thread)
    BY Types DEF Typed
  <2> QED  BY <2>1, Members, Nobody
<1> QED  BY <1>1 DEF Conserving

-----------------------------------------------------------------------------
(* The steps that the operations are made of                               *)

\* A thread gets the context that is set aside for it.
LEMMA ScheduleKeeps ==
  ASSUME NEW x, NEW L, NEW k \in Context, SInv(x, L, k), NEW th \in Thread, k \in mask[th],
         x.state[th] \in {"STARTED", "BLOCKED"} \/ (x.state[th] = "QUEUED" /\ th \in L)
  PROVE  LET y == Schedule(x, th, k) IN
         /\ SInv(y, L \ {th}, None) /\ SameBut(x, y, {"state", "cid", "curThread"})
         /\ \A u \in Thread : /\ y.state[u] = IF u = th THEN "RUNNING" ELSE x.state[u]
                              /\ y.cid[u] = IF u = th THEN k ELSE x.cid[u]
<1> DEFINE y == Schedule(x, th, k)
<1>1. Typed(x) /\ x \in Schedulers
  BY Types DEF SInv
<1>2. x.curThread[k] = None /\ x.state[th] \in {"STARTED", "BLOCKED", "QUEUED"}
  BY Nobody DEF SInv, Listed
<1>3. /\ y \in Schedulers
      /\ y.state = [x.state EXCEPT ![th] = "RUNNING"] /\ y.cid = [x.cid EXCEPT ![th] = k]
      /\ y.curThread = [x.curThread EXCEPT ![k] = th]
  BY <1>1, <1>2 DEF Schedule, Checked, Schedulers, ThreadStates
<1>4. SameBut(x, y, {"state", "cid", "curThread"})
  BY <1>1, <1>2 DEF Schedule, Checked, Schedulers, SameBut, FieldNames
<1> HIDE DEF y
<1>5. /\ y.handoffThread = x.handoffThread /\ y.futexWord = x.futexWord /\ y.marked = x.marked
      /\ y.left = x.left /\ y.freeList = x.freeList /\ y.runQueue = x.runQueue
      /\ y.outQueue = x.outQueue /\ y.sleepQueue = x.sleepQueue /\ y.fakeLeaves = x.fakeLeaves
  BY <1>4 DEF SameBut, FieldNames
<1>6. Owned(y)
  BY <1>1, <1>2, <1>3, Nobody DEF SInv, Owned, Typed, Scheduled
<1>7. Listed(y, None)
  BY <1>1, <1>2, <1>3, <1>5, Nobody DEF SInv, Listed, Typed
<1>8. Ordered(y)
  BY <1>5 DEF SInv, Ordered
<1>9. Promised(y, L \ {th})
  <2>1. Promised(x, L)
    BY DEF SInv
  <2>2. \A v \in Thread : x.handoffThread[v] # None => v # th
    BY <1>2, <2>1 DEF Promised
  <2>3. \A u \in Thread :
          /\ y.state[u] = "QUEUED" /\ u \notin L \ {th} <=> x.state[u] = "QUEUED" /\ u \notin L
          /\ x.handoffThread[u] # None => y.state[u] = "RUNNING" /\ y.cid[u] = x.cid[u]
    BY <1>1, <1>2, <1>3, <2>1, <2>2 DEF Promised, Typed
  <2> QED  BY <1>1, <1>5, <2>1, <2>3, PromisedStays
<1>10. Conserving(y, None)
  <2>1. \A c \in Context : c = k \/ Busy(x, c) => Busy(y, c)
    BY <1>1, <1>2, <1>3, Nobody DEF Typed, Busy
  <2>2. Conserving(x, k)
    BY DEF SInv
  <2> QED  BY <1>1, <1>5, <2>1, <2>2, ConservingStays
<1>11. Words(y, L \ {th})
  BY <1>1, <1>2, <1>3, <1>5 DEF SInv, Words, Typed
<1>12. Fakes(y)
  BY <1>1, <1>3, <1>5, FakesOf DEF SInv, Fakes, Typed
<1>13. \A u \in Thread : /\ y.state[u] = IF u = th THEN "RUNNING" ELSE x.state[u]
                         /\ y.cid[u] = IF u = th THEN k ELSE x.cid[u]
  BY <1>1, <1>3 DEF Typed
<1> QED  BY <1>3, <1>4, <1>6, <1>7, <1>8, <1>9, <1>10, <1>11, <1>12, <1>13 DEF SInv, y

\* A free context is set aside.
LEMMA TakeFreeKeeps ==
  ASSUME NEW x, NEW L, SInv(x, L, None), NEW k \in ToSet(x.freeList)
  PROVE  LET y == [x EXCEPT !.freeList = Without(@, {k})] IN
         SInv(y, L, k) /\ SameBut(x, y, {"freeList"})
<1> DEFINE q == Without(x.freeList, {k})  y == [x EXCEPT !.freeList = q]
<1>1. Typed(x) /\ x \in Schedulers
  BY Types DEF SInv
<1>2. q \in Seq(Context) /\ ToSet(q) = ToSet(x.freeList) \ {k} /\ (Distinct(x.freeList) => Distinct(q))
  <2>1. x.freeList \in Seq(Context)
    BY <1>1 DEF Typed
  <2> QED  BY <2>1, WithoutKeeps
<1> HIDE DEF q
<1>3. y \in Schedulers /\ y.freeList = q /\ SameBut(x, y, {"freeList"})
  BY <1>1, <1>2 DEF Schedulers, SameBut, FieldNames
<1> HIDE DEF y
<1>4. /\ y.state = x.state /\ y.cid = x.cid /\ y.curThread = x.curThread
      /\ y.handoffThread = x.handoffThread /\ y.futexWord = x.futexWord /\ y.marked = x.marked
      /\ y.left = x.left /\ y.runQueue = x.runQueue
      /\ y.outQueue = x.outQueue /\ y.sleepQueue = x.sleepQueue /\ y.fakeLeaves = x.fakeLeaves
  BY <1>3 DEF SameBut, FieldNames
<1>5. k \in Context
  BY <1>1, Members DEF Typed
<1>6. Owned(y) /\ Ordered(y) /\ Promised(y, L) /\ Words(y, L) /\ Fakes(y)
  BY <1>4 DEF SInv, Owned, Ordered, Promised, Words, Fakes
<1>7. Listed(y, k)
  BY <1>2, <1>3, <1>4, <1>5, Nobody DEF SInv, Listed
<1>8. Conserving(y, k)
  <2>1. \A c \in Context : c # k /\ (c = None \/ Busy(x, c)) => Busy(y, c)
    BY <1>4, Nobody DEF Busy
  <2>2. Conserving(x, None)
    BY DEF SInv
  <2> QED  BY <1>1, <1>4, <2>1, <2>2, ConservingStays
<1> QED  BY <1>3, <1>6, <1>7, <1>8 DEF SInv, y, q

\* A context that was set aside becomes free: nobody queues for it.
LEMMA ReleaseKeeps ==
  ASSUME NEW x, NEW L, NEW k \in Context, SInv(x, L, k),
         \A th \in ToSet(x.runQueue) : k \notin mask[th]
  PROVE  LET y == [x EXCEPT !.freeList = Append(@, k)] IN
         SInv(y, L, None) /\ SameBut(x, y, {"freeList"})
<1> DEFINE q == Append(x.freeList, k)  y == [x EXCEPT !.freeList = q]
<1>1. Typed(x) /\ x \in Schedulers
  BY Types DEF SInv
<1>2. q \in Seq(Context) /\ ToSet(q) = ToSet(x.freeList) \cup {k}
      /\ (Distinct(x.freeList) /\ k \notin ToSet(x.freeList) => Distinct(q))
  <2>1. x.freeList \in Seq(Context)
    BY <1>1 DEF Typed
  <2> QED  BY <2>1, Appended
<1> HIDE DEF q
<1>3. y \in Schedulers /\ y.freeList = q /\ SameBut(x, y, {"freeList"})
  BY <1>1, <1>2 DEF Schedulers, SameBut, FieldNames
<1> HIDE DEF y
<1>4. /\ y.state = x.state /\ y.cid = x.cid /\ y.curThread = x.curThread
      /\ y.handoffThread = x.handoffThread /\ y.futexWord = x.futexWord /\ y.marked = x.marked
      /\ y.left = x.left /\ y.runQueue = x.runQueue
      /\ y.outQueue = x.outQueue /\ y.sleepQueue = x.sleepQueue /\ y.fakeLeaves = x.fakeLeaves
  BY <1>3 DEF SameBut, FieldNames
<1>5. Owned(y) /\ Ordered(y) /\ Promised(y, L) /\ Words(y, L) /\ Fakes(y)
  BY <1>4 DEF SInv, Owned, Ordered, Promised, Words, Fakes
<1>6. Listed(y, None)
  BY <1>2, <1>3, <1>4, Nobody DEF SInv, Listed
<1>7. Conserving(y, None)
  <2>1. ASSUME NEW th \in ToSet(x.runQueue), NEW c \in mask[th]
        PROVE  Busy(y, c)
    BY <1>4, <2>1 DEF SInv, Conserving, Busy
  <2> QED  BY <1>4, <2>1 DEF Conserving
<1> QED  BY <1>3, <1>5, <1>6, <1>7 DEF SInv, y, q

\* The thread that is OUT loses its context.
LEMMA EvictKeeps ==
  ASSUME NEW x, NEW L, SInv(x, L, None), NEW v \in Thread, x.state[v] = "OUT"
  PROVE  LET y == Deschedule([x EXCEPT !.outQueue = Without(@, {v})], v, "BLOCKED") IN
         /\ SInv(y, L, x.cid[v]) /\ SameBut(x, y, {"outQueue", "state", "curThread"})
         /\ y.state = [x.state EXCEPT ![v] = "BLOCKED"]
         /\ y.curThread = [x.curThread EXCEPT ![x.cid[v]] = None]
<1> DEFINE q == Without(x.outQueue, {v})
           y == Deschedule([x EXCEPT !.outQueue = q], v, "BLOCKED")
           k == x.cid[v]
<1>1. Typed(x) /\ x \in Schedulers
  BY Types DEF SInv
<1>2. q \in Seq(Thread) /\ ToSet(q) = ToSet(x.outQueue) \ {v} /\ (Distinct(x.outQueue) => Distinct(q))
  <2>1. x.outQueue \in Seq(Thread)
    BY <1>1 DEF Typed
  <2> QED  BY <2>1, WithoutKeeps
<1> HIDE DEF q
<1>3. k \in Context /\ x.curThread[k] = v
  BY <1>1 DEF Typed, SInv, Owned, Scheduled
<1>4. /\ y \in Schedulers /\ y.outQueue = q
      /\ y.state = [x.state EXCEPT ![v] = "BLOCKED"]
      /\ y.curThread = [x.curThread EXCEPT ![k] = None]
  BY <1>1, <1>2, <1>3 DEF Deschedule, Checked, Schedulers, ThreadStates
<1>5. SameBut(x, y, {"outQueue", "state", "curThread"})
  BY <1>1, <1>2, <1>3 DEF Deschedule, Checked, Schedulers, SameBut, FieldNames
<1> HIDE DEF y
<1>6. /\ y.cid = x.cid /\ y.freeList = x.freeList
      /\ y.handoffThread = x.handoffThread /\ y.futexWord = x.futexWord /\ y.marked = x.marked
      /\ y.left = x.left /\ y.runQueue = x.runQueue
      /\ y.sleepQueue = x.sleepQueue /\ y.fakeLeaves = x.fakeLeaves
  BY <1>5 DEF SameBut, FieldNames
<1>7. \A u \in Thread : y.state[u] = IF u = v THEN "BLOCKED" ELSE x.state[u]
  BY <1>1, <1>4 DEF Typed
<1>8. \A c \in Context : y.curThread[c] = IF c = k THEN None ELSE x.curThread[c]
  BY <1>1, <1>4 DEF Typed
<1>9. Owned(y)
  BY <1>3, <1>6, <1>7, <1>8, Nobody DEF SInv, Owned, Scheduled
<1>10. Listed(y, k)
  BY <1>1, <1>2, <1>3, <1>4, <1>6, <1>7, <1>8, Nobody DEF SInv, Listed
<1>11. Ordered(y)
  BY <1>6 DEF SInv, Ordered
<1>12. Promised(y, L)
  <2>1. Promised(x, L)
    BY DEF SInv
  <2>2. \A u \in Thread : x.handoffThread[u] # None => u # v
    BY <2>1 DEF Promised
  <2>3. \A u \in Thread :
          /\ y.state[u] = "QUEUED" /\ u \notin L <=> x.state[u] = "QUEUED" /\ u \notin L
          /\ x.handoffThread[u] # None => y.state[u] = "RUNNING" /\ y.cid[u] = x.cid[u]
    BY <1>6, <1>7, <2>1, <2>2 DEF Promised
  <2> QED  BY <1>1, <1>6, <2>1, <2>3, PromisedStays
<1>13. Conserving(y, k)
  <2>1. \A c \in Context : c # k /\ (c = None \/ Busy(x, c)) => Busy(y, c)
    BY <1>1, <1>7, <1>8, Nobody DEF Busy, Typed
  <2>2. Conserving(x, None)
    BY DEF SInv
  <2> QED  BY <1>1, <1>6, <2>1, <2>2, ConservingStays
<1>14. Words(y, L)
  BY <1>6, <1>7 DEF SInv, Words
<1>15. Fakes(y)
  BY <1>1, <1>6, <1>7, FakesOf DEF SInv, Fakes
<1> QED  BY <1>4, <1>5, <1>9, <1>10, <1>11, <1>12, <1>13, <1>14, <1>15 DEF SInv, y, q

\* Context k is taken from the free list, or from its thread that is OUT.
LEMMA TakeKeeps ==
  ASSUME NEW x, NEW L, SInv(x, L, None), NEW k \in Context,
         x.curThread[k] # None => x.state[x.curThread[k]] = "OUT"
  PROVE  LET y == Take(x, k)
             v == x.curThread[k]
         IN /\ SInv(y, L, k)
            /\ SameBut(x, y, {"freeList", "outQueue", "state", "curThread"})
            /\ \A u \in Thread : y.state[u] = IF u = v THEN "BLOCKED" ELSE x.state[u]
            /\ \A c \in Context : y.curThread[c] = IF c = k THEN None ELSE x.curThread[c]
<1> DEFINE y == Take(x, k)  v == x.curThread[k]
<1>1. Typed(x) /\ x \in Schedulers /\ Listed(x, None) /\ Owned(x)
  BY Types DEF SInv
<1>2. CASE v = None
  <2>1. k \in ToSet(x.freeList)
    BY <1>1, <1>2, Nobody DEF Listed
  <2>2. Contains(x.freeList, k)
    <3>1. x.freeList \in Seq(Context)
      BY <1>1 DEF Typed
    <3>2. DOMAIN x.freeList = 1 .. Len(x.freeList)
      BY <3>1
    <3> QED  BY <2>1, <3>2 DEF Contains, ToSet
  <2> DEFINE z == [x EXCEPT !.freeList = Without(@, {k})]
  <2>3. SInv(z, L, k) /\ SameBut(x, z, {"freeList"})
    BY <2>1, TakeFreeKeeps
  <2>4. y = z
    BY <1>2, <2>2 DEF Take, Checked
  <2> HIDE DEF y, z
  <2>5. y.state = x.state /\ y.curThread = x.curThread
        /\ SameBut(x, y, {"freeList", "outQueue", "state", "curThread"})
    BY <2>3, <2>4 DEF SameBut, FieldNames
  <2> QED  BY <1>2, <2>3, <2>4, <2>5, Nobody DEF y
<1>3. CASE v # None
  <2>1. v \in Thread /\ x.state[v] = "OUT" /\ x.cid[v] = k
    BY <1>1, <1>3 DEF Typed, Owned
  <2> DEFINE z == Deschedule([x EXCEPT !.outQueue = Without(@, {v})], v, "BLOCKED")
  <2>2. /\ SInv(z, L, x.cid[v]) /\ SameBut(x, z, {"outQueue", "state", "curThread"})
        /\ z.state = [x.state EXCEPT ![v] = "BLOCKED"]
        /\ z.curThread = [x.curThread EXCEPT ![x.cid[v]] = None]
    <3> HIDE DEF v
    <3> QED  BY <2>1, EvictKeeps
  <2>3. y = z
    BY <1>3 DEF Take
  <2> HIDE DEF y, z, v
  <2>4. SameBut(x, y, {"freeList", "outQueue", "state", "curThread"})
    BY <2>2, <2>3 DEF SameBut, FieldNames
  <2>5. \A u \in Thread : y.state[u] = IF u = v THEN "BLOCKED" ELSE x.state[u]
    BY <1>1, <2>1, <2>2, <2>3 DEF Typed
  <2>6. \A c \in Context : y.curThread[c] = IF c = k THEN None ELSE x.curThread[c]
    BY <1>1, <2>1, <2>2, <2>3 DEF Typed
  <2> QED  BY <2>1, <2>2, <2>3, <2>4, <2>5, <2>6 DEF y, v
<1> QED  BY <1>2, <1>3

\* A thread leaves the run queue, to get a context.
LEMMA UnqueueKeeps ==
  ASSUME NEW x, NEW L, NEW k, SInv(x, L, k), NEW th \in ToSet(x.runQueue)
  PROVE  LET y == [x EXCEPT !.runQueue = Without(@, {th})] IN
         /\ SInv(y, L \cup {th}, k) /\ SameBut(x, y, {"runQueue"})
         /\ ToSet(y.runQueue) = ToSet(x.runQueue) \ {th}
<1> DEFINE q == Without(x.runQueue, {th})  y == [x EXCEPT !.runQueue = q]
<1>1. Typed(x) /\ x \in Schedulers
  BY Types DEF SInv
<1>2. q \in Seq(Thread) /\ ToSet(q) = ToSet(x.runQueue) \ {th} /\ (Distinct(x.runQueue) => Distinct(q))
  <2>1. x.runQueue \in Seq(Thread)
    BY <1>1 DEF Typed
  <2> QED  BY <2>1, WithoutKeeps
<1> HIDE DEF q
<1>3. y \in Schedulers /\ y.runQueue = q /\ SameBut(x, y, {"runQueue"})
  BY <1>1, <1>2 DEF Schedulers, SameBut, FieldNames
<1> HIDE DEF y
<1>4. /\ y.state = x.state /\ y.cid = x.cid /\ y.curThread = x.curThread
      /\ y.handoffThread = x.handoffThread /\ y.futexWord = x.futexWord /\ y.marked = x.marked
      /\ y.left = x.left /\ y.freeList = x.freeList
      /\ y.outQueue = x.outQueue /\ y.sleepQueue = x.sleepQueue /\ y.fakeLeaves = x.fakeLeaves
  BY <1>3 DEF SameBut, FieldNames
<1>5. Owned(y) /\ Listed(y, k) /\ Ordered(y) /\ Words(y, L \cup {th}) /\ Fakes(y)
  BY <1>4 DEF SInv, Owned, Listed, Ordered, Words, Fakes
<1>6. Conserving(y, k)
  BY <1>2, <1>3, <1>4 DEF SInv, Conserving, Busy
<1>7. Promised(y, L \cup {th})
  <2>1. Promised(x, L)
    BY DEF SInv
  <2>2. th \in Thread /\ \A v \in Thread : x.handoffThread[v] # th
    <3>1. th \in Thread
      BY <1>1, Members DEF Typed
    <3> QED  BY <2>1, <3>1 DEF Promised
  <2>3. ASSUME NEW u \in Thread
        PROVE  u \in ToSet(y.runQueue) <=>
                 y.state[u] = "QUEUED" /\ u \notin L \cup {th}
                   /\ \A v \in Thread : y.handoffThread[v] # u
    BY <1>2, <1>3, <1>4, <2>1 DEF Promised
  <2> QED  BY <1>2, <1>3, <1>4, <2>1, <2>2, <2>3 DEF Promised
<1> QED  BY <1>2, <1>3, <1>5, <1>6, <1>7 DEF SInv, y, q

\* A thread queues: what it may run on is busy.
LEMMA EnqueueKeeps ==
  ASSUME NEW x, NEW L, SInv(x, L, None), NEW th \in Thread,
         x.state[th] \in {"STARTED", "BLOCKED"} \/ (x.state[th] = "QUEUED" /\ th \in L),
         \A c \in mask[th] : Busy(x, c)
  PROVE  LET y == Enqueue(x, th) IN
         /\ SInv(y, L \ {th}, None) /\ SameBut(x, y, {"state", "futexWord", "runQueue"})
         /\ \A u \in Thread : y.state[u] = IF u = th THEN "QUEUED" ELSE x.state[u]
<1> DEFINE q == Append(x.runQueue, th)
           y == [x EXCEPT !.state = [@ EXCEPT ![th] = "QUEUED"],
                          !.futexWord = [@ EXCEPT ![th] = 1], !.runQueue = q]
<1>1. Typed(x) /\ x \in Schedulers
  BY Types DEF SInv
<1>2. q \in Seq(Thread) /\ ToSet(q) = ToSet(x.runQueue) \cup {th}
      /\ (Distinct(x.runQueue) /\ th \notin ToSet(x.runQueue) => Distinct(q))
  <2>1. x.runQueue \in Seq(Thread)
    BY <1>1 DEF Typed
  <2> QED  BY <2>1, Appended
<1>0. y = Enqueue(x, th)
  BY <1>1 DEF Enqueue, Schedulers
<1> HIDE DEF q
<1>3. /\ y \in Schedulers /\ y.runQueue = q /\ SameBut(x, y, {"state", "futexWord", "runQueue"})
      /\ y.state = [x.state EXCEPT ![th] = "QUEUED"]
      /\ y.futexWord = [x.futexWord EXCEPT ![th] = 1]
  BY <1>1, <1>2 DEF Schedulers, SameBut, FieldNames, ThreadStates
<1> HIDE DEF y
<1>4. /\ y.cid = x.cid /\ y.curThread = x.curThread
      /\ y.handoffThread = x.handoffThread /\ y.marked = x.marked
      /\ y.left = x.left /\ y.freeList = x.freeList
      /\ y.outQueue = x.outQueue /\ y.sleepQueue = x.sleepQueue /\ y.fakeLeaves = x.fakeLeaves
  BY <1>3 DEF SameBut, FieldNames
<1>5. \A u \in Thread : y.state[u] = IF u = th THEN "QUEUED" ELSE x.state[u]
  BY <1>1, <1>3 DEF Typed
<1>6. \A u \in Thread : y.futexWord[u] = IF u = th THEN 1 ELSE x.futexWord[u]
  BY <1>1, <1>3 DEF Typed
<1>7. Owned(y)
  BY <1>4, <1>5 DEF SInv, Owned, Scheduled
<1>8. Listed(y, None)
  BY <1>4, <1>5 DEF SInv, Listed
<1>9. Ordered(y)
  BY <1>4 DEF SInv, Ordered
<1>10. Promised(y, L \ {th})
  <2>1. Promised(x, L)
    BY DEF SInv
  <2>2. \A v \in Thread : x.handoffThread[v] # th /\ (x.handoffThread[v] # None => v # th)
    BY <2>1, Nobody DEF Promised
  <2>3. \A v \in Thread : x.handoffThread[v] \in Thread \cup {None}
    BY <1>1 DEF Typed
  <2>4. th \notin ToSet(x.runQueue)
    BY <2>1 DEF Promised
  <2>5. ASSUME NEW u \in Thread
        PROVE  u \in ToSet(y.runQueue) <=>
                 y.state[u] = "QUEUED" /\ u \notin L \ {th}
                   /\ \A v \in Thread : y.handoffThread[v] # u
    BY <1>2, <1>3, <1>4, <1>5, <2>1, <2>2 DEF Promised
  <2>6. ASSUME NEW v \in Thread, y.handoffThread[v] # None
        PROVE  /\ y.state[v] = "RUNNING"
               /\ y.state[y.handoffThread[v]] = "QUEUED" /\ y.handoffThread[v] \notin L \ {th}
               /\ y.cid[v] \in mask[y.handoffThread[v]]
    BY <1>4, <1>5, <2>1, <2>2, <2>3, <2>6 DEF Promised
  <2>7. Distinct(y.runQueue)
    BY <1>2, <1>3, <2>1, <2>4 DEF Promised
  <2>8. \A u, v \in Thread :
          y.handoffThread[u] # None /\ y.handoffThread[u] = y.handoffThread[v] => u = v
    BY <1>4, <2>1 DEF Promised
  <2> QED  BY <2>5, <2>6, <2>7, <2>8 DEF Promised
<1>11. Conserving(y, None)
  <2>1. \A c \in Context : Busy(x, c) => Busy(y, c)
    BY <1>1, <1>4, <1>5 DEF Busy, Typed
  <2>2. \A u \in ToSet(x.runQueue) : u \in Thread
    BY <1>1, Members DEF Typed
  <2>3. \A u \in ToSet(y.runQueue) : \A c \in mask[u] : Busy(x, c) /\ c \in Context
    BY <1>2, <1>3, <2>2, Nobody DEF SInv, Conserving
  <2> QED  BY <2>1, <2>3 DEF Conserving
<1>12. Words(y, L \ {th})
  <2>1. Words(x, L)
    BY DEF SInv
  <2> QED  BY <1>4, <1>5, <1>6, <2>1 DEF Words
<1>13. Fakes(y)
  BY <1>1, <1>4, <1>5, FakesOf DEF SInv, Fakes
<1> QED  BY <1>0, <1>3, <1>5, <1>7, <1>8, <1>9, <1>10, <1>11, <1>12, <1>13 DEF SInv

\* What must not be pending when a running thread stops: a promise, a sleep, or a
\* fake leave.
Idles(x, th) ==
  /\ x.handoffThread[th] = None
  /\ \A f \in ToSet(x.fakeLeaves) : f.th # th

\* A running thread blocks: its context is set aside.
LEMMA BlockKeeps ==
  ASSUME NEW x, SInv(x, {}, None), NEW th \in Thread,
         x.state[th] = "RUNNING", ~x.marked[th], Idles(x, th)
  PROVE  LET y == Deschedule(x, th, "BLOCKED") IN
         /\ SInv(y, {}, x.cid[th]) /\ SameBut(x, y, {"state", "curThread"})
         /\ y.state = [x.state EXCEPT ![th] = "BLOCKED"]
         /\ y.curThread = [x.curThread EXCEPT ![x.cid[th]] = None]
<1> DEFINE y == Deschedule(x, th, "BLOCKED")  k == x.cid[th]
<1>1. Typed(x) /\ x \in Schedulers
  BY Types DEF SInv
<1>2. k \in Context /\ x.curThread[k] = th
  BY <1>1 DEF Typed, SInv, Owned, Scheduled
<1>3. /\ y \in Schedulers
      /\ y.state = [x.state EXCEPT ![th] = "BLOCKED"]
      /\ y.curThread = [x.curThread EXCEPT ![k] = None]
  BY <1>1, <1>2 DEF Deschedule, Checked, Schedulers, ThreadStates
<1>4. SameBut(x, y, {"state", "curThread"})
  BY <1>1, <1>2 DEF Deschedule, Checked, Schedulers, SameBut, FieldNames
<1> HIDE DEF y
<1>5. /\ y.cid = x.cid /\ y.handoffThread = x.handoffThread /\ y.futexWord = x.futexWord
      /\ y.marked = x.marked /\ y.left = x.left /\ y.freeList = x.freeList
      /\ y.runQueue = x.runQueue /\ y.outQueue = x.outQueue
      /\ y.sleepQueue = x.sleepQueue /\ y.fakeLeaves = x.fakeLeaves
  BY <1>4 DEF SameBut, FieldNames
<1>6. \A u \in Thread : y.state[u] = IF u = th THEN "BLOCKED" ELSE x.state[u]
  BY <1>1, <1>3 DEF Typed
<1>7. \A c \in Context : y.curThread[c] = IF c = k THEN None ELSE x.curThread[c]
  BY <1>1, <1>3 DEF Typed
<1>8. Owned(y)
  BY <1>2, <1>5, <1>6, <1>7, Nobody DEF SInv, Owned, Scheduled
<1>9. Listed(y, k)
  BY <1>2, <1>5, <1>6, <1>7, Nobody DEF SInv, Listed
<1>10. Ordered(y)
  BY <1>5 DEF SInv, Ordered
<1>11. Promised(y, {})
  <2>1. Promised(x, {})
    BY DEF SInv
  <2>2. \A u \in Thread :
          /\ y.state[u] = "QUEUED" /\ u \notin {} <=> x.state[u] = "QUEUED" /\ u \notin {}
          /\ x.handoffThread[u] # None => y.state[u] = "RUNNING" /\ y.cid[u] = x.cid[u]
    BY <1>5, <1>6, <2>1 DEF Promised, Idles
  <2> QED  BY <1>1, <1>5, <2>1, <2>2, PromisedStays
<1>12. Conserving(y, k)
  <2>1. \A c \in Context : c # k /\ (c = None \/ Busy(x, c)) => Busy(y, c)
    <3>1. \A c \in Context : c # k => x.curThread[c] # th /\ x.curThread[c] \in Thread \cup {None}
      BY <1>1 DEF SInv, Owned, Typed
    <3> QED  BY <1>6, <1>7, <3>1, Nobody DEF Busy
  <2>2. Conserving(x, None)
    BY DEF SInv
  <2> QED  BY <1>1, <1>5, <2>1, <2>2, ConservingStays
<1>13. Words(y, {})
  BY <1>5, <1>6 DEF SInv, Words
<1>14. Fakes(y)
  BY <1>1, <1>5, <1>6, FakesOf DEF SInv, Fakes, Idles
<1> QED  BY <1>3, <1>4, <1>8, <1>9, <1>10, <1>11, <1>12, <1>13, <1>14 DEF SInv, y

Given(x, th) ==
  Deschedule([x EXCEPT !.handoffThread[th] = None], th, "QUEUED")

\* The thread dst that th promised its context to is about to get it, and th is
\* about to queue.
LEMMA GiveKeeps ==
  ASSUME NEW x, SInv(x, {}, None), NEW th \in Thread, x.handoffThread[th] # None,
         ~x.marked[th], \A f \in ToSet(x.fakeLeaves) : f.th # th
  PROVE  LET y == Given(x, th)
             dst == x.handoffThread[th]
         IN /\ SInv(y, {th, dst}, x.cid[th])
            /\ SameBut(x, y, {"state", "curThread", "handoffThread"})
            /\ \A u \in Thread : y.state[u] = IF u = th THEN "QUEUED" ELSE x.state[u]
            /\ \A u \in Thread :
                 y.handoffThread[u] = IF u = th THEN None ELSE x.handoffThread[u]
            /\ x.state[th] = "RUNNING" /\ dst \in Thread /\ dst # th /\ x.state[dst] = "QUEUED"
            /\ x.cid[th] \in mask[dst] /\ x.futexWord[dst] = 1
<1> DEFINE y == Given(x, th)
           k == x.cid[th]  dst == x.handoffThread[th]
<1>1. Typed(x) /\ x \in Schedulers
  BY Types DEF SInv
<1>2. /\ x.state[th] = "RUNNING" /\ dst \in Thread /\ dst # th /\ x.state[dst] = "QUEUED"
      /\ x.cid[th] \in mask[dst] /\ x.futexWord[dst] = 1
  BY <1>1 DEF SInv, Promised, Typed, Words
<1>3. k \in Context /\ x.curThread[k] = th
  BY <1>1, <1>2 DEF Typed, SInv, Owned, Scheduled
<1>4. /\ y \in Schedulers
      /\ y.state = [x.state EXCEPT ![th] = "QUEUED"]
      /\ y.curThread = [x.curThread EXCEPT ![k] = None]
      /\ y.handoffThread = [x.handoffThread EXCEPT ![th] = None]
  BY <1>1, <1>2, <1>3 DEF Given, Deschedule, Checked, Schedulers, ThreadStates
<1>5. SameBut(x, y, {"state", "curThread", "handoffThread"})
  BY <1>1, <1>2, <1>3 DEF Given, Deschedule, Checked, Schedulers, SameBut, FieldNames
<1> HIDE DEF y
<1>6. /\ y.cid = x.cid /\ y.futexWord = x.futexWord
      /\ y.marked = x.marked /\ y.left = x.left /\ y.freeList = x.freeList
      /\ y.runQueue = x.runQueue /\ y.outQueue = x.outQueue
      /\ y.sleepQueue = x.sleepQueue /\ y.fakeLeaves = x.fakeLeaves
  BY <1>5 DEF SameBut, FieldNames
<1>7. \A u \in Thread : y.state[u] = IF u = th THEN "QUEUED" ELSE x.state[u]
  BY <1>1, <1>4 DEF Typed
<1>8. \A c \in Context : y.curThread[c] = IF c = k THEN None ELSE x.curThread[c]
  BY <1>1, <1>4 DEF Typed
<1>9. \A u \in Thread : y.handoffThread[u] = IF u = th THEN None ELSE x.handoffThread[u]
  BY <1>1, <1>4 DEF Typed
<1>10. Owned(y)
  BY <1>2, <1>3, <1>6, <1>7, <1>8, Nobody DEF SInv, Owned, Scheduled
<1>11. Listed(y, k)
  BY <1>2, <1>3, <1>6, <1>7, <1>8, Nobody DEF SInv, Listed
<1>12. Ordered(y)
  BY <1>6 DEF SInv, Ordered
<1>13. Promised(y, {th, dst})
  <2>1. Promised(x, {})
    BY DEF SInv
  <2>2. \A v \in Thread : x.handoffThread[v] # th
    BY <1>2, <2>1, Nobody DEF Promised
  <2>3. \A v \in Thread : v # th => x.handoffThread[v] # dst
    BY <1>2, <2>1, Nobody DEF Promised
  <2>4. dst \notin ToSet(x.runQueue) /\ th \notin ToSet(x.runQueue)
    BY <1>2, <2>1 DEF Promised
  <2>5. \A v \in Thread : x.handoffThread[v] \in Thread \cup {None}
    BY <1>1 DEF Typed
  <2> HIDE DEF dst
  <2>6. ASSUME NEW u \in Thread
        PROVE  u \in ToSet(y.runQueue) <=>
                 y.state[u] = "QUEUED" /\ u \notin {th, dst}
                   /\ \A v \in Thread : y.handoffThread[v] # u
    <3>1. CASE u \in {th, dst}
      BY <1>6, <2>4, <3>1
    <3>2. CASE u \notin {th, dst}
      <4>1. (\A v \in Thread : y.handoffThread[v] # u) <=> (\A v \in Thread : x.handoffThread[v] # u)
        BY <1>9, <3>2, Nobody DEF dst
      <4> QED  BY <1>6, <1>7, <2>1, <3>2, <4>1 DEF Promised
    <3> QED  BY <3>1, <3>2
  <2>7. ASSUME NEW v \in Thread, y.handoffThread[v] # None
        PROVE  /\ y.state[v] = "RUNNING"
               /\ y.state[y.handoffThread[v]] = "QUEUED" /\ y.handoffThread[v] \notin {th, dst}
               /\ y.cid[v] \in mask[y.handoffThread[v]]
    <3>1. v # th /\ y.handoffThread[v] = x.handoffThread[v]
      BY <1>9, <2>7
    <3> QED  BY <1>6, <1>7, <2>1, <2>2, <2>3, <2>5, <2>7, <3>1 DEF Promised
  <2> QED  BY <1>6, <1>9, <2>1, <2>6, <2>7 DEF Promised
<1>14. Conserving(y, k)
  <2>1. \A c \in Context : c # k /\ (c = None \/ Busy(x, c)) => Busy(y, c)
    <3>1. \A c \in Context : c # k => x.curThread[c] # th /\ x.curThread[c] \in Thread \cup {None}
      BY <1>1 DEF SInv, Owned, Typed
    <3> QED  BY <1>7, <1>8, <3>1, Nobody DEF Busy
  <2>2. Conserving(x, None)
    BY DEF SInv
  <2> QED  BY <1>1, <1>6, <2>1, <2>2, ConservingStays
<1>15. Words(y, {th, dst})
  BY <1>6, <1>7 DEF SInv, Words
<1>16. Fakes(y)
  BY <1>1, <1>6, <1>7, FakesOf DEF SInv, Fakes
<1>17. SInv(y, {th, dst}, k)
  BY <1>4, <1>10, <1>11, <1>12, <1>13, <1>14, <1>15, <1>16 DEF SInv
<1> QED  BY <1>2, <1>5, <1>7, <1>9, <1>17, Zenon DEF y

\* Where a thread goes in the sleep queue
LEMMA SleepsInOrder ==
  ASSUME NEW q \in Seq(Thread), NEW left \in [Thread -> 0 .. MaxSleep], NEW th \in Thread,
         th \notin ToSet(q), Distinct(q),
         \A i, j \in DOMAIN q : i < j => left[q[i]] <= left[q[j]]
  PROVE  LET later == SelectInSeq(q, LAMBDA o : left[o] > left[th])
             r == IF later = 0 THEN Append(q, th) ELSE InsertAt(q, later, th)
         IN /\ r \in Seq(Thread) /\ ToSet(r) = ToSet(q) \cup {th} /\ Distinct(r)
            /\ \A i, j \in DOMAIN r : i < j => left[r[i]] <= left[r[j]]
<1> DEFINE I == {i \in 1 .. Len(q) : left[q[i]] > left[th]}
           later == SelectInSeq(q, LAMBDA o : left[o] > left[th])
           r == IF later = 0 THEN Append(q, th) ELSE InsertAt(q, later, th)
           n == IF later = 0 THEN Len(q) + 1 ELSE later
<1>1. later = IF I # {} THEN Min(I) ELSE 0
  BY DEF SelectInSeq
<1>2. /\ Len(q) \in Nat /\ DOMAIN q = 1 .. Len(q) /\ I \in SUBSET Nat
      /\ \A i \in 1 .. Len(q) : q[i] \in Thread /\ left[q[i]] \in Nat
      /\ left[th] \in Nat /\ MaxSleep \in Nat
  BY SchedulerAssumption
<1>3. /\ n \in 1 .. Len(q) + 1
      /\ \A i \in 1 .. Len(q) : i < n => left[q[i]] <= left[th]
      /\ n <= Len(q) => left[th] < left[q[n]]
  <2>1. CASE I = {}
    <3>1. later = 0
      BY <1>1, <2>1
    <3>2. n = Len(q) + 1
      BY <3>1
    <3>3. ASSUME NEW i \in 1 .. Len(q) PROVE left[q[i]] <= left[th]
      <4>1. ~(left[q[i]] > left[th])
        BY <2>1
      <4> QED  BY <1>2, <4>1
    <3> HIDE DEF n, later, I
    <3> QED  BY <1>2, <3>2, <3>3
  <2>2. CASE I # {}
    <3>1. later = Min(I)
      BY <1>1, <2>2
    <3>2. later \in I /\ \A i \in I : later <= i
      <4> HIDE DEF I, later
      <4> QED  BY <1>2, <2>2, <3>1, LeastIs
    <3>3. later \in 1 .. Len(q) /\ left[q[later]] > left[th]
      BY <3>2
    <3> HIDE DEF later
    <3>4. n = later
      BY <1>2, <3>3
    <3> HIDE DEF n
    <3>5. ASSUME NEW i \in 1 .. Len(q), i < n PROVE left[q[i]] <= left[th]
      <4>1. i \notin I
        BY <1>2, <3>2, <3>3, <3>4, <3>5
      <4>2. ~(left[q[i]] > left[th])
        BY <4>1
      <4> QED  BY <1>2, <4>2
    <3> QED  BY <1>2, <3>3, <3>4, <3>5
  <2> QED  BY <2>1, <2>2
<1>4. /\ r \in Seq(Thread) /\ Len(r) = Len(q) + 1
      /\ \A j \in 1 .. Len(q) + 1 :
           r[j] = IF j < n THEN q[j] ELSE IF j = n THEN th ELSE q[j - 1]
  <2>1. CASE later = 0
    <3>1. r = Append(q, th) /\ n = Len(q) + 1
      BY <2>1
    <3> HIDE DEF r, n, later
    <3>2. r \in Seq(Thread) /\ Len(r) = Len(q) + 1 /\ r[Len(q) + 1] = th
          /\ \A j \in 1 .. Len(q) : r[j] = q[j]
      BY <3>1
    <3>3. \A j \in 1 .. Len(q) + 1 : (j < n <=> j \in 1 .. Len(q)) /\ (j = n <=> j = Len(q) + 1)
                                     /\ (j \in 1 .. Len(q) \/ j = Len(q) + 1)
      BY <1>2, <3>1
    <3> QED  BY <3>2, <3>3
  <2>2. CASE later # 0
    <3>1. r = InsertAt(q, later, th) /\ n = later /\ later \in 1 .. Len(q)
      <4>1. I # {}
        BY <1>1, <2>2
      <4>2. later \in I
        <5> HIDE DEF I, later
        <5> QED  BY <1>1, <1>2, <4>1, LeastIs
      <4> HIDE DEF later
      <4> QED  BY <2>2, <4>2
    <3> HIDE DEF r, n, later
    <3>2. PICK i \in 1 .. Len(q) : i = later
      BY <3>1
    <3>3. InsertAt(q, i, th) \in Seq(Thread) /\ Len(InsertAt(q, i, th)) = Len(q) + 1
      BY Inserted
    <3>4. \A j \in 1 .. Len(q) + 1 : InsertAt(q, i, th)[j] =
               IF j < i THEN q[j] ELSE IF j = i THEN th ELSE q[j - 1]
      BY Inserted
    <3> QED  BY <3>1, <3>2, <3>3, <3>4, Zenon
  <2> QED  BY <2>1, <2>2
<1> HIDE DEF r, n
<1> DEFINE Back(j) == IF j < n THEN j ELSE j - 1
<1>5. DOMAIN r = 1 .. Len(q) + 1
  BY <1>4
<1>6. \A j \in 1 .. Len(q) + 1 : j # n => Back(j) \in 1 .. Len(q) /\ r[j] = q[Back(j)]
  BY <1>2, <1>3, <1>4
<1>7. r[n] = th /\ n \in Nat
  BY <1>3, <1>4
<1>8. \A j \in 1 .. Len(q) : \E k \in 1 .. Len(q) + 1 : r[k] = q[j]
  <2> SUFFICES ASSUME NEW j \in 1 .. Len(q) PROVE \E k \in 1 .. Len(q) + 1 : r[k] = q[j]
    OBVIOUS
  <2>1. CASE j < n
    <3>1. j \in 1 .. Len(q) + 1 /\ r[j] = q[j]
      BY <1>2, <1>4, <2>1
    <3> QED  BY <3>1
  <2>2. CASE j >= n
    <3>1. j + 1 \in 1 .. Len(q) + 1 /\ ~(j + 1 < n) /\ j + 1 # n /\ (j + 1) - 1 = j
      BY <1>2, <1>7, <2>2
    <3>2. r[j + 1] = q[j]
      BY <1>4, <3>1
    <3> QED  BY <3>1, <3>2
  <2>3. j \in Nat
    BY <1>2
  <2> QED  BY <1>7, <2>1, <2>2, <2>3
<1>9. ToSet(r) = ToSet(q) \cup {th}
  <2>1. ASSUME NEW j \in 1 .. Len(q) + 1 PROVE r[j] \in ToSet(q) \cup {th}
    BY <1>2, <1>6, <1>7 DEF ToSet
  <2>2. \A j \in 1 .. Len(q) : q[j] \in ToSet(r)
    BY <1>5, <1>8 DEF ToSet
  <2>3. th \in ToSet(r)
    BY <1>3, <1>5, <1>7 DEF ToSet
  <2> QED  BY <1>2, <1>5, <2>1, <2>2, <2>3 DEF ToSet
<1>10. \A i \in 1 .. Len(q) : q[i] # th
  BY <1>2 DEF ToSet
<1>11. Distinct(r)
  <2> SUFFICES ASSUME NEW i \in 1 .. Len(q) + 1, NEW j \in 1 .. Len(q) + 1, r[i] = r[j] PROVE i = j
    BY <1>5 DEF Distinct
  <2>1. CASE i = n \/ j = n
    <3>1. \A m \in 1 .. Len(q) + 1 : m # n => r[m] # th
      BY <1>6, <1>10
    <3> QED  BY <1>7, <2>1, <3>1
  <2>2. CASE i # n /\ j # n
    <3>1. Back(i) = Back(j)
      BY <1>2, <1>6, <2>2 DEF Distinct
    <3>2. i \in Nat /\ j \in Nat
      BY <1>2
    <3> QED  BY <1>7, <2>2, <3>1, <3>2
  <2> QED  BY <2>1, <2>2
<1>12. ASSUME NEW i \in 1 .. Len(q) + 1, NEW j \in 1 .. Len(q) + 1, i < j
       PROVE  left[r[i]] <= left[r[j]]
  <2>0. i \in Nat /\ j \in Nat
    BY <1>2
  <2>1. CASE i = n
    <3>1. n <= Len(q) /\ j - 1 \in 1 .. Len(q) /\ n <= j - 1 /\ r[j] = q[j - 1]
      BY <1>2, <1>4, <1>7, <1>12, <2>0, <2>1
    <3>2. left[q[n]] <= left[q[j - 1]]
      <4>1. n \in 1 .. Len(q)
        BY <1>3, <3>1
      <4>2. CASE n = j - 1
        BY <1>2, <4>1, <4>2
      <4>3. CASE n # j - 1
        <5>1. n < j - 1
          BY <1>7, <2>0, <3>1, <4>3
        <5> QED  BY <1>2, <3>1, <4>1, <5>1
      <4> QED  BY <4>2, <4>3
    <3>3. n \in 1 .. Len(q)
      BY <1>3, <3>1
    <3> QED  BY <1>2, <1>3, <1>7, <2>1, <3>1, <3>2, <3>3
  <2>2. CASE j = n
    <3>1. r[i] = q[i] /\ i \in 1 .. Len(q)
      BY <1>2, <1>3, <1>4, <1>12, <2>0, <2>2
    <3> QED  BY <1>3, <1>7, <1>12, <2>2, <3>1
  <2>3. CASE i # n /\ j # n
    <3>1. Back(i) <= Back(j) /\ Back(i) \in 1 .. Len(q) /\ Back(j) \in 1 .. Len(q)
      BY <1>6, <1>7, <1>12, <2>0, <2>3
    <3>2. left[q[Back(i)]] <= left[q[Back(j)]]
      <4> HIDE DEF Back
      <4>1. CASE Back(i) = Back(j)
        BY <1>2, <3>1, <4>1
      <4>2. CASE Back(i) # Back(j)
        <5>1. Back(i) < Back(j)
          BY <3>1, <4>2
        <5> QED  BY <1>2, <3>1, <5>1
      <4> QED  BY <4>1, <4>2
    <3> QED  BY <1>6, <2>3, <3>2
  <2> QED  BY <2>1, <2>2, <2>3
<1> QED  BY <1>4, <1>5, <1>9, <1>11, <1>12 DEF r

\* A running thread goes to sleep: its context is set aside.
LEMMA AsleepKeeps ==
  ASSUME NEW x, SInv(x, {}, None), NEW th \in Thread, x.marked[th], Idles(x, th)
  PROVE  LET y == Asleep(x, th) IN
         /\ SInv(y, {}, x.cid[th]) /\ SameBut(x, y, {"state", "curThread", "marked", "sleepQueue"})
         /\ y.state = [x.state EXCEPT ![th] = "SLEEPING"]
         /\ y.curThread = [x.curThread EXCEPT ![x.cid[th]] = None]
         /\ y.marked = [x.marked EXCEPT ![th] = FALSE]
<1> DEFINE later == SelectInSeq(x.sleepQueue, LAMBDA o : x.left[o] > x.left[th])
           q == IF later = 0 THEN Append(x.sleepQueue, th) ELSE InsertAt(x.sleepQueue, later, th)
           z == [x EXCEPT !.marked = [@ EXCEPT ![th] = FALSE], !.sleepQueue = q]
           y == Deschedule(z, th, "SLEEPING")
           k == x.cid[th]
<1>1. Typed(x) /\ x \in Schedulers
  BY Types DEF SInv
<1>2. x.state[th] = "RUNNING" /\ x.futexWord[th] = 1 /\ x.left[th] > 0
  BY DEF SInv, Words
<1>3. k \in Context /\ x.curThread[k] = th
  BY <1>1, <1>2 DEF Typed, SInv, Owned, Scheduled
<1>4. /\ q \in Seq(Thread) /\ ToSet(q) = ToSet(x.sleepQueue) \cup {th} /\ Distinct(q)
      /\ \A i, j \in DOMAIN q : i < j => x.left[q[i]] <= x.left[q[j]]
  <2>1. /\ x.sleepQueue \in Seq(Thread) /\ x.left \in [Thread -> 0 .. MaxSleep]
        /\ th \notin ToSet(x.sleepQueue) /\ Distinct(x.sleepQueue)
        /\ \A i, j \in DOMAIN x.sleepQueue : i < j => x.left[x.sleepQueue[i]] <= x.left[x.sleepQueue[j]]
    BY <1>1, <1>2 DEF Typed, SInv, Listed, Ordered
  <2> QED  BY <2>1, SleepsInOrder
<1>5. y = Asleep(x, th)
  BY <1>1, Zenon DEF Asleep
<1> HIDE DEF q, later
<1>6. /\ z \in Schedulers /\ SameBut(x, z, {"marked", "sleepQueue"})
      /\ z.marked = [x.marked EXCEPT ![th] = FALSE] /\ z.sleepQueue = q
  BY <1>1, <1>4 DEF Schedulers, SameBut, FieldNames
<1> HIDE DEF z
<1>7. /\ z.cid = x.cid /\ z.handoffThread = x.handoffThread /\ z.futexWord = x.futexWord
      /\ z.left = x.left /\ z.freeList = x.freeList /\ z.state = x.state
      /\ z.runQueue = x.runQueue /\ z.outQueue = x.outQueue /\ z.curThread = x.curThread
      /\ z.fakeLeaves = x.fakeLeaves
  BY <1>6 DEF SameBut, FieldNames
<1>8. /\ y \in Schedulers /\ SameBut(z, y, {"state", "curThread"})
      /\ y.state = [x.state EXCEPT ![th] = "SLEEPING"]
      /\ y.curThread = [x.curThread EXCEPT ![k] = None]
  BY <1>1, <1>2, <1>3, <1>6, <1>7
     DEF Deschedule, Checked, Schedulers, ThreadStates, SameBut, FieldNames
<1> HIDE DEF y
<1>9. /\ y.cid = x.cid /\ y.handoffThread = x.handoffThread /\ y.futexWord = x.futexWord
      /\ y.marked = z.marked /\ y.left = x.left /\ y.freeList = x.freeList
      /\ y.runQueue = x.runQueue /\ y.outQueue = x.outQueue
      /\ y.sleepQueue = q /\ y.fakeLeaves = x.fakeLeaves
  BY <1>6, <1>7, <1>8 DEF SameBut, FieldNames
<1>10. SameBut(x, y, {"state", "curThread", "marked", "sleepQueue"})
  BY <1>6, <1>8 DEF SameBut, FieldNames
<1>11. \A u \in Thread : y.state[u] = IF u = th THEN "SLEEPING" ELSE x.state[u]
  BY <1>1, <1>8 DEF Typed
<1>12. \A c \in Context : y.curThread[c] = IF c = k THEN None ELSE x.curThread[c]
  BY <1>1, <1>8 DEF Typed
<1>13. \A u \in Thread : y.marked[u] <=> u # th /\ x.marked[u]
  BY <1>1, <1>6, <1>9 DEF Typed
<1>14. Owned(y)
  BY <1>2, <1>3, <1>9, <1>11, <1>12, Nobody DEF SInv, Owned, Scheduled
<1>15. Listed(y, k)
  BY <1>2, <1>3, <1>4, <1>9, <1>11, <1>12, Nobody DEF SInv, Listed
<1>16. Ordered(y)
  BY <1>4, <1>9 DEF Ordered
<1>17. Promised(y, {})
  <2>1. Promised(x, {})
    BY DEF SInv
  <2>2. \A u \in Thread :
          /\ y.state[u] = "QUEUED" /\ u \notin {} <=> x.state[u] = "QUEUED" /\ u \notin {}
          /\ x.handoffThread[u] # None => y.state[u] = "RUNNING" /\ y.cid[u] = x.cid[u]
    BY <1>2, <1>9, <1>11, <2>1 DEF Promised, Idles
  <2> QED  BY <1>1, <1>9, <2>1, <2>2, PromisedStays
<1>18. Conserving(y, k)
  <2>1. \A c \in Context : c # k /\ (c = None \/ Busy(x, c)) => Busy(y, c)
    <3>1. \A c \in Context : c # k => x.curThread[c] # th /\ x.curThread[c] \in Thread \cup {None}
      BY <1>1 DEF SInv, Owned, Typed
    <3> QED  BY <1>11, <1>12, <3>1, Nobody DEF Busy
  <2>2. Conserving(x, None)
    BY DEF SInv
  <2> QED  BY <1>1, <1>9, <2>1, <2>2, ConservingStays
<1>19. Words(y, {})
  <2>1. Words(x, {})
    BY DEF SInv
  <2> QED  BY <1>2, <1>9, <1>11, <1>13, <2>1 DEF Words
<1>20. Fakes(y)
  BY <1>1, <1>9, <1>11, FakesOf DEF SInv, Fakes, Idles
<1> QED  BY <1>5, <1>6, <1>8, <1>9, <1>10, <1>14, <1>15, <1>16, <1>17, <1>18, <1>19, <1>20 DEF SInv

Out(x, th) == [x EXCEPT !.state[th] = "OUT", !.outQueue = Append(@, th)]

\* A running thread is OUT: it keeps its context, as nobody queues for that.
LEMMA OutKeeps ==
  ASSUME NEW x, SInv(x, {}, None), NEW th \in Thread,
         x.state[th] = "RUNNING", ~x.marked[th], Idles(x, th),
         \A u \in ToSet(x.runQueue) : x.cid[th] \notin mask[u]
  PROVE  LET y == Out(x, th) IN
         /\ SInv(y, {}, None) /\ SameBut(x, y, {"state", "outQueue"})
         /\ \A u \in Thread : y.state[u] = IF u = th THEN "OUT" ELSE x.state[u]
<1> DEFINE q == Append(x.outQueue, th)
           y == [x EXCEPT !.state = [@ EXCEPT ![th] = "OUT"], !.outQueue = q]
<1>0. y = Out(x, th)
  BY DEF Out
<1>1. Typed(x) /\ x \in Schedulers
  BY Types DEF SInv
<1>2. q \in Seq(Thread) /\ ToSet(q) = ToSet(x.outQueue) \cup {th}
      /\ (Distinct(x.outQueue) /\ th \notin ToSet(x.outQueue) => Distinct(q))
  <2>1. x.outQueue \in Seq(Thread)
    BY <1>1 DEF Typed
  <2> QED  BY <2>1, Appended
<1> HIDE DEF q
<1>3. /\ y \in Schedulers /\ y.outQueue = q /\ SameBut(x, y, {"state", "outQueue"})
      /\ y.state = [x.state EXCEPT ![th] = "OUT"]
  BY <1>1, <1>2 DEF Schedulers, SameBut, FieldNames, ThreadStates
<1> HIDE DEF y
<1>4. /\ y.cid = x.cid /\ y.handoffThread = x.handoffThread /\ y.futexWord = x.futexWord
      /\ y.marked = x.marked /\ y.left = x.left /\ y.freeList = x.freeList
      /\ y.runQueue = x.runQueue /\ y.curThread = x.curThread
      /\ y.sleepQueue = x.sleepQueue /\ y.fakeLeaves = x.fakeLeaves
  BY <1>3 DEF SameBut, FieldNames
<1>5. \A u \in Thread : y.state[u] = IF u = th THEN "OUT" ELSE x.state[u]
  BY <1>1, <1>3 DEF Typed
<1>6. Owned(y)
  BY <1>4, <1>5 DEF SInv, Owned, Scheduled
<1>7. Listed(y, None)
  BY <1>2, <1>3, <1>4, <1>5 DEF SInv, Listed
<1>8. Ordered(y)
  BY <1>4 DEF SInv, Ordered
<1>9. Promised(y, {})
  <2>1. Promised(x, {})
    BY DEF SInv
  <2>2. \A u \in Thread :
          /\ y.state[u] = "QUEUED" /\ u \notin {} <=> x.state[u] = "QUEUED" /\ u \notin {}
          /\ x.handoffThread[u] # None => y.state[u] = "RUNNING" /\ y.cid[u] = x.cid[u]
    BY <1>4, <1>5, <2>1 DEF Promised, Idles
  <2> QED  BY <1>1, <1>4, <2>1, <2>2, PromisedStays
<1>10. Conserving(y, None)
  <2>1. ASSUME NEW u \in ToSet(y.runQueue), NEW c \in mask[u] \ {None} PROVE Busy(y, c)
    <3>1. u \in Thread
      BY <1>1, <1>4, Members DEF Typed
    <3>2. Busy(x, c) /\ c \in Context /\ c # x.cid[th]
      BY <1>4, <3>1, Nobody DEF SInv, Conserving
    <3>3. x.curThread[c] # th /\ x.curThread[c] \in Thread
      BY <1>1, <3>2 DEF SInv, Owned, Typed, Busy
    <3> QED  BY <1>4, <1>5, <3>2, <3>3 DEF Busy
  <2> QED  BY <2>1 DEF Conserving
<1>11. Words(y, {})
  BY <1>4, <1>5 DEF SInv, Words
<1>12. Fakes(y)
  BY <1>1, <1>4, <1>5, FakesOf DEF SInv, Fakes, Idles
<1> QED  BY <1>0, <1>3, <1>5, <1>6, <1>7, <1>8, <1>9, <1>10, <1>11, <1>12 DEF SInv

Rejoined(x, th) ==
  [x EXCEPT !.state[th] = "RUNNING", !.outQueue = Without(@, {th})]

\* A thread that is OUT runs again.
LEMMA RejoinKeeps ==
  ASSUME NEW x, SInv(x, {}, None), NEW th \in Thread, x.state[th] = "OUT"
  PROVE  LET y == Rejoined(x, th) IN
         /\ SInv(y, {}, None) /\ SameBut(x, y, {"state", "outQueue"})
         /\ \A u \in Thread : y.state[u] = IF u = th THEN "RUNNING" ELSE x.state[u]
<1> DEFINE q == Without(x.outQueue, {th})
           y == [x EXCEPT !.state = [@ EXCEPT ![th] = "RUNNING"], !.outQueue = q]
<1>0. y = Rejoined(x, th)
  BY DEF Rejoined
<1>1. Typed(x) /\ x \in Schedulers
  BY Types DEF SInv
<1>2. q \in Seq(Thread) /\ ToSet(q) = ToSet(x.outQueue) \ {th}
      /\ (Distinct(x.outQueue) => Distinct(q))
  <2>1. x.outQueue \in Seq(Thread)
    BY <1>1 DEF Typed
  <2> QED  BY <2>1, WithoutKeeps
<1> HIDE DEF q
<1>3. /\ y \in Schedulers /\ y.outQueue = q /\ SameBut(x, y, {"state", "outQueue"})
      /\ y.state = [x.state EXCEPT ![th] = "RUNNING"]
  BY <1>1, <1>2 DEF Schedulers, SameBut, FieldNames, ThreadStates
<1> HIDE DEF y
<1>4. /\ y.cid = x.cid /\ y.handoffThread = x.handoffThread /\ y.futexWord = x.futexWord
      /\ y.marked = x.marked /\ y.left = x.left /\ y.freeList = x.freeList
      /\ y.runQueue = x.runQueue /\ y.curThread = x.curThread
      /\ y.sleepQueue = x.sleepQueue /\ y.fakeLeaves = x.fakeLeaves
  BY <1>3 DEF SameBut, FieldNames
<1>5. \A u \in Thread : y.state[u] = IF u = th THEN "RUNNING" ELSE x.state[u]
  BY <1>1, <1>3 DEF Typed
<1>6. Owned(y)
  BY <1>4, <1>5 DEF SInv, Owned, Scheduled
<1>7. Listed(y, None)
  BY <1>2, <1>3, <1>4, <1>5 DEF SInv, Listed
<1>8. Ordered(y)
  BY <1>4 DEF SInv, Ordered
<1>9. Promised(y, {})
  <2>1. Promised(x, {})
    BY DEF SInv
  <2>2. \A u \in Thread :
          /\ y.state[u] = "QUEUED" /\ u \notin {} <=> x.state[u] = "QUEUED" /\ u \notin {}
          /\ x.handoffThread[u] # None => y.state[u] = "RUNNING" /\ y.cid[u] = x.cid[u]
    BY <1>4, <1>5, <2>1 DEF Promised
  <2> QED  BY <1>1, <1>4, <2>1, <2>2, PromisedStays
<1>10. Conserving(y, None)
  <2>1. \A c \in Context : c # None /\ (c = None \/ Busy(x, c)) => Busy(y, c)
    BY <1>1, <1>4, <1>5 DEF Busy, Typed
  <2>2. Conserving(x, None)
    BY DEF SInv
  <2> QED  BY <1>1, <1>4, <2>1, <2>2, ConservingStays
<1>11. Words(y, {})
  BY <1>4, <1>5 DEF SInv, Words
<1>12. Fakes(y)
  BY <1>1, <1>4, <1>5, FakesOf DEF SInv, Fakes
<1> QED  BY <1>0, <1>3, <1>5, <1>6, <1>7, <1>8, <1>9, <1>10, <1>11, <1>12 DEF SInv

\* A sleeper sleeps no more.
LEMMA AwakeKeeps ==
  ASSUME NEW x, SInv(x, {}, None), NEW th \in Thread, x.state[th] = "SLEEPING"
  PROVE  LET y == Awake(x, th) IN
         /\ SInv(y, {}, None) /\ SameBut(x, y, {"state", "left", "sleepQueue"})
         /\ y.state = [x.state EXCEPT ![th] = "BLOCKED"]
<1> DEFINE q == Without(x.sleepQueue, {th})
           y == [x EXCEPT !.state = [@ EXCEPT ![th] = "BLOCKED"], !.left = [@ EXCEPT ![th] = 0],
                          !.sleepQueue = q]
<1>1. Typed(x) /\ x \in Schedulers
  BY Types DEF SInv
<1>0. y = Awake(x, th)
  BY <1>1 DEF Awake, Schedulers
<1>2. q \in Seq(Thread) /\ ToSet(q) = ToSet(x.sleepQueue) \ {th} /\ Distinct(q) /\ Within(q, x.sleepQueue)
  <2>1. x.sleepQueue \in Seq(Thread) /\ Distinct(x.sleepQueue)
    BY <1>1 DEF Typed, SInv, Listed
  <2> QED  BY <2>1, WithoutKeeps
<1> HIDE DEF q
<1>3. /\ y \in Schedulers /\ y.sleepQueue = q /\ SameBut(x, y, {"state", "left", "sleepQueue"})
      /\ y.state = [x.state EXCEPT ![th] = "BLOCKED"]
      /\ y.left = [x.left EXCEPT ![th] = 0]
  <2>1. 0 \in 0 .. MaxSleep
    BY SchedulerAssumption
  <2> QED  BY <1>1, <1>2, <2>1 DEF Schedulers, SameBut, FieldNames, ThreadStates
<1> HIDE DEF y
<1>4. /\ y.cid = x.cid /\ y.handoffThread = x.handoffThread /\ y.futexWord = x.futexWord
      /\ y.marked = x.marked /\ y.outQueue = x.outQueue /\ y.freeList = x.freeList
      /\ y.runQueue = x.runQueue /\ y.curThread = x.curThread /\ y.fakeLeaves = x.fakeLeaves
  BY <1>3 DEF SameBut, FieldNames
<1>5. \A u \in Thread : y.state[u] = IF u = th THEN "BLOCKED" ELSE x.state[u]
  BY <1>1, <1>3 DEF Typed
<1>6. \A u \in Thread : u # th => y.left[u] = x.left[u]
  BY <1>1, <1>3 DEF Typed
<1>7. Owned(y)
  BY <1>4, <1>5 DEF SInv, Owned, Scheduled
<1>8. Listed(y, None)
  BY <1>2, <1>3, <1>4, <1>5 DEF SInv, Listed
<1>9. Ordered(y)
  <2> SUFFICES ASSUME NEW i \in DOMAIN q, NEW j \in DOMAIN q, i < j
               PROVE  y.left[q[i]] <= y.left[q[j]]
    BY <1>3 DEF Ordered
  <2>1. PICK k \in DOMAIN x.sleepQueue, l \in DOMAIN x.sleepQueue :
          k < l /\ x.sleepQueue[k] = q[i] /\ x.sleepQueue[l] = q[j]
    BY <1>2 DEF Within
  <2>2. x.left[q[i]] <= x.left[q[j]]
    BY <2>1 DEF SInv, Ordered
  <2>3. q[i] \in Thread \ {th} /\ q[j] \in Thread \ {th}
    BY <1>2, Members
  <2> QED  BY <1>6, <2>2, <2>3
<1>10. Promised(y, {})
  <2>1. Promised(x, {})
    BY DEF SInv
  <2>2. \A u \in Thread :
          /\ y.state[u] = "QUEUED" /\ u \notin {} <=> x.state[u] = "QUEUED" /\ u \notin {}
          /\ x.handoffThread[u] # None => y.state[u] = "RUNNING" /\ y.cid[u] = x.cid[u]
    BY <1>4, <1>5, <2>1 DEF Promised
  <2> QED  BY <1>1, <1>4, <2>1, <2>2, PromisedStays
<1>11. Conserving(y, None)
  <2>1. \A c \in Context : c # None /\ (c = None \/ Busy(x, c)) => Busy(y, c)
    BY <1>1, <1>4, <1>5, Nobody DEF Busy, Typed
  <2>2. Conserving(x, None)
    BY DEF SInv
  <2> QED  BY <1>1, <1>4, <2>1, <2>2, ConservingStays
<1>12. Words(y, {})
  BY <1>4, <1>5, <1>6 DEF SInv, Words
<1>13. Fakes(y)
  BY <1>1, <1>4, <1>5, FakesOf DEF SInv, Fakes
<1> QED  BY <1>0, <1>3, <1>7, <1>8, <1>9, <1>10, <1>11, <1>12, <1>13 DEF SInv

AsNew(x, th, c) ==
  [x EXCEPT !.state[th] = "STARTED", !.futexWord[th] = 0, !.cid[th] = c]

\* A thread that is not scheduled is as good as new.
LEMMA ResetKeeps ==
  ASSUME NEW x, SInv(x, {}, None), NEW th \in Thread, x.state[th] \in {"BLOCKED", "STARTED"},
         NEW c \in Context
  PROVE  LET y == AsNew(x, th, c) IN
         /\ SInv(y, {}, None) /\ SameBut(x, y, {"state", "futexWord", "cid"})
         /\ \A u \in Thread : y.state[u] = IF u = th THEN "STARTED" ELSE x.state[u]
         /\ \A u \in Thread : u # th => y.cid[u] = x.cid[u]
<1> DEFINE y == [x EXCEPT !.state = [@ EXCEPT ![th] = "STARTED"],
                          !.futexWord = [@ EXCEPT ![th] = 0], !.cid = [@ EXCEPT ![th] = c]]
<1>0. y = AsNew(x, th, c)
  BY DEF AsNew
<1>1. Typed(x) /\ x \in Schedulers
  BY Types DEF SInv
<1>2. /\ y \in Schedulers /\ SameBut(x, y, {"state", "futexWord", "cid"})
      /\ y.state = [x.state EXCEPT ![th] = "STARTED"]
      /\ y.futexWord = [x.futexWord EXCEPT ![th] = 0]
      /\ y.cid = [x.cid EXCEPT ![th] = c]
  BY <1>1 DEF Schedulers, SameBut, FieldNames, ThreadStates
<1> HIDE DEF y
<1>3. /\ y.handoffThread = x.handoffThread /\ y.left = x.left /\ y.sleepQueue = x.sleepQueue
      /\ y.marked = x.marked /\ y.outQueue = x.outQueue /\ y.freeList = x.freeList
      /\ y.runQueue = x.runQueue /\ y.curThread = x.curThread /\ y.fakeLeaves = x.fakeLeaves
  BY <1>2 DEF SameBut, FieldNames
<1>4. \A u \in Thread : y.state[u] = IF u = th THEN "STARTED" ELSE x.state[u]
  BY <1>1, <1>2 DEF Typed
<1>5. \A u \in Thread : u # th => y.cid[u] = x.cid[u] /\ y.futexWord[u] = x.futexWord[u]
  BY <1>1, <1>2 DEF Typed
<1>6. Owned(y)
  BY <1>3, <1>4, <1>5 DEF SInv, Owned, Scheduled
<1>7. Listed(y, None)
  BY <1>3, <1>4 DEF SInv, Listed
<1>8. Ordered(y)
  BY <1>3 DEF SInv, Ordered
<1>9. Promised(y, {})
  <2>1. Promised(x, {})
    BY DEF SInv
  <2>2. \A u \in Thread :
          /\ y.state[u] = "QUEUED" /\ u \notin {} <=> x.state[u] = "QUEUED" /\ u \notin {}
          /\ x.handoffThread[u] # None => y.state[u] = "RUNNING" /\ y.cid[u] = x.cid[u]
    BY <1>4, <1>5, <2>1 DEF Promised
  <2> QED  BY <1>1, <1>3, <2>1, <2>2, PromisedStays
<1>10. Conserving(y, None)
  <2>1. \A d \in Context : d # None /\ (d = None \/ Busy(x, d)) => Busy(y, d)
    BY <1>1, <1>3, <1>4, Nobody DEF Busy, Typed
  <2>2. Conserving(x, None)
    BY DEF SInv
  <2> QED  BY <1>1, <1>3, <2>1, <2>2, ConservingStays
<1>11. Words(y, {})
  BY <1>3, <1>4, <1>5 DEF SInv, Words
<1>12. Fakes(y)
  BY <1>1, <1>3, <1>4, FakesOf DEF SInv, Fakes
<1> QED  BY <1>0, <1>2, <1>4, <1>5, <1>6, <1>7, <1>8, <1>9, <1>10, <1>11, <1>12 DEF SInv

\* A thread that has got a context is woken.
LEMMA WakeupKeeps ==
  ASSUME NEW x, NEW L, SInv(x, L, None), NEW th \in Thread,
         x.state[th] = "RUNNING", ~x.marked[th], x.futexWord[th] = 1
  PROVE  LET y == Wakeup(x, th) IN SInv(y, L, None) /\ SameBut(x, y, {"futexWord"})
<1> DEFINE y == Wakeup(x, th)
<1>1. Typed(x) /\ x \in Schedulers
  BY Types DEF SInv
<1>2. /\ y \in Schedulers /\ SameBut(x, y, {"futexWord"})
      /\ y.futexWord = [x.futexWord EXCEPT ![th] = 0]
  BY <1>1 DEF Wakeup, Checked, Schedulers, SameBut, FieldNames
<1> HIDE DEF y
<1>3. /\ y.handoffThread = x.handoffThread /\ y.left = x.left /\ y.sleepQueue = x.sleepQueue
      /\ y.marked = x.marked /\ y.outQueue = x.outQueue /\ y.freeList = x.freeList
      /\ y.runQueue = x.runQueue /\ y.curThread = x.curThread /\ y.fakeLeaves = x.fakeLeaves
      /\ y.state = x.state /\ y.cid = x.cid
  BY <1>2 DEF SameBut, FieldNames
<1>4. \A u \in Thread : u # th => y.futexWord[u] = x.futexWord[u]
  BY <1>1, <1>2 DEF Typed
<1>5. Owned(y) /\ Listed(y, None) /\ Ordered(y) /\ Promised(y, L) /\ Conserving(y, None) /\ Fakes(y)
  BY <1>3 DEF SInv, Owned, Listed, Ordered, Promised, Conserving, Busy, Fakes
<1>6. Words(y, L)
  BY <1>3, <1>4 DEF SInv, Words
<1> QED  BY <1>2, <1>5, <1>6 DEF SInv, y

\* Changes that the invariant does not see
LEMMA SameScheduler ==
  ASSUME NEW x, NEW L, NEW k, SInv(x, L, k), NEW y \in Schedulers,
         SameBut(x, y, {"calls", "blockingSyscalls", "failed", "phase"})
  PROVE  SInv(y, L, k)
<1>1. /\ y.handoffThread = x.handoffThread /\ y.left = x.left /\ y.sleepQueue = x.sleepQueue
      /\ y.marked = x.marked /\ y.outQueue = x.outQueue /\ y.freeList = x.freeList
      /\ y.runQueue = x.runQueue /\ y.curThread = x.curThread /\ y.fakeLeaves = x.fakeLeaves
      /\ y.state = x.state /\ y.cid = x.cid /\ y.futexWord = x.futexWord
  BY DEF SameBut, FieldNames
<1> QED  BY <1>1 DEF SInv, Owned, Listed, Ordered, Promised, Conserving, Busy, Words, Fakes

\* Fake leaves come and go.
LEMMA FakesKeep ==
  ASSUME NEW x, SInv(x, {}, None), NEW q \in Seq([th : Thread, pc : Syscall]),
         \A f \in ToSet(q) : f \in ToSet(x.fakeLeaves) \/ x.state[f.th] = "RUNNING"
  PROVE  LET y == [x EXCEPT !.fakeLeaves = q] IN
         SInv(y, {}, None) /\ SameBut(x, y, {"fakeLeaves"}) /\ y.fakeLeaves = q
<1> DEFINE y == [x EXCEPT !.fakeLeaves = q]
<1>1. y \in Schedulers /\ SameBut(x, y, {"fakeLeaves"}) /\ y.fakeLeaves = q
  BY DEF SInv, Schedulers, SameBut, FieldNames
<1> HIDE DEF y
<1>2. /\ y.handoffThread = x.handoffThread /\ y.left = x.left /\ y.sleepQueue = x.sleepQueue
      /\ y.marked = x.marked /\ y.outQueue = x.outQueue /\ y.freeList = x.freeList
      /\ y.runQueue = x.runQueue /\ y.curThread = x.curThread
      /\ y.state = x.state /\ y.cid = x.cid /\ y.futexWord = x.futexWord
  BY <1>1 DEF SameBut, FieldNames
<1>3. Owned(y) /\ Listed(y, None) /\ Ordered(y) /\ Promised(y, {}) /\ Conserving(y, None)
      /\ Words(y, {})
  BY <1>2 DEF SInv, Owned, Listed, Ordered, Promised, Conserving, Busy, Words
<1>4. Fakes(y)
  BY <1>1, <1>2 DEF SInv, Fakes
<1> QED  BY <1>1, <1>3, <1>4 DEF SInv, y

\* A running thread says for how long it will sleep.
LEMMA MarkKeeps ==
  ASSUME NEW x, SInv(x, {}, None), NEW th \in Thread, x.state[th] = "RUNNING", ~x.marked[th],
         NEW n \in 1 .. MaxSleep
  PROVE  LET y == [x EXCEPT !.marked[th] = TRUE, !.left[th] = n, !.futexWord[th] = 1] IN
         /\ SInv(y, {}, None) /\ SameBut(x, y, {"marked", "left", "futexWord"})
         /\ y.marked = [x.marked EXCEPT ![th] = TRUE]
<1> DEFINE y == [x EXCEPT !.marked = [@ EXCEPT ![th] = TRUE], !.left = [@ EXCEPT ![th] = n],
                          !.futexWord = [@ EXCEPT ![th] = 1]]
<1>0. y = [x EXCEPT !.marked[th] = TRUE, !.left[th] = n, !.futexWord[th] = 1]
  OBVIOUS
<1>1. Typed(x) /\ x \in Schedulers
  BY Types DEF SInv
<1>2. /\ y \in Schedulers /\ SameBut(x, y, {"marked", "left", "futexWord"})
      /\ y.marked = [x.marked EXCEPT ![th] = TRUE]
      /\ y.left = [x.left EXCEPT ![th] = n]
      /\ y.futexWord = [x.futexWord EXCEPT ![th] = 1]
  <2>1. n \in 0 .. MaxSleep
    BY SchedulerAssumption
  <2> QED  BY <1>1, <2>1 DEF Schedulers, SameBut, FieldNames
<1> HIDE DEF y
<1>3. /\ y.handoffThread = x.handoffThread /\ y.sleepQueue = x.sleepQueue
      /\ y.outQueue = x.outQueue /\ y.freeList = x.freeList
      /\ y.runQueue = x.runQueue /\ y.curThread = x.curThread /\ y.fakeLeaves = x.fakeLeaves
      /\ y.state = x.state /\ y.cid = x.cid
  BY <1>2 DEF SameBut, FieldNames
<1>4. /\ \A u \in Thread : u # th => y.marked[u] = x.marked[u] /\ y.futexWord[u] = x.futexWord[u]
                                      /\ y.left[u] = x.left[u]
      /\ y.futexWord[th] = 1 /\ y.left[th] > 0
  <2>1. n > 0
    BY SchedulerAssumption
  <2> QED  BY <1>1, <1>2, <2>1 DEF Typed
<1>5. Owned(y) /\ Listed(y, None) /\ Promised(y, {}) /\ Conserving(y, None) /\ Fakes(y)
  BY <1>3 DEF SInv, Owned, Listed, Promised, Conserving, Busy, Fakes
<1>6. Ordered(y)
  <2>1. \A i \in DOMAIN x.sleepQueue : x.sleepQueue[i] \in Thread \ {th}
    BY <1>1, Members DEF Typed, SInv, Listed
  <2> QED  BY <1>3, <1>4, <2>1 DEF SInv, Ordered
<1>7. Words(y, {})
  BY <1>3, <1>4 DEF SInv, Words
<1> QED  BY <1>0, <1>2, <1>5, <1>6, <1>7 DEF SInv

-----------------------------------------------------------------------------
(* The callback at the end of a phase                                      *)

\* How many of the sleepers are due
NDue(x) ==
  LET later == SelectInSeq(x.sleepQueue, LAMBDA t : Tick(x).left[t] > 0) IN
  IF later = 0 THEN Len(x.sleepQueue) ELSE later - 1
Due(x) == {x.sleepQueue[i] : i \in 1 .. NDue(x)}
Woken(x) ==
  Checked([Tick(x) EXCEPT
             !.state = [t \in Thread |-> IF t \in Due(x) THEN "BLOCKED" ELSE @[t]],
             !.futexWord = [t \in Thread |-> IF t \in Due(x) THEN 0 ELSE @[t]],
             !.left = [t \in Thread |-> IF t \in Due(x) THEN 0 ELSE @[t]],
             !.sleepQueue = SubSeq(@, NDue(x) + 1, Len(@))],
          \A t \in Due(x) : Tick(x).left[t] = 0 /\ x.futexWord[t] = 1)

\* The callback of the barrier wakes the sleepers, then ticks (callback, :566-599).
LEMMA CallbackIs ==
  ASSUME NEW x
  PROVE  Callback(x) = IF Woken(x).runQueue # <<>> /\ Woken(x).phase = 0
                         THEN SchedTick(Woken(x)) ELSE {Woken(x)}
BY Zenon DEF Callback, Woken, Due, NDue

\* At the end of a phase every sleeper is one phase nearer to its end.
LEMMA TickIs ==
  ASSUME NEW x, SInv(x, {}, None), \A t \in Thread : ~x.marked[t]
  PROVE  /\ Tick(x) \in Schedulers /\ SameBut(x, Tick(x), {"phase", "left"})
         /\ Tick(x).left = [t \in Thread |-> IF x.state[t] = "SLEEPING" THEN x.left[t] - 1
                                                                        ELSE x.left[t]]
<1> DEFINE l == [t \in Thread |-> IF x.marked[t] \/ x.state[t] = "SLEEPING" THEN x.left[t] - 1
                                  ELSE x.left[t]]
           p == (x.phase + 1) % schedQuantum
<1>1. Typed(x) /\ x \in Schedulers
  BY Types DEF SInv
<1>2. Tick(x) = [x EXCEPT !.phase = p, !.left = l]
  BY <1>1 DEF Tick, Schedulers
<1>3. l = [t \in Thread |-> IF x.state[t] = "SLEEPING" THEN x.left[t] - 1 ELSE x.left[t]]
  OBVIOUS
<1>4. l \in [Thread -> 0 .. MaxSleep]
  <2>1. ASSUME NEW t \in Thread
        PROVE  (IF x.state[t] = "SLEEPING" THEN x.left[t] - 1 ELSE x.left[t]) \in 0 .. MaxSleep
    <3>1. x.left[t] \in 0 .. MaxSleep /\ MaxSleep \in Nat
      BY <1>1, SchedulerAssumption DEF Typed
    <3>2. x.state[t] = "SLEEPING" => x.left[t] > 0
      BY DEF SInv, Words
    <3> QED  BY <3>1, <3>2
  <2> QED  BY <1>3, <2>1
<1>5. p \in 0 .. schedQuantum - 1
  <2>1. x.phase + 1 \in Nat /\ schedQuantum \in Nat \ {0}
    BY <1>1, SchedulerAssumption DEF Typed
  <2>2. \A a \in Nat : \A m \in Nat \ {0} : a % m \in 0 .. m - 1
    OBVIOUS
  <2> QED  BY <2>1, <2>2
<1> HIDE DEF l, p
<1>6. /\ Tick(x) \in Schedulers /\ SameBut(x, Tick(x), {"phase", "left"}) /\ Tick(x).left = l
  BY <1>1, <1>2, <1>4, <1>5 DEF Schedulers, SameBut, FieldNames
<1> QED  BY <1>3, <1>6

\* The sleepers that are due are those with one phase left.
LEMMA DueIs ==
  ASSUME NEW x, SInv(x, {}, None), \A t \in Thread : ~x.marked[t]
  PROVE  /\ NDue(x) \in 0 .. Len(x.sleepQueue)
         /\ \A i \in 1 .. NDue(x) : x.left[x.sleepQueue[i]] = 1
         /\ \A i \in NDue(x) + 1 .. Len(x.sleepQueue) : x.left[x.sleepQueue[i]] > 1
<1> DEFINE q == x.sleepQueue
           I == {i \in 1 .. Len(q) : Tick(x).left[q[i]] > 0}
           later == SelectInSeq(q, LAMBDA t : Tick(x).left[t] > 0)
           n == IF later = 0 THEN Len(q) ELSE later - 1
<1>1. Typed(x) /\ x \in Schedulers /\ q \in Seq(Thread)
  BY Types DEF SInv, Typed
<1>2. later = IF I # {} THEN Min(I) ELSE 0
  BY DEF SelectInSeq
<1>3. NDue(x) = n
  BY DEF NDue
<1>4. Len(q) \in Nat /\ DOMAIN q = 1 .. Len(q) /\ I \in SUBSET Nat
  BY <1>1
<1>0. Tick(x).left = [t \in Thread |-> IF x.state[t] = "SLEEPING" THEN x.left[t] - 1 ELSE x.left[t]]
  BY TickIs
<1>5. \A i \in 1 .. Len(q) : /\ q[i] \in Thread /\ x.left[q[i]] \in Nat /\ x.left[q[i]] > 0
                             /\ Tick(x).left[q[i]] = x.left[q[i]] - 1
  <2> SUFFICES ASSUME NEW i \in 1 .. Len(q)
               PROVE  /\ q[i] \in Thread /\ x.left[q[i]] \in Nat /\ x.left[q[i]] > 0
                      /\ Tick(x).left[q[i]] = x.left[q[i]] - 1
    OBVIOUS
  <2>1. q[i] \in Thread /\ q[i] \in ToSet(q)
    BY <1>1, <1>4, Members
  <2>2. x.state[q[i]] = "SLEEPING"
    BY <2>1 DEF SInv, Listed
  <2>3. x.left[q[i]] > 0 /\ x.left[q[i]] \in Nat
    <3>1. x.left[q[i]] \in 0 .. MaxSleep /\ MaxSleep \in Nat
      BY <1>1, <2>1, SchedulerAssumption DEF Typed
    <3> QED  BY <2>1, <2>2, <3>1 DEF SInv, Words
  <2>4. Tick(x).left[q[i]] = x.left[q[i]] - 1
    BY <1>0, <2>1, <2>2
  <2> QED  BY <2>1, <2>3, <2>4
<1> HIDE DEF q
<1>6. I = {i \in 1 .. Len(q) : x.left[q[i]] > 1}
  BY <1>5
<1>7. CASE I = {}
  <2>1. n = Len(q)
    BY <1>2, <1>7
  <2> HIDE DEF n
  <2>2. \A i \in 1 .. Len(q) : x.left[q[i]] = 1
    BY <1>5, <1>6, <1>7
  <2> QED  BY <1>3, <1>4, <2>1, <2>2 DEF q
<1>8. CASE I # {}
  <2>1. later \in I /\ \A i \in I : later <= i
    <3> HIDE DEF I, later
    <3> QED  BY <1>2, <1>4, <1>8, LeastIs
  <2> HIDE DEF later
  <2>2. later \in 1 .. Len(q) /\ x.left[q[later]] > 1
    BY <1>6, <2>1
  <2>3. n = later - 1
    BY <1>4, <2>2
  <2> HIDE DEF n
  <2>4. ASSUME NEW i \in 1 .. n PROVE x.left[q[i]] = 1
    <3>1. i \in 1 .. Len(q) /\ i \notin I
      BY <1>4, <2>1, <2>2, <2>3
    <3> HIDE DEF I
    <3> QED  BY <1>5, <1>6, <3>1
  <2>5. ASSUME NEW i \in n + 1 .. Len(q) PROVE x.left[q[i]] > 1
    <3>1. i \in 1 .. Len(q) /\ later <= i
      BY <1>4, <2>2, <2>3
    <3>2. x.left[q[later]] <= x.left[q[i]]
      <4>1. CASE later = i
        BY <1>5, <2>2, <4>1
      <4>2. CASE later # i
        BY <1>4, <2>2, <3>1, <4>2 DEF SInv, Ordered, q
      <4> QED  BY <4>1, <4>2
    <3> QED  BY <1>5, <2>2, <3>1, <3>2
  <2> QED  BY <1>3, <1>4, <2>2, <2>3, <2>4, <2>5 DEF q
<1> QED  BY <1>7, <1>8

\* The sleepers that are due wake up.
LEMMA WokenKeeps ==
  ASSUME NEW x, SInv(x, {}, None), \A t \in Thread : ~x.marked[t]
  PROVE  LET y == Woken(x) IN
         /\ SInv(y, {}, None)
         /\ SameBut(x, y, {"phase", "left", "state", "futexWord", "sleepQueue"})
         /\ \A u \in Thread : y.state[u] = x.state[u]
                                \/ (x.state[u] = "SLEEPING" /\ y.state[u] = "BLOCKED")
<1> DEFINE due == Due(x)  n == NDue(x)  z == Tick(x)
           st == [t \in Thread |-> IF t \in due THEN "BLOCKED" ELSE x.state[t]]
           fw == [t \in Thread |-> IF t \in due THEN 0 ELSE x.futexWord[t]]
           lf == [t \in Thread |-> IF t \in due THEN 0 ELSE z.left[t]]
           q == SubSeq(x.sleepQueue, n + 1, Len(x.sleepQueue))
           y == Woken(x)
<1>1. Typed(x) /\ x \in Schedulers
  BY Types DEF SInv
<1>2. /\ n \in 0 .. Len(x.sleepQueue) /\ due = {x.sleepQueue[i] : i \in 1 .. n}
      /\ \A i \in 1 .. n : x.left[x.sleepQueue[i]] = 1
      /\ \A i \in n + 1 .. Len(x.sleepQueue) : x.left[x.sleepQueue[i]] > 1
  BY DueIs DEF Due
<1>3. /\ z \in Schedulers /\ SameBut(x, z, {"phase", "left"})
      /\ z.left = [t \in Thread |-> IF x.state[t] = "SLEEPING" THEN x.left[t] - 1 ELSE x.left[t]]
  BY TickIs
<1>4. /\ z.state = x.state /\ z.futexWord = x.futexWord /\ z.sleepQueue = x.sleepQueue
      /\ z.cid = x.cid /\ z.handoffThread = x.handoffThread
      /\ z.marked = x.marked /\ z.freeList = x.freeList /\ z.outQueue = x.outQueue
      /\ z.runQueue = x.runQueue /\ z.curThread = x.curThread /\ z.fakeLeaves = x.fakeLeaves
  BY <1>3 DEF SameBut, FieldNames
<1> HIDE DEF n, due, z
<1>5. q \in Seq(Thread) /\ Distinct(q) /\ ToSet(q) = ToSet(x.sleepQueue) \ due /\ Within(q, x.sleepQueue)
  <2>1. x.sleepQueue \in Seq(Thread) /\ Distinct(x.sleepQueue)
    BY <1>1 DEF Typed, SInv, Listed
  <2>2. q = Rest(x.sleepQueue, n)
    BY DEF Rest
  <2>3. /\ Rest(x.sleepQueue, n) \in Seq(Thread) /\ Distinct(Rest(x.sleepQueue, n))
        /\ ToSet(Rest(x.sleepQueue, n)) = ToSet(x.sleepQueue) \ {x.sleepQueue[i] : i \in 1 .. n}
        /\ Within(Rest(x.sleepQueue, n), x.sleepQueue)
    BY <1>2, <2>1, Tailed
  <2> HIDE DEF q
  <2> QED  BY <1>2, <2>2, <2>3
<1> HIDE DEF q
<1>6. due \subseteq ToSet(x.sleepQueue) /\ due \subseteq Thread
  <2>1. x.sleepQueue \in Seq(Thread)
    BY <1>1 DEF Typed
  <2>2. DOMAIN x.sleepQueue = 1 .. Len(x.sleepQueue) /\ Len(x.sleepQueue) \in Nat
    BY <2>1
  <2>3. \A i \in 1 .. n : i \in DOMAIN x.sleepQueue
    BY <1>2, <2>2
  <2> QED  BY <1>2, <2>1, <2>3, Members
<1>7. \A t \in due : x.state[t] = "SLEEPING" /\ x.futexWord[t] = 1 /\ x.left[t] = 1 /\ z.left[t] = 0
  <2>1. \A t \in due : x.left[t] = 1
    BY <1>2
  <2> QED  BY <1>3, <1>6, <2>1 DEF SInv, Listed, Words
<1>8. \A t \in Thread : t \notin due /\ x.state[t] = "SLEEPING" => x.left[t] > 1
  <2> SUFFICES ASSUME NEW t \in Thread, t \notin due, x.state[t] = "SLEEPING" PROVE x.left[t] > 1
    OBVIOUS
  <2>1. x.sleepQueue \in Seq(Thread) /\ t \in ToSet(x.sleepQueue)
    BY <1>1 DEF Typed, SInv, Listed
  <2>2. PICK i \in 1 .. Len(x.sleepQueue) : x.sleepQueue[i] = t
    BY <2>1 DEF ToSet
  <2>3. i \in n + 1 .. Len(x.sleepQueue)
    BY <1>2, <2>1, <2>2
  <2> QED  BY <1>2, <2>2, <2>3
<1>9. y = [z EXCEPT !.state = st, !.futexWord = fw, !.left = lf, !.sleepQueue = q]
  <2>1. y = Checked([z EXCEPT
             !.state = [t \in Thread |-> IF t \in due THEN "BLOCKED" ELSE @[t]],
             !.futexWord = [t \in Thread |-> IF t \in due THEN 0 ELSE @[t]],
             !.left = [t \in Thread |-> IF t \in due THEN 0 ELSE @[t]],
             !.sleepQueue = SubSeq(@, n + 1, Len(@))],
          \A t \in due : z.left[t] = 0 /\ x.futexWord[t] = 1)
    BY Zenon DEF Woken, due, z, n
  <2>2. \A t \in due : z.left[t] = 0 /\ x.futexWord[t] = 1
    BY <1>7
  <2>3. y = [z EXCEPT
             !.state = [t \in Thread |-> IF t \in due THEN "BLOCKED" ELSE @[t]],
             !.futexWord = [t \in Thread |-> IF t \in due THEN 0 ELSE @[t]],
             !.left = [t \in Thread |-> IF t \in due THEN 0 ELSE @[t]],
             !.sleepQueue = SubSeq(@, n + 1, Len(@))]
    <3> HIDE DEF y
    <3> QED  BY <2>1, <2>2, Zenon DEF Checked
  <2> HIDE DEF y
  <2> QED  BY <1>3, <1>4, <2>3 DEF Schedulers, q
<1>10. /\ st \in [Thread -> ThreadStates] /\ fw \in [Thread -> {0, 1}]
       /\ lf \in [Thread -> 0 .. MaxSleep]
  <2>1. z.left \in [Thread -> 0 .. MaxSleep] /\ 0 \in 0 .. MaxSleep
    <3>1. Typed(z)
      BY <1>3, Types
    <3> QED  BY <3>1, SchedulerAssumption DEF Typed
  <2> QED  BY <1>1, <2>1 DEF Typed, ThreadStates
<1>11. /\ \A t \in Thread : st[t] = IF t \in due THEN "BLOCKED" ELSE x.state[t]
       /\ \A t \in Thread : fw[t] = IF t \in due THEN 0 ELSE x.futexWord[t]
       /\ \A t \in Thread : lf[t] = IF t \in due THEN 0 ELSE z.left[t]
  OBVIOUS
<1> HIDE DEF st, fw, lf, y
<1>12. /\ y \in Schedulers /\ y.state = st /\ y.futexWord = fw /\ y.left = lf /\ y.sleepQueue = q
       /\ SameBut(z, y, {"left", "state", "futexWord", "sleepQueue"})
  BY <1>3, <1>5, <1>9, <1>10 DEF Schedulers, SameBut, FieldNames
<1>13. /\ y.cid = x.cid /\ y.handoffThread = x.handoffThread
       /\ y.marked = x.marked /\ y.freeList = x.freeList /\ y.outQueue = x.outQueue
       /\ y.runQueue = x.runQueue /\ y.curThread = x.curThread /\ y.fakeLeaves = x.fakeLeaves
  BY <1>4, <1>12 DEF SameBut, FieldNames
<1>14. SameBut(x, y, {"phase", "left", "state", "futexWord", "sleepQueue"})
  BY <1>3, <1>12 DEF SameBut, FieldNames
<1>15. \A u \in Thread : y.state[u] = IF u \in due THEN "BLOCKED" ELSE x.state[u]
  BY <1>11, <1>12
<1>16. Owned(y)
  BY <1>7, <1>13, <1>15 DEF SInv, Owned, Scheduled
<1>17. Listed(y, None)
  BY <1>5, <1>7, <1>12, <1>13, <1>15 DEF SInv, Listed
<1>18. Ordered(y)
  <2> SUFFICES ASSUME NEW i \in DOMAIN q, NEW j \in DOMAIN q, i < j
               PROVE  y.left[q[i]] <= y.left[q[j]]
    BY <1>12 DEF Ordered
  <2>1. PICK k \in DOMAIN x.sleepQueue, l \in DOMAIN x.sleepQueue :
          k < l /\ x.sleepQueue[k] = q[i] /\ x.sleepQueue[l] = q[j]
    BY <1>5 DEF Within
  <2>2. x.left[q[i]] <= x.left[q[j]]
    BY <2>1 DEF SInv, Ordered
  <2>3. \A t \in ToSet(q) : t \in Thread /\ y.left[t] = x.left[t] - 1 /\ x.left[t] \in Nat
    <3>1. \A t \in ToSet(q) : t \in Thread /\ t \notin due /\ x.state[t] = "SLEEPING"
      BY <1>5, Members DEF SInv, Listed
    <3>2. \A t \in Thread : x.left[t] \in Nat
      <4>1. \A t \in Thread : x.left[t] \in 0 .. MaxSleep
        BY <1>1 DEF Typed
      <4> QED  BY <4>1, SchedulerAssumption
    <3> QED  BY <1>3, <1>11, <1>12, <3>1, <3>2
  <2>4. q[i] \in ToSet(q) /\ q[j] \in ToSet(q)
    BY <1>5, Members
  <2> QED  BY <2>2, <2>3, <2>4
<1>19. Promised(y, {})
  <2>1. Promised(x, {})
    BY DEF SInv
  <2>2. \A u \in Thread :
          /\ y.state[u] = "QUEUED" /\ u \notin {} <=> x.state[u] = "QUEUED" /\ u \notin {}
          /\ x.handoffThread[u] # None => y.state[u] = "RUNNING" /\ y.cid[u] = x.cid[u]
    BY <1>7, <1>13, <1>15, <2>1 DEF Promised
  <2> QED  BY <1>1, <1>13, <2>1, <2>2, PromisedStays
<1>20. Conserving(y, None)
  <2>1. \A c \in Context : c # None /\ (c = None \/ Busy(x, c)) => Busy(y, c)
    <3>1. \A c \in Context : x.curThread[c] \in Thread \cup {None}
      BY <1>1 DEF Typed
    <3> QED  BY <1>7, <1>13, <1>15, <3>1, Nobody DEF Busy
  <2>2. Conserving(x, None)
    BY DEF SInv
  <2> QED  BY <1>1, <1>13, <2>1, <2>2, ConservingStays
<1>21. Words(y, {})
  <2>1. ASSUME NEW t \in Thread, y.state[t] = "QUEUED" PROVE y.futexWord[t] = 1
    BY <1>11, <1>12, <1>15, <2>1 DEF SInv, Words
  <2>2. ASSUME NEW t \in Thread, y.state[t] = "SLEEPING" PROVE y.futexWord[t] = 1 /\ y.left[t] > 0
    <3>1. t \notin due /\ x.state[t] = "SLEEPING"
      BY <1>15, <2>2
    <3>2. y.left[t] = x.left[t] - 1 /\ x.left[t] > 1 /\ x.left[t] \in Nat
      <4>1. x.left[t] \in Nat
        BY <1>1, SchedulerAssumption DEF Typed
      <4> QED  BY <1>3, <1>8, <1>11, <1>12, <3>1, <4>1
    <3> QED  BY <1>11, <1>12, <3>1, <3>2 DEF SInv, Words
  <2>3. \A t \in Thread : ~y.marked[t]
    BY <1>13
  <2> QED  BY <2>1, <2>2, <2>3 DEF Words
<1>22. Fakes(y)
  BY <1>1, <1>7, <1>13, <1>15, FakesOf DEF SInv, Fakes
<1>23. \A u \in Thread : y.state[u] = x.state[u] \/ (x.state[u] = "SLEEPING" /\ y.state[u] = "BLOCKED")
  BY <1>7, <1>15
<1> QED  BY <1>12, <1>14, <1>16, <1>17, <1>18, <1>19, <1>20, <1>21, <1>22, <1>23 DEF SInv, y

\* Queued threads are promised contexts that others run on.
LEMMA SchedTickKeeps ==
  ASSUME NEW x, SInv(x, {}, None), \A v \in Thread : x.handoffThread[v] = None,
         NEW y \in SchedTick(x)
  PROVE  SInv(y, {}, None) /\ SameBut(x, y, {"handoffThread", "runQueue"})
<1> DEFINE queued == ToSet(x.runQueue)
<1>1. Typed(x) /\ x \in Schedulers /\ queued \subseteq Thread
  <2>1. Typed(x) /\ x \in Schedulers
    BY Types DEF SInv
  <2>2. x.runQueue \in Seq(Thread)
    BY <2>1 DEF Typed
  <2> QED  BY <2>1, <2>2, Members
<1>2. PICK p \in Promises(x) :
        y = LET promised == {th \in queued : p[th] # None}
                victims == {x.curThread[p[th]] : th \in promised}
            IN Checked([x EXCEPT
                 !.handoffThread = [v \in Thread |->
                    IF v \in victims THEN CHOOSE th \in promised : x.curThread[p[th]] = v
                                     ELSE @[v]],
                 !.runQueue = Without(@, promised)],
               None \notin victims)
  BY Zenon DEF SchedTick
<1> DEFINE promised == {th \in queued : p[th] # None}
           victims == {x.curThread[p[th]] : th \in promised}
           h == [v \in Thread |->
                   IF v \in victims THEN CHOOSE th \in promised : x.curThread[p[th]] = v ELSE None]
           q == Without(x.runQueue, promised)
<1>3. \A th \in queued : p[th] # None =>
        p[th] \in mask[th] /\ \A o \in queued \ {th} : p[o] # p[th]
  <2>1. \A th \in queued :
          IF p[th] = None THEN TRUE
          ELSE p[th] \in mask[th] /\ \A o \in queued \ {th} : p[o] # p[th]
    BY DEF Promises
  <2> QED  BY <2>1
<1> HIDE DEF queued
<1>4. \A th \in promised : /\ th \in Thread /\ p[th] \in mask[th] /\ p[th] \in Context
                           /\ \A o \in promised : p[o] = p[th] => o = th
  BY <1>1, <1>3, Nobody
<1>5. \A th \in promised : LET v == x.curThread[p[th]] IN
        v \in Thread /\ x.state[v] = "RUNNING" /\ x.cid[v] = p[th]
  <2> SUFFICES ASSUME NEW th \in promised
               PROVE  LET v == x.curThread[p[th]] IN
                      v \in Thread /\ x.state[v] = "RUNNING" /\ x.cid[v] = p[th]
    OBVIOUS
  <2>1. p[th] \in mask[th] /\ p[th] \in Context /\ p[th] # None /\ th \in queued
    BY <1>4, Nobody
  <2>2. Busy(x, p[th])
    BY <2>1 DEF SInv, Conserving, queued
  <2>3. x.curThread[p[th]] \in Thread
    BY <1>1, <2>1, <2>2 DEF Typed, Busy
  <2> QED  BY <2>1, <2>2, <2>3 DEF Busy, SInv, Owned
<1>6. None \notin victims
  BY <1>5, Nobody
<1>7. /\ h \in [Thread -> Thread \cup {None}]
      /\ \A th \in promised : h[x.curThread[p[th]]] = th
      /\ \A v \in Thread : h[v] # None => h[v] \in promised /\ x.curThread[p[h[v]]] = v
  <2>1. ASSUME NEW v \in victims
        PROVE  h[v] \in promised /\ x.curThread[p[h[v]]] = v /\ v \in Thread
    <3>1. \E th \in promised : x.curThread[p[th]] = v
      OBVIOUS
    <3>2. v \in Thread
      BY <1>5, <3>1
    <3>3. h[v] = CHOOSE th \in promised : x.curThread[p[th]] = v
      BY <3>2
    <3> HIDE DEF h, promised
    <3> QED  BY <3>1, <3>2, <3>3
  <2>2. \A v \in Thread : v \notin victims => h[v] = None
    OBVIOUS
  <2>3. promised \subseteq Thread
    BY <1>4
  <2>4. ASSUME NEW th \in promised PROVE h[x.curThread[p[th]]] = th
    <3>1. x.curThread[p[th]] \in victims
      OBVIOUS
    <3> HIDE DEF h, promised, victims
    <3>2. h[x.curThread[p[th]]] \in promised
          /\ x.curThread[p[h[x.curThread[p[th]]]]] = x.curThread[p[th]]
      BY <2>1, <3>1
    <3>3. p[h[x.curThread[p[th]]]] = p[th]
      BY <1>5, <3>2
    <3> QED  BY <1>4, <3>2, <3>3
  <2>5. h = [v \in Thread |-> h[v]]
    OBVIOUS
  <2> HIDE DEF h, promised, victims
  <2>6. \A v \in Thread : h[v] \in Thread \cup {None}
    BY <2>1, <2>2, <2>3
  <2>7. h \in [Thread -> Thread \cup {None}]
    BY <2>5, <2>6
  <2> QED  BY <2>1, <2>2, <2>4, <2>7
<1>8. y = [x EXCEPT !.handoffThread = h, !.runQueue = q]
  <2>1. y = [x EXCEPT
                 !.handoffThread = [v \in Thread |->
                    IF v \in victims THEN CHOOSE th \in promised : x.curThread[p[th]] = v
                                     ELSE @[v]],
                 !.runQueue = Without(@, promised)]
    BY <1>2, <1>6, Zenon DEF Checked, queued
  <2>2. h = [v \in Thread |->
                    IF v \in victims THEN CHOOSE th \in promised : x.curThread[p[th]] = v
                                     ELSE x.handoffThread[v]]
    OBVIOUS
  <2> QED  BY <1>1, <2>1, <2>2, Zenon DEF Schedulers
<1>9. q \in Seq(Thread) /\ ToSet(q) = queued \ promised /\ Distinct(q)
  <2>1. x.runQueue \in Seq(Thread) /\ Distinct(x.runQueue)
    BY <1>1 DEF Typed, SInv, Promised
  <2> QED  BY <2>1, WithoutKeeps DEF queued
<1>10. \A th \in promised : th \in queued
  OBVIOUS
<1> HIDE DEF promised, victims, h, q
<1>11. y \in Schedulers /\ y.handoffThread = h /\ y.runQueue = q /\ SameBut(x, y, {"handoffThread", "runQueue"})
  BY <1>1, <1>7, <1>8, <1>9 DEF Schedulers, SameBut, FieldNames
<1>12. /\ y.state = x.state /\ y.cid = x.cid /\ y.futexWord = x.futexWord /\ y.left = x.left
       /\ y.marked = x.marked /\ y.freeList = x.freeList /\ y.outQueue = x.outQueue
       /\ y.sleepQueue = x.sleepQueue /\ y.curThread = x.curThread /\ y.fakeLeaves = x.fakeLeaves
  BY <1>11 DEF SameBut, FieldNames
<1>13. Owned(y) /\ Listed(y, None) /\ Ordered(y) /\ Words(y, {}) /\ Fakes(y)
  BY <1>12 DEF SInv, Owned, Listed, Ordered, Words, Fakes
<1>14. Promised(y, {})
  <2>1. \A th \in Thread : th \in queued <=> x.state[th] = "QUEUED"
    BY Nobody DEF SInv, Promised, queued
  <2>2. ASSUME NEW th \in Thread
        PROVE  th \in ToSet(q) <=> x.state[th] = "QUEUED" /\ \A v \in Thread : h[v] # th
    <3>1. th \in promised => x.curThread[p[th]] \in Thread /\ h[x.curThread[p[th]]] = th
      BY <1>5, <1>7
    <3>2. \A v \in Thread : h[v] = th => th \in promised
      BY <1>7, Nobody
    <3> QED  BY <1>9, <2>1, <3>1, <3>2
  <2>3. ASSUME NEW v \in Thread, h[v] # None
        PROVE  x.state[v] = "RUNNING" /\ x.state[h[v]] = "QUEUED" /\ x.cid[v] \in mask[h[v]]
    <3>1. h[v] \in promised /\ x.curThread[p[h[v]]] = v
      BY <1>7, <2>3
    <3>2. x.state[v] = "RUNNING" /\ x.cid[v] = p[h[v]]
      BY <1>5, <3>1
    <3> QED  BY <1>4, <1>10, <2>1, <3>1, <3>2
  <2>4. \A u, v \in Thread : h[u] # None /\ h[u] = h[v] => u = v
    BY <1>7
  <2> QED  BY <1>9, <1>11, <1>12, <2>2, <2>3, <2>4 DEF Promised
<1>15. Conserving(y, None)
  <2>1. \A c \in Context : c # None /\ (c = None \/ Busy(x, c)) => Busy(y, c)
    BY <1>12 DEF Busy
  <2>2. ToSet(y.runQueue) \subseteq ToSet(x.runQueue) /\ Conserving(x, None)
    BY <1>9, <1>11 DEF SInv, queued
  <2> QED  BY <1>1, <2>1, <2>2, ConservingStays
<1> QED  BY <1>11, <1>13, <1>14, <1>15 DEF SInv

\* The callback: it wakes, and it promises, but schedules nobody.
LEMMA CallbackKeeps ==
  ASSUME NEW x, SInv(x, {}, None), \A t \in Thread : ~x.marked[t] /\ x.handoffThread[t] = None,
         NEW y \in Callback(x)
  PROVE  /\ SInv(y, {}, None)
         /\ SameBut(x, y, {"phase", "left", "state", "futexWord", "sleepQueue",
                           "handoffThread", "runQueue"})
         /\ \A u \in Thread : y.state[u] = x.state[u]
                                \/ (x.state[u] = "SLEEPING" /\ y.state[u] = "BLOCKED")
<1> DEFINE w == Woken(x)
<1>1. /\ SInv(w, {}, None)
      /\ SameBut(x, w, {"phase", "left", "state", "futexWord", "sleepQueue"})
      /\ \A u \in Thread : w.state[u] = x.state[u]
                             \/ (x.state[u] = "SLEEPING" /\ w.state[u] = "BLOCKED")
  BY WokenKeeps
<1>2. y = w \/ y \in SchedTick(w)
  BY CallbackIs
<1> HIDE DEF w
<1>3. CASE y = w
  BY <1>1, <1>3 DEF SameBut, FieldNames
<1>4. CASE y \in SchedTick(w)
  <2>1. \A v \in Thread : w.handoffThread[v] = None
    BY <1>1 DEF SameBut, FieldNames
  <2>2. SInv(y, {}, None) /\ SameBut(w, y, {"handoffThread", "runQueue"})
    BY <1>1, <1>4, <2>1, SchedTickKeeps
  <2>3. y.state = w.state
    BY <2>2 DEF SameBut, FieldNames
  <2>4. SameBut(x, y, {"phase", "left", "state", "futexWord", "sleepQueue",
                       "handoffThread", "runQueue"})
    BY <1>1, <2>2 DEF SameBut, FieldNames
  <2> QED  BY <1>1, <2>2, <2>3, <2>4
<1> QED  BY <1>2, <1>3, <1>4

-----------------------------------------------------------------------------
(* What schedThread and schedContext find                                  *)

\* The element of q at the least of the positions I, or None
FirstAt(q, I) == LET i == IF I # {} THEN Min(I) ELSE 0 IN IF i = 0 THEN None ELSE q[i]

\* The first element of a queue at one of some places
LEMMA FirstIs ==
  ASSUME NEW S, NEW q \in Seq(S), NEW I \in SUBSET (1 .. Len(q))
  PROVE  /\ I = {} => FirstAt(q, I) = None
         /\ I # {} => \E i \in I : FirstAt(q, I) = q[i] /\ FirstAt(q, I) \in S
<1>1. CASE I = {}
  BY <1>1 DEF FirstAt
<1>2. CASE I # {}
  <2>1. Min(I) \in I
    <3>1. I \in SUBSET Nat
      OBVIOUS
    <3> QED  BY <1>2, <3>1, LeastIs
  <2>2. PICK m \in I : m = Min(I)
    BY <2>1
  <2>3. m \in 1 .. Len(q) /\ m # 0 /\ q[m] \in S
    OBVIOUS
  <2>4. FirstAt(q, I) = q[m]
    BY <1>2, <2>2, <2>3 DEF FirstAt
  <2> QED  BY <1>2, <2>3, <2>4
<1> QED  BY <1>1, <1>2

\* The thread that the queue has for a context, or none (schedContext)
LEMMA ThreadForIs ==
  ASSUME NEW x \in Schedulers, NEW c
  PROVE  LET th == ThreadFor(x, c) IN
         /\ th = None => \A u \in ToSet(x.runQueue) : c \notin mask[u]
         /\ th # None => th \in ToSet(x.runQueue) /\ c \in mask[th] /\ th \in Thread
<1> DEFINE q == x.runQueue
           I == {i \in 1 .. Len(q) : c \in mask[q[i]]}
           r == ThreadFor(x, c)
<1>1. q \in Seq(Thread) /\ None \notin Thread
  BY Types, Nobody DEF Typed
<1>2. r = FirstAt(q, I)
  BY DEF ThreadFor, First, SelectInSeq, FirstAt
<1> HIDE DEF r
<1>3. (I = {} => r = None) /\ (I # {} => \E i \in I : r = q[i] /\ r \in Thread)
  <2>1. I \in SUBSET (1 .. Len(q))
    OBVIOUS
  <2> HIDE DEF I, q
  <2> QED  BY <1>1, <1>2, <2>1, FirstIs
<1>4. ToSet(q) = {q[i] : i \in 1 .. Len(q)}
  BY <1>1 DEF ToSet
<1> HIDE DEF q
<1>5. r = None => \A u \in ToSet(q) : c \notin mask[u]
  BY <1>1, <1>3, <1>4
<1>6. r # None => r \in ToSet(q) /\ c \in mask[r] /\ r \in Thread
  BY <1>1, <1>3, <1>4
<1> QED  BY <1>5, <1>6 DEF q, r

\* The context for a thread: if there is none, all that it may have are busy.
LEMMA ContextForIs ==
  ASSUME NEW x, NEW L, SInv(x, L, None), NEW th \in Thread
  PROVE  LET c == ContextFor(x, th) IN
         /\ c = None => \A d \in mask[th] : Busy(x, d)
         /\ c # None => /\ c \in mask[th] /\ c \in Context
                        /\ x.curThread[c] # None => x.state[x.curThread[c]] = "OUT"
<1> DEFINE p == x.freeList
           q == x.outQueue
           I == {i \in 1 .. Len(p) : p[i] \in mask[th]}
           J == {i \in 1 .. Len(q) : x.cid[q[i]] \in mask[th]}
           free == First(x.freeList, LAMBDA c : c \in mask[th])
           victim == First(x.outQueue, LAMBDA o : x.cid[o] \in mask[th])
           r == ContextFor(x, th)
<1>1. Typed(x) /\ x \in Schedulers /\ p \in Seq(Context) /\ q \in Seq(Thread)
  BY Types DEF SInv, Typed
<1>2. r = IF x.curThread[x.cid[th]] = None /\ x.cid[th] \in mask[th] THEN x.cid[th]
          ELSE IF free # None THEN free
          ELSE IF victim # None THEN x.cid[victim]
          ELSE None
  BY Zenon DEF ContextFor
<1>3. free = FirstAt(p, I)
  BY DEF First, SelectInSeq, FirstAt
<1>4. victim = FirstAt(q, J)
  BY DEF First, SelectInSeq, FirstAt
<1>5. I \in SUBSET (1 .. Len(p)) /\ J \in SUBSET (1 .. Len(q))
  OBVIOUS
<1>6. /\ ToSet(p) = {p[i] : i \in 1 .. Len(p)} /\ ToSet(q) = {q[i] : i \in 1 .. Len(q)}
  <2> HIDE DEF p, q
  <2> QED  BY <1>1 DEF ToSet
<1>7. /\ \A c \in Context : c \in ToSet(p) <=> x.curThread[c] = None
      /\ \A u \in Thread : u \in ToSet(q) <=> x.state[u] = "OUT"
  BY Nobody DEF SInv, Listed
<1> HIDE DEF p, q, free, victim, r
<1>8. /\ free = None => I = {}
      /\ free # None => free \in mask[th] /\ x.curThread[free] = None
  <2>1. (I = {} => free = None) /\ (I # {} => \E i \in I : free = p[i] /\ free \in Context)
    <3> HIDE DEF I
    <3>1. p \in Seq(Context) /\ I \in SUBSET (1 .. Len(p))
      BY <1>1, <1>5
    <3>2. /\ I = {} => FirstAt(p, I) = None
          /\ I # {} => \E i \in I : FirstAt(p, I) = p[i] /\ FirstAt(p, I) \in Context
      BY <3>1, FirstIs
    <3> QED  BY <1>3, <3>2
  <2> QED  BY <1>6, <1>7, <2>1, Nobody
<1>9. /\ victim = None => J = {}
      /\ victim # None => victim \in Thread /\ x.cid[victim] \in mask[th] /\ x.state[victim] = "OUT"
  <2>1. (J = {} => victim = None) /\ (J # {} => \E i \in J : victim = q[i] /\ victim \in Thread)
    <3> HIDE DEF J
    <3> QED  BY <1>1, <1>4, <1>5, FirstIs
  <2> QED  BY <1>6, <1>7, <2>1, Nobody
<1>10. victim # None => x.curThread[x.cid[victim]] = victim
  BY <1>1, <1>9 DEF SInv, Owned, Scheduled, Typed
<1>11. r # None => /\ r \in mask[th] /\ r \in Context
                   /\ x.curThread[r] # None => x.state[x.curThread[r]] = "OUT"
  <2>1. r # None => r \in mask[th] /\ (x.curThread[r] # None => x.state[x.curThread[r]] = "OUT")
    BY <1>2, <1>8, <1>9, <1>10
  <2> QED  BY <2>1, Nobody
<1>12. ASSUME r = None, NEW d \in mask[th] PROVE Busy(x, d)
  <2>1. d \in Context /\ x.cid[th] # None
    BY <1>1, Nobody DEF Typed
  <2>2. I = {} /\ J = {}
    BY <1>2, <1>8, <1>9, <1>12, <2>1, Nobody
  <2>3. x.curThread[d] # None
    BY <1>6, <1>7, <2>1, <2>2
  <2>4. x.curThread[d] \in Thread
    BY <1>1, <2>1, <2>3 DEF Typed
  <2>5. x.state[x.curThread[d]] \in Scheduled /\ x.cid[x.curThread[d]] = d
    BY <2>1, <2>4 DEF SInv, Owned
  <2>6. x.state[x.curThread[d]] # "OUT"
    BY <1>6, <1>7, <2>2, <2>4, <2>5
  <2> QED  BY <2>3, <2>5, <2>6 DEF Busy, Scheduled
<1> QED  BY <1>11, <1>12 DEF r

-----------------------------------------------------------------------------
(* The barrier is the one of BarrierProofs.                                *)

\* The parameters of the barrier are legal.
LEMMA BarrierParameters == BP!BarrierAssumption
<1>1. Cardinality(Thread) \in Nat \ {0}
  <2>1. Cardinality(Thread) \in Nat
    BY SchedulerAssumption, FS_CardinalityType
  <2>2. Cardinality(Thread) # 0
    BY SchedulerAssumption, FS_EmptySet
  <2> QED  BY <2>1, <2>2
<1>2. MaxCalls * Cardinality(Thread) \in Nat \ {0}
  <2>1. MaxCalls \in Nat \ {0}
    BY SchedulerAssumption
  <2>2. \A m, n \in Nat \ {0} : m * n \in Nat \ {0}
    OBVIOUS
  <2> QED  BY <1>1, <2>1, <2>2
<1>3. IsFiniteSet(Context) /\ parallelThreads \in Nat \ {0} /\ CleanupPeriod \in Nat \ {0}
  BY SchedulerAssumption
<1>4. BP!IsFiniteSet(Context)
  BY <1>3, Zenon DEF BP!IsFiniteSet, IsFiniteSet
<1> QED  BY <1>2, <1>3, <1>4 DEF BP!BarrierAssumption

\* The scheduler's barrier and that of the proofs wake alike ...
LEMMA SameCheckRunList == ASSUME NEW x PROVE B!CheckRunList(x) = BP!CheckRunList(x)
BY Zenon DEF B!CheckRunList, BP!CheckRunList, B!WaitingUpTo, BP!WaitingUpTo,
             B!Cardinality, BP!Cardinality

\* ... end a phase alike ...
LEMMA SameCheckEndPhase == ASSUME NEW x PROVE B!CheckEndPhase(x) = BP!CheckEndPhase(x)
<1>1. \A y : B!CleanupPass(y) = BP!CleanupPass(y)
  BY Zenon DEF B!CleanupPass, BP!CleanupPass, B!CleanupStep, BP!CleanupStep
<1>2. \A y : B!Cleanup(y) = BP!Cleanup(y)
  BY <1>1, Zenon DEF B!Cleanup, BP!Cleanup
<1>3. \A y : B!Shuffles(y) = BP!Shuffles(y)
  BY Zenon DEF B!Shuffles, BP!Shuffles, B!Indices, BP!Indices
<1>4. B!PhaseEnded(x) = BP!PhaseEnded(x) /\ B!EndsPhase(x) = BP!EndsPhase(x)
  BY Zenon DEF B!PhaseEnded, BP!PhaseEnded, B!EndsPhase, BP!EndsPhase
<1> QED  BY <1>2, <1>3, <1>4, Zenon DEF B!CheckEndPhase, BP!CheckEndPhase

\* ... and so do both in one.
LEMMA SameTryWakeNext == ASSUME NEW x PROVE B!TryWakeNext(x) = BP!TryWakeNext(x)
BY SameCheckRunList, SameCheckEndPhase, SMT DEF B!TryWakeNext, BP!TryWakeNext

\* The operations of the barrier are those of BarrierProofs.
LEMMA SameOperations ==
  /\ B!Init <=> BP!Init
  /\ \A c \in Context : /\ B!Join(c) <=> BP!Join(c)
                        /\ B!Leave(c) <=> BP!Leave(c)
                        /\ B!Sync(c) <=> BP!Sync(c)
                        /\ B!WakeUp(c) <=> BP!WakeUp(c)
<1>1. B!Init <=> BP!Init
  BY Zenon DEF B!Init, BP!Init
<1>2. ASSUME NEW c PROVE B!Join(c) <=> BP!Join(c)
  BY SameTryWakeNext, Zenon
  DEF B!Join, BP!Join, B!Proceed, BP!Proceed, B!Waiting, BP!Waiting, B!Append, BP!Append,
      B!HadItsTurn, BP!HadItsTurn, B!Reschedule, BP!Reschedule
<1>3. ASSUME NEW c PROVE B!Leave(c) <=> BP!Leave(c)
  BY SameTryWakeNext, Zenon DEF B!Leave, BP!Leave, B!Left, BP!Left
<1>4. ASSUME NEW c PROVE B!Sync(c) <=> BP!Sync(c)
  BY SameTryWakeNext, Zenon DEF B!Sync, BP!Sync, B!Proceed, BP!Proceed, B!Waiting, BP!Waiting
<1>5. ASSUME NEW c PROVE B!WakeUp(c) <=> BP!WakeUp(c)
  BY Zenon DEF B!WakeUp, BP!WakeUp
<1> QED  BY <1>1, <1>2, <1>3, <1>4, <1>5

\* What the scheduler knows of the barrier
Bar == BP!IInv /\ ~b.killed
Live == BP!Live(b)

\* Who is in the barrier
LEMMA BarIs ==
  ASSUME Bar
  PROVE  /\ inWait \subseteq Live /\ Live \subseteq Context /\ ~fault
         /\ \A c \in Context : c \in Live <=> b.state[c] \in {"WAITING", "RUNNING"}
         /\ \A c \in Context : b.state[c] \in {"OFFLINE", "WAITING", "RUNNING", "LEFT"}
<1>1. BP!BInv(b) /\ inWait \subseteq Live /\ ~fault
  BY DEF Bar, BP!IInv, Live
<1>2. b.state \in [Context -> {"OFFLINE", "WAITING", "RUNNING", "LEFT"}]
  BY <1>1 DEF BP!BInv, BP!Typed, BP!States
<1> QED  BY <1>1, <1>2 DEF Live, BP!Live

\* A context that comes back late finds itself in the run list.
LEMMA JoinFinds ==
  ASSUME Bar, NEW c \in Context, B!HadItsTurn(c)
  PROVE  b.runList[b.lastIdx[c]] = c
<1>1. BP!HadItsTurn(c)
  BY DEF B!HadItsTurn, BP!HadItsTurn
<1> QED  BY <1>1, BarrierParameters, BP!JoinFindsIt DEF Bar

\* What the scheduler learns when a context joins ...
LEMMA JoinTold ==
  ASSUME Bar, NEW c \in Context, B!Join(c)
  PROVE  /\ Bar' /\ b'.phaseCount = b.phaseCount /\ Live' = Live \cup {c}
         /\ \A d \in Context : b'.state[d] = "WAITING" => b.state[d] = "WAITING" \/ d = c
         /\ inWait' = IF b'.state[c] = "WAITING" THEN inWait \cup {c} ELSE inWait
         /\ b'.done \subseteq b.done /\ c \notin b.done
<1>1. BP!Join(c)
  BY SameOperations
<1>2. /\ BP!IInv' /\ ~b'.killed /\ b'.phaseCount = b.phaseCount
      /\ BP!Live(b') = BP!Live(b) \cup {c}
      /\ \A d \in Context : b'.state[d] = "WAITING" => b.state[d] = "WAITING" \/ d = c
      /\ b'.done \subseteq b.done /\ c \notin b.done
  BY <1>1, BarrierParameters, BP!JoinTells DEF Bar
<1>3. inWait' = IF b'.state[c] = "WAITING" THEN inWait \cup {c} ELSE inWait
  BY DEF B!Join, B!Proceed
<1> QED  BY <1>2, <1>3 DEF Bar, Live

\* ... when one leaves ...
LEMMA LeaveTold ==
  ASSUME Bar, NEW c \in Context, B!Leave(c)
  PROVE  /\ Bar' /\ Live' = Live \ {c} /\ inWait' = inWait
         /\ \A d \in Context : b'.state[d] = "WAITING" => b.state[d] = "WAITING"
         /\ b'.done \subseteq b.done
         /\ b'.phaseCount # b.phaseCount =>
              b'.done = {} /\ \A d \in Live \ {c} : d \in b.done
<1>1. BP!Leave(c)
  BY SameOperations
<1>2. /\ BP!IInv' /\ ~b'.killed
      /\ BP!Live(b') = BP!Live(b) \ {c}
      /\ \A d \in Context : b'.state[d] = "WAITING" => b.state[d] = "WAITING"
      /\ b'.done \subseteq b.done
      /\ b'.phaseCount # b.phaseCount =>
           b'.done = {} /\ \A d \in BP!Live(b) \ {c} : b.state[d] = "WAITING" /\ d \in b.done
  BY <1>1, BarrierParameters, BP!LeaveTells DEF Bar
<1>3. inWait' = inWait
  BY DEF B!Leave
<1> QED  BY <1>2, <1>3 DEF Bar, Live

\* ... when one comes to the end of its phase ...
LEMMA SyncTold ==
  ASSUME Bar, NEW c \in Context, B!Sync(c)
  PROVE  /\ Bar' /\ Live' = Live /\ c \in Live /\ c \notin inWait
         /\ \A d \in Context : b'.state[d] = "WAITING" => b.state[d] = "WAITING" \/ d = c
         /\ inWait' = IF b'.state[c] = "WAITING" THEN inWait \cup {c} ELSE inWait
         /\ b'.done \subseteq b.done \cup {c}
         /\ b'.phaseCount # b.phaseCount =>
              b'.done = {} /\ \A d \in Live \ {c} : d \in b.done
<1>1. BP!Sync(c)
  BY SameOperations
<1>2. /\ BP!IInv' /\ ~b'.killed
      /\ BP!Live(b') = BP!Live(b)
      /\ \A d \in Context : b'.state[d] = "WAITING" => b.state[d] = "WAITING" \/ d = c
      /\ b'.done \subseteq b.done \cup {c}
      /\ b'.phaseCount # b.phaseCount =>
           b'.done = {} /\ \A d \in BP!Live(b) \ {c} : b.state[d] = "WAITING" /\ d \in b.done
  BY <1>1, BarrierParameters, BP!SyncTells DEF Bar
<1>3. /\ inWait' = IF b'.state[c] = "WAITING" THEN inWait \cup {c} ELSE inWait
      /\ b.state[c] = "RUNNING" /\ c \notin inWait
  BY DEF B!Sync, B!Proceed
<1>4. c \in Live
  BY <1>3, BarIs
<1> QED  BY <1>2, <1>3, <1>4 DEF Bar, Live

\* ... and when one that was woken goes on
LEMMA WakeUpTold ==
  ASSUME Bar, NEW c \in Context, B!WakeUp(c)
  PROVE  /\ Bar' /\ b' = b /\ inWait' = inWait \ {c} /\ Live' = Live
         /\ c \in inWait /\ b.state[c] = "RUNNING"
<1>1. BP!WakeUp(c)
  BY SameOperations
<1>2. /\ BP!IInv' /\ b' = b /\ inWait' = inWait \ {c}
      /\ c \in inWait /\ b.state[c] = "RUNNING"
  BY <1>1, BarrierParameters, BP!WakeUpTells DEF Bar
<1> QED  BY <1>2 DEF Bar, Live

\* The barrier is where it was.
LEMMA SameBar ==
  ASSUME Bar, UNCHANGED bvars
  PROVE  Bar' /\ Live' = Live
<1>1. BP!IInv'
  <2>1. BP!IInv /\ UNCHANGED BP!vars
    BY DEF Bar, bvars, BP!vars
  <2> QED  BY <2>1, BarrierParameters, BP!NextInv
<1> QED  BY <1>1 DEF Bar, Live, bvars

-----------------------------------------------------------------------------
(* The invariant                                                           *)

\* What the scheduler holds for thread th at place p
Placed(x, p, th) ==
  /\ p \in {"none", "new"} => x.state[th] = "STARTED"
  /\ p \in {"app", "marked", "join", "sync", "handoff", "leaving"} => x.state[th] = "RUNNING"
  /\ p = "ctx" => x.state[th] \in {"QUEUED", "RUNNING"}
  /\ p = "syscall" => x.state[th] \in {"RUNNING", "OUT", "BLOCKED", "SLEEPING"}
  /\ p = "ending" => x.state[th] \in {"SLEEPING", "BLOCKED"}
  /\ p = "finishing" => x.state[th] \in {"OUT", "BLOCKED"}
  /\ x.marked[th] <=> p = "marked"
  /\ p = "marked" => x.calls[th] < MaxCalls
  /\ x.handoffThread[th] # None => p \in {"sync", "handoff"}
  /\ p = "handoff" => x.handoffThread[th] # None
  /\ InFakeLeave(x, th) => p = "syscall"

\* A thread in a system call that runs is in a fake leave, or is about to leave.
Watched(x, p, w, th) ==
  p = "syscall" /\ x.state[th] = "RUNNING" /\ ~x.failed =>
    InFakeLeave(x, th) \/ (w.stage = "leave" /\ w.th = th)

\* The watchdog knows the thread it will leave for.
Watches ==
  [stage : {"idle", "leave", "next"}, th : Thread \cup {None}, cid : Context \cup {None},
   pid : Nat, pc : Syscall \cup {None}]
Watching(x, a, w) ==
  /\ w \in Watches
  /\ w.stage = "leave" =>
       /\ w.th \in Thread /\ w.cid = x.cid[w.th]
       /\ a[w.th] = "syscall" /\ x.state[w.th] = "RUNNING" /\ ~InFakeLeave(x, w.th)
  /\ w.stage # "idle" /\ SameProcess => \A t \in Thread : w.pid = proc[t]

\* The barrier has the contexts on which threads run; those whose threads wait
\* for it, or have run in this phase, are where they should be.
AtBarrier(x, a, th) ==
  /\ x.cid[th] \in inWait <=> a[th] \in {"join", "sync"}
  /\ x.cid[th] \in b.done => a[th] = "sync" /\ x.handoffThread[th] = None
Agreed(x, a) ==
  /\ \A c \in Context : c \in Live <=> Busy(x, c)
  /\ \A c \in Context : b.state[c] = "WAITING" => c \in inWait
  /\ \A th \in Thread : x.state[th] = "RUNNING" => AtBarrier(x, a, th)

IInv ==
  /\ Bar
  /\ SInv(s, {}, None) /\ at \in [Thread -> Places]
  /\ \A th \in Thread : Placed(s, at[th], th) /\ Watched(s, at[th], wd, th)
  /\ Watching(s, at, wd) /\ Agreed(s, at)
  /\ s.failed => ~SameProcess

\* What may become of thread u, at place p, while others act
Kept(x, y, p, u) ==
  /\ \/ y.state[u] = x.state[u]
     \/ x.state[u] \in {"SLEEPING", "OUT"} /\ y.state[u] = "BLOCKED"
     \/ x.state[u] = "QUEUED" /\ y.state[u] = "RUNNING"
  /\ x.state[u] # "QUEUED" => y.cid[u] = x.cid[u]
  /\ y.marked[u] = x.marked[u]
  /\ y.calls[u] = x.calls[u] \/ y.calls[u] = 0
  /\ y.handoffThread[u] = x.handoffThread[u] \/ (p = "sync" /\ x.handoffThread[u] = None)
  /\ InFakeLeave(y, u) <=> InFakeLeave(x, u)

\* A thread of which nothing changed is in its place.
LEMMA KeptIs ==
  ASSUME NEW x, NEW y, NEW p, NEW u, Placed(x, p, u), Kept(x, y, p, u)
  PROVE  Placed(y, p, u)
<1>1. 0 < MaxCalls
  BY SchedulerAssumption
<1> HIDE DEF InFakeLeave
<1>2. /\ p \in {"none", "new"} => y.state[u] = "STARTED"
      /\ p \in {"app", "marked", "join", "sync", "handoff", "leaving"} => y.state[u] = "RUNNING"
      /\ p = "ctx" => y.state[u] \in {"QUEUED", "RUNNING"}
      /\ p = "syscall" => y.state[u] \in {"RUNNING", "OUT", "BLOCKED", "SLEEPING"}
      /\ p = "ending" => y.state[u] \in {"SLEEPING", "BLOCKED"}
      /\ p = "finishing" => y.state[u] \in {"OUT", "BLOCKED"}
  BY DEF Placed, Kept
<1>3. y.marked[u] <=> p = "marked"
  BY DEF Placed, Kept
<1>4. p = "marked" => y.calls[u] < MaxCalls
  BY <1>1 DEF Placed, Kept
<1>5. /\ y.handoffThread[u] # None => p \in {"sync", "handoff"}
      /\ p = "handoff" => y.handoffThread[u] # None
      /\ InFakeLeave(y, u) => p = "syscall"
  BY DEF Placed, Kept
<1> QED  BY <1>2, <1>3, <1>4, <1>5 DEF Placed

\* ... and the watchdog knows about it what it knew.
LEMMA StillWatched ==
  ASSUME NEW x, NEW y, NEW p, NEW w, NEW u, Placed(x, p, u), Kept(x, y, p, u),
         Watched(x, p, w, u), ~x.failed
  PROVE  Watched(y, p, w, u)
BY DEF Placed, Kept, Watched

\* The watchdog is right about the thread whose leave it makes real.
LEMMA StillWatching ==
  ASSUME NEW x, NEW y, NEW a, NEW d, NEW w, Watching(x, a, w),
         w.stage = "leave" => d[w.th] = a[w.th] /\ Kept(x, y, a[w.th], w.th)
  PROVE  Watching(y, d, w)
BY DEF Kept, Watching

\* A step of thread th keeps the invariant.
LEMMA StepKeeps ==
  ASSUME IInv, ~s.failed, NEW th \in Thread, wd.stage = "leave" => wd.th # th,
         NEW p \in Places, at' = [at EXCEPT ![th] = p], wd' = wd,
         SInv(s', {}, None), s'.failed => ~SameProcess, Bar', Agreed(s, at)',
         Placed(s', p, th), Watched(s', p, wd, th),
         \A u \in Thread \ {th} : Kept(s, s', at[u], u)
  PROVE  IInv'
<1>1. /\ at \in [Thread -> Places] /\ Watching(s, at, wd)
      /\ \A u \in Thread : Placed(s, at[u], u) /\ Watched(s, at[u], wd, u)
  BY DEF IInv
<1>2. at' \in [Thread -> Places] /\ at'[th] = p /\ \A u \in Thread \ {th} : at'[u] = at[u]
  BY <1>1
<1>3. ASSUME NEW u \in Thread PROVE Placed(s', at'[u], u) /\ Watched(s', at'[u], wd, u)
  <2>1. CASE u = th
    BY <1>2, <2>1
  <2>2. CASE u # th
    BY <1>1, <1>2, <2>2, KeptIs, StillWatched
  <2> QED  BY <2>1, <2>2
<1>4. Watching(s', at', wd)
  <2>1. wd.stage = "leave" => wd.th \in Thread \ {th}
    BY <1>1 DEF Watching
  <2> QED  BY <1>1, <1>2, <2>1, StillWatching
<1> QED  BY <1>2, <1>3, <1>4 DEF IInv

\* A context is busy when a thread runs there.
LEMMA BusyIs ==
  ASSUME NEW x, NEW L, NEW k, SInv(x, L, k)
  PROVE  \A c \in Context :
           Busy(x, c) <=> \E u \in Thread : x.state[u] = "RUNNING" /\ x.cid[u] = c
<1>1. Typed(x)
  BY Types DEF SInv
<1>2. \A c \in Context : x.curThread[c] # None => x.curThread[c] \in Thread
  BY <1>1 DEF Typed
<1> QED  BY <1>2, Nobody DEF SInv, Owned, Scheduled, Busy

\* The threads that run, and where, are the same.
LEMMA AgreedStays ==
  ASSUME IInv, UNCHANGED bvars, SInv(s', {}, None),
         \A u \in Thread : s'.state[u] = "RUNNING" <=> s.state[u] = "RUNNING",
         \A u \in Thread : s.state[u] = "RUNNING" =>
           /\ s'.cid[u] = s.cid[u]
           /\ at'[u] \in {"join", "sync"} <=> at[u] \in {"join", "sync"}
           /\ s.cid[u] \in b.done => at'[u] = at[u] /\ s'.handoffThread[u] = s.handoffThread[u]
  PROVE  Agreed(s, at)'
<1>1. Agreed(s, at) /\ Live' = Live /\ b' = b /\ inWait' = inWait
  BY SameBar DEF IInv, bvars
<1>2. \A c \in Context : Busy(s', c) <=> Busy(s, c)
  <2>1. /\ \A c \in Context : Busy(s', c) <=> \E u \in Thread : s'.state[u] = "RUNNING" /\ s'.cid[u] = c
        /\ \A c \in Context : Busy(s, c) <=> \E u \in Thread : s.state[u] = "RUNNING" /\ s.cid[u] = c
    BY BusyIs DEF IInv
  <2> QED  BY <2>1
<1>3. \A c \in Context : c \in Live' <=> Busy(s', c)
  BY <1>1, <1>2 DEF Agreed
<1>4. \A c \in Context : b'.state[c] = "WAITING" => c \in inWait'
  BY <1>1 DEF Agreed
<1>5. ASSUME NEW u \in Thread, s'.state[u] = "RUNNING"
      PROVE  /\ s'.cid[u] \in inWait' <=> at'[u] \in {"join", "sync"}
             /\ s'.cid[u] \in b'.done => at'[u] = "sync" /\ s'.handoffThread[u] = None
  BY <1>1, <1>5 DEF Agreed, AtBarrier
<1> QED  BY <1>3, <1>4, <1>5 DEF Agreed, AtBarrier

-----------------------------------------------------------------------------
(* The steps of one thread that leave the others alone                     *)

\* Where s does not change, nobody is disturbed.
LEMMA SameKept ==
  ASSUME NEW x, NEW y, NEW N, SameBut(x, y, N),
         N \cap {"state", "cid", "marked", "calls", "handoffThread", "fakeLeaves"} = {}
  PROVE  \A u : \A p : Kept(x, y, p, u)
<1>1. /\ y.state = x.state /\ y.cid = x.cid /\ y.marked = x.marked /\ y.calls = x.calls
      /\ y.handoffThread = x.handoffThread /\ y.fakeLeaves = x.fakeLeaves
  BY DEF SameBut, FieldNames
<1>2. \A u : InFakeLeave(y, u) <=> InFakeLeave(x, u)
  BY <1>1 DEF InFakeLeave
<1> HIDE DEF InFakeLeave
<1> QED  BY <1>1, <1>2 DEF Kept

\* A step that only moves thread th
LEMMA MoveKeeps ==
  ASSUME IInv, ~s.failed, NEW th \in Thread, wd.stage = "leave" => wd.th # th,
         NEW p \in Places, at' = [at EXCEPT ![th] = p], UNCHANGED <<bvars, s, wd>>,
         Placed(s, p, th), Watched(s, p, wd, th),
         at[th] \notin {"join", "sync"} /\ p \notin {"join", "sync"}
  PROVE  IInv'
<1>1. \A u : \A q : Kept(s, s', q, u)
  BY DEF Kept
<1>2. s' = s /\ wd' = wd /\ Bar' /\ SInv(s', {}, None)
  BY SameBar DEF IInv
<1>3. Agreed(s, at)'
  <2>1. /\ \A u \in Thread : s'.state[u] = "RUNNING" <=> s.state[u] = "RUNNING"
        /\ \A u \in Thread : s.state[u] = "RUNNING" =>
             /\ s'.cid[u] = s.cid[u]
             /\ at'[u] \in {"join", "sync"} <=> at[u] \in {"join", "sync"}
             /\ s.cid[u] \in b.done => at'[u] = at[u] /\ s'.handoffThread[u] = s.handoffThread[u]
    BY <1>2 DEF IInv, Agreed, AtBarrier
  <2> QED  BY <1>2, <2>1, AgreedStays
<1> QED  BY <1>1, <1>2, <1>3, StepKeeps

\* A thread starts.
LEMMA StartKeeps ==
  ASSUME IInv, ~s.failed, NEW th \in Thread, Start(th)
  PROVE  IInv'
<1>1. /\ at[th] = "none" /\ at' = [at EXCEPT ![th] = "new"] /\ UNCHANGED <<bvars, s, wd>>
  BY DEF Start
<1>2. Placed(s, "new", th) /\ Watched(s, "new", wd, th)
  BY <1>1 DEF IInv, Placed, Watched
<1>3. wd.stage = "leave" => wd.th # th
  BY <1>1 DEF IInv, Watching
<1> QED  BY <1>1, <1>2, <1>3, MoveKeeps DEF Places

\* A thread sees that it sleeps.
LEMMA IsSleepingKeeps ==
  ASSUME IInv, ~s.failed, NEW th \in Thread, IsSleeping(th)
  PROVE  IInv'
<1>1. /\ at[th] = "syscall" /\ s.state[th] = "SLEEPING" /\ at' = [at EXCEPT ![th] = "ending"]
      /\ UNCHANGED <<bvars, s, wd>>
  BY DEF IsSleeping
<1>2. wd.stage = "leave" => wd.th # th
  BY <1>1 DEF IInv, Watching
<1>3. ~InFakeLeave(s, th)
  BY <1>1 DEF IInv, SInv, Fakes, InFakeLeave, ToSet
<1>4. Placed(s, "ending", th) /\ Watched(s, "ending", wd, th)
  BY <1>1, <1>3 DEF IInv, Placed, Watched
<1> QED  BY <1>1, <1>2, <1>4, MoveKeeps DEF Places

\* A thread whose word was cleared goes on, on a context.
LEMMA ContextWakeKeeps ==
  ASSUME IInv, ~s.failed, NEW th \in Thread, ContextWake(th)
  PROVE  IInv'
<1>1. /\ at[th] = "ctx" /\ s.futexWord[th] # 1 /\ at' = [at EXCEPT ![th] = "app"]
      /\ UNCHANGED <<bvars, s, wd>>
  BY DEF ContextWake
<1>2. s.state[th] = "RUNNING"
  BY <1>1 DEF IInv, Placed, SInv, Words
<1>3. wd.stage = "leave" => wd.th # th
  BY <1>1 DEF IInv, Watching
<1>4. Placed(s, "app", th) /\ Watched(s, "app", wd, th)
  BY <1>1, <1>2 DEF IInv, Placed, Watched
<1> QED  BY <1>1, <1>3, <1>4, MoveKeeps DEF Places

\* A thread is marked for sleep.
LEMMA MarkForSleepKeeps ==
  ASSUME IInv, ~s.failed, NEW th \in Thread, MarkForSleep(th)
  PROVE  IInv'
<1>1. /\ at[th] = "app" /\ s.calls[th] < MaxCalls /\ at' = [at EXCEPT ![th] = "marked"]
      /\ UNCHANGED <<bvars, wd>>
  BY DEF MarkForSleep, MayCall
<1>2. s.state[th] = "RUNNING" /\ ~s.marked[th] /\ SInv(s, {}, None)
  BY <1>1 DEF IInv, Placed
<1>3. PICK n \in 1 .. MaxSleep :
        s' = [s EXCEPT !.marked[th] = TRUE, !.left[th] = n, !.futexWord[th] = 1]
  BY <1>2 DEF MarkForSleep, Checked
<1>4. /\ SInv(s', {}, None) /\ SameBut(s, s', {"marked", "left", "futexWord"})
      /\ s'.marked = [s.marked EXCEPT ![th] = TRUE]
  BY <1>2, <1>3, MarkKeeps
<1>5. /\ s'.state = s.state /\ s'.cid = s.cid /\ s'.calls = s.calls /\ s'.failed = s.failed
      /\ s'.handoffThread = s.handoffThread /\ s'.fakeLeaves = s.fakeLeaves
  BY <1>4 DEF SameBut, FieldNames
<1>6. \A u : InFakeLeave(s', u) <=> InFakeLeave(s, u)
  BY <1>5 DEF InFakeLeave
<1> HIDE DEF InFakeLeave
<1>7. s'.marked[th] /\ \A u \in Thread \ {th} : s'.marked[u] = s.marked[u]
  <2>1. s.marked \in [Thread -> BOOLEAN]
    BY <1>2, Types DEF SInv, Typed
  <2> QED  BY <1>4, <2>1
<1>8. \A u \in Thread \ {th} : Kept(s, s', at[u], u)
  BY <1>5, <1>6, <1>7 DEF Kept
<1>9. Placed(s', "marked", th) /\ Watched(s', "marked", wd, th)
  BY <1>1, <1>5, <1>6, <1>7 DEF IInv, Placed, Watched
<1>10. wd.stage = "leave" => wd.th # th
  BY <1>1 DEF IInv, Watching
<1>11. Agreed(s, at)'
  <2>1. /\ \A u \in Thread : s'.state[u] = "RUNNING" <=> s.state[u] = "RUNNING"
        /\ \A u \in Thread : s.state[u] = "RUNNING" =>
             /\ s'.cid[u] = s.cid[u]
             /\ at'[u] \in {"join", "sync"} <=> at[u] \in {"join", "sync"}
             /\ s.cid[u] \in b.done => at'[u] = at[u] /\ s'.handoffThread[u] = s.handoffThread[u]
    BY <1>1, <1>5 DEF IInv, Agreed, AtBarrier
  <2> QED  BY <1>1, <1>4, <2>1, AgreedStays
<1>12. Bar'
  BY <1>1, SameBar DEF IInv
<1> QED  BY <1>1, <1>4, <1>5, <1>8, <1>9, <1>10, <1>11, <1>12, StepKeeps DEF Places

\* The end of a sleep (notifySleepEnd)
LEMMA NotifySleepEndKeeps ==
  ASSUME IInv, ~s.failed, NEW th \in Thread, NotifySleepEnd(th)
  PROVE  IInv'
<1>1. at[th] = "ending" /\ at' = [at EXCEPT ![th] = "syscall"] /\ UNCHANGED <<bvars, wd>>
  BY DEF NotifySleepEnd
<1>2. ~s.marked[th] /\ s.state[th] \in {"SLEEPING", "BLOCKED"} /\ SInv(s, {}, None)
  BY <1>1 DEF IInv, Placed
<1>3. s' = IF s.state[th] = "SLEEPING" THEN Awake(s, th) ELSE s
  BY <1>2, Zenon DEF NotifySleepEnd, Checked
<1>4. /\ SInv(s', {}, None) /\ SameBut(s, s', {"state", "left", "sleepQueue"})
      /\ s'.state = [s.state EXCEPT ![th] = "BLOCKED"]
  <2>1. CASE s.state[th] = "SLEEPING"
    BY <1>2, <1>3, <2>1, AwakeKeeps
  <2>2. CASE s.state[th] # "SLEEPING"
    <3>1. s' = s /\ s.state[th] = "BLOCKED" /\ s.state \in [Thread -> ThreadStates]
      BY <1>2, <1>3, <2>2, Types DEF SInv, Typed
    <3> QED  BY <1>2, <3>1 DEF SameBut
  <2> QED  BY <2>1, <2>2
<1>5. /\ s'.cid = s.cid /\ s'.calls = s.calls /\ s'.failed = s.failed /\ s'.marked = s.marked
      /\ s'.handoffThread = s.handoffThread /\ s'.fakeLeaves = s.fakeLeaves
  BY <1>4 DEF SameBut, FieldNames
<1>6. \A u : InFakeLeave(s', u) <=> InFakeLeave(s, u)
  BY <1>5 DEF InFakeLeave
<1> HIDE DEF InFakeLeave
<1>7. s'.state[th] = "BLOCKED" /\ \A u \in Thread \ {th} : s'.state[u] = s.state[u]
  <2>1. s.state \in [Thread -> ThreadStates]
    BY <1>2, Types DEF SInv, Typed
  <2> QED  BY <1>4, <2>1
<1>8. \A u \in Thread \ {th} : Kept(s, s', at[u], u)
  BY <1>5, <1>6, <1>7 DEF Kept
<1>9. Placed(s', "syscall", th) /\ Watched(s', "syscall", wd, th)
  BY <1>1, <1>5, <1>6, <1>7 DEF IInv, Placed, Watched
<1>10. wd.stage = "leave" => wd.th # th
  BY <1>1 DEF IInv, Watching
<1>11. Agreed(s, at)'
  <2>1. /\ \A u \in Thread : s'.state[u] = "RUNNING" <=> s.state[u] = "RUNNING"
        /\ \A u \in Thread : s.state[u] = "RUNNING" =>
             /\ s'.cid[u] = s.cid[u]
             /\ at'[u] \in {"join", "sync"} <=> at[u] \in {"join", "sync"}
             /\ s.cid[u] \in b.done => at'[u] = at[u] /\ s'.handoffThread[u] = s.handoffThread[u]
    BY <1>1, <1>2, <1>5, <1>7 DEF IInv, Agreed, AtBarrier
  <2> QED  BY <1>1, <1>4, <2>1, AgreedStays
<1>12. Bar'
  BY <1>1, SameBar DEF IInv
<1> QED  BY <1>1, <1>4, <1>5, <1>8, <1>9, <1>10, <1>11, <1>12, StepKeeps DEF Places

\* The barrier lets a thread go on.
LEMMA BarWakeKeeps ==
  ASSUME IInv, ~s.failed, NEW th \in Thread, BarWake(th)
  PROVE  IInv'
<1> DEFINE c == s.cid[th]
           p == IF at[th] = "sync" /\ s.handoffThread[th] # None THEN "handoff" ELSE "app"
<1>1. /\ at[th] \in {"join", "sync"} /\ B!WakeUp(c) /\ at' = [at EXCEPT ![th] = p]
      /\ s' = s /\ wd' = wd
  BY DEF BarWake
<1>2. /\ c \in Context /\ s.state[th] = "RUNNING" /\ SInv(s, {}, None) /\ Bar
  BY <1>1, Types DEF IInv, Placed, SInv, Typed
<1>3. Bar' /\ b' = b /\ inWait' = inWait \ {c} /\ Live' = Live /\ c \in inWait /\ b.state[c] = "RUNNING"
  BY <1>1, <1>2, WakeUpTold
<1>4. \A u : \A q : Kept(s, s', q, u)
  BY <1>1 DEF Kept
<1>5. Placed(s, p, th) /\ Watched(s, p, wd, th)
  BY <1>1 DEF IInv, Placed, Watched
<1>6. wd.stage = "leave" => wd.th # th
  BY <1>1 DEF IInv, Watching
<1>7. c \notin b.done
  <2>1. BP!Ahead(b)
    BY <1>2 DEF Bar, BP!IInv, BP!BInv
  <2> QED  BY <1>3, <2>1 DEF BP!Ahead, BP!In
<1>8. Agreed(s, at)'
  <2>1. \A d \in Context : d \in Live' <=> Busy(s', d)
    BY <1>1, <1>3 DEF IInv, Agreed
  <2>2. \A d \in Context : b'.state[d] = "WAITING" => d \in inWait'
    BY <1>3 DEF IInv, Agreed
  <2>3. ASSUME NEW u \in Thread, s'.state[u] = "RUNNING" PROVE AtBarrier(s, at, u)'
    <3>1. AtBarrier(s, at, u)
      BY <1>1, <2>3 DEF IInv, Agreed
    <3>2. CASE u = th
      BY <1>1, <1>3, <1>7, <3>2 DEF IInv, AtBarrier
    <3>3. CASE u # th
      <4>1. s.cid[u] # c
        BY <1>1, <1>2, <2>3, <3>3 DEF SInv, Owned, Scheduled
      <4> QED  BY <1>1, <1>3, <3>1, <3>3, <4>1 DEF IInv, AtBarrier
    <3> QED  BY <3>2, <3>3
  <2> QED  BY <2>1, <2>2, <2>3 DEF Agreed
<1> QED  BY <1>1, <1>2, <1>3, <1>4, <1>5, <1>6, <1>8, StepKeeps DEF IInv, Places

-----------------------------------------------------------------------------
(* The calls of the barrier                                                *)

\* From x to y only thread th changes in what matters to the others.
Besides(x, y, th) ==
  \A u \in Thread \ {th} :
    /\ y.state[u] = x.state[u] /\ y.cid[u] = x.cid[u]
    /\ y.marked[u] = x.marked[u] /\ y.handoffThread[u] = x.handoffThread[u]

\* From x to y the phase may have ended.
After(x, y) ==
  /\ y.cid = x.cid /\ y.marked = x.marked /\ y.failed = x.failed /\ y.fakeLeaves = x.fakeLeaves
  /\ \A u \in Thread :
       /\ y.state[u] = x.state[u] \/ (x.state[u] = "SLEEPING" /\ y.state[u] = "BLOCKED")
       /\ y.calls[u] = x.calls[u] \/ y.calls[u] = 0

\* When the phase ends, all others that run have synced.
LEMMA AfterPhaseKeeps ==
  ASSUME IInv, NEW th \in Thread, s.state[th] = "RUNNING",
         NEW x, SInv(x, {}, None), Besides(s, x, th), ~x.marked[th], x.handoffThread[th] = None,
         b'.phaseCount # b.phaseCount => \A d \in Live \ {s.cid[th]} : d \in b.done,
         s' \in AfterPhase(x)
  PROVE  /\ SInv(s', {}, None) /\ After(x, s')
         /\ \A u \in Thread : s'.handoffThread[u] = x.handoffThread[u]
              \/ /\ x.handoffThread[u] = None /\ b'.phaseCount # b.phaseCount
                 /\ u = th \/ at[u] = "sync"
<1>1. CASE b'.phaseCount = b.phaseCount
  <2>1. s' = x
    BY <1>1 DEF AfterPhase
  <2> QED  BY <2>1 DEF After
<1>2. CASE b'.phaseCount # b.phaseCount
  <2> DEFINE z == [x EXCEPT !.calls = [t \in Thread |-> 0]]
  <2>1. s' \in Callback(z)
    BY <1>2 DEF AfterPhase
  <2>2. z \in Schedulers /\ SameBut(x, z, {"calls"}) /\ z.calls = [t \in Thread |-> 0]
    <3>1. [t \in Thread |-> 0] \in [Thread -> 0 .. MaxCalls]
      BY SchedulerAssumption
    <3>2. x \in Schedulers
      BY DEF SInv
    <3> QED  BY <3>1, <3>2 DEF Schedulers, SameBut, FieldNames
  <2> HIDE DEF z
  <2>3. /\ z.state = x.state /\ z.cid = x.cid /\ z.marked = x.marked /\ z.failed = x.failed
        /\ z.handoffThread = x.handoffThread /\ z.fakeLeaves = x.fakeLeaves
    BY <2>2 DEF SameBut, FieldNames
  <2>4. SInv(z, {}, None)
    <3>1. SameBut(x, z, {"calls", "blockingSyscalls", "failed", "phase"})
      BY <2>2 DEF SameBut
    <3> QED  BY <2>2, <3>1, SameScheduler
  <2>5. ASSUME NEW u \in Thread \ {th}, x.state[u] = "RUNNING"
        PROVE  at[u] = "sync" /\ ~x.marked[u] /\ x.handoffThread[u] = None
    <3>1. s.state[u] = "RUNNING" /\ s.cid[u] \in Context /\ SInv(s, {}, None)
      BY <2>5, Types DEF Besides, IInv, SInv, Typed
    <3>2. s.cid[u] \in Live /\ s.cid[u] # s.cid[th]
      <4>1. s.cid[u] # s.cid[th]
        BY <2>5, <3>1 DEF SInv, Owned, Scheduled
      <4>2. Busy(s, s.cid[u])
        BY <3>1, BusyIs
      <4> QED  BY <3>1, <4>1, <4>2 DEF IInv, Agreed
    <3>3. at[u] = "sync" /\ s.handoffThread[u] = None
      BY <1>2, <2>5, <3>1, <3>2 DEF IInv, Agreed, AtBarrier
    <3> QED  BY <2>5, <3>3 DEF Besides, IInv, Placed
  <2>6. \A t \in Thread : ~z.marked[t] /\ z.handoffThread[t] = None
    <3>1. \A t \in Thread \ {th} : x.marked[t] \/ x.handoffThread[t] # None => x.state[t] = "RUNNING"
      BY DEF SInv, Words, Promised
    <3> QED  BY <2>3, <2>5, <3>1
  <2>7. /\ SInv(s', {}, None)
        /\ SameBut(z, s', {"phase", "left", "state", "futexWord", "sleepQueue",
                           "handoffThread", "runQueue"})
        /\ \A u \in Thread : s'.state[u] = z.state[u]
                               \/ (z.state[u] = "SLEEPING" /\ s'.state[u] = "BLOCKED")
    BY <2>1, <2>4, <2>6, CallbackKeeps
  <2>8. /\ s'.cid = x.cid /\ s'.marked = x.marked /\ s'.failed = x.failed
        /\ s'.fakeLeaves = x.fakeLeaves /\ s'.calls = [t \in Thread |-> 0]
    BY <2>2, <2>3, <2>7 DEF SameBut, FieldNames
  <2>9. After(x, s')
    BY <2>3, <2>7, <2>8 DEF After
  <2>10. ASSUME NEW u \in Thread, s'.handoffThread[u] # None
         PROVE  u = th \/ at[u] = "sync"
    <3>1. s'.state[u] = "RUNNING"
      BY <2>7, <2>10 DEF SInv, Promised
    <3>2. x.state[u] = "RUNNING"
      BY <2>3, <2>7, <3>1
    <3> QED  BY <2>5, <3>2
  <2> QED  BY <1>2, <2>3, <2>6, <2>7, <2>9, <2>10
<1> QED  BY <1>1, <1>2

\* A thread leaves the barrier.
LEMMA BarLeaveKeeps ==
  ASSUME IInv, NEW th \in Thread, s.state[th] = "RUNNING", at[th] \notin {"join", "sync"},
         NEW x, SInv(x, {}, None), Besides(s, x, th), ~x.marked[th], x.handoffThread[th] = None,
         x.state[th] \in {"OUT", "SLEEPING"},
         BarLeave(s.cid[th], x), \A u \in Thread \ {th} : at'[u] = at[u]
  PROVE  /\ SInv(s', {}, None) /\ After(x, s') /\ Bar' /\ Agreed(s, at)'
         /\ \A u \in Thread : s'.handoffThread[u] = x.handoffThread[u]
              \/ (x.handoffThread[u] = None /\ at[u] = "sync")
<1> DEFINE c == s.cid[th]
<1>1. /\ c \in Context /\ SInv(s, {}, None) /\ Bar
      /\ Agreed(s, at) /\ Busy(s, c)
  <2>1. c \in Context /\ SInv(s, {}, None)
    BY Types DEF IInv, SInv, Typed
  <2> QED  BY <2>1, BusyIs DEF IInv
<1>2. b.state[c] = "RUNNING" /\ c \notin inWait
  BY <1>1, BarIs DEF Agreed, AtBarrier
<1>3. B!Leave(c) /\ s' \in AfterPhase(x)
  BY <1>2 DEF BarLeave
<1>4. /\ Bar' /\ Live' = Live \ {c} /\ inWait' = inWait
      /\ \A d \in Context : b'.state[d] = "WAITING" => b.state[d] = "WAITING"
      /\ b'.done \subseteq b.done
      /\ b'.phaseCount # b.phaseCount => b'.done = {} /\ \A d \in Live \ {c} : d \in b.done
  BY <1>1, <1>3, LeaveTold
<1>5. /\ SInv(s', {}, None) /\ After(x, s')
      /\ \A u \in Thread : s'.handoffThread[u] = x.handoffThread[u]
           \/ /\ x.handoffThread[u] = None /\ b'.phaseCount # b.phaseCount
              /\ u = th \/ at[u] = "sync"
  BY <1>3, <1>4, AfterPhaseKeeps
<1>6. \A u \in Thread : s'.state[u] = "RUNNING" <=> u # th /\ s.state[u] = "RUNNING"
  BY <1>5 DEF After, Besides
<1>7. \A u \in Thread \ {th} : s'.cid[u] = s.cid[u]
  BY <1>5 DEF After, Besides
<1>8. s'.handoffThread[th] = None
  BY <1>5, <1>6 DEF SInv, Promised
<1>9. \A d \in Context : Busy(s', d) <=> Busy(s, d) /\ d # c
  <2>1. /\ \A d \in Context : Busy(s', d) <=> \E u \in Thread : s'.state[u] = "RUNNING" /\ s'.cid[u] = d
        /\ \A d \in Context : Busy(s, d) <=> \E u \in Thread : s.state[u] = "RUNNING" /\ s.cid[u] = d
    BY <1>1, <1>5, BusyIs
  <2>2. \A u \in Thread : s.state[u] = "RUNNING" /\ s.cid[u] = c => u = th
    BY <1>1 DEF SInv, Owned, Scheduled
  <2> QED  BY <1>6, <1>7, <2>1, <2>2
<1>10. Agreed(s, at)'
  <2>1. \A d \in Context : d \in Live' <=> Busy(s', d)
    BY <1>1, <1>4, <1>9 DEF Agreed
  <2>2. \A d \in Context : b'.state[d] = "WAITING" => d \in inWait'
    BY <1>1, <1>4 DEF Agreed
  <2>3. ASSUME NEW u \in Thread, s'.state[u] = "RUNNING" PROVE AtBarrier(s, at, u)'
    <3>1. u # th /\ s.state[u] = "RUNNING" /\ s'.cid[u] = s.cid[u] /\ at'[u] = at[u]
      BY <1>6, <1>7, <2>3
    <3>2. AtBarrier(s, at, u) /\ x.handoffThread[u] = s.handoffThread[u]
      BY <1>1, <3>1 DEF Agreed, Besides
    <3> QED  BY <1>4, <1>5, <3>1, <3>2 DEF AtBarrier
  <2> QED  BY <2>1, <2>2, <2>3 DEF Agreed
<1>11. ASSUME NEW u \in Thread
       PROVE  s'.handoffThread[u] = x.handoffThread[u] \/ (x.handoffThread[u] = None /\ at[u] = "sync")
  BY <1>5, <1>8
<1> QED  BY <1>4, <1>5, <1>10, <1>11

\* A thread that has been given a context joins the barrier.
LEMMA BarJoinKeeps ==
  ASSUME IInv, NEW th \in Thread, NEW x, SInv(x, {}, None), x.state[th] = "RUNNING",
         ~Busy(s, x.cid[th]),
         \A d \in Context : Busy(x, d) <=> Busy(s, d) \/ d = x.cid[th],
         \A u \in Thread \ {th} : x.state[u] = "RUNNING" => AtBarrier(x, at, u),
         BarJoin(th, x)
  PROVE  /\ s' = x /\ Bar' /\ Agreed(s, at)'
         /\ \E p \in {"join", "app"} : at' = [at EXCEPT ![th] = p]
<1> DEFINE c == x.cid[th]
<1>1. c \in Context /\ Bar /\ Agreed(s, at) /\ at \in [Thread -> Places]
  BY Types DEF IInv, SInv, Typed
<1>2. b.state[c] \in {"LEFT", "OFFLINE"} /\ c \notin inWait
  BY <1>1, BarIs DEF Agreed
<1>3. B!HadItsTurn(c) => b.runList[b.lastIdx[c]] = c
  BY <1>1, JoinFinds
<1>4. /\ B!Join(c) /\ s' \in AfterPhase(x)
      /\ at' = [at EXCEPT ![th] = IF c \in inWait' THEN "join" ELSE "app"]
  BY <1>2, <1>3 DEF BarJoin
<1>5. /\ Bar' /\ b'.phaseCount = b.phaseCount /\ Live' = Live \cup {c}
      /\ \A d \in Context : b'.state[d] = "WAITING" => b.state[d] = "WAITING" \/ d = c
      /\ inWait' = IF b'.state[c] = "WAITING" THEN inWait \cup {c} ELSE inWait
      /\ b'.done \subseteq b.done /\ c \notin b.done
  BY <1>1, <1>4, JoinTold
<1>6. s' = x
  BY <1>4, <1>5 DEF AfterPhase
<1>7. \A d \in Context : d \in Live' <=> Busy(s', d)
  BY <1>1, <1>5, <1>6 DEF Agreed
<1>8. \A d \in Context : b'.state[d] = "WAITING" => d \in inWait'
  BY <1>1, <1>5 DEF Agreed
<1>9. ASSUME NEW u \in Thread, s'.state[u] = "RUNNING" PROVE AtBarrier(s, at, u)'
  <2>1. CASE u = th
    <3>1. at'[u] = IF c \in inWait' THEN "join" ELSE "app"
      BY <1>1, <1>4, <2>1
    <3> QED  BY <1>5, <1>6, <2>1, <3>1 DEF AtBarrier
  <2>2. CASE u # th
    <3>1. x.cid[u] # c
      BY <1>1, <1>6, <1>9, <2>2 DEF SInv, Owned, Scheduled
    <3>2. at'[u] = at[u] /\ AtBarrier(x, at, u)
      BY <1>1, <1>4, <1>6, <1>9, <2>2
    <3> QED  BY <1>5, <1>6, <3>1, <3>2 DEF AtBarrier
  <2> QED  BY <2>1, <2>2
<1> QED  BY <1>4, <1>5, <1>6, <1>7, <1>8, <1>9 DEF Agreed

\* What an ended phase leaves of the others
LEMMA AfterKept ==
  ASSUME NEW x, NEW y, NEW z, NEW u \in Thread, NEW p, Kept(x, y, p, u),
         y.state[u] # "SLEEPING" \/ x.state[u] = "SLEEPING", After(y, z),
         z.handoffThread[u] = y.handoffThread[u] \/ (y.handoffThread[u] = None /\ p = "sync")
  PROVE  Kept(x, z, p, u)
<1>1. InFakeLeave(z, u) <=> InFakeLeave(y, u)
  BY DEF After, InFakeLeave
<1> HIDE DEF InFakeLeave
<1> QED  BY <1>1 DEF After, Kept

\* A thread comes to the end of its phase.
LEMMA SyncKeeps ==
  ASSUME IInv, ~s.failed, NEW th \in Thread, Sync(th)
  PROVE  IInv'
<1> DEFINE c == s.cid[th]
<1>1. at[th] = "app" /\ wd' = wd
  BY DEF Sync
<1>2. /\ s.state[th] = "RUNNING" /\ ~s.marked[th] /\ s.handoffThread[th] = None
      /\ c \in Context /\ Bar /\ Agreed(s, at) /\ SInv(s, {}, None) /\ at \in [Thread -> Places]
  BY <1>1, Types DEF IInv, Placed, SInv, Typed
<1>3. b.state[c] = "RUNNING"
  <2>1. c \notin inWait /\ Busy(s, c)
    BY <1>1, <1>2, BusyIs DEF Agreed, AtBarrier
  <2> QED  BY <1>2, <2>1, BarIs DEF Agreed
<1> DEFINE p == IF c \in inWait' THEN "sync"
                ELSE IF s'.handoffThread[th] # None THEN "handoff" ELSE "app"
<1>4. B!Sync(c) /\ s' \in AfterPhase(s) /\ at' = [at EXCEPT ![th] = p]
  BY <1>2, <1>3 DEF Sync
<1>5. /\ Bar' /\ Live' = Live /\ c \in Live /\ c \notin inWait
      /\ \A d \in Context : b'.state[d] = "WAITING" => b.state[d] = "WAITING" \/ d = c
      /\ inWait' = IF b'.state[c] = "WAITING" THEN inWait \cup {c} ELSE inWait
      /\ b'.done \subseteq b.done \cup {c}
      /\ b'.phaseCount # b.phaseCount => b'.done = {} /\ \A d \in Live \ {c} : d \in b.done
  BY <1>2, <1>4, SyncTold
<1>6. /\ SInv(s', {}, None) /\ After(s, s')
      /\ \A u \in Thread : s'.handoffThread[u] = s.handoffThread[u]
           \/ /\ s.handoffThread[u] = None /\ b'.phaseCount # b.phaseCount
              /\ u = th \/ at[u] = "sync"
  <2>1. Besides(s, s, th)
    BY DEF Besides
  <2> QED  BY <1>2, <1>4, <1>5, <2>1, AfterPhaseKeeps
<1>7. \A u \in Thread \ {th} : Kept(s, s', at[u], u)
  <2> SUFFICES ASSUME NEW u \in Thread \ {th} PROVE Kept(s, s', at[u], u)
    OBVIOUS
  <2>1. Kept(s, s, at[u], u)
    BY DEF Kept
  <2> QED  BY <1>6, <2>1, AfterKept
<1>8. Placed(s', p, th) /\ Watched(s', p, wd, th)
  <2>1. s'.state[th] = "RUNNING" /\ ~s'.marked[th] /\ ~InFakeLeave(s', th)
    BY <1>1, <1>2, <1>6 DEF After, IInv, Placed, InFakeLeave
  <2> HIDE DEF InFakeLeave
  <2>2. p = "sync" \/ (p = "handoff" /\ s'.handoffThread[th] # None)
          \/ (p = "app" /\ s'.handoffThread[th] = None)
    OBVIOUS
  <2> HIDE DEF p
  <2> QED  BY <2>1, <2>2 DEF Placed, Watched
<1>9. wd.stage = "leave" => wd.th # th
  BY <1>1 DEF IInv, Watching
<1>10. Agreed(s, at)'
  <2>1. \A u \in Thread : (s'.state[u] = "RUNNING" <=> s.state[u] = "RUNNING") /\ s'.cid[u] = s.cid[u]
    BY <1>6 DEF After
  <2>2. \A d \in Context : Busy(s', d) <=> Busy(s, d)
    <3>1. /\ \A d \in Context : Busy(s', d) <=> \E u \in Thread : s'.state[u] = "RUNNING" /\ s'.cid[u] = d
          /\ \A d \in Context : Busy(s, d) <=> \E u \in Thread : s.state[u] = "RUNNING" /\ s.cid[u] = d
      BY <1>2, <1>6, BusyIs
    <3> QED  BY <2>1, <3>1
  <2>3. \A d \in Context : d \in Live' <=> Busy(s', d)
    BY <1>2, <1>5, <2>2 DEF Agreed
  <2>4. \A d \in Context : b'.state[d] = "WAITING" => d \in inWait'
    BY <1>2, <1>5 DEF Agreed
  <2>5. ASSUME NEW u \in Thread, s'.state[u] = "RUNNING" PROVE AtBarrier(s, at, u)'
    <3>1. s'.cid[u] = s.cid[u] /\ AtBarrier(s, at, u)
      BY <1>2, <2>1, <2>5 DEF Agreed
    <3>2. CASE u = th
      <4>1. at'[u] = p
        BY <1>2, <1>4, <3>2
      <4>2. c \in inWait' <=> p \in {"join", "sync"}
        OBVIOUS
      <4>3. c \in b'.done => c \in inWait' /\ s'.handoffThread[th] = None
        <5>1. c \in b'.done => b'.state[c] = "WAITING"
          <6>1. BP!Ahead(b)'
            BY <1>5 DEF Bar, BP!IInv, BP!BInv
          <6> QED  BY <6>1 DEF BP!Ahead, BP!In
        <5>2. c \in b'.done => b'.phaseCount = b.phaseCount
          BY <1>5
        <5> QED  BY <1>2, <1>5, <1>6, <5>1, <5>2
      <4>4. c \in inWait' => p = "sync"
        OBVIOUS
      <4> HIDE DEF p
      <4> QED  BY <3>1, <3>2, <4>1, <4>2, <4>3, <4>4 DEF AtBarrier
    <3>3. CASE u # th
      <4>1. s.cid[u] # c
        BY <1>2, <2>1, <2>5, <3>3 DEF SInv, Owned, Scheduled
      <4>2. at'[u] = at[u]
        BY <1>2, <1>4, <3>3
      <4>3. s.cid[u] \in inWait' <=> s.cid[u] \in inWait
        BY <1>5, <4>1
      <4>4. s.cid[u] \in b'.done => s.cid[u] \in b.done /\ s'.handoffThread[u] = s.handoffThread[u]
        BY <1>5, <1>6, <4>1
      <4> QED  BY <3>1, <4>2, <4>3, <4>4 DEF AtBarrier
    <3> QED  BY <3>2, <3>3
  <2> QED  BY <2>3, <2>4, <2>5 DEF Agreed
<1>11. p \in Places
  BY DEF Places
<1>12. s'.failed = s.failed
  BY <1>6 DEF After
<1> HIDE DEF p
<1> QED  BY <1>1, <1>4, <1>5, <1>6, <1>7, <1>8, <1>9, <1>10, <1>11, <1>12, StepKeeps

-----------------------------------------------------------------------------
(* Leaving                                                                 *)

\* A thread that runs stops, or goes to sleep if it is marked.
LEMMA StopKeeps ==
  ASSUME NEW x, SInv(x, {}, None), NEW th \in Thread, x.state[th] = "RUNNING", Idles(x, th)
  PROVE  LET y == IF x.marked[th] THEN Asleep(x, th) ELSE Deschedule(x, th, "BLOCKED") IN
         /\ SInv(y, {}, x.cid[th])
         /\ SameBut(x, y, {"state", "curThread", "marked", "sleepQueue"})
         /\ y.state[th] = IF x.marked[th] THEN "SLEEPING" ELSE "BLOCKED"
         /\ ~y.marked[th]
         /\ \A u \in Thread \ {th} : y.state[u] = x.state[u] /\ y.marked[u] = x.marked[u]
<1>1. x.state \in [Thread -> ThreadStates] /\ x.marked \in [Thread -> BOOLEAN]
  BY Types DEF SInv, Typed
<1>2. CASE x.marked[th]
  <2> DEFINE y == Asleep(x, th)
  <2>1. /\ SInv(y, {}, x.cid[th])
        /\ SameBut(x, y, {"state", "curThread", "marked", "sleepQueue"})
        /\ y.state = [x.state EXCEPT ![th] = "SLEEPING"]
        /\ y.marked = [x.marked EXCEPT ![th] = FALSE]
    BY <1>2, AsleepKeeps
  <2> HIDE DEF y
  <2>2. /\ y.state[th] = "SLEEPING" /\ ~y.marked[th]
        /\ \A u \in Thread \ {th} : y.state[u] = x.state[u] /\ y.marked[u] = x.marked[u]
    BY <1>1, <2>1
  <2> QED  BY <1>2, <2>1, <2>2 DEF y
<1>3. CASE ~x.marked[th]
  <2> DEFINE y == Deschedule(x, th, "BLOCKED")
  <2>1. /\ SInv(y, {}, x.cid[th]) /\ SameBut(x, y, {"state", "curThread"})
        /\ y.state = [x.state EXCEPT ![th] = "BLOCKED"]
    BY <1>3, BlockKeeps
  <2> HIDE DEF y
  <2>2. y.marked = x.marked /\ SameBut(x, y, {"state", "curThread", "marked", "sleepQueue"})
    BY <2>1 DEF SameBut, FieldNames
  <2>3. /\ y.state[th] = "BLOCKED"
        /\ \A u \in Thread \ {th} : y.state[u] = x.state[u]
    BY <1>1, <2>1
  <2> QED  BY <1>3, <2>1, <2>2, <2>3 DEF y
<1> QED  BY <1>2, <1>3

\* A thread that runs makes way for one that waits: the barrier sees no change.
LEMMA PassedOn ==
  ASSUME IInv, NEW th \in Thread, s.state[th] = "RUNNING", at[th] \notin {"join", "sync"},
         NEW next \in Thread, s.state[next] = "QUEUED",
         NEW x, NEW L, SInv(x, L, None), x.state[next] = "RUNNING", x.cid[next] = s.cid[th],
         x.state[th] # "RUNNING",
         \A u \in Thread \ {th, next} :
           x.state[u] = s.state[u] /\ x.cid[u] = s.cid[u] /\ x.handoffThread[u] = s.handoffThread[u]
  PROVE  /\ \A d \in Context : Busy(x, d) <=> Busy(s, d)
         /\ \A u \in Thread : x.state[u] = "RUNNING" => AtBarrier(x, at, u)
<1>1. SInv(s, {}, None) /\ Agreed(s, at)
  BY DEF IInv
<1>2. /\ \A d \in Context : Busy(x, d) <=> \E u \in Thread : x.state[u] = "RUNNING" /\ x.cid[u] = d
      /\ \A d \in Context : Busy(s, d) <=> \E u \in Thread : s.state[u] = "RUNNING" /\ s.cid[u] = d
  BY <1>1, BusyIs
<1>3. \A d \in Context : Busy(x, d) <=> Busy(s, d)
  <2>1. ASSUME NEW u \in Thread, x.state[u] = "RUNNING"
        PROVE  \E v \in Thread : s.state[v] = "RUNNING" /\ s.cid[v] = x.cid[u]
    <3>1. CASE u = next
      BY <3>1
    <3>2. CASE u # next
      BY <2>1, <3>2
    <3> QED  BY <3>1, <3>2
  <2>2. ASSUME NEW u \in Thread, s.state[u] = "RUNNING"
        PROVE  \E v \in Thread : x.state[v] = "RUNNING" /\ x.cid[v] = s.cid[u]
    <3>1. CASE u = th
      BY <3>1
    <3>2. CASE u # th
      BY <2>2, <3>2
    <3> QED  BY <3>1, <3>2
  <2> QED  BY <1>2, <2>1, <2>2
<1>4. ASSUME NEW u \in Thread, x.state[u] = "RUNNING" PROVE AtBarrier(x, at, u)
  <2>1. CASE u = next
    <3>1. s.cid[th] \notin inWait /\ s.cid[th] \notin b.done
      BY <1>1 DEF Agreed, AtBarrier
    <3>2. at[next] \notin {"join", "sync"}
      BY DEF IInv, Placed
    <3> QED  BY <2>1, <3>1, <3>2 DEF AtBarrier
  <2>2. CASE u # next
    <3>1. s.state[u] = "RUNNING" /\ x.cid[u] = s.cid[u] /\ x.handoffThread[u] = s.handoffThread[u]
      BY <1>4, <2>2
    <3> QED  BY <1>1, <3>1 DEF Agreed, AtBarrier
  <2> QED  BY <2>1, <2>2
<1> QED  BY <1>3, <1>4

\* The context of a thread that has stopped goes to one that waits for it.
LEMMA HandedKeeps ==
  ASSUME NEW x, NEW k \in Context, SInv(x, {}, k), NEW th \in ToSet(x.runQueue), k \in mask[th]
  PROVE  LET y == Wakeup(Schedule([x EXCEPT !.runQueue = Without(@, {th})], th, k), th) IN
         /\ SInv(y, {}, None)
         /\ SameBut(x, y, {"runQueue", "state", "cid", "curThread", "futexWord"})
         /\ th \in Thread /\ x.state[th] = "QUEUED" /\ y.state[th] = "RUNNING" /\ y.cid[th] = k
         /\ \A u \in Thread \ {th} : y.state[u] = x.state[u] /\ y.cid[u] = x.cid[u]
<1> DEFINE x1 == [x EXCEPT !.runQueue = Without(@, {th})]
           x2 == Schedule(x1, th, k)
           y == Wakeup(x2, th)
<1>1. Typed(x) /\ x \in Schedulers
  BY Types DEF SInv
<1>2. th \in Thread /\ x.state[th] = "QUEUED" /\ x.futexWord[th] = 1 /\ ~x.marked[th]
  <2>1. x.runQueue \in Seq(Thread)
    BY <1>1 DEF Typed
  <2>2. th \in Thread
    BY <2>1, Members
  <2> QED  BY <2>2 DEF SInv, Promised, Words
<1>3. SInv(x1, {} \cup {th}, k) /\ SameBut(x, x1, {"runQueue"})
  BY UnqueueKeeps
<1> HIDE DEF x1
<1>4. x1.state = x.state /\ x1.cid = x.cid /\ x1.marked = x.marked /\ x1.futexWord = x.futexWord
  BY <1>3 DEF SameBut, FieldNames
<1>5. SInv(x1, {th}, k)
  <2>1. {} \cup {th} = {th}
    OBVIOUS
  <2> QED  BY <1>3, <2>1
<1>6. /\ SInv(x2, {th} \ {th}, None) /\ SameBut(x1, x2, {"state", "cid", "curThread"})
      /\ \A u \in Thread : /\ x2.state[u] = IF u = th THEN "RUNNING" ELSE x1.state[u]
                           /\ x2.cid[u] = IF u = th THEN k ELSE x1.cid[u]
  BY <1>2, <1>4, <1>5, ScheduleKeeps
<1> HIDE DEF x2
<1>7. SInv(x2, {}, None)
  <2>1. {th} \ {th} = {}
    OBVIOUS
  <2> QED  BY <1>6, <2>1
<1>8. x2.marked = x1.marked /\ x2.futexWord = x1.futexWord
  BY <1>6 DEF SameBut, FieldNames
<1>9. /\ x2.state[th] = "RUNNING" /\ x2.cid[th] = k
      /\ \A u \in Thread \ {th} : x2.state[u] = x.state[u] /\ x2.cid[u] = x.cid[u]
  BY <1>2, <1>4, <1>6
<1>10. SInv(y, {}, None) /\ SameBut(x2, y, {"futexWord"})
  BY <1>2, <1>4, <1>7, <1>8, <1>9, WakeupKeeps
<1> HIDE DEF y
<1>11. y.state = x2.state /\ y.cid = x2.cid
  BY <1>10 DEF SameBut, FieldNames
<1>12. SameBut(x, y, {"runQueue", "state", "cid", "curThread", "futexWord"})
  BY <1>3, <1>6, <1>10 DEF SameBut, FieldNames
<1> QED  BY <1>2, <1>9, <1>10, <1>11, <1>12 DEF y, x2, x1

\* leave, of a thread that runs: it leaves its context to the next in the run
\* queue, or leaves the barrier.
Leaves(th) ==
  /\ SInv(s', {}, None) /\ Bar' /\ Agreed(s, at)' /\ ~s'.failed
  /\ ~s'.marked[th] /\ s'.handoffThread[th] = None /\ ~InFakeLeave(s', th)
  /\ s'.state[th] \in {"OUT", "BLOCKED"} \/ (s.marked[th] /\ s'.state[th] = "SLEEPING")
  /\ \A u \in Thread \ {th} : Kept(s, s', at[u], u)

\* A thread leaves its context, and the context the barrier unless it has another thread.
LEMMA DoLeaveKeeps ==
  ASSUME IInv, ~s.failed, NEW th \in Thread, s.state[th] = "RUNNING",
         at[th] \in {"app", "marked", "leaving", "syscall"}, ~InFakeLeave(s, th),
         NEW x, SInv(x, {}, None), SameBut(s, x, {"calls"}),
         \A u \in Thread \ {th} : x.calls[u] = s.calls[u],
         DoLeave(th, proc[th], s.cid[th], x), \A u \in Thread \ {th} : at'[u] = at[u]
  PROVE  Leaves(th)
<1> DEFINE c == s.cid[th]
           next == ThreadFor(x, c)
           y == IF x.marked[th] THEN Asleep(x, th) ELSE Deschedule(x, th, "BLOCKED")
<1>1. /\ x.state = s.state /\ x.cid = s.cid /\ x.marked = s.marked /\ x.failed = s.failed
      /\ x.handoffThread = s.handoffThread /\ x.fakeLeaves = s.fakeLeaves
      /\ x.curThread = s.curThread
  BY DEF SameBut, FieldNames
<1>2. /\ SInv(s, {}, None) /\ x \in Schedulers /\ c \in Context
      /\ Agreed(s, at) /\ Bar /\ x.curThread[c] = th
  <2>1. SInv(s, {}, None) /\ c \in Context
    BY Types DEF IInv, SInv, Typed
  <2>2. s.curThread[c] = th
    BY <2>1 DEF SInv, Owned, Scheduled
  <2> QED  BY <1>1, <2>1, <2>2 DEF IInv, SInv
<1>3. Idles(x, th) /\ s.handoffThread[th] = None
  <2>1. s.handoffThread[th] = None
    BY DEF IInv, Placed
  <2>2. s.fakeLeaves \in Seq([th : Thread, pc : Syscall])
    BY <1>2, Types DEF SInv, Typed
  <2>3. \A f \in ToSet(s.fakeLeaves) : f.th # th
    BY DEF InFakeLeave, ToSet
  <2> QED  BY <1>1, <2>1, <2>3 DEF Idles
<1>4. /\ next = None => \A u \in ToSet(x.runQueue) : c \notin mask[u]
      /\ next # None => next \in ToSet(x.runQueue) /\ c \in mask[next] /\ next \in Thread
  BY <1>2, ThreadForIs
<1>5. /\ SInv(y, {}, c)
      /\ SameBut(x, y, {"state", "curThread", "marked", "sleepQueue"})
      /\ y.state[th] = IF x.marked[th] THEN "SLEEPING" ELSE "BLOCKED"
      /\ ~y.marked[th]
      /\ \A u \in Thread \ {th} : y.state[u] = x.state[u] /\ y.marked[u] = x.marked[u]
  BY <1>1, <1>3, StopKeeps
<1>7. CASE next # None
  <2>1. /\ s' = Wakeup(Schedule([y EXCEPT !.runQueue = Without(@, {next})], next, c), next)
        /\ UNCHANGED bvars
    BY <1>1, <1>2, <1>7, Zenon DEF DoLeave
  <2> HIDE DEF y, next
  <2>2. /\ y.runQueue = x.runQueue /\ y.cid = x.cid /\ y.failed = x.failed /\ y.calls = x.calls
        /\ y.handoffThread = x.handoffThread /\ y.fakeLeaves = x.fakeLeaves
    BY <1>5 DEF SameBut, FieldNames
  <2>3. next \in ToSet(y.runQueue) /\ c \in mask[next] /\ next \in Thread
    BY <1>4, <1>7, <2>2
  <2>4. /\ SInv(s', {}, None)
        /\ SameBut(y, s', {"runQueue", "state", "cid", "curThread", "futexWord"})
        /\ y.state[next] = "QUEUED" /\ s'.state[next] = "RUNNING" /\ s'.cid[next] = c
        /\ \A u \in Thread \ {next} : s'.state[u] = y.state[u] /\ s'.cid[u] = y.cid[u]
    BY <1>2, <1>5, <2>1, <2>3, HandedKeeps
  <2>5. /\ s'.marked = y.marked /\ s'.failed = y.failed /\ s'.calls = y.calls
        /\ s'.handoffThread = y.handoffThread /\ s'.fakeLeaves = y.fakeLeaves
    BY <2>4 DEF SameBut, FieldNames
  <2>6. next # th
    BY <1>5, <2>4
  <2>7. /\ s.state[next] = "QUEUED" /\ s'.state[th] # "RUNNING"
        /\ \A u \in Thread \ {th, next} :
             s'.state[u] = s.state[u] /\ s'.cid[u] = s.cid[u] /\ s'.handoffThread[u] = s.handoffThread[u]
    BY <1>1, <1>5, <2>2, <2>3, <2>4, <2>5, <2>6
  <2>8. /\ \A d \in Context : Busy(s', d) <=> Busy(s, d)
        /\ \A u \in Thread : s'.state[u] = "RUNNING" => AtBarrier(s', at, u)
    BY <2>3, <2>4, <2>7, PassedOn
  <2>9. Bar' /\ Live' = Live /\ b' = b /\ inWait' = inWait
    BY <1>2, <2>1, SameBar DEF bvars
  <2>10. Agreed(s, at)'
    <3>1. \A u \in Thread : s'.state[u] = "RUNNING" => AtBarrier(s, at, u)'
      <4> SUFFICES ASSUME NEW u \in Thread, s'.state[u] = "RUNNING" PROVE AtBarrier(s, at, u)'
        OBVIOUS
      <4>1. u # th /\ AtBarrier(s', at, u)
        BY <2>7, <2>8
      <4> QED  BY <2>9, <4>1 DEF AtBarrier
    <3> QED  BY <1>2, <2>8, <2>9, <3>1 DEF Agreed
  <2>11. \A u : InFakeLeave(s', u) <=> InFakeLeave(s, u)
    BY <1>1, <2>2, <2>5 DEF InFakeLeave
  <2> HIDE DEF InFakeLeave
  <2>12. ASSUME NEW u \in Thread \ {th} PROVE Kept(s, s', at[u], u)
    BY <1>1, <1>5, <2>2, <2>3, <2>4, <2>5, <2>7, <2>11 DEF Kept
  <2>13. s'.state[th] = "BLOCKED" \/ (s.marked[th] /\ s'.state[th] = "SLEEPING")
    BY <1>1, <1>5, <2>4, <2>6
  <2> QED  BY <1>1, <1>3, <1>5, <2>2, <2>4, <2>5, <2>9, <2>10, <2>11, <2>12, <2>13 DEF Leaves
<1>8. CASE next = None
  <2> DEFINE z == IF x.marked[th]
                    THEN [Asleep(x, th) EXCEPT !.freeList = Append(@, c)]
                    ELSE [x EXCEPT !.state[th] = "OUT", !.outQueue = Append(@, th)]
  <2>1. BarLeave(c, z)
    BY <1>1, <1>2, <1>8, Zenon DEF DoLeave
  <2>2. /\ SInv(z, {}, None)
        /\ SameBut(x, z, {"state", "curThread", "marked", "sleepQueue", "freeList", "outQueue"})
        /\ z.state[th] = IF x.marked[th] THEN "SLEEPING" ELSE "OUT"
        /\ ~z.marked[th]
        /\ \A u \in Thread \ {th} : z.state[u] = x.state[u] /\ z.marked[u] = x.marked[u]
    <3>1. CASE x.marked[th]
      <4>1. PICK w : w = Asleep(x, th) /\ w = y
        BY <3>1
      <4> HIDE DEF y
      <4>2. SInv(w, {}, c) /\ w.runQueue = x.runQueue
        BY <1>5, <4>1 DEF SameBut, FieldNames
      <4>3. PICK v : v = [w EXCEPT !.freeList = Append(@, c)] /\ v = z
        BY <3>1, <4>1
      <4> HIDE DEF z
      <4>4. SInv(v, {}, None) /\ SameBut(w, v, {"freeList"})
        BY <1>2, <1>4, <1>8, <4>2, <4>3, ReleaseKeeps
      <4>5. v.state = w.state /\ v.marked = w.marked
        BY <4>4 DEF SameBut, FieldNames
      <4>6. SameBut(x, v, {"state", "curThread", "marked", "sleepQueue", "freeList", "outQueue"})
        BY <1>5, <4>1, <4>4 DEF SameBut, FieldNames
      <4>7. /\ v.state[th] = "SLEEPING" /\ ~v.marked[th]
            /\ \A u \in Thread \ {th} : v.state[u] = x.state[u] /\ v.marked[u] = x.marked[u]
        BY <1>5, <3>1, <4>1, <4>5
      <4> QED  BY <3>1, <4>3, <4>4, <4>6, <4>7
    <3>2. CASE ~x.marked[th]
      <4>1. PICK v : v = Out(x, th) /\ v = z
        BY <3>2 DEF Out
      <4> HIDE DEF z
      <4>0. \A u \in ToSet(x.runQueue) : x.cid[th] \notin mask[u]
        BY <1>1, <1>4, <1>8
      <4>5. SInv(x, {}, None) /\ x.state[th] = "RUNNING" /\ Idles(x, th)
        BY <1>1, <1>3
      <4>2. /\ SInv(v, {}, None) /\ SameBut(x, v, {"state", "outQueue"})
        BY <3>2, <4>0, <4>1, <4>5, OutKeeps
      <4>3. \A u \in Thread : v.state[u] = IF u = th THEN "OUT" ELSE x.state[u]
        <5>1. v = Out(x, th) /\ ~x.marked[th]
          BY <3>2, <4>1
        <5> QED  BY <4>0, <4>5, <5>1, OutKeeps
      <4>4. v.marked = x.marked
            /\ SameBut(x, v, {"state", "curThread", "marked", "sleepQueue", "freeList", "outQueue"})
        BY <4>2 DEF SameBut, FieldNames
      <4> QED  BY <3>2, <4>1, <4>2, <4>3, <4>4
    <3> QED  BY <3>1, <3>2
  <2> HIDE DEF z, y, next
  <2>3. /\ z.cid = x.cid /\ z.failed = x.failed /\ z.calls = x.calls
        /\ z.handoffThread = x.handoffThread /\ z.fakeLeaves = x.fakeLeaves
    BY <2>2 DEF SameBut, FieldNames
  <2>4. Besides(s, z, th) /\ ~z.marked[th] /\ z.handoffThread[th] = None
        /\ z.state[th] \in {"OUT", "SLEEPING"}
    BY <1>1, <1>3, <2>2, <2>3 DEF Besides
  <2>5. /\ SInv(s', {}, None) /\ After(z, s') /\ Bar' /\ Agreed(s, at)'
        /\ \A u \in Thread : s'.handoffThread[u] = z.handoffThread[u]
             \/ (z.handoffThread[u] = None /\ at[u] = "sync")
    BY <2>1, <2>2, <2>4, BarLeaveKeeps
  <2>6. \A u : InFakeLeave(z, u) <=> InFakeLeave(s, u)
    BY <1>1, <2>3 DEF InFakeLeave
  <2>7. ASSUME NEW u \in Thread \ {th} PROVE Kept(s, s', at[u], u)
    <3>1. Kept(s, z, at[u], u) /\ z.state[u] = s.state[u]
      <4> HIDE DEF InFakeLeave
      <4> QED  BY <1>1, <2>2, <2>3, <2>6 DEF Kept
    <3> QED  BY <2>5, <3>1, AfterKept
  <2>8. ~InFakeLeave(s', th)
    BY <1>1, <2>3, <2>5 DEF After, InFakeLeave
  <2> HIDE DEF InFakeLeave
  <2>9. ~s'.failed /\ ~s'.marked[th]
    BY <1>1, <2>3, <2>4, <2>5 DEF After
  <2>10. s'.handoffThread[th] = None
    BY <2>4, <2>5
  <2>11. s'.state[th] \in {"OUT", "BLOCKED"} \/ (s.marked[th] /\ s'.state[th] = "SLEEPING")
    BY <1>1, <2>2, <2>5 DEF After
  <2> QED  BY <2>5, <2>7, <2>8, <2>9, <2>10, <2>11 DEF Leaves
<1> QED  BY <1>7, <1>8

-----------------------------------------------------------------------------
(* Coming back                                                             *)

\* A thread gets the context that is found for it.
LEMMA GetContextKeeps ==
  ASSUME NEW x, NEW L, SInv(x, L, None), NEW th \in Thread,
         x.state[th] \in {"STARTED", "BLOCKED"} \/ (x.state[th] = "QUEUED" /\ th \in L),
         NEW k, k = ContextFor(x, th), k # None
  PROVE  LET y == Schedule(Take(x, k), th, k) IN
         /\ SInv(y, L \ {th}, None)
         /\ SameBut(x, y, {"freeList", "outQueue", "state", "curThread", "cid"})
         /\ k \in Context /\ y.state[th] = "RUNNING" /\ y.cid[th] = k /\ ~Busy(x, k)
         /\ \A d \in Context : Busy(y, d) <=> Busy(x, d) \/ d = k
         /\ \A u \in Thread \ {th} :
              /\ y.cid[u] = x.cid[u]
              /\ y.state[u] = x.state[u] \/ (x.state[u] = "OUT" /\ y.state[u] = "BLOCKED")
<1> DEFINE x1 == Take(x, k)
           y == Schedule(x1, th, k)
           v == x.curThread[k]
<1>1. /\ k \in mask[th] /\ k \in Context
      /\ v # None => x.state[v] = "OUT"
  BY ContextForIs
<1>2. Typed(x) /\ v \in Thread \cup {None}
  BY <1>1, Types DEF SInv, Typed
<1>3. /\ SInv(x1, L, k) /\ SameBut(x, x1, {"freeList", "outQueue", "state", "curThread"})
      /\ \A u \in Thread : x1.state[u] = IF u = v THEN "BLOCKED" ELSE x.state[u]
  BY <1>1, TakeKeeps
<1> HIDE DEF x1
<1>4. x1.cid = x.cid
  BY <1>3 DEF SameBut, FieldNames
<1>5. v # th /\ \A u \in Thread : u = v => x.state[u] = "OUT"
  BY <1>1, <1>2, Nobody
<1> HIDE DEF v
<1>6. x1.state[th] \in {"STARTED", "BLOCKED"} \/ (x1.state[th] = "QUEUED" /\ th \in L)
  BY <1>3, <1>5
<1>7. /\ SInv(y, L \ {th}, None) /\ SameBut(x1, y, {"state", "cid", "curThread"})
      /\ \A u \in Thread : /\ y.state[u] = IF u = th THEN "RUNNING" ELSE x1.state[u]
                           /\ y.cid[u] = IF u = th THEN k ELSE x1.cid[u]
  BY <1>1, <1>3, <1>6, ScheduleKeeps
<1> HIDE DEF y
<1>8. SameBut(x, y, {"freeList", "outQueue", "state", "curThread", "cid"})
  BY <1>3, <1>7 DEF SameBut, FieldNames
<1>9. y.state[th] = "RUNNING" /\ y.cid[th] = k
  BY <1>7
<1>10. \A u \in Thread \ {th} :
         /\ y.cid[u] = x.cid[u]
         /\ y.state[u] = x.state[u] \/ (x.state[u] = "OUT" /\ y.state[u] = "BLOCKED")
  BY <1>3, <1>4, <1>5, <1>7
<1>11. \A d \in Context : Busy(y, d) <=> Busy(x, d) \/ d = k
  <2>1. /\ \A d \in Context : Busy(x, d) <=> \E u \in Thread : x.state[u] = "RUNNING" /\ x.cid[u] = d
        /\ \A d \in Context : Busy(y, d) <=> \E u \in Thread : y.state[u] = "RUNNING" /\ y.cid[u] = d
    BY <1>7, BusyIs
  <2>2. \A u \in Thread : y.state[u] = "RUNNING" /\ u # th <=> x.state[u] = "RUNNING"
    BY <1>10
  <2> QED  BY <1>9, <1>10, <2>1, <2>2
<1>12. ~Busy(x, k)
  BY <1>1 DEF Busy, v
<1> QED  BY <1>1, <1>7, <1>8, <1>9, <1>10, <1>11, <1>12 DEF y, x1

\* It joins the barrier with that context, or queues for one.
Admit(th, x) ==
  LET c == ContextFor(x, th) IN
  \/ c # None /\ BarJoin(th, Schedule(Take(x, c), th, c))
  \/ c = None /\ s' = Enqueue(x, th) /\ at' = [at EXCEPT ![th] = "ctx"] /\ UNCHANGED bvars

\* A thread gets a context, or is queued for one.
LEMMA AdmitKeeps ==
  ASSUME IInv, NEW th \in Thread,
         NEW x, NEW L, SInv(x, L, None), L \ {th} = {},
         x.state[th] \in {"STARTED", "BLOCKED"} \/ (x.state[th] = "QUEUED" /\ th \in L),
         \A d \in Context : Busy(x, d) <=> Busy(s, d),
         \A u \in Thread \ {th} : x.state[u] = "RUNNING" => AtBarrier(x, at, u),
         Admit(th, x)
  PROVE  /\ SInv(s', {}, None) /\ Bar' /\ Agreed(s, at)'
         /\ SameBut(x, s', {"freeList", "outQueue", "state", "curThread", "cid", "futexWord", "runQueue"})
         /\ \E p \in {"join", "app", "ctx"} :
              /\ at' = [at EXCEPT ![th] = p]
              /\ s'.state[th] = IF p = "ctx" THEN "QUEUED" ELSE "RUNNING"
         /\ \A u \in Thread \ {th} :
              /\ s'.cid[u] = x.cid[u]
              /\ s'.state[u] = x.state[u] \/ (x.state[u] = "OUT" /\ s'.state[u] = "BLOCKED")
<1>1. PICK k : k = ContextFor(x, th)
  OBVIOUS
<1>2. CASE k # None
  <2> DEFINE y == Schedule(Take(x, k), th, k)
  <2>1. BarJoin(th, y)
    BY <1>1, <1>2, Zenon DEF Admit
  <2>2. /\ SInv(y, L \ {th}, None)
        /\ SameBut(x, y, {"freeList", "outQueue", "state", "curThread", "cid"})
        /\ k \in Context /\ y.state[th] = "RUNNING" /\ y.cid[th] = k /\ ~Busy(x, k)
        /\ \A d \in Context : Busy(y, d) <=> Busy(x, d) \/ d = k
        /\ \A u \in Thread \ {th} :
             /\ y.cid[u] = x.cid[u]
             /\ y.state[u] = x.state[u] \/ (x.state[u] = "OUT" /\ y.state[u] = "BLOCKED")
    BY <1>1, <1>2, GetContextKeeps
  <2> HIDE DEF y
  <2>3. y.handoffThread = x.handoffThread
    BY <2>2 DEF SameBut, FieldNames
  <2>4. \A u \in Thread \ {th} : y.state[u] = "RUNNING" => AtBarrier(y, at, u)
    BY <2>2, <2>3 DEF AtBarrier
  <2>5. SInv(y, {}, None)
    BY <2>2
  <2>6. ~Busy(s, y.cid[th]) /\ \A d \in Context : Busy(y, d) <=> Busy(s, d) \/ d = y.cid[th]
    BY <2>2
  <2>7. /\ s' = y /\ Bar' /\ Agreed(s, at)'
        /\ \E p \in {"join", "app"} : at' = [at EXCEPT ![th] = p]
    BY <2>1, <2>2, <2>4, <2>5, <2>6, BarJoinKeeps
  <2>8. SameBut(x, s', {"freeList", "outQueue", "state", "curThread", "cid", "futexWord", "runQueue"})
    BY <2>2, <2>7 DEF SameBut, FieldNames
  <2> QED  BY <2>2, <2>5, <2>7, <2>8
<1>3. CASE k = None
  <2>1. s' = Enqueue(x, th) /\ at' = [at EXCEPT ![th] = "ctx"] /\ UNCHANGED bvars
    BY <1>1, <1>3, Zenon DEF Admit
  <2>2. \A d \in mask[th] : Busy(x, d)
    BY <1>1, <1>3, ContextForIs
  <2>3. /\ SInv(s', L \ {th}, None) /\ SameBut(x, s', {"state", "futexWord", "runQueue"})
        /\ \A u \in Thread : s'.state[u] = IF u = th THEN "QUEUED" ELSE x.state[u]
    BY <2>1, <2>2, EnqueueKeeps
  <2>4. SInv(s', {}, None)
    BY <2>3
  <2>5. s'.cid = x.cid /\ s'.handoffThread = x.handoffThread
    BY <2>3 DEF SameBut, FieldNames
  <2>6. SameBut(x, s', {"freeList", "outQueue", "state", "curThread", "cid", "futexWord", "runQueue"})
    BY <2>3 DEF SameBut, FieldNames
  <2>7. Bar' /\ Live' = Live /\ b' = b /\ inWait' = inWait /\ Agreed(s, at) /\ at \in [Thread -> Places]
    BY <2>1, SameBar DEF IInv, bvars
  <2>8. \A d \in Context : Busy(s', d) <=> Busy(x, d)
    <3>1. /\ \A d \in Context : Busy(x, d) <=> \E u \in Thread : x.state[u] = "RUNNING" /\ x.cid[u] = d
          /\ \A d \in Context : Busy(s', d) <=> \E u \in Thread : s'.state[u] = "RUNNING" /\ s'.cid[u] = d
      BY <2>4, BusyIs
    <3>2. \A u \in Thread : s'.state[u] = "RUNNING" <=> x.state[u] = "RUNNING"
      BY <2>3
    <3> QED  BY <2>5, <3>1, <3>2
  <2>9. ASSUME NEW u \in Thread, s'.state[u] = "RUNNING" PROVE AtBarrier(s, at, u)'
    <3>1. u # th /\ AtBarrier(x, at, u) /\ at'[u] = at[u]
      BY <2>1, <2>3, <2>7, <2>9
    <3> QED  BY <2>5, <2>7, <3>1 DEF AtBarrier
  <2>10. Agreed(s, at)'
    BY <2>7, <2>8, <2>9 DEF Agreed
  <2> QED  BY <2>1, <2>3, <2>4, <2>5, <2>6, <2>7, <2>10
<1> QED  BY <1>2, <1>3

\* Who is in a fake leave runs.
LEMMA FakesRun ==
  ASSUME NEW x, SInv(x, {}, None), NEW th \in Thread, InFakeLeave(x, th)
  PROVE  x.state[th] = "RUNNING"
<1>1. x.fakeLeaves \in Seq([th : Thread, pc : Syscall])
  BY Types DEF SInv, Typed
<1> QED  BY <1>1 DEF SInv, Fakes, InFakeLeave, ToSet

\* A fake leave of a thread that runs is over.
LEMMA FinishFakeLeaveKeeps ==
  ASSUME NEW x, SInv(x, {}, None), NEW th \in Thread, InFakeLeave(x, th)
  PROVE  LET y == FinishFakeLeave(x, th) IN
         /\ SInv(y, {}, None) /\ SameBut(x, y, {"fakeLeaves"})
         /\ \A u : InFakeLeave(y, u) <=> InFakeLeave(x, u) /\ u # th
<1> DEFINE gone == {f \in ToSet(x.fakeLeaves) : f.th = th}
           q == Without(x.fakeLeaves, gone)
           y == [x EXCEPT !.fakeLeaves = q]
<1>1. x.fakeLeaves \in Seq([th : Thread, pc : Syscall])
  BY Types DEF SInv, Typed
<1>2. x.state[th] = "RUNNING"
  BY FakesRun
<1>3. FinishFakeLeave(x, th) = y
  BY <1>2 DEF FinishFakeLeave, Checked
<1>4. q \in Seq([th : Thread, pc : Syscall]) /\ ToSet(q) = ToSet(x.fakeLeaves) \ gone
  BY <1>1, WithoutKeeps
<1> HIDE DEF q
<1>5. /\ SInv(y, {}, None) /\ SameBut(x, y, {"fakeLeaves"}) /\ y.fakeLeaves = q
  <2>1. \A f \in ToSet(q) : f \in ToSet(x.fakeLeaves) \/ x.state[f.th] = "RUNNING"
    BY <1>4
  <2> QED  BY <1>4, <2>1, FakesKeep
<1> HIDE DEF y
<1>6. /\ \A u : InFakeLeave(x, u) <=> \E f \in ToSet(x.fakeLeaves) : f.th = u
      /\ \A u : InFakeLeave(y, u) <=> \E f \in ToSet(q) : f.th = u
  BY <1>1, <1>4, <1>5 DEF InFakeLeave, ToSet
<1>7. \A u : InFakeLeave(y, u) <=> InFakeLeave(x, u) /\ u # th
  <2> HIDE DEF InFakeLeave
  <2> QED  BY <1>4, <1>6
<1> QED  BY <1>3, <1>5, <1>7

\* Its thread goes on, or is about to leave.
LEMMA FakeEndedKeeps ==
  ASSUME IInv, ~s.failed, NEW th \in Thread, wd.stage = "leave" => wd.th # th, wd' = wd,
         InFakeLeave(s, th), s' = FinishFakeLeave(s, th), UNCHANGED bvars,
         NEW p \in {"app", "leaving"}, at' = [at EXCEPT ![th] = p]
  PROVE  IInv'
<1>1. /\ SInv(s, {}, None) /\ Bar /\ Agreed(s, at) /\ at \in [Thread -> Places]
      /\ Placed(s, at[th], th)
  BY DEF IInv
<1>2. /\ SInv(s', {}, None) /\ SameBut(s, s', {"fakeLeaves"})
      /\ \A u : InFakeLeave(s', u) <=> InFakeLeave(s, u) /\ u # th
  BY <1>1, FinishFakeLeaveKeeps
<1>3. /\ s'.state = s.state /\ s'.cid = s.cid /\ s'.marked = s.marked /\ s'.calls = s.calls
      /\ s'.handoffThread = s.handoffThread /\ s'.failed = s.failed
  BY <1>2 DEF SameBut, FieldNames
<1>4. s.state[th] = "RUNNING"
  BY <1>1, FakesRun
<1> HIDE DEF InFakeLeave
<1>5. at[th] = "syscall" /\ ~s.marked[th] /\ s.handoffThread[th] = None
  BY <1>1 DEF Placed
<1>6. \A u \in Thread \ {th} : Kept(s, s', at[u], u)
  BY <1>2, <1>3 DEF Kept
<1>7. Bar' /\ at'[th] = p /\ \A u \in Thread \ {th} : at'[u] = at[u]
  BY <1>1, SameBar
<1>8. Agreed(s, at)'
  <2>1. s.cid[th] \notin b.done
    BY <1>1, <1>4, <1>5 DEF Agreed, AtBarrier
  <2>2. \A u \in Thread : s.state[u] = "RUNNING" =>
          /\ s'.cid[u] = s.cid[u]
          /\ at'[u] \in {"join", "sync"} <=> at[u] \in {"join", "sync"}
          /\ s.cid[u] \in b.done => at'[u] = at[u] /\ s'.handoffThread[u] = s.handoffThread[u]
    BY <1>3, <1>5, <1>7, <2>1
  <2> QED  BY <1>2, <1>3, <2>2, AgreedStays
<1>9. Placed(s', p, th) /\ Watched(s', p, wd, th) /\ p \in Places
  BY <1>2, <1>3, <1>4, <1>5 DEF Placed, Watched, Places
<1> QED  BY <1>2, <1>3, <1>6, <1>7, <1>8, <1>9, StepKeeps

\* A thread is in simulated code, or waits for the barrier or for a context.
LEMMA ArriveKeeps ==
  ASSUME IInv, ~s.failed, NEW th \in Thread, wd.stage = "leave" => wd.th # th, wd' = wd,
         SInv(s', {}, None), ~s'.failed, Bar', Agreed(s, at)',
         NEW p \in {"join", "app", "ctx"}, at' = [at EXCEPT ![th] = p],
         s'.state[th] = IF p = "ctx" THEN "QUEUED" ELSE "RUNNING",
         ~s'.marked[th], s'.handoffThread[th] = None, ~InFakeLeave(s', th),
         \A u \in Thread \ {th} : Kept(s, s', at[u], u)
  PROVE  IInv'
<1> HIDE DEF InFakeLeave
<1>1. p \in Places
  BY DEF Places
<1>2. Placed(s', p, th) /\ Watched(s', p, wd, th)
  BY DEF Placed, Watched
<1> QED  BY <1>1, <1>2, StepKeeps

\* Another thread, while one is admitted
LEMMA AdmittedKept ==
  ASSUME NEW x, NEW y, NEW z, NEW p, NEW u, Kept(x, y, p, u), z.cid[u] = y.cid[u],
         z.state[u] = y.state[u] \/ (y.state[u] = "OUT" /\ z.state[u] = "BLOCKED"),
         SameBut(y, z, {"freeList", "outQueue", "state", "curThread", "cid", "futexWord", "runQueue"})
  PROVE  Kept(x, z, p, u)
<1>1. /\ z.marked = y.marked /\ z.calls = y.calls /\ z.handoffThread = y.handoffThread
      /\ InFakeLeave(z, u) <=> InFakeLeave(y, u)
  BY DEF SameBut, FieldNames, InFakeLeave
<1> HIDE DEF InFakeLeave
<1> QED  BY <1>1 DEF Kept

\* A thread comes back: from a fake leave, out of OUT, asleep, or to be admitted.
LEMMA JoinKeeps ==
  ASSUME IInv, ~s.failed, ~WatchdogRaces, NEW th \in Thread, Join(th)
  PROVE  IInv'
<1>1. /\ at[th] \in {"new", "syscall"} /\ wd' = wd /\ at \in [Thread -> Places]
      /\ wd.stage = "leave" => wd.th # th
      /\ SInv(s, {}, None) /\ Bar /\ Agreed(s, at)
      /\ Placed(s, at[th], th) /\ Watched(s, at[th], wd, th)
  BY DEF Join, Unwatched, IInv
<1>2. /\ ~s.marked[th] /\ s.handoffThread[th] = None
      /\ s.state[th] \in {"STARTED", "RUNNING", "OUT", "BLOCKED", "SLEEPING"}
      /\ s.state[th] = "RUNNING" => InFakeLeave(s, th)
  <2> HIDE DEF InFakeLeave
  <2> QED  BY <1>1 DEF Placed, Watched
<1>3. CASE InFakeLeave(s, th)
  <2>1. s' = FinishFakeLeave(s, th) /\ at' = [at EXCEPT ![th] = "app"] /\ UNCHANGED bvars
    BY <1>3, Zenon DEF Join
  <2> QED  BY <1>1, <1>3, <2>1, FakeEndedKeeps
<1>4. CASE ~InFakeLeave(s, th)
  <2>1. PICK x : x = IF s.state[th] = "SLEEPING" THEN Awake(s, th) ELSE s
    OBVIOUS
  <2>2. JoinRest(th, x)
    BY <1>4, <2>1, Zenon DEF Join
  <2>3. /\ SInv(x, {}, None) /\ SameBut(s, x, {"state", "left", "sleepQueue"})
        /\ x.state[th] \in {"STARTED", "OUT", "BLOCKED"}
        /\ x.state[th] = "OUT" => x = s
        /\ \A u \in Thread \ {th} : x.state[u] = s.state[u]
    <3>1. CASE s.state[th] = "SLEEPING"
      <4>1. /\ SInv(x, {}, None) /\ SameBut(s, x, {"state", "left", "sleepQueue"})
            /\ x.state = [s.state EXCEPT ![th] = "BLOCKED"]
        BY <1>1, <2>1, <3>1, AwakeKeeps
      <4>2. s.state \in [Thread -> ThreadStates]
        BY <1>1, Types DEF SInv, Typed
      <4> QED  BY <4>1, <4>2
    <3>2. CASE s.state[th] # "SLEEPING"
      <4>1. x = s
        BY <2>1, <3>2
      <4>2. SameBut(s, s, {"state", "left", "sleepQueue"})
        BY DEF SameBut
      <4> HIDE DEF InFakeLeave
      <4> QED  BY <1>1, <1>2, <1>4, <3>2, <4>1, <4>2
    <3> QED  BY <3>1, <3>2
  <2>4. /\ x.cid = s.cid /\ x.marked = s.marked /\ x.handoffThread = s.handoffThread
        /\ x.calls = s.calls /\ x.failed = s.failed /\ x.fakeLeaves = s.fakeLeaves
    BY <2>3 DEF SameBut, FieldNames
  <2>5. \A u : InFakeLeave(x, u) <=> InFakeLeave(s, u)
    BY <2>4 DEF InFakeLeave
  <2>6. ASSUME NEW u \in Thread \ {th} PROVE Kept(s, x, at[u], u)
    <3> HIDE DEF InFakeLeave
    <3> QED  BY <2>3, <2>4, <2>5 DEF Kept
  <2>7. \A d \in Context : Busy(x, d) <=> Busy(s, d)
    <3>1. /\ \A d \in Context : Busy(x, d) <=> \E u \in Thread : x.state[u] = "RUNNING" /\ x.cid[u] = d
          /\ \A d \in Context : Busy(s, d) <=> \E u \in Thread : s.state[u] = "RUNNING" /\ s.cid[u] = d
      BY <1>1, <2>3, BusyIs
    <3>2. \A u \in Thread : x.state[u] = "RUNNING" <=> s.state[u] = "RUNNING"
      <4> HIDE DEF InFakeLeave
      <4> QED  BY <1>2, <1>4, <2>3
    <3> QED  BY <2>4, <3>1, <3>2
  <2>8. \A u \in Thread \ {th} : x.state[u] = "RUNNING" => AtBarrier(x, at, u)
    BY <1>1, <2>3, <2>4 DEF Agreed, AtBarrier
  <2>9. CASE x.state[th] = "OUT"
    <3> DEFINE y == Rejoined(x, th)
    <3>1. BarJoin(th, y)
      BY <1>2, <2>2, <2>4, <2>9, Zenon DEF JoinRest, Rejoined
    <3>2. /\ SInv(y, {}, None) /\ SameBut(x, y, {"state", "outQueue"})
          /\ \A u \in Thread : y.state[u] = IF u = th THEN "RUNNING" ELSE x.state[u]
      BY <2>3, <2>9, RejoinKeeps
    <3> HIDE DEF y
    <3>3. /\ y.cid = x.cid /\ y.marked = x.marked /\ y.handoffThread = x.handoffThread
          /\ y.calls = x.calls /\ y.failed = x.failed /\ y.fakeLeaves = x.fakeLeaves
      BY <3>2 DEF SameBut, FieldNames
    <3>4. x.cid[th] \in Context /\ x.curThread[x.cid[th]] = th
      BY <2>3, <2>9, Types DEF SInv, Typed, Owned, Scheduled
    <3>5. ~Busy(s, y.cid[th])
      BY <2>7, <2>9, <3>3, <3>4 DEF Busy
    <3>6. \A d \in Context : Busy(y, d) <=> Busy(s, d) \/ d = y.cid[th]
      <4>1. /\ \A d \in Context : Busy(x, d) <=> \E u \in Thread : x.state[u] = "RUNNING" /\ x.cid[u] = d
            /\ \A d \in Context : Busy(y, d) <=> \E u \in Thread : y.state[u] = "RUNNING" /\ y.cid[u] = d
        BY <2>3, <3>2, BusyIs
      <4>2. y.state[th] = "RUNNING"
            /\ \A u \in Thread : y.state[u] = "RUNNING" /\ u # th <=> x.state[u] = "RUNNING"
        BY <2>9, <3>2
      <4> QED  BY <2>7, <3>3, <4>1, <4>2
    <3>7. \A u \in Thread \ {th} : y.state[u] = "RUNNING" => AtBarrier(y, at, u)
      BY <2>8, <3>2, <3>3 DEF AtBarrier
    <3>8. y.state[th] = "RUNNING"
      BY <3>2
    <3>9. /\ s' = y /\ Bar' /\ Agreed(s, at)'
          /\ \E p \in {"join", "app"} : at' = [at EXCEPT ![th] = p]
      BY <3>1, <3>2, <3>5, <3>6, <3>7, <3>8, BarJoinKeeps
    <3>10. PICK p \in {"join", "app"} : at' = [at EXCEPT ![th] = p]
      BY <3>9
    <3>11. \A u : InFakeLeave(s', u) <=> InFakeLeave(x, u)
      BY <3>3, <3>9 DEF InFakeLeave
    <3> HIDE DEF InFakeLeave
    <3>12. ASSUME NEW u \in Thread \ {th} PROVE Kept(s, s', at[u], u)
      BY <2>6, <3>2, <3>3, <3>9, <3>11 DEF Kept
    <3>13. ~s'.failed /\ ~s'.marked[th] /\ s'.handoffThread[th] = None /\ ~InFakeLeave(s', th)
      BY <1>2, <1>4, <2>4, <2>5, <3>3, <3>9, <3>11
    <3>14. /\ SInv(s', {}, None) /\ s'.state[th] = IF p = "ctx" THEN "QUEUED" ELSE "RUNNING"
           /\ p \in {"join", "app", "ctx"}
      BY <3>2, <3>8, <3>9
    <3> QED  BY <1>1, <3>9, <3>10, <3>12, <3>13, <3>14, ArriveKeeps
  <2>10. CASE x.state[th] # "OUT"
    <3>1. Admit(th, x)
      BY <1>2, <2>2, <2>3, <2>4, <2>10, Zenon DEF JoinRest, Admit
    <3>2. x.state[th] \in {"STARTED", "BLOCKED"} /\ {} \ {th} = {}
      BY <2>3, <2>10
    <3>3. /\ SInv(s', {}, None) /\ Bar' /\ Agreed(s, at)'
          /\ SameBut(x, s', {"freeList", "outQueue", "state", "curThread", "cid", "futexWord", "runQueue"})
          /\ \E p \in {"join", "app", "ctx"} :
               /\ at' = [at EXCEPT ![th] = p]
               /\ s'.state[th] = IF p = "ctx" THEN "QUEUED" ELSE "RUNNING"
          /\ \A u \in Thread \ {th} :
               /\ s'.cid[u] = x.cid[u]
               /\ s'.state[u] = x.state[u] \/ (x.state[u] = "OUT" /\ s'.state[u] = "BLOCKED")
      BY <2>3, <2>7, <2>8, <3>1, <3>2, AdmitKeeps
    <3>4. PICK p \in {"join", "app", "ctx"} :
            /\ at' = [at EXCEPT ![th] = p]
            /\ s'.state[th] = IF p = "ctx" THEN "QUEUED" ELSE "RUNNING"
      BY <3>3
    <3>5. /\ s'.marked = x.marked /\ s'.handoffThread = x.handoffThread
          /\ s'.failed = x.failed /\ s'.fakeLeaves = x.fakeLeaves
      BY <3>3 DEF SameBut, FieldNames
    <3>6. ~InFakeLeave(s', th)
      BY <1>4, <2>4, <3>5 DEF InFakeLeave
    <3> HIDE DEF InFakeLeave
    <3>7. ASSUME NEW u \in Thread \ {th} PROVE Kept(s, s', at[u], u)
      BY <2>6, <3>3, AdmittedKept
    <3>8. ~s'.failed /\ ~s'.marked[th] /\ s'.handoffThread[th] = None
      BY <1>2, <2>4, <3>5
    <3> QED  BY <1>1, <3>3, <3>4, <3>6, <3>7, <3>8, ArriveKeeps
  <2> QED  BY <2>9, <2>10
<1> QED  BY <1>3, <1>4

\* A thread gives its context to the one it is promised to, which wakes up.
LEMMA GivenAway ==
  ASSUME IInv, NEW th \in Thread, at[th] = "handoff",
         NEW dst, dst = s.handoffThread[th], NEW c, c = s.cid[th],
         NEW x, x = Wakeup(Schedule(Given(s, th), dst, c), dst)
  PROVE  /\ SInv(x, {th}, None) /\ x.state[th] = "QUEUED" /\ s.state[th] = "RUNNING"
         /\ SameBut(s, x, {"state", "curThread", "cid", "handoffThread", "futexWord"})
         /\ dst \in Thread \ {th} /\ s.state[dst] = "QUEUED" /\ x.state[dst] = "RUNNING"
         /\ x.cid[dst] = s.cid[th]
         /\ \A u \in Thread \ {th, dst} : x.state[u] = s.state[u] /\ x.cid[u] = s.cid[u]
         /\ \A u \in Thread : x.handoffThread[u] = IF u = th THEN None ELSE s.handoffThread[u]
<1>1. SInv(s, {}, None) /\ Typed(s) /\ Placed(s, at[th], th)
  BY Types DEF IInv, SInv
<1>2. dst # None /\ ~s.marked[th] /\ \A f \in ToSet(s.fakeLeaves) : f.th # th
  <2>1. s.fakeLeaves \in Seq([th : Thread, pc : Syscall])
    BY <1>1 DEF Typed
  <2> QED  BY <1>1, <2>1 DEF Placed, InFakeLeave, ToSet
<1> DEFINE x1 == Given(s, th)
           x2 == Schedule(x1, dst, c)
<1>3. /\ SInv(x1, {th, dst}, c) /\ SameBut(s, x1, {"state", "curThread", "handoffThread"})
      /\ \A u \in Thread : x1.state[u] = IF u = th THEN "QUEUED" ELSE s.state[u]
      /\ \A u \in Thread : x1.handoffThread[u] = IF u = th THEN None ELSE s.handoffThread[u]
      /\ s.state[th] = "RUNNING" /\ dst \in Thread /\ dst # th /\ s.state[dst] = "QUEUED"
      /\ c \in mask[dst] /\ s.futexWord[dst] = 1
  BY <1>1, <1>2, GiveKeeps
<1> HIDE DEF x1
<1>4. x1.cid = s.cid /\ x1.marked = s.marked /\ x1.futexWord = s.futexWord
  BY <1>3 DEF SameBut, FieldNames
<1>5. x1.state[dst] = "QUEUED" /\ dst \in {th, dst} /\ c \in Context
  BY <1>1, <1>3 DEF Typed
<1>6. /\ SInv(x2, {th, dst} \ {dst}, None) /\ SameBut(x1, x2, {"state", "cid", "curThread"})
      /\ \A u \in Thread : /\ x2.state[u] = IF u = dst THEN "RUNNING" ELSE x1.state[u]
                           /\ x2.cid[u] = IF u = dst THEN c ELSE x1.cid[u]
  <2>1. PICK L : L = {th, dst}
    OBVIOUS
  <2>2. SInv(x1, L, c) /\ dst \in L
    BY <1>3, <2>1
  <2>3. /\ SInv(x2, L \ {dst}, None) /\ SameBut(x1, x2, {"state", "cid", "curThread"})
        /\ \A u \in Thread : /\ x2.state[u] = IF u = dst THEN "RUNNING" ELSE x1.state[u]
                             /\ x2.cid[u] = IF u = dst THEN c ELSE x1.cid[u]
    BY <1>3, <1>5, <2>2, ScheduleKeeps
  <2> QED  BY <2>1, <2>3
<1> HIDE DEF x2
<1>7. x2.marked = x1.marked /\ x2.futexWord = x1.futexWord /\ x2.handoffThread = x1.handoffThread
  BY <1>6 DEF SameBut, FieldNames
<1>8. SInv(x2, {th}, None)
  <2>1. {th, dst} \ {dst} = {th}
    BY <1>3
  <2> QED  BY <1>6, <2>1
<1>9. ~s.marked[dst] /\ x2.state[dst] = "RUNNING" /\ x2.futexWord[dst] = 1 /\ ~x2.marked[dst]
  <2>1. ~s.marked[dst]
    BY <1>1, <1>3 DEF SInv, Words
  <2> QED  BY <1>3, <1>4, <1>6, <1>7, <2>1
<1>10. SInv(x, {th}, None) /\ SameBut(x2, x, {"futexWord"})
  <2>1. x = Wakeup(x2, dst)
    BY DEF x2, x1
  <2> QED  BY <1>3, <1>8, <1>9, <2>1, WakeupKeeps
<1>11. x.state = x2.state /\ x.cid = x2.cid /\ x.handoffThread = x2.handoffThread
  BY <1>10 DEF SameBut, FieldNames
<1>12. SameBut(s, x, {"state", "curThread", "cid", "handoffThread", "futexWord"})
  BY <1>3, <1>6, <1>10 DEF SameBut, FieldNames
<1>13. \A u \in Thread : x.handoffThread[u] = IF u = th THEN None ELSE s.handoffThread[u]
  BY <1>3, <1>7, <1>11
<1>14. /\ x.state[th] = "QUEUED" /\ x.state[dst] = "RUNNING" /\ x.cid[dst] = c
       /\ \A u \in Thread \ {th, dst} : x.state[u] = s.state[u] /\ x.cid[u] = s.cid[u]
  BY <1>3, <1>4, <1>6, <1>11
<1> QED  BY <1>3, <1>10, <1>12, <1>13, <1>14

\* A thread hands its context over, and is queued itself.
LEMMA HandoffKeeps ==
  ASSUME IInv, ~s.failed, NEW th \in Thread, Handoff(th)
  PROVE  IInv'
<1>1. /\ at[th] = "handoff" /\ wd' = wd /\ SInv(s, {}, None)
      /\ wd.stage = "leave" => wd.th # th
  BY DEF Handoff, IInv, Watching
<1>2. PICK dst : dst = s.handoffThread[th]
  OBVIOUS
<1>3. PICK c : c = s.cid[th]
  OBVIOUS
<1>4. PICK x : x = Wakeup(Schedule(Given(s, th), dst, c), dst)
  OBVIOUS
<1>5. Admit(th, x)
  <2>1. x = Wakeup(Schedule(Deschedule([s EXCEPT !.handoffThread[th] = None], th, "QUEUED"),
                            s.handoffThread[th], s.cid[th]), s.handoffThread[th])
    BY <1>2, <1>3, <1>4 DEF Given
  <2> QED  BY <2>1, Zenon DEF Handoff, Admit
<1>6. /\ SInv(x, {th}, None) /\ x.state[th] = "QUEUED" /\ s.state[th] = "RUNNING"
      /\ SameBut(s, x, {"state", "curThread", "cid", "handoffThread", "futexWord"})
      /\ dst \in Thread \ {th} /\ s.state[dst] = "QUEUED" /\ x.state[dst] = "RUNNING"
      /\ x.cid[dst] = s.cid[th]
      /\ \A u \in Thread \ {th, dst} : x.state[u] = s.state[u] /\ x.cid[u] = s.cid[u]
      /\ \A u \in Thread : x.handoffThread[u] = IF u = th THEN None ELSE s.handoffThread[u]
  BY <1>1, <1>2, <1>3, <1>4, GivenAway
<1>7. /\ x.marked = s.marked /\ x.calls = s.calls /\ x.failed = s.failed
      /\ x.fakeLeaves = s.fakeLeaves
  BY <1>6 DEF SameBut, FieldNames
<1>8. \A u : InFakeLeave(x, u) <=> InFakeLeave(s, u)
  BY <1>7 DEF InFakeLeave
<1>9. ~s.marked[th] /\ ~InFakeLeave(s, th)
  BY <1>1 DEF IInv, Placed
<1>10. ASSUME NEW u \in Thread \ {th} PROVE Kept(s, x, at[u], u)
  <2> HIDE DEF InFakeLeave
  <2>1. CASE u = dst
    BY <1>6, <1>7, <1>8, <2>1 DEF Kept
  <2>2. CASE u # dst
    BY <1>6, <1>7, <1>8, <2>2 DEF Kept
  <2> QED  BY <2>1, <2>2
<1>11. /\ \A d \in Context : Busy(x, d) <=> Busy(s, d)
       /\ \A u \in Thread : x.state[u] = "RUNNING" => AtBarrier(x, at, u)
  <2>1. \A u \in Thread \ {th, dst} : x.state[u] = s.state[u] /\ x.cid[u] = s.cid[u]
                                      /\ x.handoffThread[u] = s.handoffThread[u]
    BY <1>6
  <2>2. x.state[th] # "RUNNING" /\ at[th] \notin {"join", "sync"}
    BY <1>1, <1>6
  <2> QED  BY <1>6, <2>1, <2>2, PassedOn
<1>12. /\ SInv(s', {}, None) /\ Bar' /\ Agreed(s, at)'
       /\ SameBut(x, s', {"freeList", "outQueue", "state", "curThread", "cid", "futexWord", "runQueue"})
       /\ \E p \in {"join", "app", "ctx"} :
            /\ at' = [at EXCEPT ![th] = p]
            /\ s'.state[th] = IF p = "ctx" THEN "QUEUED" ELSE "RUNNING"
       /\ \A u \in Thread \ {th} :
            /\ s'.cid[u] = x.cid[u]
            /\ s'.state[u] = x.state[u] \/ (x.state[u] = "OUT" /\ s'.state[u] = "BLOCKED")
  <2>1. {th} \ {th} = {} /\ th \in {th}
    OBVIOUS
  <2> QED  BY <1>5, <1>6, <1>11, <2>1, AdmitKeeps
<1>13. PICK p \in {"join", "app", "ctx"} :
         /\ at' = [at EXCEPT ![th] = p]
         /\ s'.state[th] = IF p = "ctx" THEN "QUEUED" ELSE "RUNNING"
  BY <1>12
<1>14. /\ s'.marked = x.marked /\ s'.handoffThread = x.handoffThread
       /\ s'.failed = x.failed /\ s'.fakeLeaves = x.fakeLeaves
  BY <1>12 DEF SameBut, FieldNames
<1>15. ~InFakeLeave(s', th)
  BY <1>7, <1>9, <1>14 DEF InFakeLeave
<1> HIDE DEF InFakeLeave
<1>16. ASSUME NEW u \in Thread \ {th} PROVE Kept(s, s', at[u], u)
  BY <1>10, <1>12, AdmittedKept
<1>17. ~s'.failed /\ ~s'.marked[th] /\ s'.handoffThread[th] = None
  BY <1>6, <1>7, <1>9, <1>14
<1> QED  BY <1>1, <1>12, <1>13, <1>15, <1>16, <1>17, ArriveKeeps

-----------------------------------------------------------------------------
(* System calls, and the end of a thread                                   *)

\* A thread has left.
LEMMA LeftKeeps ==
  ASSUME IInv, ~s.failed, NEW th \in Thread, wd.stage = "leave" => wd.th # th, wd' = wd,
         Leaves(th), NEW p \in {"syscall", "finishing"}, at' = [at EXCEPT ![th] = p],
         p = "finishing" => ~s.marked[th]
  PROVE  IInv'
<1> HIDE DEF InFakeLeave
<1>1. p \in Places
  BY DEF Places
<1>2. /\ SInv(s', {}, None) /\ Bar' /\ Agreed(s, at)' /\ ~s'.failed
      /\ \A u \in Thread \ {th} : Kept(s, s', at[u], u)
  BY DEF Leaves
<1>3. Placed(s', p, th) /\ Watched(s', p, wd, th)
  BY DEF Leaves, Placed, Watched
<1> QED  BY <1>1, <1>2, <1>3, StepKeeps

\* A thread enters a system call, with a leave that is real or a fake.
LEMMA SyscallLeaveKeeps ==
  ASSUME IInv, ~s.failed, NEW th \in Thread, SyscallLeave(th)
  PROVE  IInv'
<1>1. /\ at[th] \in {"app", "marked"} /\ wd' = wd /\ at' = [at EXCEPT ![th] = "syscall"]
      /\ SInv(s, {}, None) /\ Bar /\ Agreed(s, at) /\ at \in [Thread -> Places]
      /\ wd.stage = "leave" => wd.th # th
  BY DEF SyscallLeave, MayCall, IInv, Watching
<1>2. /\ s.state[th] = "RUNNING" /\ s.handoffThread[th] = None /\ ~InFakeLeave(s, th)
      /\ s.calls[th] < MaxCalls /\ s.curThread[s.cid[th]] = th
  <2>1. Placed(s, at[th], th)
    BY DEF IInv
  <2>2. at[th] = "app" => s.calls[th] < MaxCalls
    BY <1>1 DEF SyscallLeave, MayCall
  <2> HIDE DEF InFakeLeave
  <2>3. s.state[th] = "RUNNING" /\ s.handoffThread[th] = None /\ ~InFakeLeave(s, th)
        /\ s.calls[th] < MaxCalls
    BY <1>1, <2>1, <2>2 DEF Placed
  <2>4. s.cid[th] \in Context
    BY <1>1, Types DEF SInv, Typed
  <2> QED  BY <1>1, <2>3, <2>4 DEF SInv, Owned, Scheduled
<1>3. PICK x : x = [s EXCEPT !.calls[th] = @ + 1]
  OBVIOUS
<1>4. /\ x \in Schedulers /\ SameBut(s, x, {"calls"})
      /\ \A u \in Thread \ {th} : x.calls[u] = s.calls[u]
  <2>1. s \in Schedulers /\ s.calls \in [Thread -> 0 .. MaxCalls] /\ MaxCalls \in Nat
    BY <1>1, Types, SchedulerAssumption DEF SInv, Typed
  <2>2. [s.calls EXCEPT ![th] = @ + 1] \in [Thread -> 0 .. MaxCalls]
    BY <1>2, <2>1
  <2> QED  BY <1>3, <2>1, <2>2 DEF Schedulers, SameBut, FieldNames
<1>5. SInv(x, {}, None)
  <2>1. SameBut(s, x, {"calls", "blockingSyscalls", "failed", "phase"})
    BY <1>4 DEF SameBut
  <2> QED  BY <1>1, <1>4, <2>1, SameScheduler
<1>6. PICK pc \in Syscall :
        IF s.marked[th] \/ <<proc[th], pc>> \in s.blockingSyscalls
          THEN DoLeave(th, proc[th], s.cid[th], x)
          ELSE /\ s' = Checked([x EXCEPT !.fakeLeaves = Append(@, [th |-> th, pc |-> pc])],
                               s.curThread[s.cid[th]] = th /\ s.state[th] = "RUNNING"
                                 /\ ~InFakeLeave(s, th))
               /\ UNCHANGED bvars
  BY <1>3, Zenon DEF SyscallLeave
<1>7. CASE s.marked[th] \/ <<proc[th], pc>> \in s.blockingSyscalls
  <2>1. DoLeave(th, proc[th], s.cid[th], x)
    BY <1>6, <1>7
  <2>2. \A u \in Thread \ {th} : at'[u] = at[u]
    BY <1>1
  <2>3. at[th] \in {"app", "marked", "leaving", "syscall"}
    BY <1>1
  <2>4. Leaves(th)
    BY <1>2, <1>4, <1>5, <2>1, <2>2, <2>3, DoLeaveKeeps
  <2> QED  BY <1>1, <2>4, LeftKeeps
<1>8. CASE ~(s.marked[th] \/ <<proc[th], pc>> \in s.blockingSyscalls)
  <2> DEFINE f == [th |-> th, pc |-> pc]
             q == Append(x.fakeLeaves, f)
  <2>1. s' = [x EXCEPT !.fakeLeaves = q] /\ UNCHANGED bvars
    BY <1>2, <1>6, <1>8 DEF Checked
  <2>2. /\ x.state = s.state /\ x.cid = s.cid /\ x.marked = s.marked /\ x.failed = s.failed
        /\ x.handoffThread = s.handoffThread /\ x.fakeLeaves = s.fakeLeaves
    BY <1>4 DEF SameBut, FieldNames
  <2>3. /\ s.fakeLeaves \in Seq([th : Thread, pc : Syscall])
        /\ x.fakeLeaves \in Seq([th : Thread, pc : Syscall])
        /\ q \in Seq([th : Thread, pc : Syscall])
        /\ ToSet(q) = ToSet(x.fakeLeaves) \cup {f}
    <3>1. f \in [th : Thread, pc : Syscall] /\ s.fakeLeaves \in Seq([th : Thread, pc : Syscall])
      BY <1>1, Types DEF SInv, Typed
    <3> HIDE DEF f
    <3>2. PICK T : T = [th : Thread, pc : Syscall]
      OBVIOUS
    <3>3. x.fakeLeaves \in Seq(T) /\ f \in T
      BY <2>2, <3>1, <3>2
    <3>4. q \in Seq(T) /\ ToSet(q) = ToSet(x.fakeLeaves) \cup {f}
      BY <3>3, Appended
    <3> QED  BY <3>1, <3>2, <3>3, <3>4
  <2> f.th = th
    OBVIOUS
  <2> HIDE DEF q, f
  <2>4. SInv(s', {}, None) /\ SameBut(x, s', {"fakeLeaves"}) /\ s'.fakeLeaves = q
    <3>1. \A g \in ToSet(q) : g \in ToSet(x.fakeLeaves) \/ x.state[g.th] = "RUNNING"
      BY <1>2, <2>2, <2>3
    <3> QED  BY <1>5, <2>1, <2>3, <3>1, FakesKeep
  <2>5. /\ s'.state = s.state /\ s'.cid = s.cid /\ s'.marked = s.marked /\ s'.failed = s.failed
        /\ s'.handoffThread = s.handoffThread /\ s'.calls = x.calls
    BY <2>2, <2>4 DEF SameBut, FieldNames
  <2>6. \A u : InFakeLeave(s', u) <=> InFakeLeave(s, u) \/ u = th
    <3>1. /\ \A u : InFakeLeave(s, u) <=> \E g \in ToSet(x.fakeLeaves) : g.th = u
          /\ \A u : InFakeLeave(s', u) <=> \E g \in ToSet(q) : g.th = u
      BY <2>2, <2>3, <2>4 DEF InFakeLeave, ToSet
    <3> HIDE DEF InFakeLeave
    <3> QED  BY <2>3, <3>1
  <2> HIDE DEF InFakeLeave
  <2>7. \A u \in Thread \ {th} : Kept(s, s', at[u], u)
    BY <1>4, <2>5, <2>6 DEF Kept
  <2>8. Bar' /\ at'[th] = "syscall" /\ \A u \in Thread \ {th} : at'[u] = at[u]
    BY <1>1, <2>1, SameBar
  <2>9. Agreed(s, at)'
    <3>1. s.cid[th] \notin b.done
      BY <1>1, <1>2 DEF Agreed, AtBarrier
    <3>2. \A u \in Thread : s.state[u] = "RUNNING" =>
            /\ s'.cid[u] = s.cid[u]
            /\ at'[u] \in {"join", "sync"} <=> at[u] \in {"join", "sync"}
            /\ s.cid[u] \in b.done => at'[u] = at[u] /\ s'.handoffThread[u] = s.handoffThread[u]
      BY <1>1, <2>5, <2>8, <3>1
    <3> QED  BY <2>1, <2>4, <2>5, <3>2, AgreedStays
  <2>10. Placed(s', "syscall", th) /\ Watched(s', "syscall", wd, th) /\ "syscall" \in Places
    BY <1>2, <1>8, <2>5, <2>6 DEF Placed, Watched, Places
  <2> QED  BY <1>1, <2>4, <2>5, <2>7, <2>8, <2>9, <2>10, StepKeeps
<1> QED  BY <1>7, <1>8

\* A thread that ends leaves.
LEMMA FinishLeaveKeeps ==
  ASSUME IInv, ~s.failed, NEW th \in Thread, FinishLeave(th)
  PROVE  IInv'
<1>1. /\ at[th] = "leaving" /\ wd' = wd /\ at' = [at EXCEPT ![th] = "finishing"]
      /\ SInv(s, {}, None) /\ at \in [Thread -> Places]
      /\ wd.stage = "leave" => wd.th # th
      /\ DoLeave(th, proc[th], s.cid[th], s)
  BY DEF FinishLeave, IInv, Watching
<1>2. s.state[th] = "RUNNING" /\ ~s.marked[th] /\ ~InFakeLeave(s, th)
  BY <1>1 DEF IInv, Placed
<1>3. SameBut(s, s, {"calls"}) /\ \A u \in Thread \ {th} : s.calls[u] = s.calls[u]
  BY DEF SameBut
<1>4. \A u \in Thread \ {th} : at'[u] = at[u]
  BY <1>1
<1>5. Leaves(th)
  BY <1>1, <1>2, <1>3, <1>4, DoLeaveKeeps
<1> QED  BY <1>1, <1>2, <1>5, LeftKeeps

\* A thread that is not scheduled is in no run queue.
LEMMA GoneFromQueue ==
  ASSUME NEW x, SInv(x, {}, None), NEW th \in Thread, x.state[th] # "QUEUED"
  PROVE  LET y == [x EXCEPT !.runQueue = Without(@, {th})] IN
         SInv(y, {}, None) /\ SameBut(x, y, {"runQueue"})
<1> DEFINE q == Without(x.runQueue, {th})
           y == [x EXCEPT !.runQueue = q]
<1>1. Typed(x) /\ x \in Schedulers
  BY Types DEF SInv
<1>2. q \in Seq(Thread) /\ ToSet(q) = ToSet(x.runQueue) /\ Distinct(q)
  <2>1. x.runQueue \in Seq(Thread)
    BY <1>1 DEF Typed
  <2>2. Distinct(x.runQueue) /\ th \notin ToSet(x.runQueue)
    BY DEF SInv, Promised
  <2>3. q \in Seq(Thread) /\ ToSet(q) = ToSet(x.runQueue) \ {th} /\ Distinct(q)
    BY <2>1, <2>2, WithoutKeeps
  <2> HIDE DEF q
  <2> QED  BY <2>2, <2>3
<1> HIDE DEF q
<1>3. y \in Schedulers /\ y.runQueue = q /\ SameBut(x, y, {"runQueue"})
  BY <1>1, <1>2 DEF Schedulers, SameBut, FieldNames
<1> HIDE DEF y
<1>4. /\ y.state = x.state /\ y.cid = x.cid /\ y.handoffThread = x.handoffThread
      /\ y.futexWord = x.futexWord /\ y.marked = x.marked /\ y.left = x.left
      /\ y.curThread = x.curThread /\ y.freeList = x.freeList /\ y.outQueue = x.outQueue
      /\ y.sleepQueue = x.sleepQueue /\ y.fakeLeaves = x.fakeLeaves
  BY <1>3 DEF SameBut, FieldNames
<1>5. Owned(y)
  BY <1>4 DEF SInv, Owned
<1>6. Listed(y, None)
  BY <1>4 DEF SInv, Listed
<1>7. Ordered(y)
  BY <1>4 DEF SInv, Ordered
<1>8. Promised(y, {})
  BY <1>2, <1>3, <1>4 DEF SInv, Promised
<1>9. Conserving(y, None)
  BY <1>2, <1>3, <1>4 DEF SInv, Conserving, Busy
<1>10. Words(y, {}) /\ Fakes(y)
  BY <1>4 DEF SInv, Words, Fakes
<1> QED  BY <1>3, <1>5, <1>6, <1>7, <1>8, <1>9, <1>10 DEF SInv, y, q

\* What the thread still has is given back.
Cleared(th, x) ==
  IF x.state[th] = "OUT"
    THEN [Deschedule([x EXCEPT !.outQueue = Without(@, {th})], th, "BLOCKED")
            EXCEPT !.freeList = Append(@, x.cid[th])]
    ELSE [x EXCEPT !.runQueue = Without(@, {th})]

\* A thread that ends gives back its context or its place in the queue ...
LEMMA ClearedKeeps ==
  ASSUME NEW x, SInv(x, {}, None), NEW th \in Thread, x.state[th] \in {"STARTED", "OUT", "BLOCKED"}
  PROVE  LET y == Cleared(th, x) IN
         /\ SInv(y, {}, None)
         /\ SameBut(x, y, {"outQueue", "state", "curThread", "freeList", "runQueue"})
         /\ y.state[th] \in {"STARTED", "BLOCKED"}
         /\ \A u \in Thread \ {th} : y.state[u] = x.state[u]
<1> DEFINE y == Cleared(th, x)
           c == x.cid[th]
<1>1. x.state \in [Thread -> ThreadStates] /\ c \in Context
  BY Types DEF SInv, Typed
<1>2. CASE x.state[th] = "OUT"
  <2> DEFINE w == Deschedule([x EXCEPT !.outQueue = Without(@, {th})], th, "BLOCKED")
             v == [w EXCEPT !.freeList = Append(@, c)]
  <2>1. y = v
    BY <1>2 DEF Cleared
  <2>2. /\ SInv(w, {}, c) /\ SameBut(x, w, {"outQueue", "state", "curThread"})
        /\ w.state = [x.state EXCEPT ![th] = "BLOCKED"]
    BY <1>2, EvictKeeps
  <2> HIDE DEF w
  <2>3. \A u \in ToSet(w.runQueue) : c \notin mask[u]
    <3>1. w.runQueue = x.runQueue
      BY <2>2 DEF SameBut, FieldNames
    <3>2. ~Busy(x, c)
      BY <1>1, <1>2 DEF SInv, Owned, Scheduled, Busy
    <3> QED  BY <1>1, <3>1, <3>2, Nobody DEF SInv, Conserving
  <2>4. SInv(v, {}, None) /\ SameBut(w, v, {"freeList"})
    BY <1>1, <2>2, <2>3, ReleaseKeeps
  <2> HIDE DEF v
  <2>5. v.state = w.state
        /\ SameBut(x, v, {"outQueue", "state", "curThread", "freeList", "runQueue"})
    BY <2>2, <2>4 DEF SameBut, FieldNames
  <2>6. v.state[th] = "BLOCKED" /\ \A u \in Thread \ {th} : v.state[u] = x.state[u]
    BY <1>1, <2>2, <2>5
  <2> QED  BY <2>1, <2>4, <2>5, <2>6
<1>3. CASE x.state[th] # "OUT"
  <2> DEFINE v == [x EXCEPT !.runQueue = Without(@, {th})]
  <2>1. y = v
    BY <1>3 DEF Cleared
  <2>2. SInv(v, {}, None) /\ SameBut(x, v, {"runQueue"})
    BY <1>3, GoneFromQueue
  <2> HIDE DEF v
  <2>3. v.state = x.state
        /\ SameBut(x, v, {"outQueue", "state", "curThread", "freeList", "runQueue"})
    BY <2>2 DEF SameBut, FieldNames
  <2> QED  BY <1>3, <2>1, <2>2, <2>3
<1> QED  BY <1>2, <1>3

\* ... and is gone.
LEMMA FinishedKeeps ==
  ASSUME IInv, ~s.failed, NEW th \in Thread, wd.stage = "leave" => wd.th # th, wd' = wd,
         s.state[th] \in {"STARTED", "OUT", "BLOCKED"}, at[th] \in {"new", "syscall", "finishing"},
         ~InFakeLeave(s, th), Finished(th, s), UNCHANGED bvars
  PROVE  IInv'
<1>1. /\ SInv(s, {}, None) /\ Bar /\ Agreed(s, at) /\ at \in [Thread -> Places]
      /\ Placed(s, at[th], th)
  BY DEF IInv
<1>2. ~s.marked[th] /\ s.handoffThread[th] = None
  <2> HIDE DEF InFakeLeave
  <2> QED  BY <1>1 DEF Placed
<1>3. PICK c : c = CHOOSE d \in Context : TRUE
  OBVIOUS
<1>4. c \in Context
  <2>1. \E d \in Context : TRUE
    BY <1>1, Types DEF SInv, Typed
  <2> QED  BY <1>3, <2>1
<1>5. PICK y : y = Cleared(th, s)
  OBVIOUS
<1>6. s' = AsNew(y, th, c) /\ at' = [at EXCEPT ![th] = "none"]
  BY <1>3, <1>5 DEF Finished, Cleared, AsNew, Checked
<1>7. /\ SInv(y, {}, None)
      /\ SameBut(s, y, {"outQueue", "state", "curThread", "freeList", "runQueue"})
      /\ y.state[th] \in {"STARTED", "BLOCKED"}
      /\ \A u \in Thread \ {th} : y.state[u] = s.state[u]
  BY <1>1, <1>5, ClearedKeeps
<1>8. /\ SInv(s', {}, None) /\ SameBut(y, s', {"state", "futexWord", "cid"})
      /\ \A u \in Thread : s'.state[u] = IF u = th THEN "STARTED" ELSE y.state[u]
      /\ \A u \in Thread : u # th => s'.cid[u] = y.cid[u]
  BY <1>4, <1>6, <1>7, ResetKeeps
<1>9. /\ y.cid = s.cid /\ s'.marked = s.marked /\ s'.calls = s.calls /\ s'.failed = s.failed
      /\ s'.handoffThread = s.handoffThread /\ s'.fakeLeaves = s.fakeLeaves
  BY <1>7, <1>8 DEF SameBut, FieldNames
<1>10. \A u : InFakeLeave(s', u) <=> InFakeLeave(s, u)
  BY <1>9 DEF InFakeLeave
<1> HIDE DEF InFakeLeave
<1>11. \A u \in Thread \ {th} : Kept(s, s', at[u], u)
  BY <1>7, <1>8, <1>9, <1>10 DEF Kept
<1>12. Bar' /\ \A u \in Thread \ {th} : at'[u] = at[u]
  BY <1>1, <1>6, SameBar
<1>13. Agreed(s, at)'
  <2>1. \A u \in Thread : s'.state[u] = "RUNNING" <=> s.state[u] = "RUNNING"
    BY <1>7, <1>8
  <2>2. \A u \in Thread : s.state[u] = "RUNNING" =>
          /\ s'.cid[u] = s.cid[u]
          /\ at'[u] \in {"join", "sync"} <=> at[u] \in {"join", "sync"}
          /\ s.cid[u] \in b.done => at'[u] = at[u] /\ s'.handoffThread[u] = s.handoffThread[u]
    BY <1>8, <1>9, <1>12
  <2> QED  BY <1>8, <2>1, <2>2, AgreedStays
<1>14. Placed(s', "none", th) /\ Watched(s', "none", wd, th) /\ "none" \in Places
  BY <1>2, <1>8, <1>9, <1>10 DEF Placed, Watched, Places
<1> QED  BY <1>6, <1>8, <1>9, <1>11, <1>12, <1>13, <1>14, StepKeeps

\* A thread ends.
LEMMA FinishKeeps ==
  ASSUME IInv, ~s.failed, ~WatchdogRaces, NEW th \in Thread, Finish(th)
  PROVE  IInv'
<1>1. /\ at[th] \in {"new", "syscall"} /\ wd' = wd /\ UNCHANGED bvars
      /\ s.state[th] # "SLEEPING"
      /\ wd.stage = "leave" => wd.th # th
      /\ Placed(s, at[th], th) /\ Watched(s, at[th], wd, th)
  BY DEF Finish, Unwatched, IInv
<1>2. CASE s.state[th] = "RUNNING"
  <2>1. InFakeLeave(s, th)
    <3> HIDE DEF InFakeLeave
    <3> QED  BY <1>1, <1>2 DEF Placed, Watched
  <2>2. s' = FinishFakeLeave(s, th) /\ at' = [at EXCEPT ![th] = "leaving"]
    BY <1>2, <2>1, Zenon DEF Finish
  <2> QED  BY <1>1, <2>1, <2>2, FakeEndedKeeps
<1>3. CASE s.state[th] # "RUNNING"
  <2>1. Finished(th, s)
    BY <1>3, Zenon DEF Finish
  <2>2. s.state[th] \in {"STARTED", "OUT", "BLOCKED"}
    <3> HIDE DEF InFakeLeave
    <3> QED  BY <1>1, <1>3 DEF Placed
  <2>3. ~InFakeLeave(s, th)
    BY <1>3, FakesRun DEF IInv
  <2> QED  BY <1>1, <2>1, <2>2, <2>3, FinishedKeeps
<1> QED  BY <1>2, <1>3

\* A thread that has left ends.
LEMMA FinishEndKeeps ==
  ASSUME IInv, ~s.failed, NEW th \in Thread, FinishEnd(th)
  PROVE  IInv'
<1>1. /\ at[th] = "finishing" /\ wd' = wd /\ UNCHANGED bvars /\ Finished(th, s)
      /\ Placed(s, at[th], th)
      /\ wd.stage = "leave" => wd.th # th
  BY DEF FinishEnd, IInv, Watching
<1> HIDE DEF InFakeLeave
<1>2. s.state[th] \in {"STARTED", "OUT", "BLOCKED"} /\ ~InFakeLeave(s, th)
  BY <1>1 DEF Placed
<1> QED  BY <1>1, <1>2, FinishedKeeps

-----------------------------------------------------------------------------
(* The watchdog                                                            *)

\* The head of a queue
LEMMA HeadIs ==
  ASSUME NEW S, NEW q \in Seq(S), q # <<>>
  PROVE  Head(q) = q[1] /\ 1 \in DOMAIN q /\ Head(q) \in S
OBVIOUS

\* The oldest fake leave is over, and its thread about to leave.
LEMMA UnfakeKeeps ==
  ASSUME IInv, ~s.failed, wd.stage \in {"idle", "next"}, s.fakeLeaves # <<>>,
         NEW pid \in Nat, NEW pc \in Syscall, SameProcess => \A t \in Thread : pid = proc[t],
         Unfake(pid, pc), UNCHANGED <<bvars, at>>
  PROVE  IInv'
<1>1. /\ SInv(s, {}, None) /\ Bar /\ Agreed(s, at) /\ at \in [Thread -> Places]
      /\ \A u \in Thread : Placed(s, at[u], u) /\ Watched(s, at[u], wd, u)
  BY DEF IInv
<1>2. PICK th : th = Head(s.fakeLeaves).th
  OBVIOUS
<1>3. th \in Thread /\ InFakeLeave(s, th)
  <2>1. s.fakeLeaves \in Seq([th : Thread, pc : Syscall])
    BY <1>1, Types DEF SInv, Typed
  <2>2. Head(s.fakeLeaves) = s.fakeLeaves[1] /\ 1 \in DOMAIN s.fakeLeaves
        /\ Head(s.fakeLeaves) \in [th : Thread, pc : Syscall]
    BY <2>1, HeadIs
  <2> QED  BY <1>2, <2>2 DEF InFakeLeave
<1>4. PICK y : y = FinishFakeLeave(s, th)
  OBVIOUS
<1>5. /\ SInv(y, {}, None) /\ SameBut(s, y, {"fakeLeaves"})
      /\ \A u : InFakeLeave(y, u) <=> InFakeLeave(s, u) /\ u # th
  BY <1>1, <1>3, <1>4, FinishFakeLeaveKeeps
<1> DEFINE B1 == IF wd.stage = "idle" /\ Len(s.fakeLeaves) = 1
                   THEN y.blockingSyscalls \cup {<<pid, pc>>} ELSE y.blockingSyscalls
<1>6. /\ s' = [y EXCEPT !.blockingSyscalls = B1]
      /\ wd' = [stage |-> "leave", th |-> th, cid |-> s.cid[th], pid |-> pid, pc |-> pc]
  BY <1>2, <1>4 DEF Unfake
<1>7. B1 \in SUBSET (Nat \X Syscall)
  BY <1>5 DEF SInv, Schedulers
<1> HIDE DEF B1
<1>8. s' \in Schedulers /\ SameBut(y, s', {"blockingSyscalls"})
  <2>1. y \in Schedulers
    BY <1>5 DEF SInv
  <2> QED  BY <1>6, <1>7, <2>1 DEF Schedulers, SameBut, FieldNames
<1>9. SInv(s', {}, None)
  <2>1. SameBut(y, s', {"calls", "blockingSyscalls", "failed", "phase"})
    BY <1>8 DEF SameBut
  <2> QED  BY <1>5, <1>8, <2>1, SameScheduler
<1>10. /\ s'.state = s.state /\ s'.cid = s.cid /\ s'.marked = s.marked /\ s'.calls = s.calls
       /\ s'.handoffThread = s.handoffThread /\ s'.failed = s.failed
       /\ s'.fakeLeaves = y.fakeLeaves
  BY <1>5, <1>8 DEF SameBut, FieldNames
<1>11. \A u : InFakeLeave(s', u) <=> InFakeLeave(s, u) /\ u # th
  <2>1. \A u : InFakeLeave(s', u) <=> InFakeLeave(y, u)
    BY <1>10 DEF InFakeLeave
  <2> HIDE DEF InFakeLeave
  <2> QED  BY <1>5, <2>1
<1>12. s.state[th] = "RUNNING"
  BY <1>1, <1>3, FakesRun
<1> HIDE DEF InFakeLeave
<1>13. at[th] = "syscall"
  BY <1>1, <1>3 DEF Placed
<1>14. ASSUME NEW u \in Thread PROVE Placed(s', at'[u], u) /\ Watched(s', at'[u], wd', u)
  <2>1. at'[u] = at[u] /\ wd'.stage = "leave" /\ wd'.th = th
    BY <1>6
  <2>2. Placed(s', at[u], u)
    BY <1>1, <1>10, <1>11 DEF Placed
  <2>3. Watched(s', at[u], wd', u)
    BY <1>1, <1>10, <1>11, <2>1 DEF Watched
  <2> QED  BY <2>1, <2>2, <2>3
<1>15. Watching(s', at', wd')
  <2>1. s.cid[th] \in Context
    BY <1>1, <1>3, Types DEF SInv, Typed
  <2>2. wd' \in Watches
    BY <1>3, <1>6, <2>1 DEF Watches
  <2> QED  BY <1>3, <1>6, <1>10, <1>11, <1>12, <1>13, <2>2 DEF Watching
<1>16. Bar' /\ Agreed(s, at)'
  <2>1. Bar' /\ UNCHANGED bvars
    BY <1>1, SameBar
  <2> QED  BY <1>9, <1>10, <2>1, AgreedStays
<1> QED  BY <1>1, <1>9, <1>10, <1>14, <1>15, <1>16 DEF IInv

\* The watchdog finds the phase stalled: the oldest fake leave is to become real.
LEMMA WatchdogStallKeeps ==
  ASSUME IInv, ~s.failed, WatchdogStall
  PROVE  IInv'
<1>1. SInv(s, {}, None) /\ s.fakeLeaves # <<>>
  BY DEF IInv, WatchdogStall
<1>2. PICK f : f = Head(s.fakeLeaves)
  OBVIOUS
<1>3. f.th \in Thread /\ f.pc \in Syscall
  <2>1. s.fakeLeaves \in Seq([th : Thread, pc : Syscall])
    BY <1>1, Types DEF SInv, Typed
  <2>2. f \in [th : Thread, pc : Syscall]
    BY <1>1, <1>2, <2>1, HeadIs
  <2> QED  BY <2>2
<1>4. proc[f.th] \in Nat /\ (SameProcess => \A t \in Thread : proc[f.th] = proc[t])
  BY <1>3, SchedulerAssumption DEF SameProcess
<1>5. Unfake(proc[f.th], f.pc) /\ UNCHANGED <<bvars, at>> /\ wd.stage \in {"idle", "next"}
  BY <1>2, Zenon DEF WatchdogStall
<1> QED  BY <1>1, <1>3, <1>4, <1>5, UnfakeKeeps

\* It takes the next one of the same system call, or is done.
LEMMA WatchdogNextKeeps ==
  ASSUME IInv, ~s.failed, WatchdogNext
  PROVE  IInv'
<1>1. /\ wd.stage = "next" /\ UNCHANGED <<bvars, at>> /\ SInv(s, {}, None)
      /\ Watching(s, at, wd) /\ s.fakeLeaves \in Seq([th : Thread, pc : Syscall])
  BY Types DEF IInv, WatchdogNext, SInv, Typed
<1>2. CASE Len(s.fakeLeaves) > Backlog /\ Head(s.fakeLeaves).pc = wd.pc
  <2>1. Unfake(wd.pid, wd.pc)
    BY <1>2, Zenon DEF WatchdogNext
  <2>2. s.fakeLeaves # <<>>
    BY <1>1, <1>2, SchedulerAssumption
  <2>3. Head(s.fakeLeaves) \in [th : Thread, pc : Syscall]
    BY <1>1, <2>2, HeadIs
  <2>4. wd.pc \in Syscall
    BY <1>2, <2>3
  <2>5. wd.pid \in Nat /\ (SameProcess => \A t \in Thread : wd.pid = proc[t])
    BY <1>1 DEF Watching, Watches
  <2> QED  BY <1>1, <2>1, <2>2, <2>4, <2>5, UnfakeKeeps
<1>3. CASE ~(Len(s.fakeLeaves) > Backlog /\ Head(s.fakeLeaves).pc = wd.pc)
  <2>1. wd' = Idle /\ s' = s
    BY <1>3, Zenon DEF WatchdogNext
  <2>2. Watching(s', at', wd')
    BY <2>1 DEF Idle, Watching, Watches
  <2>3. ASSUME NEW u \in Thread PROVE Placed(s', at'[u], u) /\ Watched(s', at'[u], wd', u)
    <3> HIDE DEF InFakeLeave
    <3> QED  BY <1>1, <2>1 DEF IInv, Watched
  <2>4. Bar' /\ Agreed(s, at)'
    <3>1. Bar' /\ UNCHANGED bvars
      BY <1>1, SameBar DEF IInv
    <3> QED  BY <1>1, <2>1, <3>1, AgreedStays
  <2> QED  BY <1>1, <2>1, <2>2, <2>3, <2>4 DEF IInv
<1> QED  BY <1>2, <1>3

\* It makes the leave real: this is where it does not hold the lock.
LEMMA WatchdogLeaveKeeps ==
  ASSUME IInv, ~s.failed, WatchdogLeave
  PROVE  IInv'
<1>1. /\ wd.stage = "leave" /\ at' = at /\ DoLeave(wd.th, wd.pid, wd.cid, s)
      /\ wd' = [wd EXCEPT !.stage = "next"]
      /\ SInv(s, {}, None) /\ Watching(s, at, wd) /\ at \in [Thread -> Places]
      /\ \A u \in Thread : Placed(s, at[u], u) /\ Watched(s, at[u], wd, u)
  BY DEF IInv, WatchdogLeave
<1>2. PICK th : th = wd.th
  OBVIOUS
<1>3. /\ th \in Thread /\ wd.cid = s.cid[th]
      /\ at[th] = "syscall" /\ s.state[th] = "RUNNING" /\ ~InFakeLeave(s, th)
      /\ SameProcess => \A t \in Thread : wd.pid = proc[t]
  <2> HIDE DEF InFakeLeave
  <2> QED  BY <1>1, <1>2 DEF Watching
<1>4. wd' \in Watches /\ wd'.stage = "next" /\ wd'.pid = wd.pid
  BY <1>1 DEF Watching, Watches
<1>5. CASE wd.pid = proc[th]
  <2>1. DoLeave(th, proc[th], s.cid[th], s)
    BY <1>1, <1>2, <1>3, <1>5
  <2>2. SameBut(s, s, {"calls"}) /\ \A u \in Thread \ {th} : s.calls[u] = s.calls[u] /\ at'[u] = at[u]
    BY <1>1 DEF SameBut
  <2>3. at[th] \in {"app", "marked", "leaving", "syscall"}
    BY <1>3
  <2>4. Leaves(th)
    BY <1>1, <1>3, <2>1, <2>2, <2>3, DoLeaveKeeps
  <2> HIDE DEF InFakeLeave
  <2>5. ASSUME NEW u \in Thread PROVE Placed(s', at[u], u) /\ Watched(s', at[u], wd', u)
    <3>1. CASE u = th
      <4>1. Placed(s', "syscall", th)
        BY <2>4 DEF Leaves, Placed
      <4>2. Watched(s', "syscall", wd', th)
        BY <2>4 DEF Leaves, Watched
      <4> QED  BY <1>3, <3>1, <4>1, <4>2
    <3>2. CASE u # th
      <4>1. Kept(s, s', at[u], u)
        BY <2>4, <3>2 DEF Leaves
      <4>2. Placed(s', at[u], u) /\ Watched(s', at[u], wd, u)
        BY <1>1, <4>1, KeptIs, StillWatched
      <4> QED  BY <1>2, <3>2, <4>2 DEF Watched
    <3> QED  BY <3>1, <3>2
  <2>6. Watching(s', at', wd')
    BY <1>3, <1>4 DEF Watching
  <2> QED  BY <1>1, <2>4, <2>5, <2>6 DEF IInv, Leaves
<1>6. CASE wd.pid # proc[th]
  <2>1. ~SameProcess
    BY <1>3, <1>6
  <2>2. s' = [s EXCEPT !.failed = TRUE] /\ UNCHANGED bvars
    BY <1>1, <1>2, <1>6 DEF DoLeave, Checked
  <2>3. s' \in Schedulers /\ SameBut(s, s', {"failed"}) /\ s'.failed = TRUE
    <3>1. s \in Schedulers
      BY <1>1 DEF SInv
    <3> QED  BY <2>2, <3>1 DEF Schedulers, SameBut, FieldNames
  <2>4. SInv(s', {}, None)
    <3>1. SameBut(s, s', {"calls", "blockingSyscalls", "failed", "phase"})
      BY <2>3 DEF SameBut
    <3> QED  BY <1>1, <2>3, <3>1, SameScheduler
  <2>5. /\ s'.state = s.state /\ s'.cid = s.cid /\ s'.marked = s.marked /\ s'.calls = s.calls
        /\ s'.handoffThread = s.handoffThread /\ s'.fakeLeaves = s.fakeLeaves
    BY <2>3 DEF SameBut, FieldNames
  <2>6. \A u : InFakeLeave(s', u) <=> InFakeLeave(s, u)
    BY <2>5 DEF InFakeLeave
  <2> HIDE DEF InFakeLeave
  <2>7. ASSUME NEW u \in Thread PROVE Placed(s', at'[u], u) /\ Watched(s', at'[u], wd', u)
    BY <1>1, <2>3, <2>5, <2>6 DEF Placed, Watched
  <2>8. Watching(s', at', wd')
    BY <1>3, <1>4 DEF Watching
  <2>9. Bar' /\ Agreed(s, at)'
    <3>1. Bar'
      BY <2>2, SameBar DEF IInv
    <3> QED  BY <1>1, <2>2, <2>4, <2>5, <3>1, AgreedStays
  <2> QED  BY <1>1, <2>1, <2>4, <2>7, <2>8, <2>9 DEF IInv
<1> QED  BY <1>5, <1>6

\* When as many contexts have a thread as there are threads OUT, nobody runs.
LEMMA NobodyRuns ==
  ASSUME NEW x, SInv(x, {}, None),
         Cardinality({c \in Context : x.curThread[c] # None}) = Len(x.outQueue)
  PROVE  \A th \in Thread : x.state[th] # "RUNNING"
<1> DEFINE n == Len(x.outQueue)
           T == {c \in Context : x.curThread[c] # None}
           f == [i \in 1 .. n |-> x.cid[x.outQueue[i]]]
<1>1. Typed(x) /\ x.outQueue \in Seq(Thread) /\ n \in Nat /\ DOMAIN x.outQueue = 1 .. n
  <2>1. Typed(x) /\ x.outQueue \in Seq(Thread)
    BY Types DEF SInv, Typed
  <2> QED  BY <2>1
<1>2. ASSUME NEW i \in 1 .. n
      PROVE  /\ x.outQueue[i] \in Thread /\ x.state[x.outQueue[i]] = "OUT"
             /\ f[i] \in Context /\ x.curThread[f[i]] = x.outQueue[i]
  <2>1. x.outQueue[i] \in Thread /\ x.outQueue[i] \in ToSet(x.outQueue)
    BY <1>1, Members
  <2>2. x.state[x.outQueue[i]] = "OUT"
    BY <2>1 DEF SInv, Listed
  <2>3. f[i] = x.cid[x.outQueue[i]] /\ x.cid[x.outQueue[i]] \in Context
    BY <1>1, <2>1 DEF Typed
  <2> QED  BY <2>1, <2>2, <2>3 DEF SInv, Owned, Scheduled
<1>3. f \in Injection(1 .. n, T)
  <2>1. f \in [1 .. n -> T]
    BY <1>2, Nobody
  <2>2. ASSUME NEW i \in 1 .. n, NEW j \in 1 .. n, f[i] = f[j] PROVE i = j
    <3>1. x.outQueue[i] = x.outQueue[j]
      BY <1>2, <2>2
    <3> QED  BY <1>1, <3>1 DEF SInv, Listed, Distinct
  <2> HIDE DEF f
  <2> QED  BY <2>1, <2>2 DEF Injection, IsInjective
<1>4. IsFiniteSet(T) /\ Cardinality(1 .. n) = Cardinality(T)
  <2>1. IsFiniteSet(T)
    BY SchedulerAssumption, FS_Subset
  <2>2. Cardinality(1 .. n) = n
    BY <1>1, FS_Interval
  <2> QED  BY <2>1, <2>2
<1>5. f \in Surjection(1 .. n, T)
  <2> HIDE DEF f, n, T
  <2> QED  BY <1>3, <1>4, FS_Injection
<1> SUFFICES ASSUME NEW th \in Thread, x.state[th] = "RUNNING" PROVE FALSE
  OBVIOUS
<1>6. x.cid[th] \in T /\ x.curThread[x.cid[th]] = th
  BY <1>1, Nobody DEF Typed, SInv, Owned, Scheduled
<1>7. PICK i \in 1 .. n : f[i] = x.cid[th]
  <2> HIDE DEF f, T
  <2> QED  BY <1>5, <1>6 DEF Surjection
<1> HIDE DEF f
<1> QED  BY <1>2, <1>6, <1>7

\* Nobody is in the barrier: the watchdog drives the time.
LEMMA WatchdogDriveTimeKeeps ==
  ASSUME IInv, ~s.failed, WatchdogDriveTime
  PROVE  IInv'
<1>1. /\ UNCHANGED <<bvars, at, wd>> /\ s' \in Callback(s) /\ SInv(s, {}, None)
      /\ wd.stage = "idle" /\ Watching(s, at, wd)
      /\ \A u \in Thread : Placed(s, at[u], u) /\ Watched(s, at[u], wd, u)
      /\ Bar /\ Agreed(s, at)
  BY DEF IInv, WatchdogDriveTime
<1>2. \A u \in Thread : s.state[u] # "RUNNING"
  BY <1>1, NobodyRuns DEF WatchdogDriveTime
<1>3. \A u \in Thread : ~s.marked[u] /\ s.handoffThread[u] = None
  BY <1>1, <1>2 DEF SInv, Words, Promised
<1>4. /\ SInv(s', {}, None)
      /\ SameBut(s, s', {"phase", "left", "state", "futexWord", "sleepQueue",
                         "handoffThread", "runQueue"})
      /\ \A u \in Thread : s'.state[u] = s.state[u]
                             \/ (s.state[u] = "SLEEPING" /\ s'.state[u] = "BLOCKED")
  BY <1>1, <1>3, CallbackKeeps
<1>5. /\ s'.cid = s.cid /\ s'.marked = s.marked /\ s'.calls = s.calls
      /\ s'.fakeLeaves = s.fakeLeaves /\ s'.failed = s.failed
  BY <1>4 DEF SameBut, FieldNames
<1>6. \A u \in Thread : s'.state[u] # "RUNNING"
  BY <1>2, <1>4
<1>7. \A u \in Thread : s'.handoffThread[u] = None
  BY <1>4, <1>6 DEF SInv, Promised
<1>8. \A u : InFakeLeave(s', u) <=> InFakeLeave(s, u)
  BY <1>5 DEF InFakeLeave
<1> HIDE DEF InFakeLeave
<1>9. ASSUME NEW u \in Thread PROVE Placed(s', at'[u], u) /\ Watched(s', at'[u], wd', u)
  <2>1. Kept(s, s', at[u], u)
    BY <1>3, <1>4, <1>5, <1>7, <1>8 DEF Kept
  <2> QED  BY <1>1, <2>1, KeptIs, StillWatched
<1>10. Watching(s', at', wd')
  BY <1>1 DEF Watching
<1>11. Bar' /\ Agreed(s, at)'
  <2>1. Bar'
    BY <1>1, SameBar
  <2> QED  BY <1>1, <1>2, <1>4, <1>6, <2>1, AgreedStays
<1> QED  BY <1>1, <1>4, <1>5, <1>9, <1>10, <1>11 DEF IInv

-----------------------------------------------------------------------------
(* The invariant holds                                                     *)

\* A finite set in a sequence
LEMMA AllListed ==
  ASSUME NEW S, IsFiniteSet(S)
  PROVE  SetToSeq(S) \in Seq(S) /\ ToSet(SetToSeq(S)) = S /\ Distinct(SetToSeq(S))
<1> DEFINE n == Cardinality(S)
           f == SetToSeq(S)
<1>1. n \in Nat /\ ExistsBijection(1 .. n, S)
  BY FS_CardinalityType
<1>2. \E g \in [1 .. n -> S] : IsInjective(g)
  BY <1>1 DEF ExistsBijection, Bijection, Injection
<1>3. f \in [1 .. n -> S] /\ IsInjective(f)
  BY <1>2 DEF SetToSeq
<1> HIDE DEF f
<1>4. f \in Surjection(1 .. n, S)
  <2>1. f \in Injection(1 .. n, S)
    BY <1>3 DEF Injection
  <2>2. Cardinality(1 .. n) = n
    BY <1>1, FS_Interval
  <2> HIDE DEF n
  <2>3. Cardinality(1 .. n) = Cardinality(S)
    BY <2>2 DEF n
  <2> QED  BY <2>1, <2>3, FS_Injection
<1> HIDE DEF n
<1>5. f \in Seq(S) /\ DOMAIN f = 1 .. n
  BY <1>1, <1>3
<1>6. ToSet(f) = S
  BY <1>3, <1>4, <1>5 DEF ToSet, Surjection
<1>7. Distinct(f)
  BY <1>3 DEF IsInjective, Distinct
<1> QED  BY <1>5, <1>6, <1>7 DEF f

\* The initial states
LEMMA InitInv == Init => IInv
<1> SUFFICES ASSUME Init PROVE IInv
  OBVIOUS
<1>1. Bar
  <2>1. BP!Init
    BY SameOperations DEF Init
  <2>2. BP!IInv
    BY <2>1, BarrierParameters, BP!InitInv
  <2>3. ~b.killed
    BY DEF Init, B!Init
  <2> QED  BY <2>2, <2>3 DEF Bar
<1>2. PICK c : c = CHOOSE d \in Context : TRUE
  OBVIOUS
<1>3. c \in Context
  <2>1. \E d \in Context : TRUE
    BY SchedulerAssumption
  <2> QED  BY <1>2, <2>1
<1>4. PICK q : q = SetToSeq(Context)
  OBVIOUS
<1>5. q \in Seq(Context) /\ ToSet(q) = Context /\ Distinct(q)
  BY <1>4, AllListed, SchedulerAssumption
<1>6. /\ s.state = [t \in Thread |-> "STARTED"] /\ s.cid = [t \in Thread |-> c]
      /\ s.handoffThread = [t \in Thread |-> None] /\ s.futexWord = [t \in Thread |-> 0]
      /\ s.marked = [t \in Thread |-> FALSE] /\ s.left = [t \in Thread |-> 0]
      /\ s.curThread = [d \in Context |-> None] /\ s.freeList = q
      /\ s.runQueue = <<>> /\ s.outQueue = <<>> /\ s.sleepQueue = <<>> /\ s.fakeLeaves = <<>>
      /\ s.calls = [t \in Thread |-> 0] /\ s.failed = FALSE
  BY <1>2, <1>4 DEF Init
<1>7. s \in Schedulers
  <2>1. 0 \in 0 .. MaxSleep /\ 0 \in 0 .. schedQuantum - 1 /\ 0 \in 0 .. MaxCalls
    BY SchedulerAssumption
  <2> QED  BY <1>2, <1>3, <1>4, <1>5, <2>1 DEF Init, Schedulers, ThreadStates
<1>8. ToSet(<<>>) = {} /\ Distinct(<<>>)
  BY DEF ToSet, Distinct
<1>9. Owned(s)
  BY <1>6, Nobody DEF Owned, Scheduled
<1>10. Listed(s, None)
  BY <1>5, <1>6, <1>8, Nobody DEF Listed
<1>11. Ordered(s)
  BY <1>6 DEF Ordered
<1>12. Promised(s, {})
  BY <1>6, <1>8 DEF Promised
<1>13. Conserving(s, None)
  BY <1>6, <1>8 DEF Conserving
<1>14. Words(s, {}) /\ Fakes(s)
  BY <1>6, <1>8 DEF Words, Fakes
<1>15. SInv(s, {}, None)
  BY <1>7, <1>9, <1>10, <1>11, <1>12, <1>13, <1>14 DEF SInv
<1>16. at = [t \in Thread |-> "none"] /\ at \in [Thread -> Places] /\ wd = Idle
  BY DEF Init, Places
<1>17. ASSUME NEW th \in Thread PROVE Placed(s, at[th], th) /\ Watched(s, at[th], wd, th)
  BY <1>6, <1>16 DEF Placed, Watched, InFakeLeave
<1>18. Watching(s, at, wd)
  BY <1>16 DEF Idle, Watching, Watches
<1>19. Agreed(s, at)
  <2>1. inWait = {} /\ \A d \in Context : b.state[d] = "OFFLINE"
    BY DEF Init, B!Init
  <2>2. \A d \in Context : d \notin Live
    BY <1>1, <2>1, BarIs
  <2>3. \A d \in Context : ~Busy(s, d)
    BY <1>6 DEF Busy
  <2> QED  BY <1>6, <2>1, <2>2, <2>3 DEF Agreed
<1> QED  BY <1>1, <1>6, <1>15, <1>16, <1>17, <1>18, <1>19 DEF IInv

\* Every step
LEMMA NextInv == ~WatchdogRaces /\ IInv /\ [Next]_vars => IInv'
<1> SUFFICES ASSUME ~WatchdogRaces, IInv, [Next]_vars PROVE IInv'
  OBVIOUS
<1>1. CASE UNCHANGED vars
  <2>1. Bar'
    BY <1>1, SameBar DEF vars, bvars, IInv
  <2>2. s' = s /\ at' = at /\ wd' = wd /\ UNCHANGED bvars
    BY <1>1 DEF vars, bvars
  <2>3. SInv(s', {}, None) /\ at' \in [Thread -> Places] /\ Watching(s', at', wd')
        /\ (s'.failed => ~SameProcess)
        /\ \A th \in Thread : Placed(s', at'[th], th) /\ Watched(s', at'[th], wd', th)
    BY <2>2, Zenon DEF IInv
  <2>4. Agreed(s, at)'
    BY <2>2, <2>3, AgreedStays
  <2> QED  BY <2>1, <2>3, <2>4 DEF IInv
<1>2. ASSUME ~s.failed, NEW th \in Thread, Start(th) PROVE IInv'
  BY <1>2, StartKeeps
<1>3. ASSUME ~s.failed, NEW th \in Thread, Join(th) PROVE IInv'
  BY <1>3, JoinKeeps
<1>4. ASSUME ~s.failed, NEW th \in Thread, MarkForSleep(th) PROVE IInv'
  BY <1>4, MarkForSleepKeeps
<1>5. ASSUME ~s.failed, NEW th \in Thread, SyscallLeave(th) PROVE IInv'
  BY <1>5, SyscallLeaveKeeps
<1>6. ASSUME ~s.failed, NEW th \in Thread, IsSleeping(th) PROVE IInv'
  BY <1>6, IsSleepingKeeps
<1>7. ASSUME ~s.failed, NEW th \in Thread, NotifySleepEnd(th) PROVE IInv'
  BY <1>7, NotifySleepEndKeeps
<1>8. ASSUME ~s.failed, NEW th \in Thread, Sync(th) PROVE IInv'
  BY <1>8, SyncKeeps
<1>9. ASSUME ~s.failed, NEW th \in Thread, BarWake(th) PROVE IInv'
  BY <1>9, BarWakeKeeps
<1>10. ASSUME ~s.failed, NEW th \in Thread, Handoff(th) PROVE IInv'
  BY <1>10, HandoffKeeps
<1>11. ASSUME ~s.failed, NEW th \in Thread, ContextWake(th) PROVE IInv'
  BY <1>11, ContextWakeKeeps
<1>12. ASSUME ~s.failed, NEW th \in Thread, Finish(th) PROVE IInv'
  BY <1>12, FinishKeeps
<1>13. ASSUME ~s.failed, NEW th \in Thread, FinishLeave(th) PROVE IInv'
  BY <1>13, FinishLeaveKeeps
<1>14. ASSUME ~s.failed, NEW th \in Thread, FinishEnd(th) PROVE IInv'
  BY <1>14, FinishEndKeeps
<1>15. ASSUME ~s.failed, WatchdogStall PROVE IInv'
  BY <1>15, WatchdogStallKeeps
<1>16. ASSUME ~s.failed, WatchdogLeave PROVE IInv'
  BY <1>16, WatchdogLeaveKeeps
<1>17. ASSUME ~s.failed, WatchdogNext PROVE IInv'
  BY <1>17, WatchdogNextKeeps
<1>18. ASSUME ~s.failed, WatchdogDriveTime PROVE IInv'
  BY <1>18, WatchdogDriveTimeKeeps
<1> QED
  BY <1>1, <1>2, <1>3, <1>4, <1>5, <1>6, <1>7, <1>8, <1>9, <1>10, <1>11, <1>12,
     <1>13, <1>14, <1>15, <1>16, <1>17, <1>18 DEF Next

\* Unless a thread comes back while the watchdog, unlocked, is about to make its
\* leave real, threads and contexts, queues, promises and the barrier fit.
THEOREM Invariance ==
  ASSUME ~WatchdogRaces
  PROVE  Spec => []IInv
<1>1. IInv /\ [Next]_vars => IInv'
  BY NextInv
<1> QED  BY <1>1, InitInv, PTL DEF Spec

-----------------------------------------------------------------------------
(* What follows                                                            *)

\* The invariant gives the types.
LEMMA TypesRight == IInv => TypeOK
<1> SUFFICES ASSUME IInv PROVE TypeOK
  OBVIOUS
<1>1. Typed(s) /\ at \in [Thread -> Places] /\ Watching(s, at, wd)
  BY Types DEF IInv, SInv
<1>2. B!TypeOK
  <2>1. /\ BP!Typed(b) /\ inWait \subseteq Live /\ Live \subseteq Context /\ ~fault
    BY BarIs DEF IInv, Bar, BP!IInv, BP!BInv
  <2>2. fault \in BOOLEAN
    BY DEF IInv, Bar, BP!IInv
  <2>3. b.runList \in [0 .. b.runListSize - 1 -> Context]
    BY <2>1 DEF BP!Typed
  <2> QED  BY <2>1, <2>2, <2>3 DEF BP!Typed, BP!States, B!TypeOK, B!States, B!Indices
<1>3. /\ ToSet(s.freeList) \subseteq Context
      /\ \A q \in {s.runQueue, s.outQueue, s.sleepQueue} : ToSet(q) \subseteq Thread
  <2>1. /\ s.freeList \in Seq(Context)
        /\ \A q \in {s.runQueue, s.outQueue, s.sleepQueue} : q \in Seq(Thread)
    BY <1>1 DEF Typed
  <2> QED  BY <2>1, Members
<1>4. \A i \in DOMAIN s.fakeLeaves : s.fakeLeaves[i] \in [th : Thread, pc : Syscall]
  <2>1. PICK f : f = s.fakeLeaves
    OBVIOUS
  <2>2. f \in Seq([th : Thread, pc : Syscall])
    BY <1>1, <2>1 DEF Typed
  <2>3. \A i \in DOMAIN f : f[i] \in [th : Thread, pc : Syscall]
    BY <2>2, Members
  <2> QED  BY <2>1, <2>3
<1>5. wd.stage \in {"idle", "leave", "next"}
  BY <1>1 DEF Watching, Watches
<1> QED  BY <1>1, <1>2, <1>3, <1>4, <1>5 DEF Typed, TypeOK

\* A context runs at most one thread, one that is allowed on it; it is free when
\* nobody has it; each list holds the threads of its state, once, the sleepers
\* in the order in which they are due (scheduler.h:166-760).
THEOREM ContextsStayExact ==
  ASSUME ~WatchdogRaces
  PROVE  Spec => []ContextsExact
<1>1. IInv => ContextsExact
  <2> SUFFICES ASSUME IInv PROVE ContextsExact
    OBVIOUS
  <2>1. TypeOK
    BY TypesRight
  <2>2. /\ Owned(s) /\ Listed(s, None) /\ Ordered(s) /\ Promised(s, {}) /\ Typed(s)
    BY Types DEF IInv, SInv
  <2>3. /\ \A th \in Thread : \A c \in Context :
             s.curThread[c] = th <=> s.state[th] \in {"RUNNING", "OUT"} /\ s.cid[th] = c
        /\ \A th \in In("RUNNING") \cup In("OUT") : s.cid[th] \in mask[th]
    BY <2>2 DEF Owned, Scheduled, In
  <2>4. ToSet(s.freeList) = {c \in Context : s.curThread[c] = None}
    <3>1. ToSet(s.freeList) \subseteq Context
      BY <2>1 DEF TypeOK
    <3> QED  BY <2>2, <3>1, Nobody DEF Listed
  <2>5. ToSet(s.outQueue) = In("OUT") /\ ToSet(s.sleepQueue) = In("SLEEPING")
    <3>1. ToSet(s.outQueue) \subseteq Thread /\ ToSet(s.sleepQueue) \subseteq Thread
      BY <2>1 DEF TypeOK
    <3> QED  BY <2>2, <3>1 DEF Listed, In
  <2>6. \A q \in {s.freeList, s.runQueue, s.outQueue, s.sleepQueue} : Distinct(q)
    BY <2>2 DEF Listed, Promised
  <2>7. \A i, j \in DOMAIN s.sleepQueue :
          i < j => s.left[s.sleepQueue[i]] <= s.left[s.sleepQueue[j]]
    BY <2>2 DEF Ordered
  <2> QED  BY <2>1, <2>3, <2>4, <2>5, <2>6, <2>7 DEF ContextsExact
<1> QED  BY <1>1, Invariance, PTL

\* A thread in no run queue that waits for a context has been promised one by
\* exactly one thread, which will hand it over (schedTick, sync).
THEOREM NobodyIsForgotten ==
  ASSUME ~WatchdogRaces
  PROVE  Spec => []NobodyForgotten
<1>1. IInv => NobodyForgotten
  <2> SUFFICES ASSUME IInv, NEW th \in In("QUEUED")
               PROVE  LET promisers == {v \in Thread : s.handoffThread[v] = th} IN
                      /\ s.futexWord[th] = 1
                      /\ IF Contains(s.runQueue, th) THEN promisers = {}
                         ELSE /\ Cardinality(promisers) = 1
                              /\ \A v \in promisers :
                                   s.state[v] = "RUNNING" /\ at[v] \in {"sync", "handoff"}
                                     /\ s.cid[v] \in mask[th]
    BY Zenon DEF NobodyForgotten
  <2> DEFINE promisers == {v \in Thread : s.handoffThread[v] = th}
  <2>1. th \in Thread /\ s.state[th] = "QUEUED" /\ th # None
    BY Nobody DEF In
  <2>2. Promised(s, {}) /\ Words(s, {}) /\ s.runQueue \in Seq(Thread)
    BY Types DEF IInv, SInv, Typed
  <2>3. s.futexWord[th] = 1
    BY <2>1, <2>2 DEF Words
  <2>4. Contains(s.runQueue, th) <=> th \in ToSet(s.runQueue)
    BY <2>2 DEF Contains, ToSet
  <2>5. th \in ToSet(s.runQueue) <=> promisers = {}
    BY <2>1, <2>2 DEF Promised
  <2>6. ASSUME promisers # {} PROVE Cardinality(promisers) = 1
    <3>1. PICK v : v \in promisers
      BY <2>6
    <3>2. promisers = {v}
      BY <2>1, <2>2, <3>1 DEF Promised
    <3> QED  BY <3>2, FS_Singleton
  <2>7. ASSUME NEW v \in promisers
        PROVE  s.state[v] = "RUNNING" /\ at[v] \in {"sync", "handoff"} /\ s.cid[v] \in mask[th]
    <3>1. v \in Thread /\ s.handoffThread[v] = th
      OBVIOUS
    <3>2. Placed(s, at[v], v)
      BY <3>1 DEF IInv
    <3> QED  BY <2>1, <2>2, <3>1, <3>2 DEF Promised, Placed
  <2> HIDE DEF promisers
  <2>8. IF Contains(s.runQueue, th) THEN promisers = {}
        ELSE /\ Cardinality(promisers) = 1
             /\ \A v \in promisers :
                  s.state[v] = "RUNNING" /\ at[v] \in {"sync", "handoff"} /\ s.cid[v] \in mask[th]
    BY <2>4, <2>5, <2>6, <2>7
  <2> QED  BY <2>3, <2>8 DEF promisers
<1> QED  BY <1>1, Invariance, PTL

\* Nobody waits for a context while one that it may have is free, or can be taken
\* from a thread that is OUT.
THEOREM WorkIsConserved ==
  ASSUME ~WatchdogRaces
  PROVE  Spec => []WorkConserving
<1>1. IInv => WorkConserving
  <2> SUFFICES ASSUME IInv, NEW th \in ToSet(s.runQueue), NEW c \in mask[th]
               PROVE  s.curThread[c] # None /\ s.state[s.curThread[c]] = "RUNNING"
    BY DEF WorkConserving
  <2>1. th \in Thread
    <3>1. s.runQueue \in Seq(Thread)
      BY Types DEF IInv, SInv, Typed
    <3> QED  BY <3>1, Members
  <2>2. c # None
    BY <2>1, Nobody
  <2> QED  BY <2>2 DEF IInv, SInv, Conserving, Busy
<1> QED  BY <1>1, Invariance, PTL

\* In one process, no assertion of the scheduler or the barrier is hit.  With
\* several, the watchdog may call leave with the pid of another thread
\* (scheduler.cpp:164), and only so.
THEOREM NoAssertionFails ==
  ASSUME ~WatchdogRaces, SameProcess
  PROVE  Spec => []AssertionsHold
<1>1. IInv => AssertionsHold
  BY BarIs DEF IInv, AssertionsHold
<1> QED  BY <1>1, Invariance, PTL

\* The barrier waits for the contexts on which threads run, and for one in a
\* system call only as long as its leave is a fake or is being made real.
THEOREM BarrierAndSchedulerAgree ==
  ASSUME ~WatchdogRaces, SameProcess
  PROVE  Spec => []BarrierAgrees
<1>1. IInv => BarrierAgrees
  <2> SUFFICES ASSUME IInv, NEW c \in Context
               PROVE  /\ b.state[c] \in {"RUNNING", "WAITING"} <=>
                           s.curThread[c] # None /\ s.state[s.curThread[c]] = "RUNNING"
                      /\ b.state[c] = "RUNNING" /\ at[s.curThread[c]] = "syscall" =>
                           InFakeLeave(s, s.curThread[c]) \/ (wd.stage = "leave" /\ wd.cid = c)
    BY Zenon DEF BarrierAgrees
  <2>1. Agreed(s, at) /\ Bar /\ ~s.failed /\ SInv(s, {}, None) /\ Typed(s)
    BY Types DEF IInv, SInv
  <2>2. b.state[c] \in {"RUNNING", "WAITING"} <=> Busy(s, c)
    BY <2>1, BarIs DEF Agreed
  <2> HIDE DEF InFakeLeave
  <2>3. ASSUME b.state[c] = "RUNNING", at[s.curThread[c]] = "syscall"
        PROVE  InFakeLeave(s, s.curThread[c]) \/ (wd.stage = "leave" /\ wd.cid = c)
    <3>1. PICK th : th = s.curThread[c]
      OBVIOUS
    <3>2. th \in Thread /\ s.state[th] = "RUNNING"
      BY <2>1, <2>2, <2>3, <3>1 DEF Busy, Typed
    <3>3. s.cid[th] = c
      BY <2>1, <3>1, <3>2 DEF SInv, Owned
    <3>4. Watched(s, at[th], wd, th) /\ Watching(s, at, wd)
      BY <3>2 DEF IInv
    <3> QED  BY <2>1, <2>3, <3>1, <3>2, <3>3, <3>4 DEF Watched, Watching
  <2> QED  BY <2>2, <2>3 DEF Busy
<1> QED  BY <1>1, Invariance, PTL
=============================================================================
