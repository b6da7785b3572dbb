------------------------ MODULE FutexMatchingProofs -------------------------
(***************************************************************************)
(* Theorems about the matching of futex wake-ups, for any number of        *)
(* threads and any values that they give to FUTEX_WAKE: the two counters   *)
(* balance, and no assertion fails, unless something happens that counts   *)
(* cannot follow.                                                          *)
(***************************************************************************)
EXTENDS FutexMatching, FiniteSetTheorems, FunctionTheorems, NaturalsInduction, TLAPS

-----------------------------------------------------------------------------
(* Sums over the threads                                                   *)

\* A nonempty set of natural numbers has a least one.
LEMMA LeastNat ==
  ASSUME NEW S \in SUBSET Nat, S # {}
  PROVE  \E m \in S : \A n \in S : m <= n
<1> DEFINE R == {ss \in Nat \X Nat : ss[1] < ss[2]}
<1>1. IsWellFoundedOn(R, Nat)
  BY NatLessThanWellFounded, Zenon DEF OpToRel
<1>2. PICK m \in S : \A n \in S : ~(<<n, m>> \in R)
  <2> HIDE DEF R
  <2> QED  BY <1>1, WFMin
<1>3. \A n \in S : m <= n
  <2> SUFFICES ASSUME NEW n \in S PROVE m <= n
    OBVIOUS
  <2>1. ~(<<n, m>> \in R)
    BY <1>2
  <2> QED  BY <2>1 DEF R
<1> QED  BY <1>3

\* The element that a fold takes next
Pick(s) == CHOOSE x \in s : TRUE

\* What is wrong of a set, and then also of the set without one of its
\* elements, but not of the empty set, is never wrong.
LEMMA NoSubset ==
  ASSUME NEW S, IsFiniteSet(S), NEW B \in SUBSET (SUBSET S),
         \A s \in B : s # {} /\ s \ {Pick(s)} \in B
  PROVE  B = {}
<1> SUFFICES ASSUME B # {} PROVE FALSE
  OBVIOUS
<1> DEFINE N == {Cardinality(s) : s \in B}
<1>1. \A s \in B : IsFiniteSet(s) /\ Cardinality(s) \in Nat
  BY FS_Subset, FS_CardinalityType
<1>2. PICK m \in N : \A n \in N : m <= n
  <2>1. N \in SUBSET Nat /\ N # {}
    BY <1>1
  <2> HIDE DEF N
  <2> QED  BY <2>1, LeastNat
<1>3. PICK s \in B : Cardinality(s) = m
  OBVIOUS
<1>4. s \ {Pick(s)} \in B /\ Pick(s) \in s
  <2>1. s # {}
    OBVIOUS
  <2> QED  BY <2>1 DEF Pick
<1>5. Cardinality(s \ {Pick(s)}) = m - 1
  BY <1>1, <1>3, <1>4, FS_RemoveElement
<1>6. m - 1 \in N /\ m \in Nat
  BY <1>1, <1>3, <1>4, <1>5
<1> HIDE DEF N
<1>7. m <= m - 1
  BY <1>2, <1>6
<1> QED  BY <1>6, <1>7

\* The partial sums of f, over all sets of its arguments
Partial(S, f, G) ==
  /\ G \in [SUBSET S -> Int]
  /\ G[{}] = 0
  /\ \A s \in SUBSET S : s # {} => G[s] = f[Pick(s)] + G[s \ {Pick(s)}]

\* A sum by way of its partial sums
LEMMA SumIs ==
  ASSUME NEW S, IsFiniteSet(S), NEW f \in [S -> Int]
  PROVE  \E G : Partial(S, f, G) /\ SumFunction(f) = G[S]
<1> DEFINE Value(g, s) == IF s = {} THEN 0 ELSE f[Pick(s)] + g[s \ {Pick(s)}]
           D(n) == {s \in SUBSET S : Cardinality(s) <= n}
           Is(g, n) == g = [s \in D(n) |-> Value(g, s)]
           All(g) == g = [s \in SUBSET S |-> Value(g, s)]
           Bad == {n \in Nat : ~ \E g : Is(g, n)}
           G == CHOOSE g : All(g)
<1>1. SumFunction(f) = G[S]
  BY DEF SumFunction, SumFunctionOnSet, FoldFunctionOnSet, MapThenFoldSet, Pick
<1>2. \A s \in SUBSET S : IsFiniteSet(s) /\ Cardinality(s) \in Nat /\ Cardinality(s) <= Cardinality(S)
  BY FS_Subset, FS_CardinalityType
<1>3. \A s \in SUBSET S : s # {} =>
        /\ Pick(s) \in S /\ s \ {Pick(s)} \in SUBSET S
        /\ Cardinality(s \ {Pick(s)}) = Cardinality(s) - 1
  <2> SUFFICES ASSUME NEW s \in SUBSET S, s # {}
               PROVE  /\ Pick(s) \in S /\ s \ {Pick(s)} \in SUBSET S
                      /\ Cardinality(s \ {Pick(s)}) = Cardinality(s) - 1
    OBVIOUS
  <2>1. Pick(s) \in s
    BY DEF Pick
  <2> QED  BY <1>2, <2>1, FS_RemoveElement
<1>4. Bad = {}
  <2> SUFFICES ASSUME Bad # {} PROVE FALSE
    OBVIOUS
  <2>1. PICK n \in Bad : \A k \in Bad : n <= k
    <3>1. Bad \in SUBSET Nat
      OBVIOUS
    <3> HIDE DEF Bad
    <3> QED  BY <3>1, LeastNat
  <2>2. n \in Nat /\ ~ \E g : Is(g, n)
    BY <2>1
  <2>3. CASE n = 0
    <3>1. \A s \in D(0) : s = {}
      <4> SUFFICES ASSUME NEW s \in D(0) PROVE s = {}
        OBVIOUS
      <4>1. Cardinality(s) = 0 /\ IsFiniteSet(s)
        BY <1>2
      <4> QED  BY <4>1, FS_EmptySet
    <3> DEFINE g == [s \in D(0) |-> 0]
    <3>2. [s \in D(0) |-> Value(g, s)] = g
      <4>1. \A s \in D(0) : Value(g, s) = 0
        BY <3>1
      <4> HIDE DEF Value, D
      <4> QED  BY <4>1
    <3>3. Is(g, 0)
      BY <3>2
    <3> QED  BY <2>2, <2>3, <3>3
  <2>4. CASE n # 0
    <3>1. n - 1 \in Nat /\ n - 1 \notin Bad
      <4> HIDE DEF Bad, Is
      <4>1. n - 1 \in Nat /\ ~(n <= n - 1)
        BY <2>2, <2>4
      <4> QED  BY <2>1, <4>1
    <3>2. PICK g : Is(g, n - 1)
      BY <3>1
    <3> DEFINE h == [s \in D(n) |-> Value(g, s)]
    <3>3. \A s \in D(n) : s # {} => s \ {Pick(s)} \in D(n - 1) /\ s \ {Pick(s)} \in D(n)
      BY <1>2, <1>3, <2>2
    <3>4. \A s \in D(n - 1) : s \in D(n) /\ g[s] = Value(g, s)
      <4>1. \A s \in D(n - 1) : s \in D(n)
        BY <1>2, <2>2
      <4> HIDE DEF Value, D
      <4> QED  BY <3>2, <4>1
    <3>5. \A s \in D(n - 1) : h[s] = g[s]
      <4> HIDE DEF Value, D
      <4> QED  BY <3>4
    <3>6. \A s \in D(n) : Value(g, s) = Value(h, s)
      <4> HIDE DEF D, h
      <4> QED  BY <3>3, <3>5
    <3>7. h = [s \in D(n) |-> Value(h, s)]
      <4>1. [s \in D(n) |-> Value(h, s)] = [s \in D(n) |-> Value(g, s)]
        <5> HIDE DEF Value, D, h
        <5> QED  BY <3>6
      <4> HIDE DEF Value, D
      <4> QED  BY <4>1
    <3>8. Is(h, n)
      BY <3>7
    <3> QED  BY <2>2, <3>8
  <2> QED  BY <2>3, <2>4
<1>5. All(G)
  <2>1. PICK g : Is(g, Cardinality(S))
    <3>1. Cardinality(S) \in Nat
      BY FS_CardinalityType
    <3> QED  BY <1>4, <3>1
  <2>2. D(Cardinality(S)) = SUBSET S
    BY <1>2
  <2>3. All(g)
    <3> HIDE DEF D
    <3> QED  BY <2>1, <2>2
  <2> HIDE DEF All
  <2> QED  BY <2>3
<1> HIDE DEF G
<1>6. \A s \in SUBSET S : G[s] = Value(G, s)
  <2> HIDE DEF Value
  <2> QED  BY <1>5
<1> DEFINE B == {s \in SUBSET S : G[s] \notin Int}
<1>7. B = {}
  <2>1. ASSUME NEW s \in B PROVE s # {} /\ s \ {Pick(s)} \in B
    <3>1. s \in SUBSET S /\ G[s] \notin Int /\ G[s] = Value(G, s)
      BY <1>6
    <3>2. s # {}
      BY <3>1
    <3>3. G[s] = f[Pick(s)] + G[s \ {Pick(s)}] /\ f[Pick(s)] \in Int
      BY <1>3, <3>1, <3>2
    <3> QED  BY <1>3, <3>1, <3>2, <3>3
  <2>2. B \in SUBSET (SUBSET S)
    OBVIOUS
  <2> HIDE DEF B
  <2> QED  BY <2>1, <2>2, NoSubset
<1>8. Partial(S, f, G)
  <2>1. G \in [SUBSET S -> Int]
    <3>1. G = [s \in SUBSET S |-> Value(G, s)]
      BY <1>5
    <3>2. \A s \in SUBSET S : Value(G, s) \in Int
      <4> HIDE DEF Value
      <4> QED  BY <1>6, <1>7
    <3> HIDE DEF Value
    <3> QED  BY <3>1, <3>2
  <2> QED  BY <1>6, <2>1 DEF Partial
<1> QED  BY <1>1, <1>8

\* The sum grows by as much as the one value that differs.
LEMMA SumChange ==
  ASSUME NEW S, IsFiniteSet(S), NEW f \in [S -> Int], NEW g \in [S -> Int],
         NEW t \in S, \A x \in S \ {t} : f[x] = g[x]
  PROVE  /\ SumFunction(f) \in Int /\ SumFunction(g) \in Int
         /\ SumFunction(g) = SumFunction(f) + g[t] - f[t]
<1>1. PICK F : Partial(S, f, F) /\ SumFunction(f) = F[S]
  BY SumIs
<1>2. PICK G : Partial(S, g, G) /\ SumFunction(g) = G[S]
  BY SumIs
<1> DEFINE More(s) == IF t \in s THEN g[t] - f[t] ELSE 0
           B == {s \in SUBSET S : G[s] # F[s] + More(s)}
<1>3. B = {}
  <2>1. ASSUME NEW s \in B PROVE s # {} /\ s \ {Pick(s)} \in B
    <3>1. s \in SUBSET S /\ G[s] # F[s] + More(s)
      OBVIOUS
    <3>2. s # {}
      <4> SUFFICES ASSUME s = {} PROVE FALSE
        OBVIOUS
      <4>1. F[s] = 0 /\ G[s] = 0 /\ More(s) = 0
        BY <1>1, <1>2 DEF Partial
      <4> HIDE DEF More
      <4> QED  BY <3>1, <4>1
    <3> DEFINE x == Pick(s)  r == s \ {x}
    <3>3. x \in s
      BY <3>2 DEF Pick
    <3>4. /\ F[s] = f[x] + F[r] /\ F[r] \in Int
          /\ G[s] = g[x] + G[r] /\ G[r] \in Int
          /\ f[x] \in Int /\ g[x] \in Int /\ f[t] \in Int /\ g[t] \in Int
      BY <1>1, <1>2, <3>1, <3>2, <3>3 DEF Partial
    <3> HIDE DEF x
    <3>5. CASE x = t
      <4>1. More(s) = g[t] - f[t] /\ More(r) = 0
        BY <3>3, <3>5
      <4>2. G[r] # F[r] + More(r)
        <5> HIDE DEF More, r
        <5> QED  BY <3>1, <3>4, <3>5, <4>1
      <4> QED  BY <3>1, <3>2, <4>2 DEF x
    <3>6. CASE x # t
      <4>1. More(s) = More(r) /\ More(r) \in Int /\ f[x] = g[x]
        BY <3>1, <3>3, <3>4, <3>6
      <4>2. G[r] # F[r] + More(r)
        <5> HIDE DEF More, r
        <5> QED  BY <3>1, <3>4, <4>1
      <4> QED  BY <3>1, <3>2, <4>2 DEF x
    <3> QED  BY <3>5, <3>6
  <2>2. B \in SUBSET (SUBSET S)
    OBVIOUS
  <2> HIDE DEF B
  <2> QED  BY <2>1, <2>2, NoSubset
<1>4. S \in SUBSET S /\ More(S) = g[t] - f[t]
  OBVIOUS
<1>5. G[S] = F[S] + More(S)
  <2> HIDE DEF More
  <2> QED  BY <1>3, <1>4
<1>6. F[S] \in Int /\ G[S] \in Int /\ f[t] \in Int /\ g[t] \in Int
  BY <1>1, <1>2, <1>4 DEF Partial
<1> QED  BY <1>1, <1>2, <1>4, <1>5, <1>6

\* The sum is monotonic,
LEMMA SumAtMost ==
  ASSUME NEW S, IsFiniteSet(S), NEW f \in [S -> Int], NEW g \in [S -> Int],
         \A x \in S : f[x] <= g[x]
  PROVE  SumFunction(f) <= SumFunction(g)
<1>1. PICK F : Partial(S, f, F) /\ SumFunction(f) = F[S]
  BY SumIs
<1>2. PICK G : Partial(S, g, G) /\ SumFunction(g) = G[S]
  BY SumIs
<1> DEFINE B == {s \in SUBSET S : ~(F[s] <= G[s])}
<1>3. B = {}
  <2>1. ASSUME NEW s \in B PROVE s # {} /\ s \ {Pick(s)} \in B
    <3>1. s \in SUBSET S /\ ~(F[s] <= G[s])
      OBVIOUS
    <3>2. s # {}
      <4> SUFFICES ASSUME s = {} PROVE FALSE
        OBVIOUS
      <4>1. F[s] = 0 /\ G[s] = 0
        BY <1>1, <1>2 DEF Partial
      <4> QED  BY <3>1, <4>1
    <3> DEFINE x == Pick(s)  r == s \ {x}
    <3>3. x \in s
      BY <3>2 DEF Pick
    <3>4. /\ F[s] = f[x] + F[r] /\ F[r] \in Int
          /\ G[s] = g[x] + G[r] /\ G[r] \in Int
          /\ f[x] \in Int /\ g[x] \in Int /\ f[x] <= g[x]
      BY <1>1, <1>2, <3>1, <3>2, <3>3 DEF Partial
    <3>5. ~(F[r] <= G[r])
      <4> HIDE DEF x, r
      <4> QED  BY <3>1, <3>4
    <3> QED  BY <3>1, <3>2, <3>5
  <2>2. B \in SUBSET (SUBSET S)
    OBVIOUS
  <2> HIDE DEF B
  <2> QED  BY <2>1, <2>2, NoSubset
<1>4. F[S] <= G[S]
  BY <1>3
<1> QED  BY <1>1, <1>2, <1>4

\* at most a bound for each, and 0 if all are.
LEMMA SumBound ==
  ASSUME NEW S, IsFiniteSet(S), NEW f \in [S -> Nat], NEW m \in Nat,
         \A x \in S : f[x] <= m
  PROVE  SumFunction(f) \in Nat /\ SumFunction(f) <= m * Cardinality(S)
<1>1. PICK F : Partial(S, f, F) /\ SumFunction(f) = F[S]
  <2>1. f \in [S -> Int]
    OBVIOUS
  <2> QED  BY <2>1, SumIs
<1>2. \A s \in SUBSET S : IsFiniteSet(s) /\ Cardinality(s) \in Nat
  BY FS_Subset, FS_CardinalityType
<1> DEFINE B == {s \in SUBSET S : ~(F[s] \in Nat /\ F[s] <= m * Cardinality(s))}
<1>3. B = {}
  <2>1. ASSUME NEW s \in B PROVE s # {} /\ s \ {Pick(s)} \in B
    <3>1. s \in SUBSET S /\ ~(F[s] \in Nat /\ F[s] <= m * Cardinality(s))
      OBVIOUS
    <3>2. s # {}
      <4> SUFFICES ASSUME s = {} PROVE FALSE
        OBVIOUS
      <4>1. F[s] = 0 /\ Cardinality(s) = 0
        BY <1>1, FS_EmptySet DEF Partial
      <4>2. m * Cardinality(s) = 0
        BY <4>1
      <4> QED  BY <3>1, <4>1, <4>2
    <3> DEFINE x == Pick(s)  r == s \ {x}
    <3>3. x \in s
      BY <3>2 DEF Pick
    <3>4. F[s] = f[x] + F[r] /\ f[x] \in Nat /\ f[x] <= m /\ r \in SUBSET S
      BY <1>1, <3>1, <3>2, <3>3 DEF Partial
    <3>5. Cardinality(s) = Cardinality(r) + 1 /\ Cardinality(r) \in Nat
      BY <1>2, <3>1, <3>3, FS_RemoveElement
    <3>6. m * Cardinality(s) = m * Cardinality(r) + m
      <4> DEFINE k == Cardinality(r)
      <4>1. m * (k + 1) = m * k + m
        <5>1. k \in Nat
          BY <3>5
        <5> HIDE DEF k
        <5> QED  BY <5>1
      <4> QED  BY <3>5, <4>1
    <3>7. ~(F[r] \in Nat /\ F[r] <= m * Cardinality(r))
      <4> DEFINE k == m * Cardinality(r)  l == m * Cardinality(s)
      <4>1. k \in Nat /\ l = k + m
        BY <3>5, <3>6
      <4>2. ~(F[s] \in Nat /\ F[s] <= l)
        BY <3>1
      <4> HIDE DEF k, l, x, r
      <4>3. ~(F[r] \in Nat /\ F[r] <= k)
        BY <3>4, <4>1, <4>2
      <4> QED  BY <4>3 DEF k
    <3> QED  BY <3>2, <3>4, <3>7
  <2>2. B \in SUBSET (SUBSET S)
    OBVIOUS
  <2> HIDE DEF B
  <2> QED  BY <2>1, <2>2, NoSubset
<1>4. F[S] \in Nat /\ F[S] <= m * Cardinality(S)
  BY <1>3
<1> QED  BY <1>1, <1>4

-----------------------------------------------------------------------------
(* The invariant                                                           *)

Places == {"running", "waiting", "woken", "told", "waking", "wakeDone", "toJoin",
           "matching", "sure", "givingUp"}
Joining == {"toJoin", "matching", "sure", "givingUp"}

Types ==
  /\ pc \in [Thread -> Places]
  /\ call \in [Thread -> [val : Int, res : Nat]]
  /\ \A t \in Thread : call[t].val < Width /\ call[t].res <= Cardinality(Thread)
  /\ futexJoin \in [Thread -> [action : Actions, maxWakes : 0 .. MaxWakes, wokenUp : 0 .. Width - 1]]
  /\ maxAllowedFutexWakeups \in 0 .. Width - 1
  /\ unmatchedFutexWakeups \in 0 .. Width - 1
  /\ fault \in BOOLEAN

\* What a thread's call asks for and gets: no more are woken than its allowance,
\* unless it asked for none or for all as UINT_MAX does.
Calling(t) ==
  /\ pc[t] \in {"running", "waiting", "waking"} => futexJoin[t].action = "NONE"
  /\ pc[t] \in {"waking", "wakeDone"} /\ Without({"all"}) =>
       /\ call[t].val >= 0
       /\ futexJoin[t].maxWakes = Min({call[t].val, MaxWakes})
       /\ Without({"none"}) => call[t].val >= 1
  /\ pc[t] = "wakeDone" /\ Without({"all"}) /\ Without({"none"}) =>
       call[t].res <= futexJoin[t].maxWakes
  /\ pc[t] \in Joining /\ Without({"all"}) => futexJoin[t].wokenUp <= futexJoin[t].maxWakes

\* A failed call leaves its allowance behind, as does a thread that vanishes.
LeftBy(kind) == IF kind \in upset THEN MaxWakes ELSE 0
Allowed ==
  Without({"all"}) =>
    /\ SumFunction(Allowance) <= maxAllowedFutexWakeups
    /\ maxAllowedFutexWakeups <= SumFunction(Allowance) + LeftBy("failed") + LeftBy("vanished")

\* The threads that were woken, are waited for, and have not been taken off are
\* those that the wakers wait for.  Where a waker vanished, its allowance is left.
Joins == unmatchedFutexWakeups + Cardinality(In({"woken", "told"}))
Clean == Without({"outside", "gaveUp", "all", "none"})
Balanced ==
  Clean =>
    /\ Joins + SumFunction(Allowance) <= SumFunction(Awaited) + maxAllowedFutexWakeups
    /\ Without({"vanished"}) => Joins = SumFunction(Awaited)

IInv ==
  /\ Types
  /\ \A t \in Thread : Calling(t)
  /\ Allowed
  /\ Balanced
  /\ fault => ~Clean

-----------------------------------------------------------------------------
(* Numbers                                                                 *)

\* What the parameters say
LEMMA Widths ==
  /\ Width \in Nat \ {0} /\ MaxWakes \in Nat /\ MaxWakes < Width
  /\ Cardinality(Thread) \in Nat /\ Cardinality(Thread) <= MaxWakes
  /\ MaxWakes * Cardinality(Thread) \in Nat
  /\ MaxWakes * Cardinality(Thread) + MaxWakes + MaxWakes < Width
  /\ \A v \in Values : v \in Int /\ v < Width
<1>1. Cardinality(Thread) \in Nat
  BY FutexAssumption, FS_CardinalityType
<1>2. MaxWakes * Cardinality(Thread) \in Nat
  BY <1>1, FutexAssumption
<1> DEFINE k == MaxWakes * Cardinality(Thread)
<1>3. k \in Nat /\ k + 2 * MaxWakes < Width /\ Width \in Nat /\ MaxWakes \in Nat
  BY <1>2, FutexAssumption
<1> HIDE DEF k
<1>4. k + MaxWakes + MaxWakes < Width /\ Width # 0 /\ MaxWakes < Width
  BY <1>3
<1>5. Width \div 2 \in Nat /\ (Width \div 2) - 1 < Width
  BY <1>3
<1>6. ASSUME NEW v \in Values PROVE v \in Int /\ v < Width
  BY <1>3, <1>5, FutexAssumption
<1> QED  BY <1>1, <1>3, <1>4, <1>6, FutexAssumption DEF k

\* Reduction to the width of a counter
LEMMA UnsignedIs ==
  ASSUME NEW n \in Int
  PROVE  Unsigned(n) \in 0 .. Width - 1 /\ (n \in 0 .. Width - 1 => Unsigned(n) = n)
BY Widths DEF Unsigned

\* The lesser of two
LEMMA MinIs ==
  ASSUME NEW m \in Int, NEW n \in Int
  PROVE  /\ Min({m, n}) \in Int /\ Min({m, n}) <= m /\ Min({m, n}) <= n
         /\ Min({m, n}) = m \/ Min({m, n}) = n
<1>1. CASE m <= n
  <2>1. m \in {m, n} /\ \A y \in {m, n} : m <= y
    BY <1>1
  <2> QED  BY <2>1 DEF Min
<1>2. CASE ~(m <= n)
  <2>1. n \in {m, n} /\ \A y \in {m, n} : n <= y
    BY <1>2
  <2> QED  BY <2>1 DEF Min
<1> QED  BY <1>1, <1>2

\* The greater of two
LEMMA MaxIs ==
  ASSUME NEW m \in Int, NEW n \in Int
  PROVE  Max({m, n}) = IF m >= n THEN m ELSE n
<1>1. CASE m >= n
  <2>1. m \in {m, n} /\ \A y \in {m, n} : m >= y
    BY <1>1
  <2>2. \A z \in {m, n} : (\A y \in {m, n} : z >= y) => z = m
    BY <1>1
  <2> QED  BY <1>1, <2>1, <2>2 DEF Max
<1>2. CASE ~(m >= n)
  <2>1. n \in {m, n} /\ \A y \in {m, n} : n >= y
    BY <1>2
  <2>2. \A z \in {m, n} : (\A y \in {m, n} : z >= y) => z = n
    BY <1>2
  <2> QED  BY <1>2, <2>1, <2>2 DEF Max
<1> QED  BY <1>1, <1>2

-----------------------------------------------------------------------------
(* What a step changes                                                     *)

Allowances == SumFunction(Allowance)
Awaits == SumFunction(Awaited)

\* The terms of the sums ...
LEMMA Terms ==
  ASSUME Types
  PROVE  Allowance \in [Thread -> Nat] /\ Awaited \in [Thread -> Nat]
<1>1. \A t \in Thread : /\ futexJoin[t].maxWakes \in Nat /\ futexJoin[t].wokenUp \in Nat
                        /\ call[t].res \in Nat
  BY Widths DEF Types
<1> QED  BY <1>1 DEF Allowance, Awaited

\* ... and after a step
LEMMA TermsNext ==
  ASSUME Types'
  PROVE  Allowance' \in [Thread -> Nat] /\ Awaited' \in [Thread -> Nat]
<1>1. \A t \in Thread : /\ futexJoin'[t].maxWakes \in Nat /\ futexJoin'[t].wokenUp \in Nat
                        /\ call'[t].res \in Nat
  BY Widths DEF Types
<1> QED  BY <1>1 DEF Allowance, Awaited

\* No call allows more than the cap, so that all calls together do not wrap.
LEMMA AllowancesFit ==
  ASSUME Types, \A t \in Thread : Calling(t), Without({"all"})
  PROVE  Allowances \in Nat /\ Allowances <= MaxWakes * Cardinality(Thread)
<1>1. \A t \in Thread : Allowance[t] <= MaxWakes
  <2> SUFFICES ASSUME NEW t \in Thread PROVE Allowance[t] <= MaxWakes
    OBVIOUS
  <2>1. /\ futexJoin[t].maxWakes <= MaxWakes /\ futexJoin[t].maxWakes \in Nat
        /\ futexJoin[t].wokenUp \in Nat /\ MaxWakes \in Nat
    BY Widths DEF Types
  <2>2. Calling(t) /\ Without({"all"})
    OBVIOUS
  <2>3. pc[t] \in Joining => futexJoin[t].wokenUp <= futexJoin[t].maxWakes
    BY <2>2, Zenon DEF Calling
  <2> QED  BY <2>1, <2>3 DEF Allowance, Joining
<1> QED  BY <1>1, Terms, SumBound, Widths, FutexAssumption DEF Allowances

\* What may be woken fits in a counter after a step, too.
LEMMA AllowancesFitNext ==
  ASSUME Types', \A t \in Thread : Calling(t)', Without({"all"})'
  PROVE  Allowances' \in Nat /\ Allowances' <= MaxWakes * Cardinality(Thread)
<1>1. \A t \in Thread : Allowance'[t] <= MaxWakes
  <2> SUFFICES ASSUME NEW t \in Thread PROVE Allowance'[t] <= MaxWakes
    OBVIOUS
  <2>1. /\ futexJoin'[t].maxWakes <= MaxWakes /\ futexJoin'[t].maxWakes \in Nat
        /\ futexJoin'[t].wokenUp \in Nat /\ MaxWakes \in Nat
    BY Widths DEF Types
  <2>2. Calling(t)' /\ Without({"all"})'
    OBVIOUS
  <2>3. pc'[t] \in Joining => futexJoin'[t].wokenUp <= futexJoin'[t].maxWakes
    BY <2>2, Zenon DEF Calling
  <2> QED  BY <2>1, <2>3 DEF Allowance, Joining
<1> DEFINE f == Allowance'
<1>2. f \in [Thread -> Nat] /\ \A t \in Thread : f[t] <= MaxWakes
  BY <1>1, TermsNext
<1> HIDE DEF f
<1>3. SumFunction(f) \in Nat /\ SumFunction(f) <= MaxWakes * Cardinality(Thread)
  BY <1>2, SumBound, Widths, FutexAssumption
<1> QED  BY <1>3 DEF f, Allowances

\* A step of t leaves the other threads alone, except that it may wake some.
Others(t) ==
  /\ upset \subseteq upset'
  /\ \A u \in Thread \ {t} :
       /\ call'[u] = call[u] /\ futexJoin'[u] = futexJoin[u]
       /\ pc'[u] = pc[u] \/ (pc[u] = "waiting" /\ pc'[u] = "woken")

\* The other threads are where they were ...
LEMMA OthersCalling ==
  ASSUME \A t \in Thread : Calling(t), NEW t \in Thread, Others(t)
  PROVE  \A u \in Thread \ {t} : Calling(u)'
<1> SUFFICES ASSUME NEW u \in Thread \ {t} PROVE Calling(u)'
  OBVIOUS
<1>1. \A kinds : Without(kinds)' => Without(kinds)
  BY DEF Others, Without
<1>2. Calling(u) /\ call'[u] = call[u] /\ futexJoin'[u] = futexJoin[u]
  BY DEF Others
<1>3. CASE pc'[u] = pc[u]
  BY <1>1, <1>2, <1>3 DEF Calling
<1>4. CASE pc'[u] = "woken"
  BY <1>4 DEF Calling, Joining
<1> QED  BY <1>3, <1>4 DEF Others

\* ... and so are their terms.
LEMMA OthersTerms ==
  ASSUME NEW t \in Thread, Others(t)
  PROVE  \A u \in Thread \ {t} : Allowance'[u] = Allowance[u] /\ Awaited'[u] = Awaited[u]
<1> SUFFICES ASSUME NEW u \in Thread \ {t}
             PROVE  Allowance'[u] = Allowance[u] /\ Awaited'[u] = Awaited[u]
  OBVIOUS
<1>1. call'[u] = call[u] /\ futexJoin'[u] = futexJoin[u]
  BY DEF Others
<1>2. CASE pc'[u] = pc[u]
  BY <1>1, <1>2 DEF Allowance, Awaited
<1>3. CASE pc[u] = "waiting" /\ pc'[u] = "woken"
  BY <1>1, <1>3 DEF Allowance, Awaited
<1> QED  BY <1>2, <1>3 DEF Others

\* The sums change by what changes of t.
LEMMA Sums ==
  ASSUME Types, Types', NEW t \in Thread, Others(t)
  PROVE  /\ Allowances \in Int /\ Awaits \in Int
         /\ Allowances' \in Int /\ Awaits' \in Int
         /\ Allowances' = Allowances + Allowance'[t] - Allowance[t]
         /\ Awaits' = Awaits + Awaited'[t] - Awaited[t]
<1>1. IsFiniteSet(Thread)
  BY FutexAssumption
<1> DEFINE a == Allowance'  b == Awaited'
<1>2. /\ Allowance \in [Thread -> Int] /\ Awaited \in [Thread -> Int]
      /\ a \in [Thread -> Int] /\ b \in [Thread -> Int]
      /\ \A u \in Thread \ {t} : Allowance[u] = a[u] /\ Awaited[u] = b[u]
  BY Terms, TermsNext, OthersTerms
<1>3. Allowances' = SumFunction(a) /\ Awaits' = SumFunction(b)
  BY DEF Allowances, Awaits
<1> HIDE DEF a, b
<1>4. /\ Allowances \in Int /\ SumFunction(a) \in Int
      /\ SumFunction(a) = Allowances + a[t] - Allowance[t]
  BY <1>1, <1>2, SumChange DEF Allowances
<1>5. /\ Awaits \in Int /\ SumFunction(b) \in Int
      /\ SumFunction(b) = Awaits + b[t] - Awaited[t]
  BY <1>1, <1>2, SumChange DEF Awaits
<1> QED  BY <1>3, <1>4, <1>5 DEF a, b

\* The number of woken threads that are still to join changes with t's place.
Woken == Cardinality(In({"woken", "told"}))
OneIf(p) == IF p \in {"woken", "told"} THEN 1 ELSE 0

\* The woken threads, when one changes its place
LEMMA InStep ==
  ASSUME NEW t \in Thread, pc \in [Thread -> Places], NEW p, pc' = [pc EXCEPT ![t] = p]
  PROVE  /\ Woken \in Nat /\ Woken' \in Nat
         /\ Woken' = Woken + OneIf(p) - OneIf(pc[t])
<1> DEFINE W == In({"woken", "told"})  V == In({"woken", "told"})'
<1>1. IsFiniteSet(W) /\ IsFiniteSet(V)
  BY FutexAssumption, FS_Subset DEF In
<1>2. \A u \in Thread \ {t} : u \in W <=> u \in V
  BY DEF In
<1>3. (t \in W <=> pc[t] \in {"woken", "told"}) /\ (t \in V <=> p \in {"woken", "told"})
  BY DEF In
<1>4. W \subseteq Thread /\ V \subseteq Thread
  BY DEF In
<1>5. Woken = Cardinality(W) /\ Woken' = Cardinality(V)
  BY DEF Woken
<1> HIDE DEF W, V
<1>6. Cardinality(W) \in Nat /\ Cardinality(V) \in Nat
  BY <1>1, FS_CardinalityType
<1>7. CASE t \in W /\ t \in V
  <2>1. W = V
    BY <1>2, <1>4, <1>7
  <2> QED  BY <1>3, <1>5, <1>6, <1>7, <2>1 DEF OneIf
<1>8. CASE t \notin W /\ t \notin V
  <2>1. W = V
    BY <1>2, <1>4, <1>8
  <2> QED  BY <1>3, <1>5, <1>6, <1>8, <2>1 DEF OneIf
<1>9. CASE t \in W /\ t \notin V
  <2>1. V = W \ {t}
    BY <1>2, <1>4, <1>9
  <2>2. Cardinality(V) = Cardinality(W) - 1
    BY <1>1, <1>9, <2>1, FS_RemoveElement
  <2> QED  BY <1>3, <1>5, <1>6, <1>9, <2>2 DEF OneIf
<1>10. CASE t \notin W /\ t \in V
  <2>1. V = W \cup {t}
    BY <1>2, <1>4, <1>10
  <2>2. Cardinality(V) = Cardinality(W) + 1
    BY <1>1, <1>10, <2>1, FS_AddElement
  <2> QED  BY <1>3, <1>5, <1>6, <1>10, <2>2 DEF OneIf
<1> QED  BY <1>7, <1>8, <1>9, <1>10

\* By how much a step of t changes what its call may wake and waits for, the
\* wake-ups that are allowed, the woken threads, and what is left behind
Left == LeftBy("failed") + LeftBy("vanished")
Changes(t, dAllowance, dAwaited, dMax, dJoins, dLeft) ==
  /\ Allowance'[t] = Allowance[t] + dAllowance
  /\ Awaited'[t] = Awaited[t] + dAwaited
  /\ Without({"all"})' => maxAllowedFutexWakeups' = maxAllowedFutexWakeups + dMax
  /\ Without({"all"})' => Left' = Left + dLeft
  /\ Without({"all"})' => dAllowance <= dMax /\ dMax <= dAllowance + dLeft
  /\ Clean' => Joins' = Joins + dJoins
  /\ Clean' => dJoins + dAllowance <= dAwaited + dMax
  /\ Clean' /\ Without({"vanished"})' => dJoins = dAwaited

\* A step of one thread that changes the sums as much as the counters
LEMMA StepKeeps ==
  ASSUME IInv, NEW t \in Thread, Others(t), Types', Calling(t)', fault' => ~Clean',
         NEW dA \in Int, NEW dW \in Int, NEW dM \in Int, NEW dJ \in Int, NEW dL \in Int,
         Changes(t, dA, dW, dM, dJ, dL)
  PROVE  IInv'
<1>1. \A kinds : Without(kinds)' => Without(kinds)
  BY DEF Others, Without
<1>2. Clean' => Clean /\ Without({"all"})'
  BY DEF Others, Without, Clean
<1>3. /\ Types /\ (\A u \in Thread : Calling(u)) /\ Allowed /\ Balanced
  BY DEF IInv
<1>4. \A u \in Thread : Calling(u)'
  BY <1>3, OthersCalling
<1> DEFINE a == Allowances'  w == Awaits'  m == maxAllowedFutexWakeups'  l == Left'  j == Joins'
<1>5. /\ Allowances \in Int /\ Awaits \in Int
      /\ a = Allowances + dA /\ w = Awaits + dW
  <2> DEFINE x == Allowance'[t]  y == Awaited'[t]
  <2>1. x = Allowance[t] + dA /\ y = Awaited[t] + dW
    BY DEF Changes
  <2>2. Allowance[t] \in Int /\ Awaited[t] \in Int
    BY <1>3, Terms
  <2>3. /\ Allowances \in Int /\ Awaits \in Int
        /\ a = Allowances + x - Allowance[t] /\ w = Awaits + y - Awaited[t]
    BY <1>3, Sums
  <2> HIDE DEF x, y, a, w
  <2> QED  BY <2>1, <2>2, <2>3
<1>6. maxAllowedFutexWakeups \in Int /\ Left \in Int
  BY <1>3, Widths DEF Types, Left, LeftBy
<1>7. Joins \in Int
  <2>1. Cardinality(In({"woken", "told"})) \in Nat
    BY FutexAssumption, FS_Subset, FS_CardinalityType DEF In
  <2>2. unmatchedFutexWakeups \in Int
    BY <1>3, Widths DEF Types
  <2> QED  BY <2>1, <2>2 DEF Joins
<1>8. Without({"all"})' => a <= m /\ m <= a + l
  <2> SUFFICES ASSUME Without({"all"})' PROVE a <= m /\ m <= a + l
    OBVIOUS
  <2>1. m = maxAllowedFutexWakeups + dM /\ l = Left + dL /\ dA <= dM /\ dM <= dA + dL
    BY DEF Changes
  <2>2. Allowances <= maxAllowedFutexWakeups
    BY <1>1, <1>3 DEF Allowed, Allowances
  <2>3. maxAllowedFutexWakeups <= Allowances + Left
    <3>1. maxAllowedFutexWakeups <= Allowances + LeftBy("failed") + LeftBy("vanished")
      BY <1>1, <1>3 DEF Allowed, Allowances
    <3>2. LeftBy("failed") \in Int /\ LeftBy("vanished") \in Int
      BY Widths DEF LeftBy
    <3> QED  BY <1>5, <1>6, <3>1, <3>2 DEF Left
  <2> HIDE DEF a, m, l
  <2> QED  BY <1>5, <1>6, <2>1, <2>2, <2>3
<1>9. Clean' => j + a <= w + m /\ (Without({"vanished"})' => j = w)
  <2> SUFFICES ASSUME Clean' PROVE j + a <= w + m /\ (Without({"vanished"})' => j = w)
    OBVIOUS
  <2>1. /\ m = maxAllowedFutexWakeups + dM /\ j = Joins + dJ /\ dJ + dA <= dW + dM
        /\ Without({"vanished"})' => dJ = dW
    BY <1>2 DEF Changes
  <2>2. /\ Joins + Allowances <= Awaits + maxAllowedFutexWakeups
        /\ Without({"vanished"})' => Joins = Awaits
    BY <1>1, <1>2, <1>3 DEF Balanced, Allowances, Awaits
  <2> HIDE DEF a, w, m, j
  <2> QED  BY <1>5, <1>6, <1>7, <2>1, <2>2
<1>10. Allowed'
  <2> SUFFICES ASSUME Without({"all"})'
               PROVE  /\ a <= m /\ m <= a + LeftBy("failed")' + LeftBy("vanished")'
    BY DEF Allowed, Allowances
  <2>1. a <= m /\ m <= a + l
    BY <1>8
  <2>2. l = LeftBy("failed")' + LeftBy("vanished")'
    BY DEF Left
  <2>3. LeftBy("failed")' \in Int /\ LeftBy("vanished")' \in Int
    BY Widths DEF LeftBy
  <2>4. a \in Int
    <3> HIDE DEF a
    <3> QED  BY <1>5
  <2> DEFINE l1 == LeftBy("failed")'  l2 == LeftBy("vanished")'
  <2> HIDE DEF a, m, l, l1, l2
  <2> QED  BY <2>1, <2>2, <2>3, <2>4 DEF l1, l2
<1>11. Balanced'
  BY <1>9 DEF Balanced, Allowances, Awaits
<1> QED  BY <1>4, <1>10, <1>11 DEF IInv

\* What t's call may wake is at most the cap, and at least what it waits for;
\* all calls may wake at least as much, and so on without t.
LEMMA TermFits ==
  ASSUME IInv, NEW t \in Thread
  PROVE  /\ Allowance[t] \in Nat /\ Awaited[t] \in Nat
         /\ Without({"all"}) => Allowance[t] <= MaxWakes /\ Allowance[t] <= maxAllowedFutexWakeups
         /\ Clean => Awaited[t] <= Allowance[t]
         /\ Clean => Joins + Allowance[t] <= maxAllowedFutexWakeups + Awaited[t]
<1>1. Types /\ (\A u \in Thread : Calling(u)) /\ Allowed /\ Balanced
  BY DEF IInv
<1>2. Allowance \in [Thread -> Nat] /\ Awaited \in [Thread -> Nat]
  BY <1>1, Terms
<1>3. \A u \in Thread : Without({"all"}) => Allowance[u] <= MaxWakes
  <2> SUFFICES ASSUME NEW u \in Thread, Without({"all"}) PROVE Allowance[u] <= MaxWakes
    OBVIOUS
  <2>1. /\ futexJoin[u].maxWakes <= MaxWakes /\ futexJoin[u].maxWakes \in Nat
        /\ futexJoin[u].wokenUp \in Nat /\ MaxWakes \in Nat
    BY <1>1, Widths DEF Types
  <2>2. pc[u] \in Joining => futexJoin[u].wokenUp <= futexJoin[u].maxWakes
    BY <1>1, Zenon DEF Calling
  <2> QED  BY <2>1, <2>2 DEF Allowance, Joining
<1>4. \A u \in Thread : Clean => Awaited[u] <= Allowance[u]
  <2> SUFFICES ASSUME NEW u \in Thread, Clean PROVE Awaited[u] <= Allowance[u]
    OBVIOUS
  <2>1. /\ futexJoin[u].maxWakes \in Nat /\ futexJoin[u].wokenUp \in Nat /\ call[u].res \in Nat
    BY <1>1, Widths DEF Types
  <2>2. Without({"all"}) /\ Without({"none"}) /\ Calling(u)
    BY <1>1 DEF Clean, Without
  <2>3. pc[u] = "wakeDone" => call[u].res <= futexJoin[u].maxWakes
    BY <2>2, Zenon DEF Calling
  <2>4. pc[u] \in Joining => futexJoin[u].wokenUp <= futexJoin[u].maxWakes
    BY <2>2, Zenon DEF Calling
  <2> QED  BY <2>1, <2>3, <2>4 DEF Awaited, Allowance, Joining
<1>5. Allowance[t] <= Allowances
  <2> DEFINE g == [Allowance EXCEPT ![t] = 0]
  <2>1. /\ g \in [Thread -> Int] /\ Allowance \in [Thread -> Int] /\ g[t] = 0
        /\ \A x \in Thread \ {t} : Allowance[x] = g[x]
    BY <1>2
  <2>2. SumFunction([x \in Thread |-> 0]) <= SumFunction(g)
    <3>1. \A x \in Thread : 0 <= g[x]
      BY <1>2
    <3> DEFINE z == [x \in Thread |-> 0]
    <3>2. z \in [Thread -> Int] /\ \A x \in Thread : z[x] <= g[x]
      BY <3>1
    <3> HIDE DEF z, g
    <3>3. SumFunction(z) <= SumFunction(g)
      BY <2>1, <3>2, SumAtMost, FutexAssumption
    <3> QED  BY <3>3 DEF z
  <2>3. SumFunction([x \in Thread |-> 0]) \in Nat
    <3> DEFINE z == [x \in Thread |-> 0]
    <3>1. z \in [Thread -> Nat] /\ \A x \in Thread : z[x] <= 0
      OBVIOUS
    <3> HIDE DEF z
    <3>2. SumFunction(z) \in Nat
      BY <3>1, SumBound, FutexAssumption
    <3> QED  BY <3>2 DEF z
  <2> HIDE DEF g
  <2>4. /\ SumFunction(Allowance) \in Int /\ SumFunction(g) \in Int
        /\ SumFunction(g) = SumFunction(Allowance) + g[t] - Allowance[t]
    BY <2>1, SumChange, FutexAssumption
  <2> QED  BY <1>2, <2>1, <2>2, <2>3, <2>4 DEF Allowances
<1>6. maxAllowedFutexWakeups \in Int
  BY <1>1, Widths DEF Types
<1>7. Clean => /\ Awaits + Allowance[t] <= Allowances + Awaited[t]
               /\ Awaits \in Int /\ Allowances \in Int
  <2> SUFFICES ASSUME Clean
               PROVE  /\ Awaits + Allowance[t] <= Allowances + Awaited[t]
                      /\ Awaits \in Int /\ Allowances \in Int
    OBVIOUS
  <2> DEFINE g == [Allowance EXCEPT ![t] = Awaited[t]]
  <2>1. /\ g \in [Thread -> Int] /\ Allowance \in [Thread -> Int] /\ g[t] = Awaited[t]
        /\ Awaited \in [Thread -> Int]
        /\ \A x \in Thread \ {t} : Allowance[x] = g[x]
    BY <1>2
  <2>2. \A x \in Thread : Awaited[x] <= g[x]
    BY <1>2, <1>4
  <2> HIDE DEF g
  <2>3. Awaits <= SumFunction(g)
    BY <2>1, <2>2, SumAtMost, FutexAssumption DEF Awaits
  <2>4. /\ Allowances \in Int /\ SumFunction(g) \in Int
        /\ SumFunction(g) = Allowances + g[t] - Allowance[t]
    BY <2>1, SumChange, FutexAssumption DEF Allowances
  <2>5. Awaits \in Int
    BY <2>1, SumChange, FutexAssumption DEF Awaits
  <2> QED  BY <1>2, <2>1, <2>3, <2>4, <2>5
<1>8. Joins \in Int
  <2>1. Cardinality(In({"woken", "told"})) \in Nat
    BY FutexAssumption, FS_Subset, FS_CardinalityType DEF In
  <2>2. unmatchedFutexWakeups \in Int
    BY <1>1, Widths DEF Types
  <2> QED  BY <2>1, <2>2 DEF Joins
<1>9. Without({"all"}) => Allowance[t] <= maxAllowedFutexWakeups
  <2> SUFFICES ASSUME Without({"all"}) PROVE Allowance[t] <= maxAllowedFutexWakeups
    OBVIOUS
  <2>1. Allowances <= maxAllowedFutexWakeups
    BY <1>1 DEF Allowed, Allowances
  <2>2. Allowances \in Int
    BY <1>1, AllowancesFit
  <2> QED  BY <1>2, <1>5, <1>6, <2>1, <2>2
<1>10. Clean => Joins + Allowances <= Awaits + maxAllowedFutexWakeups
  BY <1>1 DEF Balanced, Allowances, Awaits
<1>11. Clean => Joins + Allowance[t] <= maxAllowedFutexWakeups + Awaited[t]
  BY <1>2, <1>6, <1>7, <1>8, <1>10
<1> QED  BY <1>2, <1>3, <1>4, <1>9, <1>11

-----------------------------------------------------------------------------
(* The woken thread                                                        *)

\* Steps that touch no counter
LEMMA WaitKeeps ==
  ASSUME IInv, ~fault, NEW t \in Thread,
         Wait(t) \/ Interrupted(t) \/ NotifyWaitWoken(t) \/ SeeEnough(t) \/ SeeTimeout(t)
  PROVE  IInv'
<1>1. Types /\ Calling(t)
  BY DEF IInv
<1>2. /\ call' = call /\ maxAllowedFutexWakeups' = maxAllowedFutexWakeups
      /\ unmatchedFutexWakeups' = unmatchedFutexWakeups /\ upset' = upset /\ fault' = fault
      /\ (futexJoin' = futexJoin \/ futexJoin' = [futexJoin EXCEPT ![t] = [NoJoin EXCEPT !.action = "WAIT"]])
  BY DEF Wait, Interrupted, NotifyWaitWoken, SeeEnough, SeeTimeout, counts
<1>3. PICK p \in Places : /\ pc' = [pc EXCEPT ![t] = p]
                          /\ OneIf(p) = OneIf(pc[t])
                          /\ \/ /\ {p, pc[t]} \subseteq {"running", "waiting"}
                                /\ futexJoin' = futexJoin
                             \/ /\ p = "told" /\ pc[t] = "woken"
                             \/ /\ {p, pc[t]} \subseteq {"matching", "sure", "givingUp"}
                                /\ futexJoin' = futexJoin
  BY DEF Wait, Interrupted, NotifyWaitWoken, SeeEnough, SeeTimeout, Go, Places, OneIf
<1>4. pc \in [Thread -> Places] /\ pc'[t] = p
  BY <1>1, <1>3 DEF Types
<1>5. Types'
  <2>1. [NoJoin EXCEPT !.action = "WAIT"] \in [action : Actions, maxWakes : 0 .. MaxWakes, wokenUp : 0 .. Width - 1]
    BY Widths DEF NoJoin, Actions
  <2>2. futexJoin' \in [Thread -> [action : Actions, maxWakes : 0 .. MaxWakes, wokenUp : 0 .. Width - 1]]
    BY <1>1, <1>2, <2>1 DEF Types
  <2>3. pc' \in [Thread -> Places]
    BY <1>3, <1>4
  <2> QED  BY <1>1, <1>2, <2>2, <2>3 DEF Types
<1>6. Others(t)
  BY <1>2, <1>3, <1>4, <1>1 DEF Others, Types
<1>7. Calling(t)'
  BY <1>1, <1>2, <1>3, <1>4 DEF Calling, Joining, Without
<1>8. Changes(t, 0, 0, 0, 0, 0)
  <2>1. Allowance'[t] = Allowance[t] /\ Awaited'[t] = Awaited[t]
    BY <1>2, <1>3, <1>4 DEF Allowance, Awaited
  <2>2. Woken' = Woken /\ Woken \in Nat
    <3>1. Woken' = Woken + OneIf(p) - OneIf(pc[t]) /\ Woken \in Nat
      BY <1>3, <1>4, InStep
    <3> QED  BY <1>3, <3>1 DEF OneIf
  <2>3. Joins' = Joins /\ Joins \in Int
    BY <1>1, <1>2, <2>2, Widths DEF Joins, Woken, Types
  <2>4. Left' = Left /\ Left \in Int
    BY <1>2, Widths DEF Left, LeftBy
  <2>5. Allowance[t] \in Int /\ Awaited[t] \in Int /\ maxAllowedFutexWakeups \in Int
    BY <1>1, Terms, Widths DEF Types
  <2> QED  BY <1>2, <2>1, <2>3, <2>4, <2>5 DEF Changes
<1>9. fault' => ~Clean'
  BY <1>2
<1> QED  BY <1>5, <1>6, <1>7, <1>8, <1>9, StepKeeps

\* A waiting thread is woken from outside.
LEMMA WokenOutsideKeeps ==
  ASSUME IInv, ~fault, NEW t \in Thread, WokenOutside(t)
  PROVE  IInv'
<1>1. Types /\ Calling(t)
  BY DEF IInv
<1>2. /\ call' = call /\ maxAllowedFutexWakeups' = maxAllowedFutexWakeups
      /\ unmatchedFutexWakeups' = unmatchedFutexWakeups /\ fault' = fault
      /\ futexJoin' = futexJoin
      /\ upset' = upset \cup {"outside"}
      /\ pc[t] = "waiting" /\ pc' = [pc EXCEPT ![t] = "woken"]
  BY DEF WokenOutside, counts, Go, Upset
<1>3. pc \in [Thread -> Places] /\ pc'[t] = "woken" /\ "woken" \in Places
  BY <1>1, <1>2 DEF Types, Places
<1>4. Types'
  BY <1>1, <1>2, <1>3 DEF Types
<1>5. Others(t)
  BY <1>1, <1>2, <1>3 DEF Others, Types
<1>6. Calling(t)'
  BY <1>3 DEF Calling, Joining
<1>7. ~Clean'
  BY <1>2 DEF Clean, Without
<1>8. Changes(t, 0, 0, 0, 0, 0)
  <2>1. Allowance'[t] = Allowance[t] /\ Awaited'[t] = Awaited[t]
    BY <1>2, <1>3 DEF Allowance, Awaited
  <2>2. Left' = Left /\ Left \in Int
    BY <1>2, Widths DEF Left, LeftBy
  <2>3. Allowance[t] \in Int /\ Awaited[t] \in Int /\ maxAllowedFutexWakeups \in Int
    BY <1>1, Terms, Widths DEF Types
  <2> QED  BY <1>2, <1>7, <2>1, <2>2, <2>3 DEF Changes
<1> QED  BY <1>4, <1>5, <1>6, <1>7, <1>8, StepKeeps

\* One that joins is counted: as it is waited for, there is an allowance for it.
LEMMA WaitJoinKeeps ==
  ASSUME IInv, ~fault, NEW t \in Thread, WaitJoin(t)
  PROVE  IInv'
<1>1. Types /\ Calling(t)
  BY DEF IInv
<1> DEFINE u == unmatchedFutexWakeups  m == maxAllowedFutexWakeups
<1>2. /\ call' = call /\ m' = m /\ fault' = fault /\ upset' = upset
      /\ futexJoin' = [futexJoin EXCEPT ![t] = NoJoin]
      /\ u' = (IF u >= m THEN u ELSE u + 1)
      /\ pc[t] = "told" /\ pc' = [pc EXCEPT ![t] = "running"]
  BY DEF WaitJoin, Go
<1>3. pc \in [Thread -> Places] /\ pc'[t] = "running" /\ "running" \in Places
  BY <1>1, <1>2 DEF Types, Places
<1>4. /\ u \in 0 .. Width - 1 /\ m \in 0 .. Width - 1 /\ Width \in Nat
      /\ u \in Int /\ m \in Int
  BY <1>1, Widths DEF Types
<1>5. u' \in 0 .. Width - 1
  <2> HIDE DEF m
  <2> QED  BY <1>2, <1>4
<1>6. Types'
  <2>1. NoJoin \in [action : Actions, maxWakes : 0 .. MaxWakes, wokenUp : 0 .. Width - 1]
    BY Widths DEF NoJoin, Actions
  <2> QED  BY <1>1, <1>2, <1>3, <1>5, <2>1 DEF Types
<1>7. Others(t)
  BY <1>1, <1>2, <1>3 DEF Others, Types
<1>8. futexJoin'[t] = NoJoin
  BY <1>1, <1>2 DEF Types
<1>9. Calling(t)'
  BY <1>3, <1>8 DEF Calling, Joining, NoJoin
<1>10. Woken' = Woken - 1 /\ Woken \in Nat /\ Woken' \in Nat
  <2>1. /\ Woken' = Woken + OneIf("running") - OneIf(pc[t]) /\ Woken \in Nat /\ Woken' \in Nat
    BY <1>2, <1>3, InStep
  <2> QED  BY <1>2, <2>1 DEF OneIf
<1>11. Allowance[t] = 0 /\ Awaited[t] = 0 /\ Allowance'[t] = 0 /\ Awaited'[t] = 0
  BY <1>2, <1>3 DEF Allowance, Awaited
<1>12. Clean => u < m
  <2> SUFFICES ASSUME Clean PROVE u < m
    OBVIOUS
  <2>1. Joins + Allowance[t] <= m + Awaited[t]
    BY TermFits
  <2>2. Joins = u + Woken
    BY DEF Joins, Woken
  <2> HIDE DEF u, m
  <2>3. Woken >= 1
    BY <1>10
  <2> QED  BY <1>4, <1>10, <1>11, <2>1, <2>2, <2>3
<1>13. Changes(t, 0, 0, 0, 0, 0)
  <2>1. Clean' => Joins' = Joins + 0
    <3>1. Joins = u + Woken /\ Joins' = u' + Woken'
      BY DEF Joins, Woken
    <3>2. Clean' => Clean
      BY <1>2 DEF Clean, Without
    <3>3. Clean' => u' = u + 1
      BY <1>2, <1>4, <1>12, <3>2
    <3> HIDE DEF u
    <3> QED  BY <1>4, <1>10, <3>1, <3>3
  <2>2. Left' = Left /\ Left \in Int
    BY <1>2, Widths DEF Left, LeftBy
  <2> QED  BY <1>2, <1>4, <1>11, <2>1, <2>2 DEF Changes
<1>14. fault' => ~Clean'
  BY <1>2
<1> QED  BY <1>6, <1>7, <1>9, <1>13, <1>14, StepKeeps

-----------------------------------------------------------------------------
(* The waker                                                               *)

\* notifyFutexWakeStart
LEMMA WakeStartKeeps ==
  ASSUME IInv, ~fault, NEW t \in Thread, WakeStart(t)
  PROVE  IInv'
<1>1. Types /\ Calling(t) /\ Allowed /\ \A u \in Thread : Calling(u)
  BY DEF IInv
<1> DEFINE m == maxAllowedFutexWakeups
<1>2. PICK val \in Values :
        /\ pc[t] = "running" /\ pc' = [pc EXCEPT ![t] = "waking"]
        /\ call' = [call EXCEPT ![t].val = val]
        /\ futexJoin' = [futexJoin EXCEPT ![t].maxWakes = Min({Unsigned(val), MaxWakes})]
        /\ m' = Unsigned(m + Min({Unsigned(val), MaxWakes}))
        /\ CASE val < 0 -> Upset("all")
             [] val = 0 -> Upset("none")
             [] OTHER   -> UNCHANGED upset
        /\ fault' = (futexJoin[t].action # "NONE")
        /\ UNCHANGED unmatchedFutexWakeups
  BY DEF WakeStart, Go
<1> DEFINE w == Min({Unsigned(val), MaxWakes})
<1>3. val \in Int /\ val < Width
  BY Widths
<1>4. w \in 0 .. MaxWakes
  <2>1. Unsigned(val) \in 0 .. Width - 1
    BY <1>3, UnsignedIs
  <2>2. MaxWakes \in Nat /\ Width \in Nat
    BY Widths
  <2>3. Unsigned(val) \in Nat
    BY <2>1, <2>2
  <2>4. w \in Int /\ w <= MaxWakes /\ (w = Unsigned(val) \/ w = MaxWakes)
    <3> DEFINE n == Unsigned(val)
    <3>1. n \in Int /\ MaxWakes \in Int
      BY <2>2, <2>3
    <3> HIDE DEF n
    <3>2. LET v == Min({n, MaxWakes}) IN v \in Int /\ v <= MaxWakes /\ (v = n \/ v = MaxWakes)
      BY <3>1, MinIs
    <3> QED  BY <3>2 DEF n
  <2> HIDE DEF w
  <2> QED  BY <2>2, <2>3, <2>4
<1>5. upset \subseteq upset' /\ upset' \subseteq upset \cup {"all", "none"}
  BY <1>2, <1>3 DEF Upset
<1>6. (val < 0 => "all" \in upset') /\ (val = 0 => "none" \in upset')
  BY <1>2, <1>3 DEF Upset
<1>7. pc \in [Thread -> Places] /\ pc'[t] = "waking" /\ "waking" \in Places
  BY <1>1, <1>2 DEF Types, Places
<1>8. call'[t] = [call[t] EXCEPT !.val = val] /\ futexJoin'[t] = [futexJoin[t] EXCEPT !.maxWakes = w]
  BY <1>1, <1>2 DEF Types
<1>9. /\ futexJoin[t].action = "NONE" /\ fault' = FALSE
  BY <1>1, <1>2 DEF Calling
<1>10. m \in 0 .. Width - 1 /\ m \in Int /\ Width \in Nat /\ MaxWakes \in Nat
  BY <1>1, Widths DEF Types
<1>11. m' \in 0 .. Width - 1
  <2>1. m + w \in Int
    <3> HIDE DEF m, w
    <3> QED  BY <1>4, <1>10
  <2> HIDE DEF w
  <2> QED  BY <1>2, <2>1, UnsignedIs DEF w
<1>12. Types'
  <2>1. futexJoin' \in [Thread -> [action : Actions, maxWakes : 0 .. MaxWakes, wokenUp : 0 .. Width - 1]]
    <3>1. futexJoin' = [futexJoin EXCEPT ![t].maxWakes = w]
      BY <1>2
    <3> HIDE DEF w
    <3> QED  BY <1>1, <1>4, <3>1 DEF Types
  <2>2. call' \in [Thread -> [val : Int, res : Nat]]
    BY <1>1, <1>2, <1>3 DEF Types
  <2>3. \A u \in Thread : call'[u].val < Width /\ call'[u].res <= Cardinality(Thread)
    BY <1>1, <1>2, <1>3 DEF Types
  <2>4. pc' \in [Thread -> Places]
    BY <1>2, <1>7
  <2>5. /\ m' \in 0 .. Width - 1 /\ unmatchedFutexWakeups' \in 0 .. Width - 1 /\ fault' \in BOOLEAN
    BY <1>1, <1>2, <1>9, <1>11 DEF Types
  <2> QED  BY <2>1, <2>2, <2>3, <2>4, <2>5 DEF Types
<1>13. Others(t)
  BY <1>1, <1>2, <1>5, <1>7 DEF Others, Types
<1>14. Without({"all"})' => val >= 0 /\ w = Min({val, MaxWakes})
  <2> SUFFICES ASSUME Without({"all"})' PROVE val >= 0 /\ w = Min({val, MaxWakes})
    OBVIOUS
  <2>1. val >= 0
    BY <1>3, <1>6 DEF Without
  <2>2. val \in 0 .. Width - 1
    BY <1>3, <1>10, <2>1
  <2>3. Unsigned(val) = val
    BY <1>3, <2>2, UnsignedIs
  <2> QED  BY <2>1, <2>3
<1>15. Calling(t)'
  <2>1. /\ call'[t].val = val /\ futexJoin'[t].maxWakes = w /\ futexJoin'[t].action = "NONE"
    BY <1>1, <1>8, <1>9 DEF Types
  <2>2. Without({"none"})' /\ Without({"all"})' => val >= 1
    BY <1>3, <1>6, <1>14 DEF Without
  <2> HIDE DEF w
  <2> QED  BY <1>7, <1>14, <2>1, <2>2 DEF Calling, Joining
<1>16. Allowance[t] = 0 /\ Awaited[t] = 0 /\ Allowance'[t] = w /\ Awaited'[t] = 0
  <2>1. futexJoin'[t].maxWakes = w
    BY <1>1, <1>8 DEF Types
  <2> HIDE DEF w
  <2> QED  BY <1>2, <1>7, <2>1 DEF Allowance, Awaited
<1>17. Without({"all"})' => m' = m + w
  <2> SUFFICES ASSUME Without({"all"})' PROVE m' = m + w
    OBVIOUS
  <2>1. Without({"all"})
    BY <1>5 DEF Without
  <2>2. \A u \in Thread : Calling(u)'
    BY <1>1, <1>13, <1>15, OthersCalling
  <2>3. Allowances' \in Nat /\ Allowances' <= MaxWakes * Cardinality(Thread)
    BY <1>12, <2>2, AllowancesFitNext
  <2>4. Allowances \in Int /\ Allowances' = Allowances + Allowance'[t] - Allowance[t]
    BY <1>1, <1>12, <1>13, Sums
  <2>5. m <= Allowances + LeftBy("failed") + LeftBy("vanished")
    BY <1>1, <2>1 DEF Allowed, Allowances
  <2>6. /\ LeftBy("failed") \in Nat /\ LeftBy("failed") <= MaxWakes
        /\ LeftBy("vanished") \in Nat /\ LeftBy("vanished") <= MaxWakes
    BY Widths DEF LeftBy
  <2> DEFINE k == MaxWakes * Cardinality(Thread)  a == Allowances'
  <2>7. k \in Nat /\ k + MaxWakes + MaxWakes < Width
    BY Widths
  <2>8. a <= k /\ a = Allowances + w /\ a \in Nat
    <3>1. Allowance'[t] = w /\ Allowance[t] = 0
      BY <1>16
    <3> HIDE DEF w, k
    <3> QED  BY <1>4, <2>3, <2>4, <3>1 DEF k
  <2> HIDE DEF k, a, w, m
  <2>9. m + w \in 0 .. Width - 1
    BY <1>4, <1>10, <2>4, <2>5, <2>6, <2>7, <2>8
  <2>10. Unsigned(m + w) = m + w
    BY <2>9, UnsignedIs
  <2> QED  BY <1>2, <2>10 DEF w, m
<1>18. Changes(t, w, 0, w, 0, 0)
  <2>1. Woken' = Woken /\ Woken \in Nat
    <3>1. /\ Woken' = Woken + OneIf("waking") - OneIf(pc[t]) /\ Woken \in Nat
      BY <1>2, <1>7, InStep
    <3> QED  BY <1>2, <3>1 DEF OneIf
  <2>2. Joins' = Joins /\ Joins \in Int
    BY <1>1, <1>2, <2>1, Widths DEF Joins, Woken, Types
  <2>3. Left' = Left /\ Left \in Int
    BY <1>5, Widths DEF Left, LeftBy
  <2> HIDE DEF w
  <2> QED  BY <1>4, <1>16, <1>17, <2>2, <2>3 DEF Changes
<1>19. fault' => ~Clean'
  BY <1>9
<1>20. w \in Int
  BY <1>4
<1> HIDE DEF w
<1> QED  BY <1>12, <1>13, <1>15, <1>18, <1>19, <1>20, StepKeeps

\* As many are woken as the call asks for, or all that wait.
LEMMA WakeKeeps ==
  ASSUME IInv, ~fault, NEW t \in Thread, Wake(t)
  PROVE  IInv'
<1>1. Types /\ Calling(t)
  BY DEF IInv
<1> DEFINE waiting == In({"waiting"})
<1>2. PICK woken \in SUBSET waiting :
        /\ pc[t] = "waking"
        /\ Cardinality(woken) = Min({Max({call[t].val, 1}), Cardinality(waiting)})
        /\ pc' = [u \in Thread |-> IF u = t THEN "wakeDone"
                                   ELSE IF u \in woken THEN "woken" ELSE pc[u]]
        /\ call' = [call EXCEPT ![t].res = Cardinality(woken)]
        /\ UNCHANGED <<futexJoin, counts, upset, fault>>
  BY DEF Wake
<1>3. /\ futexJoin' = futexJoin /\ maxAllowedFutexWakeups' = maxAllowedFutexWakeups
      /\ unmatchedFutexWakeups' = unmatchedFutexWakeups /\ upset' = upset /\ fault' = fault
  BY <1>2 DEF counts
<1>4. /\ waiting \subseteq Thread /\ woken \subseteq Thread
      /\ \A u \in woken : pc[u] = "waiting" /\ u # t
  BY <1>2 DEF In
<1>5. /\ IsFiniteSet(waiting) /\ IsFiniteSet(woken)
      /\ Cardinality(waiting) \in Nat /\ Cardinality(waiting) <= Cardinality(Thread)
      /\ Cardinality(woken) \in Nat
  <2> HIDE DEF waiting
  <2> QED  BY <1>2, <1>4, FutexAssumption, FS_Subset, FS_CardinalityType
<1> DEFINE res == Cardinality(woken)  n == Cardinality(waiting)
<1>6. res <= n /\ (call[t].val >= 1 => res <= call[t].val)
  <2> DEFINE val == call[t].val
  <2>1. val \in Int
    BY <1>1 DEF Types
  <2> HIDE DEF val
  <2>2. Max({val, 1}) = IF val >= 1 THEN val ELSE 1
    BY <2>1, MaxIs
  <2> DEFINE k == Max({val, 1})
  <2>3. k \in Int /\ (val >= 1 => k = val)
    BY <2>1, <2>2
  <2>4. n \in Int
    BY <1>5
  <2>5. res = Min({k, n})
    BY <1>2 DEF val
  <2> HIDE DEF k, n, res
  <2>6. res <= k /\ res <= n
    BY <2>3, <2>4, <2>5, MinIs
  <2> QED  BY <2>3, <2>6 DEF val
<1>7. res \in Nat /\ res <= Cardinality(Thread) /\ res <= MaxWakes
  <2> HIDE DEF res, n
  <2>1. res \in Nat /\ n \in Nat /\ n <= Cardinality(Thread)
    BY <1>5 DEF res, n
  <2> QED  BY <1>6, <2>1, Widths
<1>8. pc'[t] = "wakeDone" /\ pc' \in [Thread -> Places]
  <2>1. "wakeDone" \in Places /\ "woken" \in Places /\ pc \in [Thread -> Places]
    BY <1>1 DEF Types, Places
  <2> QED  BY <1>2, <2>1
<1>9. call'[t] = [call[t] EXCEPT !.res = res] /\ call'[t].val = call[t].val /\ call'[t].res = res
  BY <1>1, <1>2 DEF Types
<1>10. Types'
  <2> HIDE DEF res
  <2>1. call' = [call EXCEPT ![t].res = res]
    BY <1>2 DEF res
  <2>2. call' \in [Thread -> [val : Int, res : Nat]]
    BY <1>1, <1>7, <2>1 DEF Types
  <2>3. \A u \in Thread : call'[u].val < Width /\ call'[u].res <= Cardinality(Thread)
    BY <1>1, <1>7, <2>1 DEF Types
  <2> QED  BY <1>1, <1>3, <1>8, <2>2, <2>3 DEF Types
<1>11. Others(t)
  BY <1>1, <1>2, <1>3, <1>4 DEF Others, Types
<1>12. Calling(t)'
  <2> HIDE DEF res
  <2>1. pc[t] = "waking" /\ pc'[t] = "wakeDone" /\ futexJoin'[t] = futexJoin[t] /\ upset' = upset
    BY <1>2, <1>3, <1>8
  <2>2. Without({"all"}) => /\ call[t].val >= 0
                            /\ futexJoin[t].maxWakes = Min({call[t].val, MaxWakes})
                            /\ Without({"none"}) => call[t].val >= 1
    BY <1>1, <2>1, Zenon DEF Calling
  <2>3. Without({"all"}) /\ Without({"none"}) => res <= futexJoin[t].maxWakes
    <3> SUFFICES ASSUME Without({"all"}), Without({"none"}) PROVE res <= futexJoin[t].maxWakes
      OBVIOUS
    <3>1. call[t].val >= 1 /\ futexJoin[t].maxWakes = Min({call[t].val, MaxWakes})
      BY <2>2
    <3>2. res <= call[t].val
      BY <1>6, <3>1
    <3>3. call[t].val \in Int /\ MaxWakes \in Int
      BY <1>1, Widths DEF Types
    <3> DEFINE val == call[t].val
    <3>4. Min({val, MaxWakes}) = val \/ Min({val, MaxWakes}) = MaxWakes
      <4> HIDE DEF val
      <4> QED  BY <3>3, MinIs DEF val
    <3> QED  BY <1>7, <3>1, <3>2, <3>4
  <2>4. pc'[t] \notin {"running", "waiting", "waking"} /\ pc'[t] \notin Joining
    BY <2>1 DEF Joining
  <2>5. \A kinds : Without(kinds)' <=> Without(kinds)
    BY <2>1 DEF Without
  <2>6. call'[t].val = call[t].val /\ call'[t].res = res
    BY <1>9
  <2> QED  BY <2>1, <2>2, <2>3, <2>4, <2>5, <2>6 DEF Calling
<1>13. Allowance'[t] = Allowance[t] /\ Awaited[t] = 0 /\ Awaited'[t] = res
  <2> HIDE DEF res
  <2> QED  BY <1>2, <1>3, <1>8, <1>9 DEF Allowance, Awaited
<1>14. Woken' = Woken + res /\ Woken \in Nat
  <2> DEFINE W == In({"woken", "told"})  V == In({"woken", "told"})'
  <2>1. V = W \cup woken
    BY <1>2, <1>4 DEF In
  <2>2. W \cap woken = {}
    BY <1>4 DEF In
  <2>3. W \subseteq Thread
    BY DEF In
  <2>4. Woken = Cardinality(W) /\ Woken' = Cardinality(V)
    BY DEF Woken
  <2> HIDE DEF W, V, waiting
  <2>5. IsFiniteSet(W)
    BY <2>3, FutexAssumption, FS_Subset
  <2>6. Cardinality(V) = Cardinality(W) + Cardinality(woken)
    <3>1. Cardinality(W \cup woken) = Cardinality(W) + Cardinality(woken) - Cardinality(W \cap woken)
      BY <1>5, <2>5, FS_Union
    <3>2. Cardinality(W \cap woken) = 0 /\ Cardinality(W) \in Nat /\ Cardinality(woken) \in Nat
      BY <1>5, <2>2, <2>5, FS_EmptySet, FS_CardinalityType
    <3>3. Cardinality(W \cup woken) = Cardinality(W) + Cardinality(woken)
      <4> DEFINE a == Cardinality(W)  b == Cardinality(woken)  c == Cardinality(W \cap woken)
      <4>1. a \in Nat /\ b \in Nat /\ c = 0
        BY <3>2
      <4>2. Cardinality(W \cup woken) = a + b - c
        BY <3>1
      <4> HIDE DEF a, b, c
      <4>3. Cardinality(W \cup woken) = a + b
        BY <4>1, <4>2
      <4> QED  BY <4>3 DEF a, b
    <3> QED  BY <2>1, <3>3
  <2> QED  BY <2>4, <2>5, <2>6, FS_CardinalityType
<1>15. Changes(t, 0, res, 0, res, 0)
  <2> HIDE DEF res
  <2>1. Joins' = Joins + res /\ Joins \in Int
    <3>1. Joins = unmatchedFutexWakeups + Woken /\ Joins' = unmatchedFutexWakeups' + Woken'
      BY DEF Joins, Woken
    <3>2. unmatchedFutexWakeups \in Int
      BY <1>1, Widths DEF Types
    <3> QED  BY <1>3, <1>7, <1>14, <3>1, <3>2
  <2>2. Left' = Left /\ Left \in Int
    BY <1>3, Widths DEF Left, LeftBy
  <2>3. Allowance[t] \in Int /\ maxAllowedFutexWakeups \in Int
    BY <1>1, Terms, Widths DEF Types
  <2> QED  BY <1>3, <1>7, <1>13, <2>1, <2>2, <2>3 DEF Changes
<1>16. fault' => ~Clean'
  BY <1>3
<1>17. res \in Int
  BY <1>7
<1> HIDE DEF res
<1> QED  BY <1>10, <1>11, <1>12, <1>15, <1>16, <1>17, StepKeeps

\* FUTEX_WAKE fails: the allowance stays behind.
LEMMA WakeFailsKeeps ==
  ASSUME IInv, ~fault, NEW t \in Thread, WakeFails(t)
  PROVE  IInv'
<1>1. Types /\ Calling(t)
  BY DEF IInv
<1>2. /\ call' = [call EXCEPT ![t] = NoCall] /\ maxAllowedFutexWakeups' = maxAllowedFutexWakeups
      /\ unmatchedFutexWakeups' = unmatchedFutexWakeups /\ fault' = fault
      /\ futexJoin' = futexJoin
      /\ "failed" \notin upset /\ upset' = upset \cup {"failed"}
      /\ pc[t] = "waking" /\ pc' = [pc EXCEPT ![t] = "running"]
  BY DEF WakeFails, counts, Go, Upset
<1>3. pc \in [Thread -> Places] /\ pc'[t] = "running" /\ "running" \in Places
  BY <1>1, <1>2 DEF Types, Places
<1>4. Types'
  <2>1. NoCall \in [val : Int, res : Nat] /\ NoCall.val < Width /\ NoCall.res <= Cardinality(Thread)
    BY Widths DEF NoCall
  <2> QED  BY <1>1, <1>2, <1>3, <2>1 DEF Types
<1>5. Others(t)
  BY <1>1, <1>2, <1>3 DEF Others, Types
<1>6. Calling(t)'
  <2>1. futexJoin'[t].action = "NONE"
    BY <1>1, <1>2, Zenon DEF Calling
  <2> QED  BY <1>3, <2>1 DEF Calling, Joining
<1> DEFINE d == -Allowance[t]
<1>7. /\ Allowance'[t] = 0 /\ Awaited'[t] = 0 /\ Awaited[t] = 0
  BY <1>2, <1>3 DEF Allowance, Awaited
<1>8. /\ Allowance[t] \in Nat /\ (Without({"all"}) => Allowance[t] <= MaxWakes)
  BY TermFits
<1>9. Woken' = Woken /\ Woken \in Nat
  <2>1. Woken' = Woken + OneIf("running") - OneIf(pc[t]) /\ Woken \in Nat
    BY <1>2, <1>3, InStep
  <2> QED  BY <1>2, <2>1 DEF OneIf
<1>10. Changes(t, d, 0, 0, 0, MaxWakes)
  <2>1. Joins' = Joins /\ Joins \in Int
    BY <1>1, <1>2, <1>9, Widths DEF Joins, Woken, Types
  <2>2. Left' = Left + MaxWakes
    BY <1>2, Widths DEF Left, LeftBy
  <2>3. maxAllowedFutexWakeups \in Int /\ MaxWakes \in Nat
    BY <1>1, Widths DEF Types
  <2>4. Without({"all"})' => Without({"all"})
    BY <1>2 DEF Without
  <2>5. "failed" \in upset'
    BY <1>2
  <2> QED  BY <1>2, <1>7, <1>8, <2>1, <2>2, <2>3, <2>4 DEF Changes
<1>11. fault' => ~Clean'
  BY <1>2
<1>12. d \in Int /\ MaxWakes \in Int
  BY <1>8, Widths
<1> HIDE DEF d
<1> QED  BY <1>4, <1>5, <1>6, <1>10, <1>11, <1>12, StepKeeps

\* What the kernel woke is what the waker asks for, unless it asked for none.
LEMMA WakeEndKeeps ==
  ASSUME IInv, ~fault, NEW t \in Thread, WakeEnd(t)
  PROVE  IInv'
<1>1. Types /\ Calling(t)
  BY DEF IInv
<1> DEFINE w == Unsigned(Min({call[t].res, call[t].val}))
<1>2. /\ call' = [call EXCEPT ![t] = NoCall] /\ maxAllowedFutexWakeups' = maxAllowedFutexWakeups
      /\ unmatchedFutexWakeups' = unmatchedFutexWakeups /\ fault' = fault /\ upset' = upset
      /\ futexJoin' = [futexJoin EXCEPT ![t].action = "WAKE", ![t].wokenUp = w]
      /\ pc[t] = "wakeDone" /\ pc' = [pc EXCEPT ![t] = "toJoin"]
  BY DEF WakeEnd, counts, Go
<1>3. pc \in [Thread -> Places] /\ pc'[t] = "toJoin" /\ "toJoin" \in Places
  BY <1>1, <1>2 DEF Types, Places
<1> DEFINE val == call[t].val  res == call[t].res  least == Min({res, val})
<1>4. val \in Int /\ res \in Nat /\ res <= Cardinality(Thread) /\ res <= MaxWakes
  <2>1. val \in Int /\ res \in Nat /\ res <= Cardinality(Thread)
    BY <1>1 DEF Types
  <2> HIDE DEF res
  <2> QED  BY <2>1, Widths
<1>5. least \in Int /\ least <= res /\ least <= val /\ (least = res \/ least = val)
  <2> HIDE DEF val, res
  <2>1. res \in Int /\ val \in Int
    BY <1>4
  <2> QED  BY <2>1, MinIs
<1>6. w \in 0 .. Width - 1 /\ (least \in 0 .. Width - 1 => w = least)
  <2>1. w = Unsigned(least)
    OBVIOUS
  <2> HIDE DEF w, least
  <2> QED  BY <1>5, <2>1, UnsignedIs
<1>7. futexJoin'[t] = [futexJoin[t] EXCEPT !.action = "WAKE", !.wokenUp = w]
  <2> HIDE DEF w
  <2> QED  BY <1>1, <1>2 DEF Types
<1>8. futexJoin'[t].wokenUp = w /\ futexJoin'[t].maxWakes = futexJoin[t].maxWakes
  <2> HIDE DEF w
  <2> QED  BY <1>1, <1>7 DEF Types
<1>9. Types'
  <2> HIDE DEF w
  <2>1. futexJoin' \in [Thread -> [action : Actions, maxWakes : 0 .. MaxWakes, wokenUp : 0 .. Width - 1]]
    BY <1>1, <1>2, <1>6 DEF Types, Actions
  <2>2. NoCall \in [val : Int, res : Nat] /\ NoCall.val < Width /\ NoCall.res <= Cardinality(Thread)
    BY Widths DEF NoCall
  <2> QED  BY <1>1, <1>2, <1>3, <2>1, <2>2 DEF Types
<1>10. Others(t)
  BY <1>1, <1>2, <1>3 DEF Others, Types
<1>11. \A kinds : Without(kinds)' <=> Without(kinds)
  BY <1>2 DEF Without
<1>12. Without({"all"}) => /\ val >= 0 /\ futexJoin[t].maxWakes = Min({val, MaxWakes})
                           /\ Without({"none"}) => res <= futexJoin[t].maxWakes
  BY <1>1, <1>2, Zenon DEF Calling
<1>13. Min({val, MaxWakes}) <= val /\ (Min({val, MaxWakes}) = val \/ Min({val, MaxWakes}) = MaxWakes)
  <2> HIDE DEF val
  <2>1. val \in Int /\ MaxWakes \in Int
    BY <1>4, Widths
  <2> QED  BY <2>1, MinIs
<1>14. Without({"all"}) => w = least /\ w <= futexJoin[t].maxWakes
  <2> SUFFICES ASSUME Without({"all"}) PROVE w = least /\ w <= futexJoin[t].maxWakes
    OBVIOUS
  <2>1. val >= 0 /\ futexJoin[t].maxWakes = Min({val, MaxWakes})
    BY <1>12
  <2> DEFINE k == Min({val, MaxWakes})
  <2>2. k = val \/ k = MaxWakes
    BY <1>13
  <2> HIDE DEF val, res, least, w, k
  <2>3. least <= k /\ least \in 0 .. Width - 1
    BY <1>4, <1>5, <2>1, <2>2, Widths
  <2> QED  BY <1>6, <2>1, <2>3 DEF k
<1>15. Calling(t)'
  <2> HIDE DEF w
  <2>1. pc'[t] \notin {"running", "waiting", "waking", "wakeDone"}
    BY <1>3
  <2>2. Without({"all"})' => futexJoin'[t].wokenUp <= futexJoin'[t].maxWakes
    BY <1>8, <1>11, <1>14
  <2> QED  BY <2>1, <2>2 DEF Calling
<1> DEFINE d == w - res
<1>16. Clean' => d = 0
  <2> SUFFICES ASSUME Clean' PROVE d = 0
    OBVIOUS
  <2>1. Without({"all"}) /\ Without({"none"})
    BY <1>2 DEF Clean, Without
  <2>2. res <= Min({val, MaxWakes}) /\ w = least
    BY <1>12, <1>14, <2>1
  <2> DEFINE k == Min({val, MaxWakes})
  <2>3. k <= val /\ res <= k /\ (k = val \/ k = MaxWakes)
    BY <1>13, <2>2
  <2>4. w = least
    BY <2>2
  <2>5. MaxWakes \in Int
    BY Widths
  <2> HIDE DEF val, res, least, w, k
  <2>6. least = res
    BY <1>4, <1>5, <2>3, <2>5
  <2> QED  BY <1>4, <2>4, <2>6
<1>17. Allowance'[t] = Allowance[t] /\ Awaited[t] = res /\ Awaited'[t] = w
  <2> HIDE DEF w
  <2> QED  BY <1>2, <1>3, <1>8 DEF Allowance, Awaited
<1>18. Woken' = Woken /\ Woken \in Nat
  <2>1. Woken' = Woken + OneIf("toJoin") - OneIf(pc[t]) /\ Woken \in Nat
    BY <1>2, <1>3, InStep
  <2> QED  BY <1>2, <2>1 DEF OneIf
<1>19. d \in Int /\ w \in Int
  <2> HIDE DEF w, res
  <2> QED  BY <1>4, <1>6, Widths
<1>20. Changes(t, 0, d, 0, 0, 0)
  <2>1. Joins' = Joins /\ Joins \in Int
    BY <1>1, <1>2, <1>18, Widths DEF Joins, Woken, Types
  <2>2. Left' = Left /\ Left \in Int
    BY <1>2, Widths DEF Left, LeftBy
  <2>3. maxAllowedFutexWakeups \in Int /\ Allowance[t] \in Int
    BY <1>1, Terms, Widths DEF Types
  <2>4. Awaited'[t] = Awaited[t] + d
    <3> HIDE DEF w, res
    <3> QED  BY <1>4, <1>17, <1>19
  <2>5. Clean' => 0 + 0 <= d + 0 /\ 0 = d
    <3> HIDE DEF d
    <3> QED  BY <1>16
  <2> HIDE DEF d
  <2> QED  BY <1>2, <1>17, <1>19, <2>1, <2>2, <2>3, <2>4, <2>5 DEF Changes
<1>21. fault' => ~Clean'
  BY <1>2 DEF IInv, Clean, Without
<1> HIDE DEF d
<1> QED  BY <1>9, <1>10, <1>15, <1>19, <1>20, <1>21, StepKeeps

\* The part of the allowance that was not used is given back.
LEMMA WakeJoinKeeps ==
  ASSUME IInv, ~fault, NEW t \in Thread, WakeJoin(t)
  PROVE  IInv'
<1>1. Types /\ Calling(t)
  BY DEF IInv
<1> DEFINE m == maxAllowedFutexWakeups  u == unmatchedFutexWakeups
           max == futexJoin[t].maxWakes  woken == futexJoin[t].wokenUp
           d == woken - max
<1>2. /\ call' = call /\ futexJoin' = futexJoin /\ u' = u /\ upset' = upset
      /\ m' = Unsigned(m - (max - woken))
      /\ fault' = (max > m \/ woken > max \/ u > Unsigned(m - (max - woken)))
      /\ pc[t] = "toJoin" /\ pc' = [pc EXCEPT ![t] = "matching"]
  BY DEF WakeJoin, Go, Unused
<1>3. pc \in [Thread -> Places] /\ pc'[t] = "matching" /\ "matching" \in Places
  BY <1>1, <1>2 DEF Types, Places
<1>4. /\ m \in Nat /\ m < Width /\ u \in Nat /\ max \in Nat /\ woken \in Nat
      /\ Width \in Nat
  BY <1>1, Widths DEF Types
<1>5. m' \in 0 .. Width - 1
  <2> DEFINE k == m - (max - woken)
  <2>1. k \in Int /\ m' = Unsigned(k)
    BY <1>2, <1>4
  <2> HIDE DEF k
  <2> QED  BY <2>1, UnsignedIs
<1>6. Types'
  <2>1. fault' \in BOOLEAN
    BY <1>2
  <2>2. u' \in 0 .. Width - 1
    BY <1>1, <1>2 DEF Types
  <2> QED  BY <1>1, <1>2, <1>3, <1>5, <2>1, <2>2 DEF Types
<1>7. Others(t)
  BY <1>1, <1>2, <1>3 DEF Others, Types
<1>8. Without({"all"}) => woken <= max
  BY <1>1, <1>2, Zenon DEF Calling, Joining
<1>9. \A kinds : Without(kinds)' <=> Without(kinds)
  BY <1>2 DEF Without
<1>10. Calling(t)'
  <2>1. pc'[t] \notin {"running", "waiting", "waking", "wakeDone"}
    BY <1>3
  <2>2. Without({"all"})' => futexJoin'[t].wokenUp <= futexJoin'[t].maxWakes
    BY <1>2, <1>8, <1>9
  <2> QED  BY <2>1, <2>2 DEF Calling
<1>11. /\ Allowance[t] = max /\ Awaited[t] = woken
       /\ Allowance'[t] = woken /\ Awaited'[t] = woken
  BY <1>2, <1>3 DEF Allowance, Awaited
<1>12. Without({"all"}) => max <= m
  <2>1. Without({"all"}) => Allowance[t] <= m
    BY TermFits
  <2> QED  BY <1>11, <2>1
<1>13. Without({"all"}) => m' = m + d /\ m' = Unsigned(m - (max - woken))
  <2> SUFFICES ASSUME Without({"all"}) PROVE m' = m + d
    BY <1>2
  <2> DEFINE k == m - (max - woken)
  <2>1. k \in 0 .. Width - 1 /\ k = m + d /\ k \in Int
    BY <1>4, <1>8, <1>12
  <2>2. m' = Unsigned(k)
    BY <1>2
  <2> HIDE DEF k, m
  <2> QED  BY <2>1, <2>2, UnsignedIs
<1>14. Woken' = Woken /\ Woken \in Nat
  <2>1. Woken' = Woken + OneIf("matching") - OneIf(pc[t]) /\ Woken \in Nat
    BY <1>2, <1>3, InStep
  <2> QED  BY <1>2, <2>1 DEF OneIf
<1>15. Clean => u <= m + d
  <2> SUFFICES ASSUME Clean PROVE u <= m + d
    OBVIOUS
  <2>1. Joins + Allowance[t] <= m + Awaited[t]
    BY TermFits
  <2>2. Joins = u + Woken
    BY DEF Joins, Woken
  <2> HIDE DEF u, m, max, woken
  <2> QED  BY <1>4, <1>11, <1>14, <2>1, <2>2
<1>16. fault' => ~Clean'
  <2> SUFFICES ASSUME Clean' PROVE ~fault'
    OBVIOUS
  <2>1. Clean /\ Without({"all"})
    BY <1>2 DEF Clean, Without
  <2>2. Unsigned(m - (max - woken)) = m + d /\ u <= m + d /\ max <= m /\ woken <= max
    BY <1>8, <1>12, <1>13, <1>15, <2>1
  <2> DEFINE x == Unsigned(m - (max - woken))
  <2>3. ~(u > x) /\ ~(max > m) /\ ~(woken > max)
    <3>1. x = m + d
      BY <2>2
    <3> HIDE DEF x
    <3> QED  BY <1>4, <2>2, <3>1
  <2> QED  BY <1>2, <2>3
<1>17. d \in Int
  BY <1>4
<1>18. Changes(t, d, 0, d, 0, 0)
  <2>1. Joins' = Joins /\ Joins \in Int
    BY <1>1, <1>2, <1>14, Widths DEF Joins, Woken, Types
  <2>2. Left' = Left /\ Left \in Int
    BY <1>2, Widths DEF Left, LeftBy
  <2>3. Allowance'[t] = Allowance[t] + d /\ Awaited'[t] = Awaited[t] + 0
    BY <1>4, <1>11
  <2>4. Without({"all"})' => m' = m + d
    BY <1>9, <1>13
  <2> HIDE DEF d
  <2> QED  BY <1>17, <2>1, <2>2, <2>3, <2>4 DEF Changes
<1> HIDE DEF d
<1> QED  BY <1>6, <1>7, <1>10, <1>16, <1>17, <1>18, StepKeeps

\* A waker that is through takes off what it waited for, or all there are.
LEMMA MatchedKeeps ==
  ASSUME IInv, ~fault, NEW t \in Thread, Matched(t), pc[t] \in {"sure", "givingUp"},
         \/ /\ Enough(t) /\ upset' = upset
            /\ unmatchedFutexWakeups' = Unsigned(unmatchedFutexWakeups - futexJoin[t].wokenUp)
         \/ unmatchedFutexWakeups' = 0 /\ upset' = upset \cup {"gaveUp"}
  PROVE  IInv'
<1>1. Types /\ Calling(t)
  BY DEF IInv
<1> DEFINE m == maxAllowedFutexWakeups  u == unmatchedFutexWakeups
           woken == futexJoin[t].wokenUp
           d == -woken
<1>2. /\ call' = call /\ fault' = fault
      /\ futexJoin' = [futexJoin EXCEPT ![t] = NoJoin]
      /\ m' = Unsigned(m - woken)
      /\ pc' = [pc EXCEPT ![t] = "running"]
  BY DEF Matched
<1>3. pc \in [Thread -> Places] /\ pc'[t] = "running" /\ "running" \in Places
  BY <1>1, <1>2 DEF Types, Places
<1>4. /\ m \in Nat /\ m < Width /\ u \in Nat /\ u < Width /\ woken \in Nat
      /\ Width \in Nat
  BY <1>1, Widths DEF Types
<1>5. m' \in 0 .. Width - 1 /\ (Without({"all"}) => m' = m + d)
  <2> DEFINE k == m - woken
  <2>1. k \in Int /\ m' = Unsigned(k) /\ k = m + d
    BY <1>2, <1>4
  <2>2. Without({"all"}) => woken <= m
    <3>1. Allowance[t] = woken
      BY DEF Allowance
    <3> QED  BY <3>1, TermFits
  <2>3. Without({"all"}) => k \in 0 .. Width - 1
    BY <1>4, <2>2
  <2> HIDE DEF k, m, d
  <2> QED  BY <2>1, <2>3, UnsignedIs
<1>6. u' \in 0 .. Width - 1 /\ (Enough(t) /\ upset' = upset => u' = u + d \/ "gaveUp" \in upset)
  <2> DEFINE k == u - woken
  <2>1. CASE Enough(t) /\ upset' = upset /\ u' = Unsigned(k)
    <3>1. k \in 0 .. Width - 1 /\ k \in Int /\ k = u + d
      BY <1>4, <2>1 DEF Enough
    <3> HIDE DEF k
    <3> QED  BY <2>1, <3>1, UnsignedIs
  <2>2. CASE u' = 0 /\ upset' = upset \cup {"gaveUp"}
    BY <1>4, <2>2
  <2> QED  BY <2>1, <2>2
<1>7. Types'
  <2>1. NoJoin \in [action : Actions, maxWakes : 0 .. MaxWakes, wokenUp : 0 .. Width - 1]
    BY Widths DEF NoJoin, Actions
  <2> QED  BY <1>1, <1>2, <1>3, <1>5, <1>6, <2>1 DEF Types
<1>8. Others(t)
  BY <1>1, <1>2, <1>3 DEF Others, Types
<1>9. futexJoin'[t] = NoJoin
  BY <1>1, <1>2 DEF Types
<1>10. Calling(t)'
  BY <1>3, <1>9 DEF Calling, Joining, NoJoin
<1>11. /\ Allowance[t] = woken /\ Awaited[t] = woken
       /\ Allowance'[t] = 0 /\ Awaited'[t] = 0
  BY <1>3 DEF Allowance, Awaited
<1>12. Woken' = Woken /\ Woken \in Nat
  <2>1. Woken' = Woken + OneIf("running") - OneIf(pc[t]) /\ Woken \in Nat
    BY <1>2, <1>3, InStep
  <2> QED  BY <2>1 DEF OneIf
<1>13. /\ \A kinds : Without(kinds)' => Without(kinds)
       /\ Clean' => Clean /\ upset' = upset /\ "gaveUp" \notin upset /\ Enough(t)
  BY DEF Clean, Without
<1>14. d \in Int
  BY <1>4
<1>15. Changes(t, d, d, d, d, 0)
  <2>1. Clean' => Joins' = Joins + d
    <3> SUFFICES ASSUME Clean' PROVE Joins' = Joins + d
      OBVIOUS
    <3>1. u' = u + d
      BY <1>6, <1>13
    <3>2. Joins = u + Woken /\ Joins' = u' + Woken'
      BY DEF Joins, Woken
    <3> HIDE DEF u, d
    <3> QED  BY <1>4, <1>12, <1>14, <3>1, <3>2
  <2>2. Left' = Left /\ Left \in Int
    BY Widths DEF Left, LeftBy
  <2>3. Allowance'[t] = Allowance[t] + d /\ Awaited'[t] = Awaited[t] + d
    BY <1>4, <1>11
  <2>4. Without({"all"})' => m' = m + d
    BY <1>5, <1>13
  <2> HIDE DEF d
  <2> QED  BY <1>14, <2>1, <2>2, <2>3, <2>4 DEF Changes
<1>16. fault' => ~Clean'
  BY <1>2
<1> HIDE DEF d
<1> QED  BY <1>7, <1>8, <1>10, <1>14, <1>15, <1>16, StepKeeps

\* futexWakeJoin takes off the woken threads.
LEMMA MatchKeeps ==
  ASSUME IInv, ~fault, NEW t \in Thread, Match(t)
  PROVE  IInv'
<1>1. CASE EnoughStill(t)
  BY <1>1, MatchedKeeps DEF Match, EnoughStill
<1>2. CASE ~EnoughStill(t)
  <2>1. Types /\ Calling(t)
    BY DEF IInv
  <2>2. /\ call' = call /\ maxAllowedFutexWakeups' = maxAllowedFutexWakeups
        /\ unmatchedFutexWakeups' = unmatchedFutexWakeups /\ upset' = upset /\ fault' = fault
        /\ futexJoin' = futexJoin
        /\ pc[t] = "sure" /\ pc' = [pc EXCEPT ![t] = "matching"]
    BY <1>2 DEF Match, counts
  <2>3. pc \in [Thread -> Places] /\ pc'[t] = "matching" /\ "matching" \in Places
    BY <2>1, <2>2 DEF Types, Places
  <2>4. Types'
    BY <2>1, <2>2, <2>3 DEF Types
  <2>5. Others(t)
    BY <2>1, <2>2, <2>3 DEF Others, Types
  <2>6. Calling(t)'
    BY <2>1, <2>2, <2>3 DEF Calling, Joining, Without
  <2>7. Changes(t, 0, 0, 0, 0, 0)
    <3>1. Allowance'[t] = Allowance[t] /\ Awaited'[t] = Awaited[t]
      BY <2>2, <2>3 DEF Allowance, Awaited
    <3>2. Woken' = Woken /\ Woken \in Nat
      <4>1. Woken' = Woken + OneIf("matching") - OneIf(pc[t]) /\ Woken \in Nat
        BY <2>2, <2>3, InStep
      <4> QED  BY <2>2, <4>1 DEF OneIf
    <3>3. Joins' = Joins /\ Joins \in Int
      BY <2>1, <2>2, <3>2, Widths DEF Joins, Woken, Types
    <3>4. Left' = Left /\ Left \in Int
      BY <2>2, Widths DEF Left, LeftBy
    <3>5. Allowance[t] \in Int /\ Awaited[t] \in Int /\ maxAllowedFutexWakeups \in Int
      BY <2>1, Terms, Widths DEF Types
    <3> QED  BY <2>2, <3>1, <3>3, <3>4, <3>5 DEF Changes
  <2>8. fault' => ~Clean'
    BY <2>2
  <2> QED  BY <2>4, <2>5, <2>6, <2>7, <2>8, StepKeeps
<1> QED  BY <1>1, <1>2

\* futexWakeJoin gives up.
LEMMA GiveUpKeeps ==
  ASSUME IInv, ~fault, NEW t \in Thread, GiveUp(t)
  PROVE  IInv'
BY MatchedKeeps DEF GiveUp

\* A thread that vanishes leaves the allowance of its call, which covers what it
\* would have waited for.
LEMMA VanishKeeps ==
  ASSUME IInv, ~fault, NEW t \in Thread, Vanish(t)
  PROVE  IInv'
<1>1. Types /\ Calling(t)
  BY DEF IInv
<1>2. /\ call' = [call EXCEPT ![t] = NoCall] /\ maxAllowedFutexWakeups' = maxAllowedFutexWakeups
      /\ unmatchedFutexWakeups' = unmatchedFutexWakeups /\ fault' = fault
      /\ futexJoin' = [futexJoin EXCEPT ![t] = NoJoin]
      /\ "vanished" \notin upset /\ upset' = upset \cup {"vanished"}
      /\ pc' = [pc EXCEPT ![t] = "running"]
  BY DEF Vanish, counts, Upset
<1>3. pc \in [Thread -> Places] /\ pc'[t] = "running" /\ "running" \in Places
  BY <1>1, <1>2 DEF Types, Places
<1>4. Types'
  <2>1. NoCall \in [val : Int, res : Nat] /\ NoCall.val < Width /\ NoCall.res <= Cardinality(Thread)
    BY Widths DEF NoCall
  <2>2. NoJoin \in [action : Actions, maxWakes : 0 .. MaxWakes, wokenUp : 0 .. Width - 1]
    BY Widths DEF NoJoin, Actions
  <2> QED  BY <1>1, <1>2, <1>3, <2>1, <2>2 DEF Types
<1>5. Others(t)
  BY <1>1, <1>2, <1>3 DEF Others, Types
<1>6. futexJoin'[t] = NoJoin
  BY <1>1, <1>2 DEF Types
<1>7. Calling(t)'
  BY <1>3, <1>6 DEF Calling, Joining, NoJoin
<1> DEFINE dA == -Allowance[t]  dW == -Awaited[t]  dJ == -OneIf(pc[t])
<1>8. Allowance'[t] = 0 /\ Awaited'[t] = 0
  BY <1>3 DEF Allowance, Awaited
<1>9. /\ Allowance[t] \in Nat /\ Awaited[t] \in Nat
      /\ Without({"all"}) => Allowance[t] <= MaxWakes
      /\ Clean => Awaited[t] <= Allowance[t]
  BY TermFits
<1>10. Woken' = Woken + dJ /\ Woken \in Nat /\ OneIf(pc[t]) \in Nat
  <2>1. Woken' = Woken + OneIf("running") - OneIf(pc[t]) /\ Woken \in Nat
    BY <1>2, <1>3, InStep
  <2>2. OneIf("running") = 0 /\ OneIf(pc[t]) \in Nat
    BY DEF OneIf
  <2> QED  BY <2>1, <2>2
<1>11. Changes(t, dA, dW, 0, dJ, MaxWakes)
  <2>1. Joins' = Joins + dJ
    <3>1. Joins = unmatchedFutexWakeups + Woken /\ Joins' = unmatchedFutexWakeups' + Woken'
      BY DEF Joins, Woken
    <3>2. unmatchedFutexWakeups \in Int
      BY <1>1, Widths DEF Types
    <3> QED  BY <1>2, <1>10, <3>1, <3>2
  <2>2. Left' = Left + MaxWakes
    BY <1>2, Widths DEF Left, LeftBy
  <2>3. maxAllowedFutexWakeups \in Int /\ MaxWakes \in Nat
    BY <1>1, Widths DEF Types
  <2>4. (Without({"all"})' => Without({"all"})) /\ (Clean' => Clean) /\ ~Without({"vanished"})'
    BY <1>2 DEF Clean, Without
  <2>5. Without({"all"})' => dA <= 0 /\ 0 <= dA + MaxWakes
    BY <1>9, <2>3, <2>4
  <2>6. Clean' => dJ + dA <= dW + 0
    BY <1>9, <1>10, <2>4
  <2>7. Allowance'[t] = Allowance[t] + dA /\ Awaited'[t] = Awaited[t] + dW
    BY <1>8, <1>9
  <2> HIDE DEF dA, dW, dJ
  <2> QED  BY <1>2, <2>1, <2>2, <2>3, <2>4, <2>5, <2>6, <2>7 DEF Changes
<1>12. fault' => ~Clean'
  BY <1>2
<1>13. dA \in Int /\ dW \in Int /\ dJ \in Int /\ MaxWakes \in Int
  BY <1>9, <1>10, Widths
<1> HIDE DEF dA, dW, dJ
<1> QED  BY <1>4, <1>5, <1>7, <1>11, <1>12, <1>13, StepKeeps

-----------------------------------------------------------------------------
(* Theorems                                                                *)

\* The initial states
LEMMA InitInv == Init => IInv
<1> SUFFICES ASSUME Init PROVE IInv
  OBVIOUS
<1>1. Types
  <2>1. /\ NoCall \in [val : Int, res : Nat] /\ NoCall.val < Width /\ NoCall.res <= Cardinality(Thread)
        /\ NoJoin \in [action : Actions, maxWakes : 0 .. MaxWakes, wokenUp : 0 .. Width - 1]
        /\ 0 \in 0 .. Width - 1
    BY Widths DEF NoCall, NoJoin, Actions
  <2> QED  BY <2>1 DEF Init, Types, Places
<1>2. \A t \in Thread : Calling(t)
  BY DEF Init, Calling, NoJoin, Joining
<1>3. Allowances = 0 /\ Awaits = 0
  <2>1. /\ Allowance \in [Thread -> Nat] /\ \A t \in Thread : Allowance[t] <= 0
        /\ Awaited \in [Thread -> Nat] /\ \A t \in Thread : Awaited[t] <= 0
    BY DEF Init, Allowance, Awaited
  <2>2. /\ Allowances \in Nat /\ Allowances <= 0 * Cardinality(Thread)
        /\ Awaits \in Nat /\ Awaits <= 0 * Cardinality(Thread)
    BY <2>1, SumBound, FutexAssumption DEF Allowances, Awaits
  <2>3. 0 * Cardinality(Thread) = 0
    BY Widths
  <2> QED  BY <2>2, <2>3
<1>4. Joins = 0
  <2>1. In({"woken", "told"}) = {}
    BY DEF Init, In
  <2> QED  BY <2>1, FS_EmptySet DEF Init, Joins
<1>5. LeftBy("failed") \in Nat /\ LeftBy("vanished") \in Nat
  BY Widths DEF LeftBy
<1>6. Allowed
  BY <1>3, <1>5 DEF Init, Allowed, Allowances
<1>7. Balanced
  BY <1>3, <1>4 DEF Init, Balanced, Allowances, Awaits
<1> QED  BY <1>1, <1>2, <1>6, <1>7 DEF Init, IInv

\* Every step
LEMMA NextInv == IInv /\ [Next]_vars => IInv'
<1> SUFFICES ASSUME IInv, [Next]_vars PROVE IInv'
  OBVIOUS
<1>1. CASE Next
  <2>1. ~fault
    BY <1>1 DEF Next
  <2>2. PICK t \in Thread :
          \/ Step(t)
          \/ Wait(t) \/ Interrupted(t) \/ WokenOutside(t)
          \/ WakeStart(t) \/ WakeFails(t) \/ Vanish(t)
    BY <1>1 DEF Next
  <2>3. CASE Wait(t) \/ Interrupted(t) \/ NotifyWaitWoken(t) \/ SeeEnough(t) \/ SeeTimeout(t)
    BY <2>1, <2>3, WaitKeeps
  <2>4. CASE WokenOutside(t)
    BY <2>1, <2>4, WokenOutsideKeeps
  <2>5. CASE WaitJoin(t)
    BY <2>1, <2>5, WaitJoinKeeps
  <2>6. CASE WakeStart(t)
    BY <2>1, <2>6, WakeStartKeeps
  <2>7. CASE Wake(t)
    BY <2>1, <2>7, WakeKeeps
  <2>8. CASE WakeFails(t)
    BY <2>1, <2>8, WakeFailsKeeps
  <2>9. CASE WakeEnd(t)
    BY <2>1, <2>9, WakeEndKeeps
  <2>10. CASE WakeJoin(t)
    BY <2>1, <2>10, WakeJoinKeeps
  <2>11. CASE Match(t)
    BY <2>1, <2>11, MatchKeeps
  <2>12. CASE GiveUp(t)
    BY <2>1, <2>12, GiveUpKeeps
  <2>13. CASE Vanish(t)
    BY <2>1, <2>13, VanishKeeps
  <2> QED  BY <2>2, <2>3, <2>4, <2>5, <2>6, <2>7, <2>8, <2>9, <2>10, <2>11, <2>12, <2>13 DEF Step
<1>2. CASE UNCHANGED vars
  <2>1. Allowance' = Allowance /\ Awaited' = Awaited
    BY <1>2 DEF vars, Allowance, Awaited
  <2>2. /\ pc' = pc /\ call' = call /\ futexJoin' = futexJoin /\ upset' = upset /\ fault' = fault
        /\ maxAllowedFutexWakeups' = maxAllowedFutexWakeups
        /\ unmatchedFutexWakeups' = unmatchedFutexWakeups
    BY <1>2 DEF vars, counts
  <2>3. Types' /\ (\A t \in Thread : Calling(t)')
    BY <2>2 DEF IInv, Types, Calling, Without
  <2>4. Allowed'
    BY <2>1, <2>2 DEF IInv, Allowed, Without, LeftBy
  <2>5. Balanced' /\ (fault' => ~Clean')
    BY <2>1, <2>2 DEF IInv, Balanced, Joins, Clean, Without, In
  <2> QED  BY <2>3, <2>4, <2>5 DEF IInv
<1> QED  BY <1>1, <1>2

\* The inductive invariant: of each thread, what its call asks for and gets; of
\* the counters, that what is allowed is what the calls may wake and what failed
\* and vanished ones left behind, and that the threads woken are those awaited.
THEOREM Invariance == Spec => []IInv
BY InitInv, NextInv, PTL DEF Spec

\* The two counters of the scheduler balance: as many threads are awaited as were
\* woken and have not been taken off, and as many wake-ups are allowed as the calls
\* in progress may make, so that neither counter wraps around.
THEOREM CountsRight == Spec => []CountsBalance
<1>1. IInv => CountsBalance
  <2> SUFFICES ASSUME IInv PROVE CountsBalance
    OBVIOUS
  <2>1. Types /\ Allowed /\ Balanced /\ \A t \in Thread : Calling(t)
    BY DEF IInv
  <2>2. ASSUME Without({"outside", "vanished", "gaveUp", "all", "none"})
        PROVE  SumFunction(Awaited) = unmatchedFutexWakeups + Cardinality(In({"woken", "told"}))
    <3>1. Clean /\ Without({"vanished"})
      BY <2>2 DEF Clean, Without
    <3> QED  BY <2>1, <3>1 DEF Balanced, Joins
  <2>3. ASSUME Without({"failed", "vanished", "all"})
        PROVE  maxAllowedFutexWakeups = SumFunction(Allowance)
    <3>1. Without({"all"}) /\ LeftBy("failed") = 0 /\ LeftBy("vanished") = 0
      BY <2>3 DEF Without, LeftBy
    <3>2. SumFunction(Allowance) \in Int
      BY <2>1, <3>1, AllowancesFit DEF Allowances
    <3>3. maxAllowedFutexWakeups \in Int
      BY <2>1, Widths DEF Types
    <3> QED  BY <2>1, <3>1, <3>2, <3>3 DEF Allowed
  <2> QED  BY <2>2, <2>3 DEF CountsBalance
<1> QED  BY <1>1, Invariance, PTL

\* No assertion of the matching fails before something happens that the counts
\* cannot follow: not when calls fail, nor when threads end in the middle of them.
THEOREM NoFaultUnlessUpset == Spec => []OnlyUpsetsFault
<1>1. IInv => OnlyUpsetsFault
  BY DEF IInv, OnlyUpsetsFault, Clean, Without
<1> QED  BY <1>1, Invariance, PTL
=============================================================================
