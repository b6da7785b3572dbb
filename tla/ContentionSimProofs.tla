------------------------ MODULE ContentionSimProofs -------------------------
(***************************************************************************)
(* The weave phase of ContentionSim keeps the invariant, whatever the      *)
(* interleaving of the simulation threads, each with one domain or several;*)
(* and what follows from the invariant.                                    *)
(***************************************************************************)
EXTENDS ContentionGraphProofs

-----------------------------------------------------------------------------
(* The weave phase: what running an event does to the events               *)

\* What a change of an event's state, parents or cycles leaves alone
Kin(f, e) ==
  /\ f.kind = e.kind /\ f.owner = e.owner /\ f.dom = e.dom /\ f.called = e.called
  /\ f.parentEv = e.parentEv /\ f.src = e.src /\ f.minStart = e.minStart
  /\ f.xing = e.xing /\ f.kids = e.kids
KinAll(F, E) == \A i \in Ids : Kin(F[i], E[i])
\* Its state and parents are what they were.
Still(f, e) == f.state = e.state /\ f.parents = e.parents

\* What EventsOK says stays.
LEMMA KinEvents ==
  ASSUME NEW E \in [Ids -> EventRec], NEW F, EventsOK(E), KinAll(F, E),
         \A i \in Ids : E[i].kind = "none" => F[i] = E[i]
  PROVE  EventsOK(F)
<1> SUFFICES ASSUME NEW j \in Ids
             PROVE  /\ F[j].kind = "none" => F[j] = NoEvent
                    /\ F[j].kind # "none" => F[j].owner = j[1]
                    /\ F[j].xing # NoId =>
                         LET y == F[j].xing IN
                         /\ F[j].kind # "cross" /\ F[y].kind = "cross" /\ ~F[y].called
                         /\ F[y].parentEv = j /\ F[y].src = F[j].dom /\ F[y].dom # F[j].dom
  BY DEF EventsOK
<1>1. Kin(F[j], E[j])
  BY DEF KinAll
<1>2. F[j].kind = "none" => F[j] = NoEvent
  <2> HAVE F[j].kind = "none"
  <2>1. E[j].kind = "none"
    BY <1>1 DEF Kin
  <2>2. F[j] = E[j]
    BY <2>1
  <2>3. E[j] = NoEvent
    BY <2>1 DEF EventsOK
  <2> QED  BY <2>2, <2>3
<1>3. F[j].kind # "none" => F[j].owner = j[1]
  BY <1>1 DEF EventsOK, Kin
<1>4. F[j].xing # NoId =>
        LET y == F[j].xing IN
        /\ F[j].kind # "cross" /\ F[y].kind = "cross" /\ ~F[y].called
        /\ F[y].parentEv = j /\ F[y].src = F[j].dom /\ F[y].dom # F[j].dom
  <2> HAVE F[j].xing # NoId
  <2>1. E[j].xing # NoId /\ E[j].xing \in Ids /\ F[j].xing = E[j].xing
    BY <1>1 DEF Kin, EventRec, MaybeId
  <2>2. Kin(F[E[j].xing], E[E[j].xing])
    BY <2>1 DEF KinAll
  <2>3. LET y == E[j].xing IN
        /\ E[j].kind # "cross" /\ E[y].kind = "cross" /\ ~E[y].called
        /\ E[y].parentEv = j /\ E[y].src = E[j].dom /\ E[y].dom # E[j].dom
    BY <2>1 DEF EventsOK
  <2> QED  BY <2>1, <2>2, <2>3, <1>1 DEF Kin
<1> QED  BY <1>2, <1>3, <1>4

\* Everything stays when no state changes.
LEMMA StillStruct ==
  ASSUME NEW E \in [Ids -> EventRec], NEW F, NEW Q \in [Domain -> Ordered],
         NEW P, NEW X, NEW T, NEW N, Struct(E, Q, P, X, T, N),
         KinAll(F, E), \A i \in Ids : Still(F[i], E[i]),
         \A i \in Ids : E[i].kind = "none" => F[i] = E[i]
  PROVE  Struct(F, Q, P, X, T, N)
<1>1. EventsOK(F)
  BY KinEvents DEF Struct
<1>2. \A i \in Ids : /\ F[i].kind = E[i].kind /\ F[i].dom = E[i].dom /\ F[i].minStart = E[i].minStart
                     /\ F[i].kids = E[i].kids /\ F[i].state = E[i].state
                     /\ F[i].parents = E[i].parents /\ E[i].kids \in SUBSET Ids
  BY DEF KinAll, Kin, Still, EventRec
<1>3. QueuesOK(F, Q, N)
  BY <1>2, EntryOfQueue DEF Struct, QueuesOK, EntryOK
<1>4. KidsOK(F, T)
  BY <1>2 DEF Struct, KidsOK, KidOK
<1>5. PlacesOK(F, P, X, N)
  BY <1>2 DEF Struct, PlacesOK
<1>6. Somewhere(F, Q, P, X, T, N)
  BY <1>2 DEF Struct, Somewhere, Queued
<1> QED  BY <1>1, <1>3, <1>4, <1>5, <1>6 DEF Struct

\* A thread takes an event from its queue.
LEMMA TakeStruct ==
  ASSUME NEW E \in [Ids -> EventRec], NEW Q \in [Domain -> Ordered],
         NEW P, NEW X, NEW T \in SUBSET X, Struct(E, Q, P, X, T, {}),
         NEW d \in Domain, NEW i \in Ids, NEW c, <<c, i>> \in Entries(Q[d]),
         NEW R \in [Domain -> Ordered], Entries(R[d]) = Entries(Q[d]) \ {<<c, i>>},
         \A b \in Domain : b # d => R[b] = Q[b]
  PROVE  /\ Struct(WithEvent(E, i, WithState(E[i], "running")), R, P, X \cup {i}, T, {})
         /\ i \notin P /\ i \notin X /\ E[i].dom = d /\ E[i].kind # "none"
         /\ E[i].kind = "cross" => E[i].minStart <= c
<1> DEFINE F == WithEvent(E, i, WithState(E[i], "running"))
<1>1. EntryOK(E, d, {}, <<c, i>>)
  BY DEF Struct, QueuesOK
<1>2. /\ E[i].kind # "none" /\ E[i].dom = d /\ E[i].state \in {"none", "queued"} /\ E[i].parents = 0
      /\ E[i].kind = "cross" => c >= E[i].minStart
  BY <1>1 DEF EntryOK
<1>3. i \notin P /\ i \notin X
  BY <1>2 DEF Struct, PlacesOK
<1>4. E[i] \in EventRec /\ "running" \in States
  BY DEF States
<1>5. /\ \A j \in Ids : j # i => F[j] = E[j]
      /\ F[i].state = "running" /\ F[i].parents = 0 /\ Kin(F[i], E[i])
  BY <1>4, <1>2, WithStateIs, WithEventIs DEF Kin
<1> HIDE DEF F
<1>6. KinAll(F, E) /\ \A j \in Ids : F[j].parents = E[j].parents
  BY <1>2, <1>5 DEF KinAll, Kin
<1>7. \A j \in Ids : /\ F[j].kind = E[j].kind /\ F[j].dom = E[j].dom /\ F[j].kids = E[j].kids
                     /\ E[j].kids \in SUBSET Ids /\ F[j].minStart = E[j].minStart
  BY <1>6 DEF KinAll, Kin, EventRec
<1>8. EventsOK(F)
  BY <1>2, <1>5, <1>6, KinEvents DEF Struct
<1>9. QueuesOK(F, R, {})
  <2> SUFFICES ASSUME NEW b \in Domain
               PROVE  /\ IsFiniteSet(Entries(R[b]))
                      /\ \A p \in Entries(R[b]) : EntryOK(F, b, {}, p)
                      /\ \A p, r \in Entries(R[b]) : p[2] = r[2] => p = r
    BY DEF QueuesOK
  <2>1. /\ IsFiniteSet(Entries(Q[b]))
        /\ \A p \in Entries(Q[b]) : EntryOK(E, b, {}, p)
        /\ \A p, r \in Entries(Q[b]) : p[2] = r[2] => p = r
    BY DEF Struct, QueuesOK
  <2>2. Entries(R[b]) \in SUBSET Entries(Q[b]) /\ <<c, i>> \notin Entries(R[b])
    <3>1. CASE b = d
      BY <3>1
    <3>2. CASE b # d
      BY <3>2, <2>1, <1>2 DEF EntryOK
    <3> QED  BY <3>1, <3>2
  <2>3. IsFiniteSet(Entries(R[b]))
    BY <2>1, <2>2, FS_Subset
  <2>4. \A p \in Entries(R[b]) : p[2] # i
    <3> TAKE p \in Entries(R[b])
    <3> SUFFICES ASSUME p[2] = i PROVE FALSE
      OBVIOUS
    <3>1. b = d
      BY <1>2, <2>1, <2>2 DEF EntryOK
    <3>2. p = <<c, i>>
      BY <2>1, <2>2, <3>1
    <3> QED  BY <2>2, <3>2
  <2>5. \A p \in Entries(R[b]) : EntryOK(F, b, {}, p)
    <3> TAKE p \in Entries(R[b])
    <3>1. p[2] \in Ids /\ EntryOK(E, b, {}, p)
      BY <2>1, <2>2, EntryOfQueue
    <3>2. F[p[2]] = E[p[2]]
      BY <1>5, <2>4, <3>1
    <3> QED  BY <3>1, <3>2 DEF EntryOK
  <2> QED  BY <2>1, <2>2, <2>3, <2>5
<1>10. KidsOK(F, T)
  <2> SUFFICES ASSUME NEW j \in Ids \ T, NEW k \in E[j].kids
               PROVE  KidOK(F, T, j, k)
    BY <1>7 DEF KidsOK
  <2>1. k \in Ids /\ KidOK(E, T, j, k)
    BY <1>7 DEF Struct, KidsOK
  <2>2. k # i
    BY <1>2, <2>1 DEF KidOK
  <2>3. F[k] = E[k]
    BY <1>5, <2>1, <2>2
  <2> QED  BY <1>7, <2>1, <2>3 DEF KidOK
<1>11. PlacesOK(F, P, X \cup {i}, {})
  BY <1>2, <1>3, <1>5, <1>7 DEF Struct, PlacesOK
<1>12. Somewhere(F, R, P, X \cup {i}, T, {})
  <2> SUFFICES ASSUME NEW j \in Ids, F[j].kind # "none", j # i
               PROVE  \/ Queued(F, R, j) \/ j \in P \/ j \in X
                      \/ \E h \in Ids \ T : j \in F[h].kids
    BY DEF Somewhere
  <2>1. \/ Queued(E, Q, j) \/ j \in P \/ j \in X \/ \E h \in Ids \ T : j \in E[h].kids
    BY <1>7 DEF Struct, Somewhere
  <2>2. Queued(E, Q, j) => Queued(F, R, j)
    <3> HAVE Queued(E, Q, j)
    <3>1. PICK p \in Entries(Q[E[j].dom]) : p[2] = j
      BY DEF Queued
    <3>2. p # <<c, i>> /\ E[j].dom \in Domain
      BY <3>1 DEF EventRec
    <3>3. p \in Entries(R[E[j].dom])
      BY <3>1, <3>2
    <3> QED  BY <3>1, <3>3, <1>7 DEF Queued
  <2> QED  BY <2>1, <2>2, <1>7
<1> QED  BY <1>2, <1>3, <1>8, <1>9, <1>10, <1>11, <1>12 DEF Struct, F

\* What a change of the events' states leaves of them
LEMMA KinFields ==
  ASSUME NEW E \in [Ids -> EventRec], NEW F, KinAll(F, E)
  PROVE  \A j \in Ids : /\ F[j].kind = E[j].kind /\ F[j].dom = E[j].dom /\ F[j].kids = E[j].kids
                        /\ F[j].minStart = E[j].minStart /\ F[j].xing = E[j].xing
                        /\ F[j].owner = E[j].owner /\ E[j].kids \in SUBSET Ids
                        /\ E[j].dom \in Domain
BY DEF KinAll, Kin, EventRec

\* An event tells its children that it is done; they are queued next.
LEMMA ToldStruct ==
  ASSUME NEW E \in [Ids -> EventRec], NEW Q \in [Domain -> Ordered],
         NEW P, NEW X, NEW T, Struct(E, Q, P, X, T, {}),
         NEW i \in Ids, i \notin T, NEW F, KinAll(F, E),
         \A j \in Ids : E[j].kind = "none" => F[j] = E[j],
         \A j \in Ids : IF j \in E[i].kids
                        THEN F[j].state = "queued" /\ F[j].parents = E[j].parents - 1
                        ELSE Still(F[j], E[j])
  PROVE  Struct(F, Q, P, X, T \cup {i}, E[i].kids)
<1> DEFINE N == E[i].kids
<1>1. \A j \in Ids : /\ F[j].kind = E[j].kind /\ F[j].dom = E[j].dom /\ F[j].kids = E[j].kids
                     /\ F[j].minStart = E[j].minStart /\ E[j].kids \in SUBSET Ids
  BY KinFields
<1>2. \A j \in N : /\ j \in Ids /\ E[j].kind # "none" /\ E[j].dom = E[i].dom /\ E[j].state = "none"
                   /\ E[j].parents = 1 /\ \A h \in Ids \ T : j \in E[h].kids => h = i
  BY <1>1 DEF Struct, KidsOK, KidOK
<1>3. \A j \in N : F[j].state = "queued" /\ F[j].parents = 0
  BY <1>2
<1>4. \A j \in Ids : j \notin N => F[j].state = E[j].state /\ F[j].parents = E[j].parents
  BY DEF Still
<1> HIDE DEF N
<1>5. EventsOK(F)
  BY KinEvents DEF Struct
<1>6. QueuesOK(F, Q, N)
  <2> SUFFICES ASSUME NEW d \in Domain, NEW p \in Entries(Q[d])
               PROVE  EntryOK(F, d, N, p)
    BY DEF Struct, QueuesOK
  <2>1. p[2] \in Ids /\ EntryOK(E, d, {}, p)
    BY EntryOfQueue DEF Struct, QueuesOK
  <2>2. p[2] \notin N
    BY <1>2, <2>1 DEF EntryOK
  <2> QED  BY <1>1, <1>4, <2>1, <2>2 DEF EntryOK
<1>7. KidsOK(F, T \cup {i})
  <2> SUFFICES ASSUME NEW j \in Ids \ (T \cup {i}), NEW k \in E[j].kids
               PROVE  KidOK(F, T \cup {i}, j, k)
    BY <1>1 DEF KidsOK
  <2>1. k \in Ids /\ KidOK(E, T, j, k)
    BY <1>1 DEF Struct, KidsOK
  <2>2. k \notin N
    BY <1>2
  <2> QED  BY <1>1, <1>4, <2>1, <2>2 DEF KidOK
<1>8. PlacesOK(F, P, X, N)
  <2> SUFFICES ASSUME NEW j \in Ids
      PROVE  /\ j \in P => F[j].kind \in {"hit", "missStart"} /\ F[j].state = "held" /\ F[j].parents = 0
             /\ j \in X => F[j].kind # "none" /\ F[j].state = "running" /\ F[j].parents = 0
             /\ j \in N => F[j].kind # "none" /\ F[j].state \in {"none", "queued"} /\ F[j].parents = 0
    BY DEF PlacesOK
  <2>1. /\ j \in P => E[j].kind \in {"hit", "missStart"} /\ E[j].state = "held" /\ E[j].parents = 0
        /\ j \in X => E[j].kind # "none" /\ E[j].state = "running" /\ E[j].parents = 0
    BY DEF Struct, PlacesOK
  <2>2. CASE j \in N
    BY <2>1, <2>2, <1>1, <1>2, <1>3
  <2>3. CASE j \notin N
    BY <2>1, <2>3, <1>1, <1>4
  <2> QED  BY <2>2, <2>3
<1>9. Somewhere(F, Q, P, X, T \cup {i}, N)
  <2> SUFFICES ASSUME NEW j \in Ids, F[j].kind # "none"
               PROVE  \/ Queued(F, Q, j) \/ j \in P \/ j \in X \/ j \in N
                      \/ \E h \in Ids \ (T \cup {i}) : j \in F[h].kids
    BY DEF Somewhere
  <2>1. \/ Queued(E, Q, j) \/ j \in P \/ j \in X \/ \E h \in Ids \ T : j \in E[h].kids
    BY <1>1 DEF Struct, Somewhere
  <2>2. Queued(E, Q, j) => Queued(F, Q, j)
    BY <1>1 DEF Queued
  <2> QED  BY <2>1, <2>2, <1>1 DEF N
<1> QED  BY <1>5, <1>6, <1>7, <1>8, <1>9 DEF Struct, N

\* Events are queued, each at its cycle.
LEMMA QueueStruct ==
  ASSUME NEW E \in [Ids -> EventRec], NEW Q \in [Domain -> Ordered],
         NEW P, NEW X, NEW T, NEW S \in SUBSET Ids, Struct(E, Q, P, X, T, S),
         NEW d \in Domain, NEW at \in [S -> Nat],
         \A j \in S : E[j].dom = d /\ (E[j].kind = "cross" => at[j] >= E[j].minStart),
         NEW R \in [Domain -> Ordered],
         Entries(R[d]) = Entries(Q[d]) \cup {<<at[e], e>> : e \in S},
         \A b \in Domain : b # d => R[b] = Q[b]
  PROVE  Struct(E, R, P, X, T, {})
<1> DEFINE A == {<<at[e], e>> : e \in S}
<1>1. \A p \in A : p[2] \in S /\ p = <<at[p[2]], p[2]>> /\ p[1] = at[p[2]]
  OBVIOUS
<1>2. IsFiniteSet(A)
  <2> DEFINE f == [e \in S |-> <<at[e], e>>]
  <2>1. IsFiniteSet(S)
    BY FiniteIds
  <2>2. f \in Surjection(S, A)
    <3>1. f \in [S -> A]
      OBVIOUS
    <3>2. \A t \in A : \E s \in S : f[s] = t
      OBVIOUS
    <3> QED  BY <3>1, <3>2 DEF Surjection
  <2> QED  BY <2>1, <2>2, FS_Surjection
<1>3. \A j \in S : <<at[j], j>> \in A /\ <<at[j], j>>[2] = j
  OBVIOUS
<1> HIDE DEF A
<1>4. QueuesOK(E, R, {})
  <2> SUFFICES ASSUME NEW b \in Domain
               PROVE  /\ IsFiniteSet(Entries(R[b]))
                      /\ \A p \in Entries(R[b]) : EntryOK(E, b, {}, p)
                      /\ \A p, r \in Entries(R[b]) : p[2] = r[2] => p = r
    BY DEF QueuesOK
  <2>1. /\ IsFiniteSet(Entries(Q[b]))
        /\ \A p \in Entries(Q[b]) : EntryOK(E, b, S, p)
        /\ \A p, r \in Entries(Q[b]) : p[2] = r[2] => p = r
    BY DEF Struct, QueuesOK
  <2>2. \A p \in Entries(Q[b]) : EntryOK(E, b, {}, p) /\ p[2] \notin S
    BY <2>1 DEF EntryOK
  <2>3. CASE b # d
    BY <2>1, <2>2, <2>3
  <2>4. CASE b = d
    <3>0. Entries(R[b]) = Entries(Q[b]) \cup A
      BY <2>4 DEF A
    <3>1. IsFiniteSet(Entries(R[b]))
      <4>1. IsFiniteSet(Entries(Q[b]) \cup A)
        BY <2>1, <1>2, FS_Union
      <4> QED  BY <4>1, <3>0
    <3>2. \A p \in A : EntryOK(E, b, {}, p)
      <4> TAKE p \in A
      <4>1. p[2] \in S /\ p[2] \in Ids /\ p[1] = at[p[2]]
        BY <1>1
      <4>2. /\ E[p[2]].kind # "none" /\ E[p[2]].state \in {"none", "queued"} /\ E[p[2]].parents = 0
        BY <4>1 DEF Struct, PlacesOK
      <4> QED  BY <4>1, <4>2, <2>4 DEF EntryOK
    <3>3. \A p, r \in A : p[2] = r[2] => p = r
      BY <1>1
    <3>4. \A p \in A, r \in Entries(Q[b]) : p[2] # r[2]
      BY <1>1, <2>2
    <3> QED  BY <3>0, <3>1, <3>2, <3>3, <3>4, <2>1, <2>2
  <2> QED  BY <2>3, <2>4
<1>5. PlacesOK(E, P, X, {})
  BY DEF Struct, PlacesOK
<1>6. Somewhere(E, R, P, X, T, {})
  <2> SUFFICES ASSUME NEW j \in Ids, E[j].kind # "none"
               PROVE  \/ Queued(E, R, j) \/ j \in P \/ j \in X
                      \/ \E h \in Ids \ T : j \in E[h].kids
    BY DEF Somewhere
  <2>1. \/ Queued(E, Q, j) \/ j \in P \/ j \in X \/ j \in S \/ \E h \in Ids \ T : j \in E[h].kids
    BY DEF Struct, Somewhere
  <2>2. Queued(E, Q, j) => Queued(E, R, j)
    BY DEF Queued, EventRec
  <2>3. j \in S => Queued(E, R, j)
    <3> HAVE j \in S
    <3>1. <<at[j], j>> \in Entries(R[E[j].dom]) /\ <<at[j], j>>[2] = j
      BY <1>3 DEF A
    <3> QED  BY <3>1 DEF Queued
  <2> QED  BY <2>1, <2>2, <2>3
<1> QED  BY <1>4, <1>5, <1>6 DEF Struct

\* Events that wait or run are queued again.
LEMMA DropStruct ==
  ASSUME NEW E \in [Ids -> EventRec], NEW Q \in [Domain -> Ordered],
         NEW P, NEW X, NEW T, Struct(E, Q, P, X, T, {}),
         NEW S \in SUBSET Ids, S \subseteq P \cup X, NEW F, KinAll(F, E),
         \A j \in Ids : E[j].kind = "none" => F[j] = E[j],
         \A j \in Ids : IF j \in S THEN F[j].state = "queued" /\ F[j].parents = E[j].parents
                        ELSE Still(F[j], E[j])
  PROVE  Struct(F, Q, P \ S, X \ S, T, S)
<1>1. \A j \in Ids : /\ F[j].kind = E[j].kind /\ F[j].dom = E[j].dom /\ F[j].kids = E[j].kids
                     /\ F[j].minStart = E[j].minStart /\ E[j].kids \in SUBSET Ids
                     /\ F[j].parents = E[j].parents
                     /\ F[j].state = IF j \in S THEN "queued" ELSE E[j].state
  BY KinFields DEF Still
<1>2. \A j \in S : E[j].kind # "none" /\ E[j].state \in {"held", "running"} /\ E[j].parents = 0
  BY DEF Struct, PlacesOK
<1>5. EventsOK(F)
  BY KinEvents DEF Struct
<1>6. QueuesOK(F, Q, S)
  <2> SUFFICES ASSUME NEW d \in Domain, NEW p \in Entries(Q[d])
               PROVE  EntryOK(F, d, S, p)
    BY DEF Struct, QueuesOK
  <2>1. p[2] \in Ids /\ EntryOK(E, d, {}, p)
    BY EntryOfQueue DEF Struct, QueuesOK
  <2>2. p[2] \notin S
    BY <1>2, <2>1 DEF EntryOK
  <2> QED  BY <1>1, <2>1, <2>2 DEF EntryOK
<1>7. KidsOK(F, T)
  <2> SUFFICES ASSUME NEW j \in Ids \ T, NEW k \in E[j].kids
               PROVE  KidOK(F, T, j, k)
    BY <1>1 DEF KidsOK
  <2>1. k \in Ids /\ KidOK(E, T, j, k)
    BY <1>1 DEF Struct, KidsOK
  <2>2. k \notin S
    BY <1>2, <2>1 DEF KidOK
  <2> QED  BY <1>1, <2>1, <2>2 DEF KidOK
<1>8. PlacesOK(F, P \ S, X \ S, S)
  BY <1>1, <1>2 DEF Struct, PlacesOK
<1>9. Somewhere(F, Q, P \ S, X \ S, T, S)
  <2> SUFFICES ASSUME NEW j \in Ids, F[j].kind # "none"
               PROVE  \/ Queued(F, Q, j) \/ j \in P \ S \/ j \in X \ S \/ j \in S
                      \/ \E h \in Ids \ T : j \in F[h].kids
    BY DEF Somewhere
  <2>1. \/ Queued(E, Q, j) \/ j \in P \/ j \in X \/ \E h \in Ids \ T : j \in E[h].kids
    BY <1>1 DEF Struct, Somewhere
  <2>2. Queued(E, Q, j) => Queued(F, Q, j)
    BY <1>1 DEF Queued
  <2> QED  BY <2>1, <2>2, <1>1
<1> QED  BY <1>5, <1>6, <1>7, <1>8, <1>9 DEF Struct

\* An event waits for an MSHR.
LEMMA HoldStruct ==
  ASSUME NEW E \in [Ids -> EventRec], NEW Q \in [Domain -> Ordered],
         NEW P, NEW X, NEW T, Struct(E, Q, P, X, T, {}),
         NEW i \in Ids, i \in X, E[i].kind \in {"hit", "missStart"}
  PROVE  Struct(WithEvent(E, i, WithState(E[i], "held")), Q, P \cup {i}, X \ {i}, T, {})
<1> DEFINE F == WithEvent(E, i, WithState(E[i], "held"))
<1>4. E[i] \in EventRec /\ "held" \in States
  BY DEF States
<1>5. /\ \A j \in Ids : j # i => F[j] = E[j]
      /\ F[i].state = "held" /\ F[i].parents = E[i].parents /\ Kin(F[i], E[i])
  BY <1>4, WithStateIs, WithEventIs DEF Kin
<1> HIDE DEF F
<1>6. KinAll(F, E)
  BY <1>5 DEF KinAll, Kin
<1>1. \A j \in Ids : /\ F[j].kind = E[j].kind /\ F[j].dom = E[j].dom /\ F[j].kids = E[j].kids
                     /\ F[j].minStart = E[j].minStart /\ E[j].kids \in SUBSET Ids
                     /\ F[j].parents = E[j].parents
                     /\ F[j].state = IF j = i THEN "held" ELSE E[j].state
  BY <1>5, <1>6, KinFields
<1>2. E[i].kind # "none" /\ E[i].state = "running" /\ E[i].parents = 0
  BY DEF Struct, PlacesOK
<1>7. EventsOK(F)
  BY <1>2, <1>5, <1>6, KinEvents DEF Struct
<1>8. QueuesOK(F, Q, {})
  <2> SUFFICES ASSUME NEW d \in Domain, NEW p \in Entries(Q[d])
               PROVE  EntryOK(F, d, {}, p)
    BY DEF Struct, QueuesOK
  <2>1. p[2] \in Ids /\ EntryOK(E, d, {}, p)
    BY EntryOfQueue DEF Struct, QueuesOK
  <2>2. p[2] # i
    BY <1>2, <2>1 DEF EntryOK
  <2> QED  BY <1>1, <2>1, <2>2 DEF EntryOK
<1>9. KidsOK(F, T)
  <2> SUFFICES ASSUME NEW j \in Ids \ T, NEW k \in E[j].kids
               PROVE  KidOK(F, T, j, k)
    BY <1>1 DEF KidsOK
  <2>1. k \in Ids /\ KidOK(E, T, j, k)
    BY <1>1 DEF Struct, KidsOK
  <2>2. k # i
    BY <1>2, <2>1 DEF KidOK
  <2> QED  BY <1>1, <2>1, <2>2 DEF KidOK
<1>10. PlacesOK(F, P \cup {i}, X \ {i}, {})
  BY <1>1, <1>2 DEF Struct, PlacesOK
<1>11. Somewhere(F, Q, P \cup {i}, X \ {i}, T, {})
  <2> SUFFICES ASSUME NEW j \in Ids, F[j].kind # "none"
               PROVE  \/ Queued(F, Q, j) \/ j \in P \cup {i} \/ j \in X \ {i}
                      \/ \E h \in Ids \ T : j \in F[h].kids
    BY DEF Somewhere
  <2>1. \/ Queued(E, Q, j) \/ j \in P \/ j \in X \/ \E h \in Ids \ T : j \in E[h].kids
    BY <1>1 DEF Struct, Somewhere
  <2>2. Queued(E, Q, j) => Queued(F, Q, j)
    BY <1>1 DEF Queued
  <2> QED  BY <2>1, <2>2, <1>1
<1> QED  BY <1>7, <1>8, <1>9, <1>10, <1>11 DEF Struct, F

\* An event that is done is freed.
LEMMA FreeStruct ==
  ASSUME NEW E \in [Ids -> EventRec], NEW Q \in [Domain -> Ordered],
         NEW P, NEW X, NEW T \in SUBSET X, Struct(E, Q, P, X, T, {}),
         NEW i \in Ids, i \in X, i \in T, E[i].kind = "cross" => E[i].called
  PROVE  Struct(WithEvent(E, i, NoEvent), Q, P, X \ {i}, T \ {i}, {})
<1> DEFINE F == WithEvent(E, i, NoEvent)
<1>1. F[i] = NoEvent /\ \A j \in Ids : j # i => F[j] = E[j]
  BY DEF WithEvent
<1>2. NoEvent.kind = "none" /\ NoEvent.kids = {} /\ NoEvent.xing = NoId
  BY DEF NoEvent
<1> HIDE DEF F
<1>3. E[i].kind # "none" /\ E[i].state = "running"
  BY DEF Struct, PlacesOK
<1>4. \A j \in Ids : E[j].kids \in SUBSET Ids /\ E[j].xing \in MaybeId
  BY DEF EventRec
<1>5. EventsOK(F)
  <2> SUFFICES ASSUME NEW j \in Ids
               PROVE  /\ F[j].kind = "none" => F[j] = NoEvent
                      /\ F[j].kind # "none" => F[j].owner = j[1]
                      /\ F[j].xing # NoId =>
                           LET y == F[j].xing IN
                           /\ F[j].kind # "cross" /\ F[y].kind = "cross" /\ ~F[y].called
                           /\ F[y].parentEv = j /\ F[y].src = F[j].dom /\ F[y].dom # F[j].dom
    BY DEF EventsOK
  <2>1. CASE j = i
    BY <1>1, <1>2, <2>1
  <2>2. CASE j # i
    <3>1. F[j] = E[j]
      BY <1>1, <2>2
    <3>2. /\ E[j].kind = "none" => E[j] = NoEvent
          /\ E[j].kind # "none" => E[j].owner = j[1]
          /\ E[j].xing # NoId =>
               LET y == E[j].xing IN
               /\ E[j].kind # "cross" /\ E[y].kind = "cross" /\ ~E[y].called
               /\ E[y].parentEv = j /\ E[y].src = E[j].dom /\ E[y].dom # E[j].dom
      BY DEF Struct, EventsOK
    <3>3. E[j].xing # NoId => E[j].xing \in Ids /\ E[j].xing # i
      BY <1>4, <3>2 DEF MaybeId
    <3>4. E[j].xing # NoId => F[E[j].xing] = E[E[j].xing]
      BY <1>1, <3>3
    <3> QED  BY <3>1, <3>2, <3>4
  <2> QED  BY <2>1, <2>2
<1>6. QueuesOK(F, Q, {})
  <2> SUFFICES ASSUME NEW d \in Domain, NEW p \in Entries(Q[d])
               PROVE  EntryOK(F, d, {}, p)
    BY DEF Struct, QueuesOK
  <2>1. p[2] \in Ids /\ EntryOK(E, d, {}, p)
    BY EntryOfQueue DEF Struct, QueuesOK
  <2>2. p[2] # i
    BY <1>3, <2>1 DEF EntryOK
  <2>3. F[p[2]] = E[p[2]]
    BY <1>1, <2>1, <2>2
  <2> QED  BY <2>1, <2>3 DEF EntryOK
<1>7. KidsOK(F, T \ {i})
  <2> SUFFICES ASSUME NEW j \in Ids \ (T \ {i}), NEW k \in F[j].kids
               PROVE  KidOK(F, T \ {i}, j, k)
    BY DEF KidsOK
  <2>1. j # i /\ F[j] = E[j]
    BY <1>1, <1>2
  <2>2. k \in Ids /\ KidOK(E, T, j, k)
    BY <1>4, <2>1 DEF Struct, KidsOK
  <2>3. k # i
    BY <1>3, <2>2 DEF KidOK
  <2>4. F[k] = E[k]
    BY <1>1, <2>2, <2>3
  <2>5. \A h \in Ids \ (T \ {i}) : k \in F[h].kids => h = j
    <3> TAKE h \in Ids \ (T \ {i})
    <3> HAVE k \in F[h].kids
    <3>1. h # i /\ F[h] = E[h]
      BY <1>1, <1>2
    <3> QED  BY <2>2, <3>1 DEF KidOK
  <2> QED  BY <2>1, <2>2, <2>4, <2>5 DEF KidOK
<1>8. PlacesOK(F, P, X \ {i}, {})
  <2>1. i \notin P
    BY <1>3 DEF Struct, PlacesOK
  <2> QED  BY <1>1, <2>1 DEF Struct, PlacesOK
<1>9. Somewhere(F, Q, P, X \ {i}, T \ {i}, {})
  <2> SUFFICES ASSUME NEW j \in Ids, F[j].kind # "none"
               PROVE  \/ Queued(F, Q, j) \/ j \in P \/ j \in X \ {i}
                      \/ \E h \in Ids \ (T \ {i}) : j \in F[h].kids
    BY DEF Somewhere
  <2>0. j # i /\ F[j] = E[j]
    BY <1>1, <1>2
  <2>1. \/ Queued(E, Q, j) \/ j \in P \/ j \in X \/ \E h \in Ids \ T : j \in E[h].kids
    BY <2>0 DEF Struct, Somewhere
  <2>2. Queued(E, Q, j) => Queued(F, Q, j)
    BY <2>0 DEF Queued
  <2>3. ASSUME NEW h \in Ids \ T, j \in E[h].kids
        PROVE  h \in Ids \ (T \ {i}) /\ j \in F[h].kids
    BY <1>1, <2>3
  <2> QED  BY <2>0, <2>1, <2>2, <2>3
<1> QED  BY <1>5, <1>6, <1>7, <1>8, <1>9 DEF Struct, F

\* The source half of a crossing has been called.
WithCalled(e) == [e EXCEPT !.called = TRUE]

\* Its fields
LEMMA WithCalledIs ==
  ASSUME NEW e \in EventRec
  PROVE  /\ WithCalled(e) \in EventRec /\ WithCalled(e).called = TRUE
         /\ WithCalled(e).kind = e.kind /\ WithCalled(e).owner = e.owner
         /\ WithCalled(e).dom = e.dom /\ WithCalled(e).kids = e.kids
         /\ WithCalled(e).parents = e.parents /\ WithCalled(e).state = e.state
         /\ WithCalled(e).xing = e.xing /\ WithCalled(e).minStart = e.minStart
BY DEF WithCalled, EventRec

\* No event has this crossing any more.
LEMMA CalledStruct ==
  ASSUME NEW E \in [Ids -> EventRec], NEW Q \in [Domain -> Ordered],
         NEW P, NEW X, NEW T, NEW N, Struct(E, Q, P, X, T, N),
         NEW x \in Ids, E[x].kind = "cross", \A j \in Ids : E[j].xing # x
  PROVE  Struct(WithEvent(E, x, WithCalled(E[x])), Q, P, X, T, N)
<1> DEFINE F == WithEvent(E, x, WithCalled(E[x]))
<1>1. E[x] \in EventRec
  OBVIOUS
<1>2. F[x] = WithCalled(E[x]) /\ \A j \in Ids : j # x => F[j] = E[j]
  BY DEF WithEvent
<1> HIDE DEF F
<1>3. \A j \in Ids : /\ F[j].kind = E[j].kind /\ F[j].dom = E[j].dom /\ F[j].kids = E[j].kids
                     /\ F[j].minStart = E[j].minStart /\ F[j].xing = E[j].xing
                     /\ F[j].owner = E[j].owner /\ F[j].state = E[j].state
                     /\ F[j].parents = E[j].parents
  <2>1. /\ F[x].kind = E[x].kind /\ F[x].dom = E[x].dom /\ F[x].kids = E[x].kids
        /\ F[x].minStart = E[x].minStart /\ F[x].xing = E[x].xing
        /\ F[x].owner = E[x].owner /\ F[x].state = E[x].state /\ F[x].parents = E[x].parents
    BY <1>1, <1>2, WithCalledIs
  <2> QED  BY <1>2, <2>1
<1>4. \A j \in Ids : E[j].kids \in SUBSET Ids /\ E[j].xing \in MaybeId /\ E[j].dom \in Domain
  BY DEF EventRec
<1>5. EventsOK(F)
  <2> SUFFICES ASSUME NEW j \in Ids
               PROVE  /\ F[j].kind = "none" => F[j] = NoEvent
                      /\ F[j].kind # "none" => F[j].owner = j[1]
                      /\ F[j].xing # NoId =>
                           LET y == F[j].xing IN
                           /\ F[j].kind # "cross" /\ F[y].kind = "cross" /\ ~F[y].called
                           /\ F[y].parentEv = j /\ F[y].src = F[j].dom /\ F[y].dom # F[j].dom
    BY DEF EventsOK
  <2>1. F[j].kind = "none" => F[j] = NoEvent
    BY <1>2, <1>3 DEF Struct, EventsOK
  <2>2. F[j].kind # "none" => F[j].owner = j[1]
    BY <1>3 DEF Struct, EventsOK
  <2>3. F[j].xing # NoId =>
          LET y == F[j].xing IN
          /\ F[j].kind # "cross" /\ F[y].kind = "cross" /\ ~F[y].called
          /\ F[y].parentEv = j /\ F[y].src = F[j].dom /\ F[y].dom # F[j].dom
    <3> HAVE F[j].xing # NoId
    <3>1. E[j].xing # NoId /\ F[j].xing = E[j].xing
      BY <1>3
    <3>2. E[j].xing \in Ids /\ E[j].xing # x
      BY <1>4, <3>1 DEF MaybeId
    <3>3. F[E[j].xing] = E[E[j].xing]
      BY <1>2, <3>2
    <3>4. LET y == E[j].xing IN
          /\ E[j].kind # "cross" /\ E[y].kind = "cross" /\ ~E[y].called
          /\ E[y].parentEv = j /\ E[y].src = E[j].dom /\ E[y].dom # E[j].dom
      BY <3>1 DEF Struct, EventsOK
    <3> QED  BY <1>3, <3>1, <3>3, <3>4
  <2> QED  BY <2>1, <2>2, <2>3
<1>6. QueuesOK(F, Q, N)
  BY <1>3, EntryOfQueue DEF Struct, QueuesOK, EntryOK
<1>7. KidsOK(F, T)
  BY <1>3, <1>4 DEF Struct, KidsOK, KidOK
<1>8. PlacesOK(F, P, X, N)
  BY <1>3 DEF Struct, PlacesOK
<1>9. Somewhere(F, Q, P, X, T, N)
  BY <1>3 DEF Struct, Somewhere, Queued
<1> QED  BY <1>5, <1>6, <1>7, <1>8, <1>9 DEF Struct, F

\* What is alive does not depend on states and cycles.
LEMMA KinCounted ==
  ASSUME NEW E \in [Ids -> EventRec], NEW F, NEW L, NEW H, Counted(E, L, H),
         \A j \in Ids : F[j].kind = E[j].kind /\ F[j].kids = E[j].kids /\ F[j].xing = E[j].xing
  PROVE  Counted(F, L, H)
<1> SUFFICES ASSUME NEW c \in Core
             PROVE  EventsOf(c, F) = EventsOf(c, E) /\ BlocksOf(c, F) = BlocksOf(c, E)
  BY DEF Counted
<1>1. \A j \in {c} \X (1 .. MaxEvents) : j \in Ids
  BY DEF Ids
<1>2. \A j \in Ids : Links(F[j]) = Links(E[j])
  BY DEF Links
<1> QED  BY <1>1, <1>2 DEF EventsOf, BlocksOf

\* freeElem of an event and of the block of its children
Freed(e) == IF Links(e) > 1 THEN -2 ELSE -1

\* A freed event does not count, nor does its block.
LEMMA FreeCounted ==
  ASSUME NEW E \in [Ids -> EventRec], NEW L \in [Core -> Int], NEW H \in [Core -> Int],
         Counted(E, L, H), NEW i \in Ids, E[i].kind # "none"
  PROVE  Counted(WithEvent(E, i, NoEvent), Plus(L, i[1], Freed(E[i])), H)
<1> DEFINE F == WithEvent(E, i, NoEvent)
           M == Plus(L, i[1], Freed(E[i]))
           n == Freed(E[i])
<1>1. F[i] = NoEvent /\ \A j \in Ids : j # i => F[j] = E[j]
  BY DEF WithEvent
<1>2. n \in {-1, -2} /\ (n = -2 <=> Links(E[i]) > 1)
  BY DEF Freed
<1>3. \A b \in Core : M[b] = IF b = i[1] THEN L[b] + n ELSE L[b]
  BY <1>2, PlusIs
<1>4. i[1] \in Core /\ i = <<i[1], i[2]>>
  BY NoIdIs
<1>5. Links(NoEvent) = 0 /\ NoEvent.kind = "none"
  <2>1. NoEvent.kids = {} /\ NoEvent.xing = NoId /\ NoEvent.kind = "none"
    BY DEF NoEvent
  <2>2. Cardinality({}) = 0
    BY FS_EmptySet
  <2> QED  BY <2>1, <2>2 DEF Links
<1> HIDE DEF F, M, n
<1> SUFFICES ASSUME NEW c \in Core
             PROVE  M[c] + H[c] = Cardinality(EventsOf(c, F)) + Cardinality(BlocksOf(c, F))
  BY DEF Counted, F, M
<1>6. L[c] + H[c] = Cardinality(EventsOf(c, E)) + Cardinality(BlocksOf(c, E))
  BY DEF Counted
<1>7. \A j \in {c} \X (1 .. MaxEvents) : j \in Ids /\ j[1] = c
  BY DEF Ids
<1>8. CASE c # i[1]
  <2>1. \A j \in {c} \X (1 .. MaxEvents) : F[j] = E[j]
    BY <1>1, <1>7, <1>8
  <2>2. EventsOf(c, F) = EventsOf(c, E) /\ BlocksOf(c, F) = BlocksOf(c, E)
    BY <2>1 DEF EventsOf, BlocksOf
  <2>3. M[c] = L[c]
    BY <1>3, <1>8
  <2> QED  BY <2>2, <2>3, <1>6
<1>9. CASE c = i[1]
  <2>0. i \in {c} \X (1 .. MaxEvents)
    BY <1>4, <1>9 DEF Ids
  <2>1. EventsOf(c, F) = EventsOf(c, E) \ {i} /\ i \in EventsOf(c, E)
    BY <1>1, <1>5, <1>7, <2>0 DEF EventsOf
  <2>2. /\ BlocksOf(c, F) = BlocksOf(c, E) \ {i}
        /\ i \in BlocksOf(c, E) <=> n = -2
    <3>1. ~(0 > 1)
      OBVIOUS
    <3> QED  BY <1>1, <1>2, <1>5, <1>7, <2>0, <3>1 DEF BlocksOf
  <2>3. /\ IsFiniteSet(EventsOf(c, E)) /\ IsFiniteSet(BlocksOf(c, E))
        /\ Cardinality(EventsOf(c, E)) \in Nat /\ Cardinality(BlocksOf(c, E)) \in Nat
    BY CountsAre
  <2>4. Cardinality(EventsOf(c, F)) = Cardinality(EventsOf(c, E)) - 1
    <3> DEFINE A == EventsOf(c, E)
    <3>1. IsFiniteSet(A) /\ i \in A /\ EventsOf(c, F) = A \ {i}
      BY <2>1, <2>3
    <3> HIDE DEF A
    <3>2. Cardinality(A \ {i}) = Cardinality(A) - 1
      BY <3>1, FS_RemoveElement
    <3> QED  BY <3>1, <3>2 DEF A
  <2>5. n = -2 => Cardinality(BlocksOf(c, F)) = Cardinality(BlocksOf(c, E)) - 1
    <3> HAVE n = -2
    <3>1. Cardinality(BlocksOf(c, E) \ {i}) = Cardinality(BlocksOf(c, E)) - 1
      BY <2>2, <2>3, FS_RemoveElement
    <3> QED  BY <2>2, <3>1
  <2>6. n = -1 => BlocksOf(c, F) = BlocksOf(c, E)
    BY <2>2
  <2>7. M[c] = L[c] + n
    BY <1>3, <1>9
  <2> QED  BY <1>2, <1>6, <2>3, <2>4, <2>5, <2>6, <2>7
<1> QED  BY <1>8, <1>9

\* A source half that is freed is one that is counted among the halves.
LEMMA HalfCounted ==
  ASSUME NEW E, NEW L \in [Core -> Int], NEW H \in [Core -> Int], Counted(E, L, H), NEW c \in Core
  PROVE  Counted(E, Plus(L, c, -1), Plus(H, c, 1))
<1>1. -1 \in Int /\ 1 \in Int
  OBVIOUS
<1>2. \A b \in Core : /\ Plus(L, c, -1)[b] = IF b = c THEN L[b] + -1 ELSE L[b]
                      /\ Plus(H, c, 1)[b] = IF b = c THEN H[b] + 1 ELSE H[b]
  BY <1>1, PlusIs
<1>3. \A b \in Core : Plus(L, c, -1)[b] + Plus(H, c, 1)[b] = L[b] + H[b]
  BY <1>2
<1> QED  BY <1>3 DEF Counted

-----------------------------------------------------------------------------
(* The weave phase: a world, in order or not                               *)

Worlds ==
  [ev : [Ids -> EventRec], pq : [Domain -> Ordered], cur : [Domain -> Nat],
   live : [Core -> Int], halves : [Core -> Int], ok : BOOLEAN]

\* The source halves that were called, now and before
Later(H) == \A c \in Core : H[c] >= halves[c]

WorldOK(w, P, X, T, N) ==
  /\ Struct(w.ev, w.pq, P, X, T, N)
  /\ Counted(w.ev, w.live, w.halves)
  /\ LastOK(w.ev, lastCrossing, sim.limit)
  /\ Later(w.halves)

\* What a step in domain d leaves alone
Beside(n, w, d) ==
  /\ n.cur = w.cur /\ n.halves = w.halves /\ (n.ok => w.ok)
  /\ \A b \in Domain : b # d => n.pq[b] = w.pq[b]

\* A world with other events, and with an assertion
Turned(w, E, ok) == [w EXCEPT !.ev = E, !.ok = ok]

\* Its fields
LEMMA TurnedIs ==
  ASSUME NEW w \in Worlds, NEW E \in [Ids -> EventRec], NEW ok, ok \in BOOLEAN,
         NEW n, n = Turned(w, E, ok)
  PROVE  /\ n \in Worlds /\ n.ev = E /\ n.pq = w.pq /\ n.cur = w.cur /\ n.live = w.live
         /\ n.halves = w.halves /\ n.ok = ok
<1>1. n = [w EXCEPT !.ev = E, !.ok = ok]
  BY DEF Turned
<1>2. n \in Worlds
  BY <1>1 DEF Worlds
<1>3. /\ n.ev = E /\ n.pq = w.pq /\ n.cur = w.cur /\ n.live = w.live
      /\ n.halves = w.halves /\ n.ok = ok
  BY <1>1 DEF Worlds
<1> QED  BY <1>2, <1>3

\* The last crossings are as they were when no event changes kind or domain.
LEMMA KinLast ==
  ASSUME NEW E, NEW F, NEW L, NEW h, LastOK(E, L, h),
         \A j \in Ids : F[j].kind = E[j].kind /\ F[j].dom = E[j].dom /\ F[j].minStart = E[j].minStart
  PROVE  LastOK(F, L, h)
BY DEF LastOK

\* These events are queued.
NowQueued(E, S) == [j \in Ids |-> IF j \in S THEN WithState(E[j], "queued") ELSE E[j]]

\* Only their state changes.
LEMMA NowQueuedIs ==
  ASSUME NEW E \in [Ids -> EventRec], NEW S
  PROVE  /\ NowQueued(E, S) \in [Ids -> EventRec]
         /\ \A j \in Ids : NowQueued(E, S)[j] = IF j \in S THEN WithState(E[j], "queued") ELSE E[j]
         /\ KinAll(NowQueued(E, S), E)
         /\ \A j \in Ids : /\ NowQueued(E, S)[j].parents = E[j].parents
                           /\ NowQueued(E, S)[j].state = IF j \in S THEN "queued" ELSE E[j].state
<1> DEFINE F == NowQueued(E, S)
<1>1. \A j \in Ids : F[j] = IF j \in S THEN WithState(E[j], "queued") ELSE E[j]
  BY DEF NowQueued
<1>2. F = [j \in Ids |-> F[j]]
  BY DEF NowQueued
<1> HIDE DEF F
<1>3. \A j \in Ids : /\ F[j] \in EventRec /\ Kin(F[j], E[j]) /\ F[j].parents = E[j].parents
                     /\ F[j].state = IF j \in S THEN "queued" ELSE E[j].state
  <2> TAKE j \in Ids
  <2>1. E[j] \in EventRec /\ "queued" \in States
    BY DEF States
  <2>2. CASE j \in S
    BY <1>1, <2>1, <2>2, WithStateIs DEF Kin
  <2>3. CASE j \notin S
    BY <1>1, <2>1, <2>3 DEF Kin
  <2> QED  BY <2>2, <2>3
<1>4. F \in [Ids -> EventRec]
  BY <1>2, <1>3
<1> QED  BY <1>1, <1>3, <1>4 DEF KinAll, F

\* enqueue of some events of domain d
LEMMA EnqueueAllIs ==
  ASSUME NEW w \in Worlds, NEW d \in Domain, NEW S \in SUBSET Ids, NEW at \in [S -> Nat],
         NEW n, n = EnqueueAll(w, d, at)
  PROVE  /\ n \in Worlds /\ Beside(n, w, d) /\ n.live = w.live /\ n.ev = NowQueued(w.ev, S)
         /\ n.ok => Entries(n.pq[d]) = Entries(w.pq[d]) \cup {<<at[e], e>> : e \in S}
<1> DEFINE q == EnqueueEach(w.pq[d], at)
           Q == [w.pq EXCEPT ![d] = q]
           E == NowQueued(w.ev, S)
           good == /\ w.ok /\ sim.inCSim /\ \A i \in DOMAIN at :
                     /\ at[i] >= sim.lastLimit /\ at[i] >= w.cur[d]
                     /\ MayEnqueue(w.pq[d], at[i])
<1>1. DOMAIN at = S
  OBVIOUS
<1>2. w.pq \in [Domain -> Ordered] /\ w.pq[d] \in Ordered /\ w.ev \in [Ids -> EventRec]
  BY DEF Worlds
<1>3. n = [w EXCEPT !.pq = Q, !.ev = E, !.ok = good]
  BY <1>1 DEF EnqueueAll, NowQueued, WithState
<1>4. q \in Ordered
  BY <1>2, EnqueueEachOrdered
<1>5. Q \in [Domain -> Ordered] /\ Q[d] = q /\ \A b \in Domain : b # d => Q[b] = w.pq[b]
  BY <1>2, <1>4
<1>6. E \in [Ids -> EventRec]
  BY <1>2, NowQueuedIs
<1>7. good \in BOOLEAN /\ (good => w.ok)
  OBVIOUS
<1>8. good => Entries(q) = Entries(w.pq[d]) \cup {<<at[e], e>> : e \in S}
  <2> HAVE good
  <2>1. \A e \in S : MayEnqueue(w.pq[d], at[e])
    BY <1>1
  <2> QED  BY <1>2, <2>1, EnqueueEachAdds
<1> HIDE DEF q, Q, E, good
<1>9. n \in Worlds
  BY <1>3, <1>5, <1>6, <1>7 DEF Worlds
<1>10. /\ n.pq = Q /\ n.ev = E /\ n.ok = good /\ n.cur = w.cur /\ n.live = w.live
       /\ n.halves = w.halves
  BY <1>3 DEF Worlds
<1>11. Beside(n, w, d)
  BY <1>5, <1>7, <1>10 DEF Beside
<1> QED  BY <1>5, <1>8, <1>9, <1>10, <1>11 DEF E

\* Some events that wait or run are queued again.
LEMMA RequeueOK ==
  ASSUME NEW w \in Worlds, NEW d \in Domain, NEW S \in SUBSET Ids, NEW cycle \in Nat,
         NEW n, n = Requeue(w, d, S, cycle)
  PROVE  /\ n \in Worlds /\ Beside(n, w, d) /\ n.ev = NowQueued(w.ev, S)
         /\ \A P, X, T :
              /\ n.ok /\ WorldOK(w, P, X, T, {}) /\ S \subseteq P \cup X
              /\ \A j \in S : w.ev[j].dom = d /\ (w.ev[j].kind = "cross" => cycle >= w.ev[j].minStart)
              => WorldOK(n, P \ S, X \ S, T, {})
<1> DEFINE good == /\ w.ok
                   /\ \A i \in S : w.ev[i].parents = 0 /\ w.ev[i].state \in {"running", "held"}
           v == Turned(w, w.ev, good)
           at == [i \in S |-> cycle]
<1>1. w.ev \in [Ids -> EventRec] /\ good \in BOOLEAN /\ (good => w.ok)
  BY DEF Worlds
<1>2. n = EnqueueAll(v, d, at)
  <2>1. [w EXCEPT !.ok = good] = Turned(w, w.ev, good)
    BY DEF Turned, Worlds
  <2>2. n = EnqueueAll([w EXCEPT !.ok = good], d, at)
    BY DEF Requeue
  <2> QED  BY <2>1, <2>2
<1> HIDE DEF good
<1>3. v = Turned(w, w.ev, good)
  OBVIOUS
<1> HIDE DEF v
<1>4. /\ v \in Worlds /\ v.ev = w.ev /\ v.pq = w.pq /\ v.cur = w.cur /\ v.live = w.live
      /\ v.halves = w.halves /\ v.ok = good
  BY <1>1, <1>3, TurnedIs
<1>5. at \in [S -> Nat] /\ \A j \in S : at[j] = cycle
  OBVIOUS
<1> HIDE DEF at
<1>6. /\ n \in Worlds /\ Beside(n, v, d) /\ n.live = v.live /\ n.ev = NowQueued(v.ev, S)
      /\ n.ok => Entries(n.pq[d]) = Entries(v.pq[d]) \cup {<<at[e], e>> : e \in S}
  BY <1>2, <1>4, <1>5, EnqueueAllIs
<1>7. Beside(n, w, d)
  BY <1>1, <1>4, <1>6 DEF Beside
<1>8. ASSUME NEW P, NEW X, NEW T, n.ok, WorldOK(w, P, X, T, {}), S \subseteq P \cup X,
             \A j \in S : w.ev[j].dom = d /\ (w.ev[j].kind = "cross" => cycle >= w.ev[j].minStart)
      PROVE  WorldOK(n, P \ S, X \ S, T, {})
  <2> DEFINE E == w.ev
             F == n.ev
  <2>1. E \in [Ids -> EventRec] /\ F \in [Ids -> EventRec] /\ w.pq \in [Domain -> Ordered]
        /\ n.pq \in [Domain -> Ordered]
    BY <1>6 DEF Worlds
  <2>2. F = NowQueued(E, S)
    BY <1>4, <1>6
  <2> HIDE DEF E, F
  <2>3. /\ KinAll(F, E)
        /\ \A j \in Ids : F[j].parents = E[j].parents /\ F[j].state = IF j \in S THEN "queued" ELSE E[j].state
        /\ \A j \in Ids : F[j] = IF j \in S THEN WithState(E[j], "queued") ELSE E[j]
    BY <2>1, <2>2, NowQueuedIs
  <2>4. Struct(E, w.pq, P, X, T, {}) /\ Counted(E, w.live, w.halves) /\ LastOK(E, lastCrossing, sim.limit)
    BY <1>8 DEF WorldOK, E
  <2>5. \A j \in S : E[j].kind # "none"
    BY <1>8, <2>4 DEF Struct, PlacesOK
  <2>6. \A j \in Ids : E[j].kind = "none" => F[j] = E[j]
    BY <2>3, <2>5
  <2>7. \A j \in Ids : IF j \in S THEN F[j].state = "queued" /\ F[j].parents = E[j].parents
                       ELSE Still(F[j], E[j])
    BY <2>3 DEF Still
  <2>8. Struct(F, w.pq, P \ S, X \ S, T, S)
    BY <1>8, <2>1, <2>3, <2>4, <2>6, <2>7, DropStruct
  <2>9. \A j \in Ids : /\ F[j].kind = E[j].kind /\ F[j].dom = E[j].dom /\ F[j].kids = E[j].kids
                       /\ F[j].minStart = E[j].minStart /\ F[j].xing = E[j].xing
    BY <2>1, <2>3, KinFields
  <2>10. Struct(F, n.pq, P \ S, X \ S, T, {})
    <3>1. \A j \in S : F[j].dom = d /\ (F[j].kind = "cross" => at[j] >= F[j].minStart)
      BY <1>5, <1>8, <2>9 DEF E
    <3>2. Entries(n.pq[d]) = Entries(w.pq[d]) \cup {<<at[e], e>> : e \in S}
      BY <1>4, <1>6, <1>8
    <3>3. \A b \in Domain : b # d => n.pq[b] = w.pq[b]
      BY <1>7 DEF Beside
    <3> DEFINE Q == w.pq
               R == n.pq
               P2 == P \ S
               X2 == X \ S
    <3>4. /\ F \in [Ids -> EventRec] /\ Q \in [Domain -> Ordered] /\ R \in [Domain -> Ordered]
          /\ Struct(F, Q, P2, X2, T, S) /\ at \in [S -> Nat] /\ S \in SUBSET Ids
          /\ Entries(R[d]) = Entries(Q[d]) \cup {<<at[e], e>> : e \in S}
          /\ \A b \in Domain : b # d => R[b] = Q[b]
      BY <1>5, <2>1, <2>8, <3>2, <3>3
    <3> HIDE DEF Q, R, P2, X2
    <3>5. Struct(F, R, P2, X2, T, {})
      BY <3>1, <3>4, QueueStruct
    <3> QED  BY <3>5 DEF R, P2, X2
  <2>11. Counted(F, n.live, n.halves)
    <3>1. n.live = w.live /\ n.halves = w.halves
      BY <1>4, <1>6 DEF Beside
    <3> QED  BY <2>1, <2>4, <2>9, <3>1, KinCounted
  <2>12. LastOK(F, lastCrossing, sim.limit)
    BY <2>4, <2>9, KinLast
  <2>13. Later(n.halves)
    BY <1>7, <1>8 DEF Beside, WorldOK
  <2> QED  BY <2>10, <2>11, <2>12, <2>13 DEF WorldOK, F
<1> QED  BY <1>4, <1>6, <1>7, <1>8

\* The greater of two cycles is a cycle.
LEMMA MaxOfCycles ==
  ASSUME NEW a \in Nat, NEW b \in Nat
  PROVE  Max({a, b}) \in Nat /\ Max({a, b}) >= a /\ Max({a, b}) >= b
<1> DEFINE m == Max({a, b})
<1>1. a \in Int /\ b \in Int
  OBVIOUS
<1>2. m \in {a, b} /\ m >= a /\ m >= b
  BY <1>1, MaxOfTwo
<1> HIDE DEF m
<1>3. m \in Nat /\ m >= a /\ m >= b
  BY <1>2
<1> QED  BY <1>3 DEF m

\* An event that is told that its parent is done
LEMMA ToldIs ==
  ASSUME NEW e \in EventRec, NEW start \in Nat, NEW u, u = Told(e, start)
  PROVE  /\ u \in EventRec /\ Kin(u, e) /\ u.state = e.state /\ u.parents = e.parents - 1
         /\ u.cycle + u.pre \in Nat
         /\ e.kind = "cross" => u.cycle + u.pre >= e.minStart
<1> DEFINE own == IF e.kind = "cross" THEN Max({start, e.minStart}) ELSE start
           cycle == Max({e.cycle, own})
           later == IF e.kind = "cross" /\ e.called THEN Max({e.doneCycle, own}) ELSE e.doneCycle
           parents == e.parents - 1
<1>1. /\ e.cycle \in Nat /\ e.doneCycle \in Nat /\ e.minStart \in Nat /\ e.parents \in Int
      /\ e.pre \in Nat
  BY DEF EventRec
<1>2. own \in Nat /\ (e.kind = "cross" => own >= e.minStart)
  <2> DEFINE a == e.minStart
  <2>0. a \in Nat
    BY <1>1
  <2> HIDE DEF a
  <2>2. Max({start, a}) \in Nat /\ Max({start, a}) >= a
    BY <2>0, MaxOfCycles
  <2>1. Max({start, e.minStart}) \in Nat /\ Max({start, e.minStart}) >= e.minStart
    BY <2>2 DEF a
  <2> QED  BY <2>1
<1>3. u = [e EXCEPT !.cycle = cycle, !.parents = parents, !.doneCycle = later]
  BY DEF Told
<1> HIDE DEF own
<1>4. cycle \in Nat /\ cycle >= own
  <2> DEFINE a == e.cycle
  <2>1. a \in Nat
    BY <1>1
  <2> HIDE DEF a
  <2>2. Max({a, own}) \in Nat /\ Max({a, own}) >= own
    BY <1>2, <2>1, MaxOfCycles
  <2> QED  BY <2>2 DEF a
<1>5. later \in Nat
  <2> DEFINE a == e.doneCycle
  <2>0. a \in Nat
    BY <1>1
  <2> HIDE DEF a
  <2>2. Max({a, own}) \in Nat
    BY <1>2, <2>0, MaxOfCycles
  <2>1. Max({e.doneCycle, own}) \in Nat
    BY <2>2 DEF a
  <2> QED  BY <1>1, <2>1
<1>6. parents \in Int
  BY <1>1
<1> HIDE DEF cycle, later, parents
<1>7. u \in EventRec
  BY <1>3, <1>4, <1>5, <1>6 DEF EventRec
<1>8. /\ u.state = e.state /\ u.parents = parents /\ u.cycle = cycle /\ u.pre = e.pre
      /\ Kin(u, e)
  BY <1>3 DEF EventRec, Kin
<1> QED  BY <1>1, <1>2, <1>4, <1>7, <1>8 DEF parents

\* These events are told.
ToldAll(E, S, start) == [j \in Ids |-> IF j \in S THEN Told(E[j], start) ELSE E[j]]

\* What becomes of them
LEMMA ToldAllIs ==
  ASSUME NEW E \in [Ids -> EventRec], NEW S, NEW start \in Nat, NEW F, F = ToldAll(E, S, start)
  PROVE  /\ F \in [Ids -> EventRec] /\ KinAll(F, E)
         /\ \A j \in Ids : /\ F[j].state = E[j].state
                           /\ F[j].parents = IF j \in S THEN E[j].parents - 1 ELSE E[j].parents
                           /\ j \notin S => F[j] = E[j]
                           /\ F[j].cycle + F[j].pre \in Nat
                           /\ j \in S /\ E[j].kind = "cross" => F[j].cycle + F[j].pre >= E[j].minStart
<1>1. \A j \in Ids : F[j] = IF j \in S THEN Told(E[j], start) ELSE E[j]
  BY DEF ToldAll
<1>2. F = [j \in Ids |-> F[j]]
  BY DEF ToldAll
<1>3. \A j \in Ids : /\ F[j] \in EventRec /\ Kin(F[j], E[j]) /\ F[j].state = E[j].state
                     /\ F[j].parents = IF j \in S THEN E[j].parents - 1 ELSE E[j].parents
                     /\ j \notin S => F[j] = E[j]
                     /\ F[j].cycle + F[j].pre \in Nat
                     /\ j \in S /\ E[j].kind = "cross" => F[j].cycle + F[j].pre >= E[j].minStart
  <2> TAKE j \in Ids
  <2>1. E[j] \in EventRec
    OBVIOUS
  <2>2. CASE j \in S
    <3> DEFINE u == F[j]
    <3>1. u = Told(E[j], start)
      BY <1>1, <2>2
    <3> HIDE DEF u
    <3>2. /\ u \in EventRec /\ Kin(u, E[j]) /\ u.state = E[j].state /\ u.parents = E[j].parents - 1
          /\ u.cycle + u.pre \in Nat
          /\ E[j].kind = "cross" => u.cycle + u.pre >= E[j].minStart
      BY <2>1, <3>1, ToldIs
    <3> QED  BY <2>2, <3>2 DEF u
  <2>3. CASE j \notin S
    <3>1. F[j] = E[j]
      BY <1>1, <2>3
    <3>2. E[j].cycle + E[j].pre \in Nat
      BY <2>1 DEF EventRec
    <3> QED  BY <2>1, <2>3, <3>1, <3>2 DEF Kin
  <2> QED  BY <2>2, <2>3
<1>4. F \in [Ids -> EventRec]
  BY <1>2, <1>3
<1> QED  BY <1>3, <1>4 DEF KinAll

\* An event tells its children that it is done.
LEMMA ParentDoneOK ==
  ASSUME NEW w \in Worlds, NEW d \in Domain, NEW i \in Ids, NEW start \in Nat,
         NEW n, n = ParentDone(w, d, w.ev[i].kids, start)
  PROVE  /\ n \in Worlds /\ Beside(n, w, d) /\ KinAll(n.ev, w.ev) /\ n.live = w.live
         /\ \A P, X, T : n.ok /\ WorldOK(w, P, X, T, {}) /\ i \notin T /\ w.ev[i].dom = d
                         => WorldOK(n, P, X, T \cup {i}, {})
<1> DEFINE E == w.ev
           K == E[i].kids
           G == ToldAll(E, K, start)
           S == {k \in K : E[k].parents = 1}
           at == [k \in S |-> G[k].cycle + G[k].pre]
           good == /\ w.ok /\ \A k \in K : E[k].parents > 0
                   /\ \A k \in S : E[k].state = "none"
           v == Turned(w, G, good)
<1>1. /\ E \in [Ids -> EventRec] /\ K \in SUBSET Ids /\ S \in SUBSET Ids /\ S \subseteq K
      /\ good \in BOOLEAN /\ (good => w.ok)
  BY DEF Worlds, EventRec
<1>2. n = EnqueueAll(v, d, at)
  BY DEF ParentDone, Turned, ToldAll
<1>3. G = ToldAll(E, K, start)
  OBVIOUS
<1>4. at = [k \in S |-> G[k].cycle + G[k].pre]
  OBVIOUS
<1>5. v = Turned(w, G, good)
  OBVIOUS
<1> HIDE DEF G, at, v, good
<1>6. /\ G \in [Ids -> EventRec] /\ KinAll(G, E)
      /\ \A j \in Ids : /\ G[j].state = E[j].state
                        /\ G[j].parents = IF j \in K THEN E[j].parents - 1 ELSE E[j].parents
                        /\ j \notin K => G[j] = E[j]
                        /\ G[j].cycle + G[j].pre \in Nat
                        /\ j \in K /\ E[j].kind = "cross" => G[j].cycle + G[j].pre >= E[j].minStart
  <2> HIDE DEF E, K
  <2> QED  BY <1>1, <1>3, ToldAllIs
<1>7. /\ v \in Worlds /\ v.ev = G /\ v.pq = w.pq /\ v.cur = w.cur /\ v.live = w.live
      /\ v.halves = w.halves /\ v.ok = good
  BY <1>1, <1>5, <1>6, TurnedIs
<1>8. at \in [S -> Nat]
  BY <1>1, <1>4, <1>6
<1> HIDE DEF S
<1>9. /\ n \in Worlds /\ Beside(n, v, d) /\ n.live = v.live /\ n.ev = NowQueued(v.ev, S)
      /\ n.ok => Entries(n.pq[d]) = Entries(v.pq[d]) \cup {<<at[e], e>> : e \in S}
  BY <1>1, <1>2, <1>7, <1>8, EnqueueAllIs
<1>10. Beside(n, w, d)
  BY <1>1, <1>7, <1>9 DEF Beside
<1> DEFINE F == n.ev
<1>11. F = NowQueued(G, S) /\ F \in [Ids -> EventRec]
  BY <1>7, <1>9 DEF Worlds
<1> HIDE DEF F
<1>12. /\ KinAll(F, G)
       /\ \A j \in Ids : F[j].parents = G[j].parents /\ F[j].state = IF j \in S THEN "queued" ELSE G[j].state
       /\ \A j \in Ids : F[j] = IF j \in S THEN WithState(G[j], "queued") ELSE G[j]
  BY <1>6, <1>11, NowQueuedIs
<1> HIDE DEF E, K
<1>13. KinAll(F, E)
  BY <1>6, <1>12 DEF KinAll, Kin
<1>14. ASSUME NEW P, NEW X, NEW T, n.ok, WorldOK(w, P, X, T, {}), i \notin T, E[i].dom = d
       PROVE  WorldOK(n, P, X, T \cup {i}, {})
  <2>1. Struct(E, w.pq, P, X, T, {}) /\ Counted(E, w.live, w.halves) /\ LastOK(E, lastCrossing, sim.limit)
    BY <1>14 DEF WorldOK, E
  <2>2. \A k \in K : E[k].kind # "none" /\ E[k].parents = 1 /\ E[k].dom = d
    BY <1>1, <1>14, <2>1 DEF Struct, KidsOK, KidOK, K
  <2>3. S = K
    BY <1>1, <2>2 DEF S
  <2>4. \A j \in Ids : E[j].kind = "none" => F[j] = E[j]
    BY <1>6, <1>12, <2>2, <2>3
  <2>5. \A j \in Ids : IF j \in K THEN F[j].state = "queued" /\ F[j].parents = E[j].parents - 1
                       ELSE Still(F[j], E[j])
    BY <1>6, <1>12, <2>3 DEF Still
  <2>6. w.pq \in [Domain -> Ordered] /\ n.pq \in [Domain -> Ordered]
    BY <1>9 DEF Worlds
  <2>7. Struct(F, w.pq, P, X, T \cup {i}, K)
    BY <1>1, <1>13, <1>14, <2>1, <2>4, <2>5, <2>6, ToldStruct DEF K
  <2>8. \A j \in Ids : /\ F[j].kind = E[j].kind /\ F[j].dom = E[j].dom /\ F[j].kids = E[j].kids
                       /\ F[j].minStart = E[j].minStart /\ F[j].xing = E[j].xing
    BY <1>1, <1>13, KinFields
  <2>9. Struct(F, n.pq, P, X, T \cup {i}, {})
    <3> DEFINE Q == w.pq
               R == n.pq
               T2 == T \cup {i}
    <3>1. \A j \in S : F[j].dom = d /\ (F[j].kind = "cross" => at[j] >= F[j].minStart)
      BY <1>1, <1>4, <1>6, <2>2, <2>3, <2>8
    <3>2. Entries(R[d]) = Entries(Q[d]) \cup {<<at[e], e>> : e \in S}
      BY <1>7, <1>9, <1>14
    <3>3. \A b \in Domain : b # d => R[b] = Q[b]
      BY <1>10 DEF Beside
    <3>4. /\ F \in [Ids -> EventRec] /\ Q \in [Domain -> Ordered] /\ R \in [Domain -> Ordered]
          /\ Struct(F, Q, P, X, T2, S) /\ S \in SUBSET Ids
      BY <1>1, <1>11, <2>3, <2>6, <2>7
    <3> HIDE DEF Q, R, T2
    <3>5. Struct(F, R, P, X, T2, {})
      BY <1>8, <3>1, <3>2, <3>3, <3>4, QueueStruct
    <3> QED  BY <3>5 DEF R, T2
  <2>10. Counted(F, n.live, n.halves)
    <3>1. n.live = w.live /\ n.halves = w.halves
      BY <1>7, <1>9 DEF Beside
    <3> QED  BY <1>1, <2>1, <2>8, <3>1, KinCounted
  <2>11. LastOK(F, lastCrossing, sim.limit)
    BY <2>1, <2>8, KinLast
  <2>12. Later(n.halves)
    BY <1>10, <1>14 DEF Beside, WorldOK
  <2> QED  BY <2>9, <2>10, <2>11, <2>12 DEF WorldOK, F
<1> QED  BY <1>7, <1>9, <1>10, <1>13, <1>14 DEF E, F

\* The absence of an event
LEMMA NoEventIs == NoEvent \in EventRec /\ NoEvent.kind = "none" /\ NoEvent.xing = NoId
<1>1. 0 \in Domain
  BY CSimAssumption DEF Domain
<1> QED  BY <1>1 DEF NoEvent, EventRec, Kinds, States, MaybeId

\* freeEvent of a world with these events and counts
FreedWorld(w, E, L) == [w EXCEPT !.ev = E, !.live = L]

\* Its fields
LEMMA FreedWorldIs ==
  ASSUME NEW w \in Worlds, NEW E \in [Ids -> EventRec], NEW L \in [Core -> Int],
         NEW n, n = FreedWorld(w, E, L)
  PROVE  /\ n \in Worlds /\ n.ev = E /\ n.pq = w.pq /\ n.cur = w.cur /\ n.live = L
         /\ n.halves = w.halves /\ n.ok = w.ok
<1>1. n = [w EXCEPT !.ev = E, !.live = L]
  BY DEF FreedWorld
<1>2. n \in Worlds
  BY <1>1 DEF Worlds
<1>3. /\ n.ev = E /\ n.pq = w.pq /\ n.cur = w.cur /\ n.live = L
      /\ n.halves = w.halves /\ n.ok = w.ok
  BY <1>1 DEF Worlds
<1> QED  BY <1>2, <1>3

\* Taking away is adding what is less than nothing.
LEMMA PlusFreed ==
  ASSUME NEW L \in [Core -> Int], NEW c, NEW e
  PROVE  [L EXCEPT ![c] = @ - IF Links(e) > 1 THEN 2 ELSE 1] = Plus(L, c, Freed(e))
<1> DEFINE m == IF Links(e) > 1 THEN 2 ELSE 1
           k == Freed(e)
<1>1. m \in Int /\ k \in Int /\ k = -m
  BY DEF Freed
<1> HIDE DEF m, k
<1>2. CASE c \in Core
  <2>1. L[c] - m = L[c] + k
    BY <1>1, <1>2
  <2> QED  BY <2>1 DEF Plus, m, k
<1>3. CASE c \notin Core
  BY <1>3 DEF Plus
<1> QED  BY <1>2, <1>3

\* An event that is done is freed with its block.
LEMMA FreeEventOK ==
  ASSUME Good, NEW w \in Worlds, NEW i \in Ids, NEW n, n = FreeEvent(w, i)
  PROVE  /\ n \in Worlds /\ n.pq = w.pq /\ n.cur = w.cur /\ n.halves = w.halves /\ n.ok = w.ok
         /\ n.ev = WithEvent(w.ev, i, NoEvent)
         /\ \A P, X, T :
              /\ WorldOK(w, P, X, T, {}) /\ T \subseteq X /\ i \in X /\ i \in T
              /\ w.ev[i].kind = "cross" => w.ev[i].called /\ w.ev[i].minStart <= sim.limit
              => WorldOK(n, P, X \ {i}, T \ {i}, {})
<1> DEFINE E == w.ev
           F == WithEvent(E, i, NoEvent)
           c == E[i].owner
           L == Plus(w.live, c, Freed(E[i]))
<1>1. E \in [Ids -> EventRec] /\ w.live \in [Core -> Int] /\ w.halves \in [Core -> Int]
      /\ w.pq \in [Domain -> Ordered]
  BY DEF Worlds
<1>2. F \in [Ids -> EventRec]
  BY <1>1, NoEventIs, WithEventIs
<1>3. L \in [Core -> Int]
  <2>1. Freed(E[i]) \in Int
    BY DEF Freed
  <2> QED  BY <1>1, <2>1, PlusIs
<1>4. n = FreedWorld(w, F, L)
  <2> DEFINE M == [w.live EXCEPT ![c] = @ - IF Links(E[i]) > 1 THEN 2 ELSE 1]
  <2>1. n = [w EXCEPT !.ev = F, !.live = M]
    BY DEF FreeEvent, WithEvent
  <2>2. M = L
    <3> DEFINE e == E[i]
               l == w.live
    <3>1. l \in [Core -> Int]
      BY <1>1
    <3> HIDE DEF e, l, c
    <3>2. [l EXCEPT ![c] = @ - IF Links(e) > 1 THEN 2 ELSE 1] = Plus(l, c, Freed(e))
      BY <3>1, PlusFreed
    <3> QED  BY <3>2 DEF e, l
  <2> QED  BY <2>1, <2>2 DEF FreedWorld
<1> HIDE DEF L, F
<1>5. /\ n \in Worlds /\ n.ev = F /\ n.pq = w.pq /\ n.cur = w.cur /\ n.live = L
      /\ n.halves = w.halves /\ n.ok = w.ok
  BY <1>2, <1>3, <1>4, FreedWorldIs
<1>6. ASSUME NEW P, NEW X, NEW T, WorldOK(w, P, X, T, {}), T \subseteq X, i \in X, i \in T,
             E[i].kind = "cross" => E[i].called /\ E[i].minStart <= sim.limit
      PROVE  WorldOK(n, P, X \ {i}, T \ {i}, {})
  <2> DEFINE Q == w.pq
             H == w.halves
             M == w.live
  <2>1. /\ Struct(E, Q, P, X, T, {}) /\ Counted(E, M, H) /\ LastOK(E, lastCrossing, sim.limit)
        /\ Later(H)
    BY <1>6 DEF WorldOK
  <2>2. E[i].kind # "none" /\ c = i[1]
    BY <1>6, <2>1 DEF Struct, PlacesOK, EventsOK
  <2>3. Q \in [Domain -> Ordered] /\ H \in [Core -> Int] /\ M \in [Core -> Int]
    BY <1>1
  <2> HIDE DEF Q, H, M, E
  <2>4. Struct(F, Q, P, X \ {i}, T \ {i}, {})
    BY <1>1, <1>6, <2>1, <2>3, FreeStruct DEF F
  <2>5. Counted(F, L, H)
    <3>1. Counted(WithEvent(E, i, NoEvent), Plus(M, i[1], Freed(E[i])), H)
      BY <1>1, <2>1, <2>2, <2>3, FreeCounted
    <3>2. L = Plus(M, i[1], Freed(E[i]))
      BY <2>2 DEF L, M
    <3> QED  BY <3>1, <3>2 DEF F
  <2>6. LastOK(F, lastCrossing, sim.limit)
    <3> SUFFICES ASSUME NEW b \in Core, NEW s \in Domain, NEW d \in Domain,
                        lastCrossing[b][s][d].cycle > sim.limit
                 PROVE  LET l == lastCrossing[b][s][d] IN
                        /\ l.ev \in Ids /\ F[l.ev].kind = "cross" /\ F[l.ev].dom = d
                        /\ F[l.ev].minStart = l.cycle
      BY DEF LastOK
    <3> DEFINE l == lastCrossing[b][s][d]
    <3>1. l.cycle \in Nat /\ sim.limit \in Nat
      BY DEF Good, TypeOK, Crossings, SimRec
    <3>2. l.ev \in Ids /\ E[l.ev].kind = "cross" /\ E[l.ev].dom = d /\ E[l.ev].minStart = l.cycle
      BY <2>1 DEF LastOK
    <3>3. l.ev # i
      BY <1>6, <3>1, <3>2
    <3>4. F[l.ev] = E[l.ev]
      BY <1>1, <3>2, <3>3, NoEventIs, WithEventIs DEF F
    <3> QED  BY <3>2, <3>4
  <2> QED  BY <1>5, <2>1, <2>4, <2>5, <2>6 DEF WorldOK, Q, H
<1> QED  BY <1>5, <1>6 DEF E, F

\* An event with another doneCycle
WithDone(e, cycle) == [e EXCEPT !.doneCycle = cycle]

\* Nothing else changes.
LEMMA WithDoneIs ==
  ASSUME NEW e \in EventRec, NEW cycle \in Nat
  PROVE  WithDone(e, cycle) \in EventRec /\ Kin(WithDone(e, cycle), e) /\ Still(WithDone(e, cycle), e)
BY DEF WithDone, EventRec, Kin, Still

\* A world is in order as it was when no state and no link changes.
LEMMA StillOK ==
  ASSUME NEW w \in Worlds, NEW n \in Worlds, NEW P, NEW X, NEW T, WorldOK(w, P, X, T, {}),
         n.pq = w.pq, n.live = w.live, n.halves = w.halves, KinAll(n.ev, w.ev),
         \A j \in Ids : Still(n.ev[j], w.ev[j]),
         \A j \in Ids : w.ev[j].kind = "none" => n.ev[j] = w.ev[j]
  PROVE  WorldOK(n, P, X, T, {})
<1> DEFINE E == w.ev
           F == n.ev
           Q == w.pq
<1>1. E \in [Ids -> EventRec] /\ Q \in [Domain -> Ordered] /\ KinAll(F, E)
  BY DEF Worlds
<1>2. /\ Struct(E, Q, P, X, T, {}) /\ Counted(E, w.live, w.halves) /\ LastOK(E, lastCrossing, sim.limit)
      /\ Later(w.halves)
  BY DEF WorldOK
<1>3. \A j \in Ids : Still(F[j], E[j]) /\ (E[j].kind = "none" => F[j] = E[j])
  OBVIOUS
<1> HIDE DEF E, F, Q
<1>4. Struct(F, Q, P, X, T, {})
  BY <1>1, <1>2, <1>3, StillStruct
<1>5. \A j \in Ids : /\ F[j].kind = E[j].kind /\ F[j].dom = E[j].dom /\ F[j].kids = E[j].kids
                     /\ F[j].minStart = E[j].minStart /\ F[j].xing = E[j].xing
  BY <1>1, KinFields
<1>6. Counted(F, w.live, w.halves)
  BY <1>1, <1>2, <1>5, KinCounted
<1>7. LastOK(F, lastCrossing, sim.limit)
  BY <1>2, <1>5, KinLast
<1> QED  BY <1>2, <1>4, <1>6, <1>7 DEF WorldOK, F, Q

\* The first half of markSrcEventDone
LEMMA SourceDoneOK ==
  ASSUME NEW w \in Worlds, NEW x \in Ids, NEW cycle \in Nat, NEW n, n = SourceDone(w, x, cycle)
  PROVE  /\ n \in Worlds /\ n.pq = w.pq /\ n.cur = w.cur /\ n.live = w.live /\ n.halves = w.halves
         /\ (n.ok => w.ok) /\ KinAll(n.ev, w.ev)
         /\ \A P, X, T : WorldOK(w, P, X, T, {}) /\ w.ev[x].kind # "none"
                         => WorldOK(n, P, X, T, {})
<1> DEFINE E == w.ev
           F == WithEvent(E, x, WithDone(E[x], cycle))
           good == w.ok /\ ~E[x].called /\ E[x].kind = "cross" /\ cycle >= w.cur[E[x].src]
<1>1. E \in [Ids -> EventRec] /\ good \in BOOLEAN /\ (good => w.ok)
  BY DEF Worlds
<1>2. n = Turned(w, F, good)
  BY DEF SourceDone, Turned, WithEvent, WithDone
<1> HIDE DEF good
<1>3. /\ F \in [Ids -> EventRec]
      /\ KinAll(F, E) /\ \A j \in Ids : Still(F[j], E[j]) /\ (j # x => F[j] = E[j])
  <2> DEFINE e == WithDone(E[x], cycle)
  <2>1. e \in EventRec /\ Kin(e, E[x]) /\ Still(e, E[x])
    BY <1>1, WithDoneIs
  <2> HIDE DEF e
  <2>2. WithEvent(E, x, e) \in [Ids -> EventRec] /\ WithEvent(E, x, e)[x] = e
        /\ \A j \in Ids : j # x => WithEvent(E, x, e)[j] = E[j]
    BY <1>1, <2>1, WithEventIs
  <2>3. F = WithEvent(E, x, e)
    BY DEF e
  <2> HIDE DEF F
  <2> QED  BY <2>1, <2>2, <2>3 DEF KinAll, Kin, Still
<1> HIDE DEF F
<1>4. /\ n \in Worlds /\ n.ev = F /\ n.pq = w.pq /\ n.cur = w.cur /\ n.live = w.live
      /\ n.halves = w.halves /\ n.ok = good
  BY <1>1, <1>2, <1>3, TurnedIs
<1>5. ASSUME NEW P, NEW X, NEW T, WorldOK(w, P, X, T, {}), E[x].kind # "none"
      PROVE  WorldOK(n, P, X, T, {})
  <2>1. /\ KinAll(n.ev, w.ev) /\ \A j \in Ids : Still(n.ev[j], w.ev[j])
        /\ \A j \in Ids : w.ev[j].kind = "none" => n.ev[j] = w.ev[j]
    BY <1>3, <1>4, <1>5
  <2> QED  BY <1>4, <1>5, <2>1, StillOK
<1> QED  BY <1>1, <1>3, <1>4, <1>5 DEF E

\* What an event that is done leaves: itself if its crossing is to be called
OthersKept(n, w, i) ==
  /\ \A j \in Ids : j # i => Kin(n.ev[j], w.ev[j])
  /\ w.ev[i].xing # NoId => Kin(n.ev[i], w.ev[i])

\* done(): the children of an event go on, and it is freed or its crossing is next.
LEMMA DoneOK ==
  ASSUME Good, NEW w \in Worlds, NEW d \in Domain, NEW i \in Ids, NEW cycle \in Nat,
         w.ev[i].dom = d, NEW n, n = Done(w, i, cycle)
  PROVE  /\ n \in Worlds /\ Beside(n, w, d) /\ OthersKept(n, w, i)
         /\ \A P, X, T :
              /\ n.ok /\ WorldOK(w, P, X, T, {}) /\ T \subseteq X /\ i \in X /\ i \notin T
              /\ w.ev[i].kind = "cross" => w.ev[i].called /\ w.ev[i].minStart <= sim.limit
              => IF w.ev[i].xing = NoId THEN WorldOK(n, P, X \ {i}, T, {})
                 ELSE WorldOK(n, P, X, T \cup {i}, {})
<1> DEFINE e == w.ev[i]
           start == cycle + e.post
           K == ParentDone(w, d, w.ev[i].kids, start)
<1>1. e \in EventRec /\ start \in Nat /\ w.ev \in [Ids -> EventRec] /\ e.xing \in MaybeId
  BY DEF Worlds, EventRec
<1>2. n = IF e.xing = NoId THEN FreeEvent(K, i) ELSE SourceDone(K, e.xing, start)
  BY DEF Done
<1>3. K = ParentDone(w, d, w.ev[i].kids, start)
  OBVIOUS
<1> HIDE DEF K, start
<1>4. K \in Worlds /\ Beside(K, w, d) /\ KinAll(K.ev, w.ev)
  BY <1>1, <1>3, ParentDoneOK
<1>5. \A P, X, T : K.ok /\ WorldOK(w, P, X, T, {}) /\ i \notin T => WorldOK(K, P, X, T \cup {i}, {})
  BY <1>1, <1>3, ParentDoneOK
<1>6. CASE e.xing = NoId
  <2>1. n = FreeEvent(K, i)
    BY <1>2, <1>6
  <2>2. /\ n \in Worlds /\ n.pq = K.pq /\ n.cur = K.cur /\ n.halves = K.halves /\ n.ok = K.ok
        /\ n.ev = WithEvent(K.ev, i, NoEvent)
    BY <1>4, <2>1, FreeEventOK
  <2>3. \A P, X, T :
              /\ WorldOK(K, P, X, T, {}) /\ T \subseteq X /\ i \in X /\ i \in T
              /\ K.ev[i].kind = "cross" => K.ev[i].called /\ K.ev[i].minStart <= sim.limit
              => WorldOK(n, P, X \ {i}, T \ {i}, {})
    BY <1>4, <2>1, FreeEventOK
  <2>4. Beside(n, w, d)
    BY <1>4, <2>2 DEF Beside
  <2>5. OthersKept(n, w, i)
    <3>1. K.ev \in [Ids -> EventRec]
      BY <1>4 DEF Worlds
    <3>2. \A j \in Ids : j # i => n.ev[j] = K.ev[j]
      BY <2>2, <3>1, NoEventIs, WithEventIs
    <3> QED  BY <1>4, <1>6, <3>2 DEF OthersKept, KinAll
  <2>6. ASSUME NEW P, NEW X, NEW T, n.ok, WorldOK(w, P, X, T, {}), T \subseteq X, i \in X, i \notin T,
               e.kind = "cross" => e.called /\ e.minStart <= sim.limit
        PROVE  WorldOK(n, P, X \ {i}, T, {})
    <3> DEFINE T2 == T \cup {i}
    <3>1. WorldOK(K, P, X, T2, {}) /\ T2 \subseteq X /\ i \in T2 /\ T2 \ {i} = T
      BY <1>5, <2>2, <2>6
    <3> HIDE DEF T2
    <3>2. K.ev[i].kind = "cross" => K.ev[i].called /\ K.ev[i].minStart <= sim.limit
      BY <1>4, <2>6 DEF KinAll, Kin
    <3>3. WorldOK(n, P, X \ {i}, T2 \ {i}, {})
      BY <2>3, <2>6, <3>1, <3>2
    <3> QED  BY <3>1, <3>3
  <2> QED  BY <1>6, <2>2, <2>4, <2>5, <2>6
<1>7. CASE e.xing # NoId
  <2> DEFINE x == e.xing
  <2>1. n = SourceDone(K, x, start) /\ x \in Ids
    BY <1>1, <1>2, <1>7 DEF MaybeId
  <2>2. /\ n \in Worlds /\ n.pq = K.pq /\ n.cur = K.cur /\ n.halves = K.halves
        /\ (n.ok => K.ok) /\ KinAll(n.ev, K.ev)
    BY <1>1, <1>4, <2>1, SourceDoneOK
  <2>3. \A P, X, T : WorldOK(K, P, X, T, {}) /\ K.ev[x].kind # "none" => WorldOK(n, P, X, T, {})
    BY <1>1, <1>4, <2>1, SourceDoneOK
  <2>4. Beside(n, w, d)
    BY <1>4, <2>2 DEF Beside
  <2>5. OthersKept(n, w, i)
    BY <1>4, <2>2 DEF OthersKept, KinAll, Kin
  <2>6. ASSUME NEW P, NEW X, NEW T, n.ok, WorldOK(w, P, X, T, {}), i \notin T
        PROVE  WorldOK(n, P, X, T \cup {i}, {})
    <3>1. WorldOK(K, P, X, T \cup {i}, {})
      BY <1>5, <2>2, <2>6
    <3>2. w.ev[x].kind = "cross"
      BY <1>7, <2>6 DEF WorldOK, Struct, EventsOK
    <3>3. K.ev[x].kind # "none"
      BY <1>4, <2>1, <3>2 DEF KinAll, Kin
    <3> QED  BY <2>3, <3>1, <3>3
  <2> QED  BY <1>7, <2>2, <2>4, <2>5, <2>6
<1> QED  BY <1>6, <1>7

-----------------------------------------------------------------------------
(* The weave phase: a thread and its event                                 *)

\* What the other threads run, and which of it has told its children
Others(t) == {th[u].ev : u \in Threads \ {t}} \ {NoId}
ToldOthers(t) == {th[u].ev : u \in {v \in Threads \ {t} : th[v].pc = "after"}} \ {NoId}

\* What the other threads hold, while thread t changes
LEMMA OthersAre ==
  ASSUME NEW t \in Threads
  PROVE  /\ Held = Others(t) \cup ({th[t].ev} \ {NoId})
         /\ ToldIds = ToldOthers(t) \cup (IF th[t].pc = "after" THEN {th[t].ev} \ {NoId} ELSE {})
         /\ ToldOthers(t) \subseteq Others(t)
BY DEF Held, ToldIds, Others, ToldOthers

\* Thread t runs event i of domain d: what has become of the state so far
Near(w, d, i) ==
  /\ \A b \in Domain : b # d => w.pq[b] = pq[b] /\ w.cur[b] = curCycle[b]
  /\ \A j \in Ids : j # i => /\ w.ev[j].kind = ev[j].kind /\ w.ev[j].dom = ev[j].dom
                             /\ w.ev[j].minStart = ev[j].minStart /\ w.ev[j].xing = ev[j].xing
Running(t, d, i, w, P) ==
  /\ w \in Worlds /\ i \in Ids /\ d \in Domain
  /\ i \notin Others(t) /\ i \notin P
  /\ w.ev[i].dom = d /\ w.ev[i].kind = ev[i].kind /\ w.ev[i].minStart = ev[i].minStart
  /\ w.ev[i].xing = ev[i].xing
  /\ w.ev[i].kind = "cross" => w.ev[i].minStart <= sim.limit
  /\ Near(w, d, i)
  /\ w.ok => WorldOK(w, P, Others(t) \cup {i}, ToldOthers(t), {})

\* and what it leaves behind: k is the event that waits for its crossing to be
\* called, if any.
Mine(k) == {k} \ {NoId}
Left(t, d, i, k, w, P) ==
  /\ w \in Worlds /\ Near(w, d, i)
  /\ k \in {i, NoId}
  /\ k # NoId => /\ w.ev[i].dom = d /\ w.ev[i].kind = ev[i].kind /\ w.ev[i].xing # NoId
  /\ w.ok => WorldOK(w, P, Others(t) \cup Mine(k), ToldOthers(t) \cup Mine(k), {})

\* A thread is done with its event.
LEMMA RunningDone ==
  ASSUME Good, NEW t \in Threads, NEW d, NEW i, NEW w, NEW P, Running(t, d, i, w, P),
         NEW cycle \in Nat, w.ev[i].kind = "cross" => w.ev[i].called,
         NEW n, n = Done(w, i, cycle)
  PROVE  Left(t, d, i, IF w.ev[i].xing = NoId THEN NoId ELSE i, n, P)
<1> DEFINE X == Others(t) \cup {i}
           T == ToldOthers(t)
           k == IF w.ev[i].xing = NoId THEN NoId ELSE i
<1>1. /\ w \in Worlds /\ i \in Ids /\ d \in Domain /\ w.ev[i].dom = d
  BY DEF Running
<1>2. /\ n \in Worlds /\ Beside(n, w, d) /\ OthersKept(n, w, i)
  BY <1>1, DoneOK
<1>3. \A P1, X1, T1 :
        /\ n.ok /\ WorldOK(w, P1, X1, T1, {}) /\ T1 \subseteq X1 /\ i \in X1 /\ i \notin T1
        /\ w.ev[i].kind = "cross" => w.ev[i].called /\ w.ev[i].minStart <= sim.limit
        => IF w.ev[i].xing = NoId THEN WorldOK(n, P1, X1 \ {i}, T1, {})
           ELSE WorldOK(n, P1, X1, T1 \cup {i}, {})
  BY <1>1, DoneOK
<1>4. Near(n, d, i)
  BY <1>2 DEF Running, Near, Beside, OthersKept, Kin
<1>5. T \subseteq X /\ i \in X /\ i \notin T /\ X \ {i} = Others(t) /\ i # NoId
  BY <1>1, OthersAre, NoIdIs DEF Running
<1>6. k # NoId => n.ev[i].dom = d /\ n.ev[i].kind = ev[i].kind /\ n.ev[i].xing # NoId
  BY <1>2 DEF OthersKept, Kin, Running
<1>7. ASSUME n.ok
      PROVE  WorldOK(n, P, Others(t) \cup Mine(k), ToldOthers(t) \cup Mine(k), {})
  <2>1. w.ok /\ WorldOK(w, P, X, T, {})
    BY <1>2, <1>7 DEF Beside, Running
  <2>2. w.ev[i].kind = "cross" => w.ev[i].called /\ w.ev[i].minStart <= sim.limit
    BY DEF Running
  <2> HIDE DEF X, T
  <2>3. IF w.ev[i].xing = NoId THEN WorldOK(n, P, X \ {i}, T, {}) ELSE WorldOK(n, P, X, T \cup {i}, {})
    BY <1>3, <1>5, <1>7, <2>1, <2>2
  <2>4. CASE w.ev[i].xing = NoId
    <3>1. Mine(k) = {}
      BY <2>4 DEF Mine
    <3>2. Others(t) \cup Mine(k) = X \ {i} /\ ToldOthers(t) \cup Mine(k) = T
      BY <1>5, <3>1 DEF T
    <3> QED  BY <2>3, <2>4, <3>2
  <2>5. CASE w.ev[i].xing # NoId
    <3>1. Mine(k) = {i}
      BY <1>5, <2>5 DEF Mine
    <3>2. Others(t) \cup Mine(k) = X /\ ToldOthers(t) \cup Mine(k) = T \cup {i}
      BY <3>1 DEF X, T
    <3> QED  BY <2>3, <2>5, <3>2
  <2> QED  BY <2>4, <2>5
<1> QED  BY <1>2, <1>4, <1>6, <1>7 DEF Left

\* What a thread m may have as its event in world n
EventOK(m, n) ==
  /\ m.ev # NoId =>
       LET e == n.ev[m.ev] IN
       /\ e.dom = m.dom /\ m.pc \in {"look", "recheck", "after"}
       /\ m.pc = "after" => e.xing # NoId
       /\ m.pc # "after" => e.kind = "cross" /\ e.minStart <= m.cyc /\ e.minStart <= sim.limit
  /\ m.pc \in {"look", "recheck"} => m.ev # NoId
  /\ m.pc = "recheck" => m.next >= m.cyc
  /\ m.pc = "loop" => m.ev = NoId
  /\ m.pc # "asleep"

\* No recorder has the last event i of its path any more.
RecStep(i) ==
  /\ rec' \in [Core -> RecRec]
  /\ \A c \in Core :
       LET r == rec[c]  s == rec'[c] IN
       /\ s.prevRespCycle = r.prevRespCycle /\ s.curCycle = r.curCycle /\ s.state = r.state
       /\ s.prevRespEvent \in {r.prevRespEvent, NoId}
       /\ s.prevRespEvent # r.prevRespEvent => r.state = "DRAINING"
       /\ s.prevRespEvent # NoId => s.prevRespEvent # i

MineTold(m) == IF m.pc = "after" THEN Mine(m.ev) ELSE {}
\* The work of a thread goes on, but for a domain that is over.
WorkGoesOn(t, d, m) == \A b \in Domain : b \in Works(t) /\ b # d => b \in WorkOf(t, m)

\* World n is what becomes of the state; the slabs may stay as they are.
Turns(n) ==
  /\ ev' = n.ev /\ pq' = n.pq /\ curCycle' = n.cur /\ live' = n.live /\ halves' = n.halves
  /\ slab' = slab \/ slab' = [c \in Core |-> Collected(c, n)]

\* A step that frees events
LEMMA BecomesTurns ==
  ASSUME NEW n, Becomes(n)
  PROVE  Turns(n)
BY DEF Becomes, Turns

\* A slab on which no half was called stays as it should be.
LEMMA SlabsTurn ==
  ASSUME Good, NEW n \in Worlds, Turns(n), Counted(n.ev, n.live, n.halves), Later(n.halves)
  PROVE  slab' \in [Core -> SlabStates] /\ SlabsOK'
<1>1. /\ slab \in [Core -> SlabStates]
      /\ slab' = slab \/ slab' = [c \in Core |-> Collected(c, n)]
      /\ halves' = n.halves /\ SlabsOK /\ halves \in [Core -> Int]
      /\ n.live \in [Core -> Int] /\ n.halves \in [Core -> Int]
  BY DEF Good, TypeOK, Turns, Worlds
<1>2. ASSUME NEW c \in Core
      PROVE  Collected(c, n) \in SlabStates
  BY <1>1 DEF Collected, SlabStates
<1>3. ASSUME NEW c \in Core
      PROVE  halves'[c] >= 0 /\ (halves'[c] = 0 => slab'[c] = "ok")
  <2>1. halves[c] >= 0 /\ n.halves[c] >= halves[c] /\ (halves[c] = 0 => slab[c] = "ok")
    BY <1>1 DEF SlabsOK, Later
  <2>2. n.halves[c] >= 0 /\ (n.halves[c] = 0 => halves[c] = 0)
    BY <1>1, <2>1
  <2>3. ASSUME n.halves[c] = 0 PROVE Collected(c, n) = "ok"
    <3> DEFINE alive == EventsOf(c, n.ev)
               linked == BlocksOf(c, n.ev)
    <3>1. slab[c] = "ok" /\ n.live[c] = Cardinality(alive) + Cardinality(linked)
      BY <1>1, <2>1, <2>2, <2>3 DEF Counted
    <3>2. IsFiniteSet(alive) /\ Cardinality(alive) \in Nat /\ Cardinality(linked) \in Nat
      BY CountsAre
    <3>3. Cardinality(alive) = 0 <=> alive = {}
      BY <3>2, FS_EmptySet
    <3> HIDE DEF alive, linked
    <3>4. ~(n.live[c] < 0) /\ (n.live[c] = 0 => alive = {})
      BY <3>1, <3>2, <3>3
    <3> QED  BY <3>1, <3>4 DEF Collected, alive
  <2> QED  BY <1>1, <2>1, <2>2, <2>3
<1>4. slab' \in [Core -> SlabStates]
  BY <1>1, <1>2
<1> QED  BY <1>3, <1>4 DEF SlabsOK

\* A step of a thread that is awake
LEMMA StepGood ==
  ASSUME Good, sim.inCSim, NEW t \in Threads, th[t].pc # "asleep", NEW d \in Domain,
         NEW i, i \notin Others(t), NEW n \in Worlds, n.ok, Turns(n), Near(n, d, i),
         sim' = sim, lastCrossing' = lastCrossing,
         NEW m \in ThreadRec, th' = [th EXCEPT ![t] = m], NoneStalled(m), Tidy(t, m), m.ev \in {i, NoId},
         EventOK(m, n), WorkGoesOn(t, d, m), d \in WorkOf(t, m) \/ Over(d, sim.limit)',
         WorldOK(n, Pending', Others(t) \cup Mine(m.ev), ToldOthers(t) \cup MineTold(m), {}),
         cache' \in [Domain -> CacheRec], PendOK', RecStep(i)
  PROVE  Good'
<1>1. /\ ev' = n.ev /\ pq' = n.pq /\ curCycle' = n.cur /\ live' = n.live /\ halves' = n.halves
  BY DEF Turns
<1>2. TypeOK /\ th \in [Threads -> ThreadRec] /\ Threads' = Threads
  BY DEF Good, TypeOK, Threads
<1>3. th'[t] = m /\ \A u \in Threads : u # t => th'[u] = th[u]
  BY <1>2
<1>0. slab' \in [Core -> SlabStates] /\ SlabsOK'
  BY SlabsTurn DEF WorldOK
<1>4. TypeOK'
  <2>1. th' \in [Threads -> ThreadRec]
    BY <1>2
  <2>2. rec' \in [Core -> RecRec]
    BY DEF RecStep
  <2>3. /\ ev' \in [Ids -> EventRec] /\ pq' \in [Domain -> Ordered] /\ curCycle' \in [Domain -> Nat]
        /\ live' \in [Core -> Int] /\ halves' \in [Core -> Int]
    BY <1>1 DEF Worlds
  <2> QED  BY <1>0, <1>2, <2>1, <2>2, <2>3 DEF TypeOK
<1>5. Held' = Others(t) \cup Mine(m.ev) /\ ToldIds' = ToldOthers(t) \cup MineTold(m)
  <2>1. Held' = Others(t) \cup Mine(m.ev)
    BY <1>2, <1>3 DEF Held, Others, Mine
  <2>2. ToldIds' = ToldOthers(t) \cup MineTold(m)
    <3>1. \A u \in Threads : (th'[u].pc = "after") <=> IF u = t THEN m.pc = "after" ELSE th[u].pc = "after"
      BY <1>3
    <3>2. ToldIds' = {th'[u].ev : u \in {v \in Threads : th'[v].pc = "after"}} \ {NoId}
      BY <1>2 DEF ToldIds
    <3>3. {th'[u].ev : u \in {v \in Threads : th'[v].pc = "after"}}
            = {th[u].ev : u \in {v \in Threads \ {t} : th[v].pc = "after"}}
              \cup (IF m.pc = "after" THEN {m.ev} ELSE {})
      BY <1>3, <3>1
    <3> QED  BY <3>2, <3>3 DEF ToldOthers, MineTold, Mine
  <2> QED  BY <2>1, <2>2
<1>6. Horizon' = sim.limit
  BY DEF Horizon
<1>7. /\ Struct(ev', pq', Pending', Held', ToldIds', {}) /\ Counted(ev', live', halves')
      /\ LastOK(ev', lastCrossing', Horizon')
  BY <1>1, <1>5, <1>6 DEF WorldOK
<1>8. HeldOK'
  <2> SUFFICES ASSUME NEW u \in Threads
               PROVE  /\ th'[u].ev # NoId => ThreadEventOK(u)'
                      /\ th'[u].pc \in {"look", "recheck"} => th'[u].ev # NoId
                      /\ th'[u].pc = "recheck" => th'[u].next >= th'[u].cyc
    BY <1>2 DEF HeldOK
  <2>1. CASE u = t
    <3>1. th'[u].ev # NoId => ThreadEventOK(u)'
      <4> HAVE th'[u].ev # NoId
      <4>1. m.ev = i /\ i # NoId /\ th'[u] = m
        BY <1>3, <2>1
      <4>2. \A v \in Threads' : th'[v].ev = th'[u].ev => v = u
        BY <1>2, <1>3, <2>1, <4>1 DEF Others
      <4>3. LET e == ev'[m.ev] IN
            /\ e.dom = m.dom /\ m.pc \in {"look", "recheck", "after"}
            /\ m.pc = "after" => e.xing # NoId
            /\ m.pc # "after" => e.kind = "cross" /\ e.minStart <= m.cyc /\ e.minStart <= sim'.limit
        BY <1>1, <4>1 DEF EventOK
      <4> QED  BY <4>1, <4>2, <4>3 DEF ThreadEventOK
    <3> QED  BY <1>3, <2>1, <3>1 DEF EventOK
  <2>2. CASE u # t
    <3>1. th'[u] = th[u]
      BY <1>3, <2>2
    <3>2. /\ th[u].ev # NoId => ThreadEventOK(u)
          /\ th[u].pc \in {"look", "recheck"} => th[u].ev # NoId
          /\ th[u].pc = "recheck" => th[u].next >= th[u].cyc
      BY DEF Good, HeldOK
    <3>3. th[u].ev # NoId => ThreadEventOK(u)'
      <4> HAVE th[u].ev # NoId
      <4> DEFINE j == th[u].ev
      <4>1. j \in Ids /\ j # i
        BY <1>2, <2>2 DEF ThreadRec, MaybeId, Others
      <4>2. LET e == ev'[j] IN /\ e.dom = ev[j].dom /\ e.kind = ev[j].kind /\ e.xing = ev[j].xing
                               /\ e.minStart = ev[j].minStart
        BY <1>1, <4>1 DEF Near
      <4>3. \A v \in Threads : th'[v].ev = j => v = u
        BY <1>3, <2>2, <3>2, <4>1 DEF ThreadEventOK
      <4>4. LET l == th[u]  e == ev[j] IN
            /\ e.dom = l.dom /\ l.pc \in {"look", "recheck", "after"}
            /\ l.pc = "after" => e.xing # NoId
            /\ l.pc # "after" => e.kind = "cross" /\ e.minStart <= l.cyc /\ e.minStart <= sim.limit
        BY <3>2 DEF ThreadEventOK
      <4> QED  BY <1>2, <3>1, <4>2, <4>3, <4>4 DEF ThreadEventOK
    <3> QED  BY <3>1, <3>2, <3>3
  <2> QED  BY <2>1, <2>2
<1>9. RecOK'
  <2> SUFFICES ASSUME NEW c \in Core
               PROVE  /\ rec'[c].prevRespCycle <= rec'[c].curCycle /\ PrevOK(c)'
                      /\ rec'[c].state = "HALTED" => rec'[c].prevRespEvent = NoId
                      /\ rec'[c].state = "RUNNING" => rec'[c].prevRespEvent # NoId
    BY DEF RecOK
  <2> DEFINE r == rec[c]
             s == rec'[c]
  <2>1. /\ s.prevRespCycle = r.prevRespCycle /\ s.curCycle = r.curCycle /\ s.state = r.state
        /\ s.prevRespEvent \in {r.prevRespEvent, NoId}
        /\ s.prevRespEvent # r.prevRespEvent => r.state = "DRAINING"
        /\ s.prevRespEvent # NoId => s.prevRespEvent # i
    BY DEF RecStep
  <2>2. /\ r.prevRespCycle <= r.curCycle /\ PrevOK(c) /\ r.prevRespEvent \in MaybeId
        /\ r.state = "HALTED" => r.prevRespEvent = NoId
        /\ r.state = "RUNNING" => r.prevRespEvent # NoId
    BY <1>2 DEF Good, RecOK, TypeOK, RecRec
  <2>3. PrevOK(c)'
    <3> SUFFICES ASSUME s.prevRespEvent # NoId
                 PROVE  /\ s.prevRespEvent[1] = c /\ ev'[s.prevRespEvent].kind \notin {"none", "cross"}
                        /\ s.prevRespEvent \notin ToldIds'
                        /\ ev'[s.prevRespEvent].kind = "core"
      BY DEF PrevOK
    <3> DEFINE j == r.prevRespEvent
    <3>1. s.prevRespEvent = j /\ j \in Ids /\ j # i
      BY <2>1, <2>2 DEF MaybeId
    <3>2. j[1] = c /\ ev[j].kind = "core" /\ j \notin ToldIds
      BY <2>2, <3>1, NoIdIs DEF PrevOK
    <3>3. ev'[j].kind = ev[j].kind
      BY <1>1, <3>1 DEF Near
    <3>4. j \notin ToldIds'
      <4>1. j \notin ToldOthers(t)
        BY <3>2, OthersAre
      <4> QED  BY <1>5, <3>1, <4>1 DEF MineTold, Mine
    <3> QED  BY <3>1, <3>2, <3>3, <3>4
  <2> QED  BY <2>1, <2>2, <2>3
<1>10. \A u \in Threads' : LocalOK(u)'
  <2> SUFFICES ASSUME NEW u \in Threads PROVE LocalOK(u)'
    BY <1>2
  <2>1. LocalOK(u)
    BY DEF Good
  <2>2. CASE u = t
    <3>1. t \notin sim.woken
      BY DEF Good, LocalOK
    <3>2. Tidy(t, th[t])'
      BY <1>3 DEF Tidy, Alone
    <3> QED  BY <1>3, <2>2, <3>1, <3>2 DEF LocalOK, EventOK
  <2>3. CASE u # t
    BY <1>3, <2>1, <2>3 DEF LocalOK, Tidy, Alone
  <2> QED  BY <2>2, <2>3
<1>11. CountOK'
  <2>1. Slept' = Slept
    BY <1>2, <1>3 DEF Slept, EventOK
  <2> QED  BY <1>2, <2>1 DEF Good, CountOK
<1>12. DomainsOK'
  <2> SUFFICES ASSUME NEW b \in Domain
               PROVE  Over(b, sim.limit)' \/ \E u \in Threads : b \in Works(u)'
    BY <1>2 DEF DomainsOK
  <2>1. Over(b, sim.limit) \/ \E u \in Threads : b \in Works(u)
    BY DEF Good, DomainsOK
  <2>2. Works(t)' = WorkOf(t, m)
    BY <1>3 DEF Works, WorkOf, Alone, EventOK
  <2>3. CASE b = d
    BY <2>2, <2>3
  <2>4. CASE b # d /\ Over(b, sim.limit)
    BY <1>1, <2>4 DEF Over, Near
  <2>5. ASSUME b # d, NEW u \in Threads, b \in Works(u)
        PROVE  \E v \in Threads : b \in Works(v)'
    <3>1. CASE u = t
      BY <2>2, <2>5, <3>1 DEF WorkGoesOn
    <3>2. CASE u # t
      <4>1. Works(u)' = Works(u)
        BY <1>3, <3>2 DEF Works, WorkOf, Alone, DomainsOf
      <4> QED  BY <2>5, <4>1
    <3> QED  BY <3>1, <3>2
  <2> QED  BY <2>1, <2>3, <2>4, <2>5
<1> QED  BY <1>0, <1>4, <1>7, <1>8, <1>9, <1>10, <1>11, <1>12 DEF Good

-----------------------------------------------------------------------------
(* The weave phase: an event that runs again later                         *)

\* What a thread runs is not waiting for an MSHR.
LEMMA HeldApart ==
  ASSUME Good
  PROVE  Held \cap Pending = {} /\ Pending \subseteq Ids
<1>1. PlacesOK(ev, Pending, Held, {}) /\ Pending \subseteq Ids
  BY DEF Good, Struct, TypeOK, CacheRec, Pending
<1> QED  BY <1>1 DEF PlacesOK

\* An assertion on the way
LEMMA RunningTurned ==
  ASSUME NEW t, NEW d, NEW i, NEW w, NEW P, Running(t, d, i, w, P), NEW ok, ok \in BOOLEAN,
         ok => w.ok, NEW n, n = Turned(w, w.ev, ok)
  PROVE  Running(t, d, i, n, P)
<1>1. w \in Worlds /\ w.ev \in [Ids -> EventRec]
  BY DEF Running, Worlds
<1>2. /\ n \in Worlds /\ n.ev = w.ev /\ n.pq = w.pq /\ n.cur = w.cur /\ n.live = w.live
      /\ n.halves = w.halves /\ n.ok = ok
  BY <1>1, TurnedIs
<1>3. Near(n, d, i)
  BY <1>2 DEF Running, Near
<1>4. n.ok => WorldOK(n, P, Others(t) \cup {i}, ToldOthers(t), {})
  BY <1>2 DEF Running, WorldOK
<1> QED  BY <1>2, <1>3, <1>4 DEF Running

\* The event is queued again.
LEMMA RunningRequeued ==
  ASSUME NEW t, NEW d, NEW i, NEW w, NEW P, Running(t, d, i, w, P), NEW cycle \in Nat,
         w.ev[i].kind = "cross" => cycle >= w.ev[i].minStart,
         NEW n, n = Requeue(w, d, {i}, cycle)
  PROVE  Left(t, d, i, NoId, n, P)
<1> DEFINE S == {i}
           X == Others(t) \cup {i}
           T == ToldOthers(t)
<1>1. w \in Worlds /\ w.ev \in [Ids -> EventRec] /\ d \in Domain /\ i \in Ids /\ S \in SUBSET Ids
  BY DEF Running, Worlds
<1>2. n = Requeue(w, d, S, cycle)
  OBVIOUS
<1>3. P \ S = P /\ X \ S = Others(t) /\ S \subseteq P \cup X
  BY DEF Running
<1>4. \A j \in S : w.ev[j].dom = d /\ (w.ev[j].kind = "cross" => cycle >= w.ev[j].minStart)
  BY DEF Running
<1> HIDE DEF S
<1>5. /\ n \in Worlds /\ Beside(n, w, d) /\ n.ev = NowQueued(w.ev, S)
      /\ \A P1, X1, T1 :
              /\ n.ok /\ WorldOK(w, P1, X1, T1, {}) /\ S \subseteq P1 \cup X1
              /\ \A j \in S : w.ev[j].dom = d /\ (w.ev[j].kind = "cross" => cycle >= w.ev[j].minStart)
              => WorldOK(n, P1 \ S, X1 \ S, T1, {})
  BY <1>1, <1>2, RequeueOK
<1>6. KinAll(n.ev, w.ev)
  BY <1>1, <1>5, NowQueuedIs
<1>7. Near(n, d, i)
  <2>1. Near(w, d, i)
    BY DEF Running
  <2>2. \A b \in Domain : b # d => n.pq[b] = pq[b] /\ n.cur[b] = curCycle[b]
    BY <1>5, <2>1 DEF Near, Beside
  <2>3. \A j \in Ids : j # i => /\ n.ev[j].kind = ev[j].kind /\ n.ev[j].dom = ev[j].dom
                               /\ n.ev[j].minStart = ev[j].minStart /\ n.ev[j].xing = ev[j].xing
    BY <1>6, <2>1 DEF Near, KinAll, Kin
  <2> QED  BY <2>2, <2>3 DEF Near
<1>8. ASSUME n.ok PROVE WorldOK(n, P, Others(t) \cup Mine(NoId), ToldOthers(t) \cup Mine(NoId), {})
  <2>1. WorldOK(w, P, X, T, {})
    BY <1>5, <1>8 DEF Running, Beside
  <2> HIDE DEF X, T
  <2>2. WorldOK(n, P \ S, X \ S, T, {})
    BY <1>3, <1>4, <1>5, <1>8, <2>1
  <2>3. Others(t) \cup Mine(NoId) = X \ S /\ ToldOthers(t) \cup Mine(NoId) = T
    BY <1>3 DEF Mine, T
  <2> QED  BY <1>3, <2>2, <2>3
<1> QED  BY <1>5, <1>7, <1>8 DEF Left

\* All events that wait for an MSHR of the domain are queued again.
LEMMA RunningReleased ==
  ASSUME Good, NEW t \in Threads, NEW d, NEW i, NEW w, Running(t, d, i, w, Pending), NEW cycle \in Nat,
         NEW S, S = cache[d].pendingQueue, NEW n, n = Requeue(w, d, S, cycle)
  PROVE  Running(t, d, i, n, Pending \ S)
<1> DEFINE P == Pending
           X == Others(t) \cup {i}
           T == ToldOthers(t)
<1>1. w \in Worlds /\ w.ev \in [Ids -> EventRec] /\ d \in Domain /\ i \in Ids /\ i \notin P
  BY DEF Running, Worlds
<1>2. S \in SUBSET Ids /\ S \subseteq P
  BY <1>1 DEF Good, TypeOK, CacheRec, Pending
<1>3. X \ S = X
  BY <1>1, <1>2, HeldApart, OthersAre
<1>4. \A j \in S : w.ev[j].dom = d
  <2> TAKE j \in S
  <2>1. j \in Ids /\ j # i /\ ev[j].dom = d
    BY <1>1, <1>2 DEF Good, PendOK
  <2> QED  BY <2>1 DEF Running, Near
<1>5. n \in Worlds /\ Beside(n, w, d) /\ n.ev = NowQueued(w.ev, S)
  <2>1. w \in Worlds /\ d \in Domain /\ S \in SUBSET Ids /\ cycle \in Nat /\ n = Requeue(w, d, S, cycle)
    BY <1>1, <1>2
  <2>2. n \in Worlds
    BY ONLY <2>1, RequeueOK
  <2>3. Beside(n, w, d)
    BY ONLY <2>1, RequeueOK
  <2>4. n.ev = NowQueued(w.ev, S)
    <3> DEFINE R == S
    <3>1. R = S
      OBVIOUS
    <3> HIDE DEF R
    <3>2. n = Requeue(w, d, R, cycle) /\ R \in SUBSET Ids
      BY <2>1, <3>1
    <3>3. n.ev = NowQueued(w.ev, R)
      BY <2>1, <3>2, RequeueOK
    <3> QED  BY <3>1, <3>3
  <2> QED  BY <2>2, <2>3, <2>4
<1>6. KinAll(n.ev, w.ev)
  BY <1>1, <1>5, NowQueuedIs
<1>7. Near(n, d, i)
  BY <1>5, <1>6 DEF Running, Near, Beside, KinAll, Kin
<1>8. ASSUME n.ok PROVE WorldOK(n, P \ S, X, T, {})
  <2>1. WorldOK(w, P, X, T, {})
    BY <1>5, <1>8 DEF Running, Beside
  <2>2. \A j \in S : w.ev[j].kind # "cross"
    BY <1>2, <2>1 DEF WorldOK, Struct, PlacesOK
  <2> HIDE DEF X, T, P
  <2>3. /\ w \in Worlds /\ d \in Domain /\ S \in SUBSET Ids /\ cycle \in Nat
        /\ n.ok /\ WorldOK(w, P, X, T, {}) /\ S \subseteq P \cup X
        /\ \A j \in S : w.ev[j].dom = d /\ (w.ev[j].kind = "cross" => cycle >= w.ev[j].minStart)
    BY <1>1, <1>2, <1>4, <1>8, <2>1, <2>2
  <2>4. WorldOK(n, P \ S, X \ S, T, {})
    BY <2>3, RequeueOK
  <2> QED  BY <1>3, <2>4
<1>9. /\ n.ev[i].kind = w.ev[i].kind /\ n.ev[i].dom = w.ev[i].dom
      /\ n.ev[i].minStart = w.ev[i].minStart /\ n.ev[i].xing = w.ev[i].xing
  BY <1>1, <1>6 DEF KinAll, Kin
<1> QED  BY <1>1, <1>5, <1>7, <1>8, <1>9 DEF Running

\* The event waits for an MSHR.
LEMMA RunningHeld ==
  ASSUME NEW t, NEW d, NEW i, NEW w, NEW P, Running(t, d, i, w, P),
         w.ev[i].kind \in {"hit", "missStart"},
         NEW n, n = Turned(w, WithEvent(w.ev, i, WithState(w.ev[i], "held")), w.ok)
  PROVE  Left(t, d, i, NoId, n, P \cup {i})
<1> DEFINE E == w.ev
           e == WithState(E[i], "held")
           F == WithEvent(E, i, e)
           X == Others(t) \cup {i}
           T == ToldOthers(t)
           Q == w.pq
<1>1. w \in Worlds /\ E \in [Ids -> EventRec] /\ i \in Ids /\ Q \in [Domain -> Ordered]
      /\ w.ok \in BOOLEAN
  BY DEF Running, Worlds
<1>2. e \in EventRec /\ Kin(e, E[i]) /\ "held" \in States
  <2>1. E[i] \in EventRec /\ "held" \in States
    BY <1>1 DEF States
  <2> QED  BY <2>1, WithStateIs DEF Kin
<1>3. F \in [Ids -> EventRec] /\ F[i] = e /\ \A j \in Ids : j # i => F[j] = E[j]
  BY <1>1, <1>2, WithEventIs
<1>4. n = Turned(w, F, w.ok)
  OBVIOUS
<1> HIDE DEF E, F, e
<1>5. /\ n \in Worlds /\ n.ev = F /\ n.pq = w.pq /\ n.cur = w.cur /\ n.live = w.live
      /\ n.halves = w.halves /\ n.ok = w.ok
  BY <1>1, <1>3, <1>4, TurnedIs
<1>6. KinAll(F, E)
  BY <1>2, <1>3 DEF KinAll, Kin
<1>7. Near(n, d, i)
  BY <1>5, <1>6 DEF Running, Near, KinAll, Kin, E
<1>8. ASSUME n.ok
      PROVE  WorldOK(n, P \cup {i}, Others(t) \cup Mine(NoId), ToldOthers(t) \cup Mine(NoId), {})
  <2>1. /\ Struct(E, Q, P, X, T, {}) /\ Counted(E, w.live, w.halves) /\ LastOK(E, lastCrossing, sim.limit)
        /\ Later(w.halves)
    BY <1>5, <1>8 DEF Running, WorldOK, E
  <2>2. i \in X /\ X \ {i} = Others(t) /\ E[i].kind \in {"hit", "missStart"}
    BY DEF Running, E
  <2> HIDE DEF X, T, Q
  <2>3. Struct(F, Q, P \cup {i}, X \ {i}, T, {})
    BY <1>1, <2>1, <2>2, HoldStruct DEF F, e
  <2>4. \A j \in Ids : /\ F[j].kind = E[j].kind /\ F[j].dom = E[j].dom /\ F[j].kids = E[j].kids
                       /\ F[j].minStart = E[j].minStart /\ F[j].xing = E[j].xing
    BY <1>1, <1>6, KinFields
  <2>5. Counted(F, w.live, w.halves)
    BY <1>1, <2>1, <2>4, KinCounted
  <2>6. LastOK(F, lastCrossing, sim.limit)
    BY <2>1, <2>4, KinLast
  <2>7. Others(t) \cup Mine(NoId) = X \ {i} /\ ToldOthers(t) \cup Mine(NoId) = T
    BY <2>2 DEF Mine, T
  <2> QED  BY <1>5, <2>1, <2>3, <2>5, <2>6, <2>7 DEF WorldOK, Q
<1> QED  BY <1>5, <1>7, <1>8 DEF Left

-----------------------------------------------------------------------------
(* The weave phase: the event that a thread takes from a queue              *)

\* The world as it is
LEMMA WorldIs ==
  ASSUME Good, sim.inCSim
  PROVE  /\ World \in Worlds /\ World.ev = ev /\ World.pq = pq /\ World.cur = curCycle
         /\ World.live = live /\ World.halves = halves /\ World.ok = TRUE
         /\ WorldOK(World, Pending, Held, ToldIds, {})
<1>1. /\ World.ev = ev /\ World.pq = pq /\ World.cur = curCycle
      /\ World.live = live /\ World.halves = halves /\ World.ok = TRUE
  BY DEF World
<1>2. World \in Worlds
  <2>1. /\ ev \in [Ids -> EventRec] /\ pq \in [Domain -> Ordered] /\ curCycle \in [Domain -> Nat]
        /\ live \in [Core -> Int] /\ halves \in [Core -> Int]
    BY DEF Good, TypeOK
  <2> QED  BY <2>1 DEF World, Worlds
<1>3. /\ Struct(ev, pq, Pending, Held, ToldIds, {}) /\ Counted(ev, live, halves)
      /\ LastOK(ev, lastCrossing, sim.limit)
  BY DEF Good, Horizon
<1>4. Later(halves)
  BY DEF Later, Good, TypeOK
<1> QED  BY <1>1, <1>2, <1>3, <1>4 DEF WorldOK

\* It with an event taken from a queue
TakenWorld(d, i, r, c, ok) ==
  [World EXCEPT !.pq[d] = r, !.ev[i].state = "running", !.cur[d] = c, !.ok = ok]

\* Its fields
LEMMA TakenIs ==
  ASSUME Good, sim.inCSim, NEW d \in Domain, NEW i \in Ids, NEW r \in Ordered, NEW c \in Nat,
         NEW ok, ok \in BOOLEAN, NEW w, w = TakenWorld(d, i, r, c, ok)
  PROVE  /\ w \in Worlds /\ w.ev = WithEvent(ev, i, WithState(ev[i], "running"))
         /\ w.pq \in [Domain -> Ordered] /\ w.pq[d] = r /\ \A b \in Domain : b # d => w.pq[b] = pq[b]
         /\ \A b \in Domain : b # d => w.cur[b] = curCycle[b]
         /\ w.live = live /\ w.halves = halves /\ w.ok = ok
<1> DEFINE e == WithState(ev[i], "running")
           E == WithEvent(ev, i, e)
           Q == [pq EXCEPT ![d] = r]
           C == [curCycle EXCEPT ![d] = c]
           v == World
<1>1. w = [v EXCEPT !.pq = Q, !.ev = E, !.cur = C, !.ok = ok]
  <2>1. v.ev = ev /\ v.pq = pq /\ v.cur = curCycle
    BY WorldIs
  <2> HIDE DEF v
  <2>2. w = [v EXCEPT !.pq[d] = r, !.ev[i].state = "running", !.cur[d] = c, !.ok = ok]
    BY DEF TakenWorld, v
  <2> QED  BY <2>1, <2>2 DEF WithEvent, WithState
<1>2. /\ ev \in [Ids -> EventRec] /\ pq \in [Domain -> Ordered] /\ curCycle \in [Domain -> Nat]
  BY DEF Good, TypeOK
<1>3. e \in EventRec
  <2>1. ev[i] \in EventRec /\ "running" \in States
    BY <1>2 DEF States
  <2> QED  BY <2>1, WithStateIs
<1> HIDE DEF e
<1>4. E \in [Ids -> EventRec]
  BY <1>2, <1>3, WithEventIs
<1>5. /\ Q \in [Domain -> Ordered] /\ Q[d] = r /\ \A b \in Domain : b # d => Q[b] = pq[b]
      /\ C \in [Domain -> Nat] /\ \A b \in Domain : b # d => C[b] = curCycle[b]
  BY <1>2
<1>6. v \in Worlds /\ v.live = live /\ v.halves = halves
  BY WorldIs
<1> HIDE DEF E, Q, C, v
<1>7. w \in Worlds
  BY <1>1, <1>4, <1>5, <1>6 DEF Worlds
<1>8. /\ w.ev = E /\ w.pq = Q /\ w.cur = C /\ w.ok = ok /\ w.live = v.live /\ w.halves = v.halves
  BY <1>1, <1>6 DEF Worlds
<1> QED  BY <1>5, <1>6, <1>7, <1>8 DEF E, e

\* A thread that looks for work runs nothing.
LEMMA LoopIs ==
  ASSUME Good, NEW t \in Threads, th[t].pc = "loop"
  PROVE  th[t].ev = NoId /\ Held = Others(t) /\ ToldIds = ToldOthers(t)
<1>1. th[t].ev = NoId
  BY DEF Good, LocalOK
<1> QED  BY <1>1, OthersAre

\* What thread t takes from the queue of domain d is its own, and due.
LEMMA TakenOK ==
  ASSUME Good, sim.inCSim, NEW t \in Threads, th[t].pc = "loop", NEW d \in Domain, Due(t, d),
         NEW q, q = Advanced(pq[d], Rounds(pq[d])), NEW i \in Firsts(q),
         NEW cycle, cycle = DequeueCycle(q), NEW ok, ok \in BOOLEAN,
         NEW w, w = TakenWorld(d, i, Removed(q, i), cycle, ok)
  PROVE  /\ Running(t, d, i, w, Pending) /\ cycle \in Nat /\ w.ok = ok
         /\ w.ev[i].kind = "cross" => w.ev[i].minStart <= cycle
<1> DEFINE Q == pq
           R == w.pq
           X == Others(t)
           T == ToldOthers(t)
           P == Pending
           e == WithState(ev[i], "running")
           E == WithEvent(ev, i, e)
<1>1. /\ ev \in [Ids -> EventRec] /\ Q \in [Domain -> Ordered] /\ Q[d] \in Ordered /\ sim.limit \in Nat
  BY DEF Good, TypeOK, SimRec
<1>2. Struct(ev, Q, P, X, T, {}) /\ Counted(ev, live, halves) /\ LastOK(ev, lastCrossing, sim.limit)
  BY LoopIs DEF Good, Horizon
<1>3. IsFiniteSet(Entries(Q[d])) /\ ~QueueEmpty(Q[d])
  BY <1>2 DEF Struct, QueuesOK, Due
<1>4. /\ i \in Ids /\ cycle \in Nat /\ Removed(q, i) \in Ordered /\ <<cycle, i>> \in Entries(Q[d])
      /\ Entries(Removed(q, i)) = Entries(Q[d]) \ {<<cycle, i>>}
      /\ \A p \in Entries(Q[d]) : cycle <= p[1]
  BY <1>1, <1>3, Dequeues
<1>5. cycle <= sim.limit
  <2>1. FirstCycle(Q[d]) \in Nat /\ \E p \in Entries(Q[d]) : p[1] = FirstCycle(Q[d])
    BY <1>1, <1>3, FirstCycleOf
  <2>2. FirstCycle(Q[d]) <= sim.limit
    BY <1>1, <2>1 DEF Due
  <2> QED  BY <1>1, <1>4, <2>1, <2>2
<1>6. /\ w \in Worlds /\ w.ev = E /\ R \in [Domain -> Ordered] /\ R[d] = Removed(q, i)
      /\ \A b \in Domain : b # d => R[b] = Q[b] /\ w.cur[b] = curCycle[b]
      /\ w.live = live /\ w.halves = halves /\ w.ok = ok
  BY <1>4, TakenIs
<1>7. ev[i] \in EventRec /\ "running" \in States
  BY <1>1, <1>4 DEF States
<1>8. e \in EventRec /\ Kin(e, ev[i])
  BY <1>7, WithStateIs DEF Kin
<1>9. E \in [Ids -> EventRec] /\ E[i] = e /\ \A j \in Ids : j # i => E[j] = ev[j]
  <2> HIDE DEF e
  <2> QED  BY <1>1, <1>4, <1>8, WithEventIs
<1>10. T \in SUBSET X
  BY OthersAre
<1> HIDE DEF Q, R, X, T, P
<1>11. /\ Struct(E, R, P, X \cup {i}, T, {})
       /\ i \notin P /\ i \notin X /\ ev[i].dom = d /\ ev[i].kind # "none"
       /\ ev[i].kind = "cross" => ev[i].minStart <= cycle
  <2>1. /\ ev \in [Ids -> EventRec] /\ Q \in [Domain -> Ordered] /\ T \in SUBSET X
        /\ Struct(ev, Q, P, X, T, {}) /\ <<cycle, i>> \in Entries(Q[d]) /\ i \in Ids
        /\ R \in [Domain -> Ordered] /\ Entries(R[d]) = Entries(Q[d]) \ {<<cycle, i>>}
        /\ \A b \in Domain : b # d => R[b] = Q[b]
    BY <1>1, <1>2, <1>4, <1>6, <1>10
  <2> DEFINE V == ev
             j == i
             c == cycle
  <2>2. /\ V \in [Ids -> EventRec] /\ Q \in [Domain -> Ordered] /\ T \in SUBSET X
        /\ Struct(V, Q, P, X, T, {}) /\ <<c, j>> \in Entries(Q[d]) /\ j \in Ids
        /\ R \in [Domain -> Ordered] /\ Entries(R[d]) = Entries(Q[d]) \ {<<c, j>>}
        /\ \A b \in Domain : b # d => R[b] = Q[b]
    BY <2>1
  <2>3. E = WithEvent(V, j, WithState(V[j], "running"))
    OBVIOUS
  <2> HIDE DEF E, e, V, j, c
  <2>4. Struct(WithEvent(V, j, WithState(V[j], "running")), R, P, X \cup {j}, T, {})
    BY <2>2, TakeStruct, SMTT(30)
  <2>5. /\ j \notin P /\ j \notin X /\ V[j].dom = d /\ V[j].kind # "none"
        /\ V[j].kind = "cross" => V[j].minStart <= c
    <3>1. EntryOK(V, d, {}, <<c, j>>) /\ PlacesOK(V, P, X, {})
      BY <2>2 DEF Struct, QueuesOK
    <3> QED  BY <2>2, <3>1 DEF EntryOK, PlacesOK
  <2> QED  BY <2>3, <2>4, <2>5 DEF V, j, c
<1> HIDE DEF E, e
<1>12. KinAll(E, ev)
  BY <1>8, <1>9 DEF KinAll, Kin
<1>13. \A j \in Ids : /\ E[j].kind = ev[j].kind /\ E[j].dom = ev[j].dom /\ E[j].kids = ev[j].kids
                      /\ E[j].minStart = ev[j].minStart /\ E[j].xing = ev[j].xing
  BY <1>1, <1>12, KinFields
<1>14. WorldOK(w, P, X \cup {i}, T, {})
  <2>1. Counted(E, live, halves)
    BY <1>1, <1>2, <1>13, KinCounted
  <2>2. LastOK(E, lastCrossing, sim.limit)
    BY <1>2, <1>13, KinLast
  <2>3. Later(halves)
    BY DEF Later, Good, TypeOK
  <2> QED  BY <1>6, <1>11, <2>1, <2>2, <2>3 DEF WorldOK, R
<1>15. Near(w, d, i)
  BY <1>6, <1>13 DEF Near, Q, R
<1>16. w.ev[i].kind = "cross" => w.ev[i].minStart <= cycle /\ w.ev[i].minStart <= sim.limit
  <2> HAVE w.ev[i].kind = "cross"
  <2>1. w.ev[i].minStart <= cycle
    BY <1>4, <1>6, <1>11, <1>13
  <2>2. w.ev[i].minStart \in Nat
    BY <1>4, <1>6 DEF Worlds, EventRec
  <2> QED  BY <1>1, <1>4, <1>5, <2>1, <2>2
<1>17. /\ w.ev[i].dom = d /\ w.ev[i].kind = ev[i].kind /\ w.ev[i].minStart = ev[i].minStart
       /\ w.ev[i].xing = ev[i].xing
  BY <1>4, <1>6, <1>11, <1>13
<1> QED  BY <1>4, <1>6, <1>11, <1>14, <1>15, <1>16, <1>17 DEF Running, X, T, P

\* A crossing that a thread looks after is its own.
LEMMA LookingOK ==
  ASSUME Good, sim.inCSim, NEW t \in Threads, th[t].pc \in {"look", "recheck"}
  PROVE  /\ Running(t, th[t].dom, th[t].ev, World, Pending)
         /\ World.ev[th[t].ev].kind = "cross" /\ World.ev[th[t].ev].minStart <= th[t].cyc
<1> DEFINE l == th[t]
           i == th[t].ev
<1>1. l \in ThreadRec
  BY DEF Good, TypeOK
<1>2. i \in Ids /\ l.dom \in Domain
  BY <1>1 DEF Good, HeldOK, ThreadRec, MaybeId
<1>3. /\ \A u \in Threads : th[u].ev = i => u = t
      /\ ev[i].dom = l.dom /\ ev[i].kind = "cross" /\ ev[i].minStart <= l.cyc
      /\ ev[i].minStart <= sim.limit
  BY DEF Good, HeldOK, ThreadEventOK
<1>4. i \notin Others(t)
  BY <1>3 DEF Others
<1>5. Held = Others(t) \cup {i} /\ ToldIds = ToldOthers(t)
  BY <1>2, OthersAre, NoIdIs
<1>6. i \notin Pending
  BY <1>5, HeldApart
<1>7. /\ World \in Worlds /\ World.ev = ev /\ World.pq = pq /\ World.cur = curCycle
      /\ WorldOK(World, Pending, Held, ToldIds, {})
  BY WorldIs
<1>8. Near(World, l.dom, i)
  BY <1>7 DEF Near
<1> QED  BY <1>2, <1>3, <1>4, <1>5, <1>6, <1>7, <1>8 DEF Running

-----------------------------------------------------------------------------
(* The weave phase: the step of a thread that has run an event             *)

\* What the local state l of a thread that works on domain d leaves to do
Fit(t, d, l) ==
  /\ l \in ThreadRec /\ th[t].pc # "asleep" /\ WorkGoesOn(t, d, l)
  /\ l.pc = "loop" \/ l.dom = d
  /\ ~l.fromStalled => (l.stalled = <<>> => l.nextStalled = <<>>)
  /\ Alone(t) => d = t /\ l.domPq = {} /\ l.stalled = <<>> /\ l.nextStalled = <<>>
Same(m, l, d) ==
  /\ m \in ThreadRec /\ m.dom = d /\ m.pc \in {"look", "recheck", "after"}
  /\ m.domPq = l.domPq /\ m.stalled = l.stalled /\ m.nextStalled = l.nextStalled
  /\ m.fromStalled = l.fromStalled

\* The domain is still the thread's, and so are the others.
LEMMA SameWork ==
  ASSUME NEW t, NEW d \in Domain, NEW l, NEW m, Fit(t, d, l), Same(m, l, d)
  PROVE  WorkGoesOn(t, d, m) /\ d \in WorkOf(t, m) /\ NoneStalled(m) /\ Tidy(t, m)
<1>1. d \in WorkOf(t, m)
  BY DEF WorkOf, Same
<1>2. NoneStalled(m) /\ Tidy(t, m)
  BY DEF NoneStalled, Tidy, Fit, Same
<1>3. ASSUME NEW b \in Domain, b \in Works(t), b # d PROVE b \in WorkOf(t, m)
  <2>1. b \in WorkOf(t, l)
    BY <1>3 DEF Fit, WorkGoesOn
  <2> QED  BY <1>3, <2>1 DEF WorkOf, Fit, Same
<1> QED  BY <1>1, <1>2, <1>3 DEF WorkGoesOn

\* The local state of a thread that is done with its event
After(l, k) == [l EXCEPT !.pc = "after", !.cyc = 0, !.next = 0, !.ev = k]

\* Its fields
LEMMA AfterIs ==
  ASSUME NEW l \in ThreadRec, NEW k \in MaybeId, NEW m, m = After(l, k)
  PROVE  m.pc = "after" /\ m.ev = k /\ Same(m, l, l.dom)
<1>1. m = [l EXCEPT !.pc = "after", !.cyc = 0, !.next = 0, !.ev = k]
  BY DEF After
<1>2. m \in ThreadRec
  <2>1. /\ l.dom \in Domain /\ l.domPq \in SUBSET Domain /\ l.stalled \in Seq(Domain)
        /\ l.nextStalled \in Seq(Domain) /\ l.fromStalled \in BOOLEAN
    BY DEF ThreadRec
  <2>2. m = [pc |-> "after", dom |-> l.dom, ev |-> k, cyc |-> 0, next |-> 0, domPq |-> l.domPq,
             stalled |-> l.stalled, nextStalled |-> l.nextStalled, fromStalled |-> l.fromStalled]
    BY <1>1 DEF ThreadRec
  <2> QED  BY <2>1, <2>2 DEF ThreadRec
<1>3. /\ m.pc = "after" /\ m.ev = k /\ m.dom = l.dom /\ m.domPq = l.domPq /\ m.stalled = l.stalled
      /\ m.nextStalled = l.nextStalled /\ m.fromStalled = l.fromStalled
  BY <1>1 DEF ThreadRec
<1> QED  BY <1>2, <1>3 DEF Same

\* What running an event does to the rest of the state
Rest(i) == PendOK' /\ RecStep(i)

\* The state is in order after the step.
LEMMA LeftInv ==
  ASSUME Good, sim.inCSim, NEW t \in Threads, NEW d \in Domain, NEW i \in Ids, i \notin Others(t),
         NEW l, Fit(t, d, l), l.dom = d, NEW k, NEW n, NEW P, P = Pending', Left(t, d, i, k, n, P),
         Becomes(n), NEW m, m = After(l, k), th' = [th EXCEPT ![t] = m],
         sim' = sim, lastCrossing' = lastCrossing, cache' \in [Domain -> CacheRec],
         ~fault' => Rest(i)
  PROVE  Inv'
<1>1. /\ n \in Worlds /\ Near(n, d, i) /\ k \in {i, NoId} /\ k \in MaybeId
      /\ pq' = n.pq /\ fault' = ~n.ok /\ n.ok \in BOOLEAN
  BY DEF Left, Becomes, MaybeId, Worlds
<1>2. pq' \in [Domain -> Ordered]
  BY <1>1 DEF Worlds
<1>3. m \in ThreadRec /\ m.pc = "after" /\ m.ev = k /\ Same(m, l, d) /\ m.dom = d
  BY <1>1, AfterIs DEF Fit, Same
<1>4. WorkGoesOn(t, d, m) /\ d \in WorkOf(t, m) /\ NoneStalled(m) /\ Tidy(t, m) /\ th[t].pc # "asleep"
  BY <1>3, SameWork DEF Fit
<1>5. EventOK(m, n)
  BY <1>1, <1>3 DEF EventOK, Left
<1>6. ASSUME ~fault' PROVE Good'
  <2>1. n.ok /\ PendOK' /\ RecStep(i)
    BY <1>1, <1>6 DEF Rest
  <2>2. WorldOK(n, Pending', Others(t) \cup Mine(m.ev), ToldOthers(t) \cup MineTold(m), {})
    BY <1>3, <2>1 DEF Left, MineTold
  <2> QED  BY <1>1, <1>3, <1>4, <1>5, <2>1, <2>2, BecomesTurns, StepGood
<1> QED  BY <1>2, <1>6 DEF Inv

\* A thread is done with its event.
LEMMA HasRunInv ==
  ASSUME Good, sim.inCSim, NEW t \in Threads, NEW d, NEW i, NEW w, NEW P, P = Pending',
         Running(t, d, i, w, P), w.ev[i].kind = "cross" => w.ev[i].called,
         NEW l, Fit(t, d, l), l.dom = d, l.ev = i, l.cyc \in Nat, HasRun(t, l, w),
         sim' = sim, lastCrossing' = lastCrossing, cache' \in [Domain -> CacheRec],
         ~fault' => Rest(i)
  PROVE  Inv'
<1> DEFINE n == Done(w, i, l.cyc)
           k == IF w.ev[i].xing = NoId THEN NoId ELSE i
           m == After(l, k)
<1>1. Becomes(n)
  BY DEF HasRun
<1>2. th' = [th EXCEPT ![t] = m]
  BY DEF HasRun, After
<1>3. n = Done(w, i, l.cyc) /\ m = After(l, k)
  OBVIOUS
<1> HIDE DEF n, m
<1>4. Left(t, d, i, IF w.ev[i].xing = NoId THEN NoId ELSE i, n, P)
  <2> DEFINE c == l.cyc
  <2>1. n = Done(w, i, c) /\ c \in Nat
    BY <1>3
  <2> HIDE DEF c
  <2> QED  BY <2>1, RunningDone
<1>5. Left(t, d, i, k, n, P)
  BY <1>4
<1> HIDE DEF k
<1>6. d \in Domain /\ i \in Ids /\ i \notin Others(t)
  BY DEF Running
<1> QED  BY <1>1, <1>2, <1>3, <1>5, <1>6, LeftInv

\* It is not done with it.
LEMMA HasNotRunInv ==
  ASSUME Good, sim.inCSim, NEW t \in Threads, NEW d \in Domain, NEW i \in Ids, i \notin Others(t),
         NEW n, NEW P, P = Pending', Left(t, d, i, NoId, n, P),
         NEW l, Fit(t, d, l), l.dom = d, HasNotRun(t, l, n),
         sim' = sim, lastCrossing' = lastCrossing, cache' \in [Domain -> CacheRec],
         ~fault' => Rest(i)
  PROVE  Inv'
<1> DEFINE k == NoId
           m == After(l, k)
<1>1. Becomes(n) /\ th' = [th EXCEPT ![t] = m]
  BY DEF HasNotRun, After
<1>2. m = After(l, k) /\ Left(t, d, i, k, n, P)
  OBVIOUS
<1> HIDE DEF m, k
<1> QED  BY <1>1, <1>2, LeftInv

\* An event other than of a core is not the last one of a recorder.
LEMMA RecSame ==
  ASSUME Good, sim.inCSim, NEW i \in Ids, ev[i].kind # "core", rec' = rec
  PROVE  RecStep(i)
<1>1. rec \in [Core -> RecRec]
  BY DEF Good, TypeOK
<1>2. \A c \in Core : rec[c].prevRespEvent # NoId => ev[rec[c].prevRespEvent].kind = "core"
  BY DEF Good, RecOK, PrevOK
<1> QED  BY <1>1, <1>2 DEF RecStep

\* The caches are as they were.
LEMMA CacheSame ==
  ASSUME Good, NEW t, NEW d, NEW i, NEW n \in Worlds, Near(n, d, i), i \notin Pending,
         ev' = n.ev, cache' = cache
  PROVE  PendOK' /\ Pending' = Pending /\ cache' \in [Domain -> CacheRec]
<1>1. Pending' = Pending
  BY DEF Pending
<1>2. cache \in [Domain -> CacheRec] /\ PendOK
  BY DEF Good, TypeOK
<1>3. ASSUME NEW b \in Domain, NEW j \in cache[b].pendingQueue PROVE ev'[j].dom = b
  <2>1. j \in Ids /\ j # i /\ ev[j].dom = b
    BY <1>2 DEF PendOK, CacheRec, Pending
  <2> QED  BY <2>1 DEF Near
<1> QED  BY <1>1, <1>2, <1>3 DEF PendOK

-----------------------------------------------------------------------------
(* The weave phase: running an event, by its kind                           *)

\* What holds when thread t, with local state l, runs event i in world w
Runs(t, d, i, w, l) ==
  /\ Running(t, d, i, w, Pending) /\ Fit(t, d, l) /\ l.dom = d /\ l.ev = i /\ l.cyc \in Nat

\* The same at another cycle
LEMMA FitAt ==
  ASSUME NEW t, NEW d, NEW l, Fit(t, d, l), NEW c \in Nat, NEW m, m = [l EXCEPT !.cyc = c]
  PROVE  Fit(t, d, m) /\ m.dom = l.dom /\ m.ev = l.ev /\ m.cyc = c
<1>1. l \in ThreadRec
  BY DEF Fit
<1>2. /\ m.pc = l.pc /\ m.dom = l.dom /\ m.ev = l.ev /\ m.cyc = c /\ m.next = l.next
      /\ m.domPq = l.domPq /\ m.stalled = l.stalled /\ m.nextStalled = l.nextStalled
      /\ m.fromStalled = l.fromStalled
  BY <1>1 DEF ThreadRec
<1>3. m \in ThreadRec
  <2>1. m = [pc |-> l.pc, dom |-> l.dom, ev |-> l.ev, cyc |-> c, next |-> l.next, domPq |-> l.domPq,
             stalled |-> l.stalled, nextStalled |-> l.nextStalled, fromStalled |-> l.fromStalled]
    BY <1>1 DEF ThreadRec
  <2> HIDE <1>2
  <2> QED  BY <1>1, <2>1 DEF ThreadRec
<1>4. WorkOf(t, m) = WorkOf(t, l)
  BY <1>2 DEF WorkOf
<1> QED  BY <1>2, <1>3, <1>4 DEF Fit, WorkGoesOn

\* What the state becomes is in order only if the world was.
LEMMA HasRunIs ==
  ASSUME Good, NEW t, NEW d, NEW i, NEW w, NEW P, Running(t, d, i, w, P),
         NEW l, l.ev = i, l.cyc \in Nat, HasRun(t, l, w)
  PROVE  \E n \in Worlds : Near(n, d, i) /\ Becomes(n) /\ (n.ok => w.ok)
<1> DEFINE c == l.cyc
           n == Done(w, i, c)
<1>1. Becomes(n) /\ c \in Nat
  BY DEF HasRun
<1>2. n = Done(w, i, c)
  OBVIOUS
<1> HIDE DEF n, c
<1>3. w \in Worlds /\ d \in Domain /\ i \in Ids /\ w.ev[i].dom = d /\ Near(w, d, i)
  BY DEF Running
<1>4. n \in Worlds /\ Beside(n, w, d) /\ OthersKept(n, w, i)
  BY <1>1, <1>2, <1>3, DoneOK
<1>5. Near(n, d, i)
  BY <1>3, <1>4 DEF Near, Beside, OthersKept, Kin
<1> QED  BY <1>1, <1>4, <1>5 DEF Beside

\* The caches and recorders stay as they are.
LEMMA SameRest ==
  ASSUME Good, sim.inCSim, NEW t, NEW d, NEW i, NEW w, Running(t, d, i, w, Pending),
         w.ev[i].kind # "core", NEW n \in Worlds, Near(n, d, i), Becomes(n), cache' = cache, rec' = rec
  PROVE  Rest(i) /\ Pending' = Pending /\ cache' \in [Domain -> CacheRec]
<1>1. i \in Ids /\ ev[i].kind # "core" /\ i \notin Pending
  BY DEF Running
<1>2. RecStep(i)
  BY <1>1, RecSame
<1>3. PendOK' /\ Pending' = Pending /\ cache' \in [Domain -> CacheRec]
  BY <1>1, CacheSame DEF Becomes
<1> QED  BY <1>2, <1>3 DEF Rest

\* mem and missResp
LEMMA RunMemoryInv ==
  ASSUME Good, sim.inCSim, NEW t \in Threads, NEW d, NEW i, NEW w, NEW l, Runs(t, d, i, w, l),
         RunMemory(t, l, w), RestOfRun
  PROVE  Inv'
<1> DEFINE c == l.cyc + w.ev[i].lat
           m == [l EXCEPT !.cyc = c]
           P == Pending
<1>1. Running(t, d, i, w, P) /\ Fit(t, d, l) /\ l.dom = d /\ l.ev = i /\ l.cyc \in Nat
  BY DEF Runs
<1>2. w.ev[i] \in EventRec /\ w.ev[i].kind \in {"mem", "missResp"}
  BY <1>1 DEF Running, Worlds, RunMemory
<1>3. c \in Nat
  BY <1>1, <1>2 DEF EventRec
<1>4. HasRun(t, m, w) /\ cache' = cache /\ rec' = rec /\ sim' = sim /\ lastCrossing' = lastCrossing
  BY <1>1 DEF RunMemory, RestOfRun
<1> HIDE DEF c
<1>5. m = [l EXCEPT !.cyc = c]
  OBVIOUS
<1> HIDE DEF m
<1>6. Fit(t, d, m) /\ m.dom = d /\ m.ev = i /\ m.cyc = c
  BY <1>1, <1>3, <1>5, FitAt
<1>7. \E n \in Worlds : Near(n, d, i) /\ Becomes(n) /\ (n.ok => w.ok)
  BY <1>1, <1>3, <1>4, <1>6, HasRunIs
<1>8. Rest(i) /\ Pending' = P /\ cache' \in [Domain -> CacheRec]
  BY <1>1, <1>2, <1>4, <1>7, SameRest
<1> HIDE DEF P
<1> QED  BY <1>1, <1>2, <1>3, <1>4, <1>6, <1>8, HasRunInv

\* A recorder whose event i has been run
Reported(c, start, orig, last) ==
  [rec EXCEPT ![c].lastStart = start, ![c].lastOrig = orig,
              ![c].prevRespEvent = IF last THEN NoId ELSE @, ![c].startSlack = start - orig]

\* Its fields
LEMMA ReportedIs ==
  ASSUME NEW c \in Core, NEW start \in Nat, NEW orig \in Int, NEW last \in BOOLEAN,
         rec \in [Core -> RecRec], NEW s, s = Reported(c, start, orig, last)
  PROVE  /\ s \in [Core -> RecRec] /\ \A b \in Core : b # c => s[b] = rec[b]
         /\ s[c].prevRespCycle = rec[c].prevRespCycle /\ s[c].curCycle = rec[c].curCycle
         /\ s[c].state = rec[c].state
         /\ s[c].prevRespEvent = IF last THEN NoId ELSE rec[c].prevRespEvent
<1> DEFINE x == [rec[c] EXCEPT !.lastStart = start, !.lastOrig = orig,
                               !.prevRespEvent = IF last THEN NoId ELSE rec[c].prevRespEvent,
                               !.startSlack = start - orig]
<1>1. s = [rec EXCEPT ![c] = x]
  BY DEF Reported
<1>2. start - orig \in Int /\ (IF last THEN NoId ELSE rec[c].prevRespEvent) \in MaybeId
      /\ rec[c] \in RecRec
  BY DEF RecRec, MaybeId
<1>3. x \in RecRec
  BY <1>2 DEF RecRec
<1>4. /\ x.prevRespCycle = rec[c].prevRespCycle /\ x.curCycle = rec[c].curCycle
      /\ x.state = rec[c].state
      /\ x.prevRespEvent = IF last THEN NoId ELSE rec[c].prevRespEvent
  BY <1>2 DEF RecRec
<1> HIDE DEF x
<1> QED  BY <1>1, <1>3, <1>4

\* A core event
LEMMA RunCoreInv ==
  ASSUME Good, sim.inCSim, NEW t \in Threads, NEW d, NEW i, NEW w, NEW l, Runs(t, d, i, w, l),
         RunCore(t, l, w), RestOfRun
  PROVE  Inv'
<1> DEFINE e == w.ev[i]
           c == w.ev[i].owner
           last == (i = rec[c].prevRespEvent)
           ok == w.ok /\ (last => rec[c].state = "DRAINING")
           v == Turned(w, w.ev, ok)
           P == Pending
           orig == w.ev[i].orig
           start == l.cyc
<1>1. Running(t, d, i, w, P) /\ Fit(t, d, l) /\ l.dom = d /\ l.ev = i /\ l.cyc \in Nat
  BY DEF Runs
<1>2. w \in Worlds /\ e \in EventRec /\ e.kind = "core" /\ i \in Ids /\ ev[i].kind = "core"
  <2>1. w \in Worlds /\ i \in Ids /\ e.kind = ev[i].kind
    BY <1>1 DEF Running
  <2> QED  BY <1>1, <2>1 DEF Worlds, RunCore
<1>3. HasRun(t, l, v)
  <2>1. HasRun(t, l, [w EXCEPT !.ok = @ /\ (last => rec[c].state = "DRAINING")])
    BY <1>1 DEF RunCore
  <2>2. [w EXCEPT !.ok = @ /\ (last => rec[c].state = "DRAINING")] = v
    BY <1>2 DEF Turned, Worlds
  <2> QED  BY <2>1, <2>2
<1>4. /\ cache' = cache /\ sim' = sim /\ lastCrossing' = lastCrossing
      /\ rec' = Reported(c, start, orig, last)
  BY <1>1 DEF RunCore, RestOfRun, Reported
<1>5. ok \in BOOLEAN /\ (ok => w.ok) /\ last \in BOOLEAN /\ orig \in Int /\ start \in Nat
  BY <1>1, <1>2 DEF EventRec, Worlds
<1>6. v = Turned(w, w.ev, ok)
  OBVIOUS
<1>7. ok => w.ok /\ (i = rec[c].prevRespEvent => rec[c].state = "DRAINING")
  OBVIOUS
<1> HIDE DEF v, ok
<1>8. Running(t, d, i, v, P)
  BY <1>1, <1>5, <1>6, RunningTurned
<1>9. v \in Worlds /\ v.ev = w.ev /\ v.ok = ok
  BY <1>2, <1>5, <1>6, TurnedIs DEF Worlds
<1>10. PICK n \in Worlds : Near(n, d, i) /\ Becomes(n) /\ (n.ok => v.ok)
  BY <1>1, <1>3, <1>8, HasRunIs
<1>11. PendOK' /\ Pending' = P /\ cache' \in [Domain -> CacheRec]
  BY <1>1, <1>4, <1>10, CacheSame DEF Running, Becomes
<1>12. ASSUME ~fault' PROVE RecStep(i)
  <2>1. ok /\ w.ok
    BY <1>5, <1>9, <1>10, <1>12 DEF Becomes
  <2>2. c \in Core /\ c = i[1]
    <3>1. EventsOK(w.ev)
      BY <1>1, <2>1 DEF Running, WorldOK, Struct
    <3> QED  BY <1>2, <3>1, NoIdIs DEF EventsOK
  <2>3. rec \in [Core -> RecRec]
    BY DEF Good, TypeOK
  <2> HIDE DEF c, orig, start, last
  <2>4. /\ rec' \in [Core -> RecRec] /\ \A b \in Core : b # c => rec'[b] = rec[b]
        /\ rec'[c].prevRespCycle = rec[c].prevRespCycle /\ rec'[c].curCycle = rec[c].curCycle
        /\ rec'[c].state = rec[c].state
        /\ rec'[c].prevRespEvent = IF last THEN NoId ELSE rec[c].prevRespEvent
    BY <1>4, <1>5, <2>2, <2>3, ReportedIs
  <2>5. \A b \in Core : b # c => rec[b].prevRespEvent # i \/ rec[b].prevRespEvent = NoId
    BY <2>2 DEF Good, RecOK, PrevOK
  <2>6. last => rec[c].state = "DRAINING"
    BY <1>7, <2>1 DEF last
  <2>7. ~last => rec[c].prevRespEvent # i
    BY DEF last
  <2> QED  BY <2>2, <2>4, <2>5, <2>6, <2>7 DEF RecStep
<1>13. v.ev[i].kind # "cross"
  BY <1>2, <1>9
<1>14. ~fault' => Rest(i)
  BY <1>11, <1>12 DEF Rest
<1> HIDE DEF P
<1> QED  BY <1>1, <1>3, <1>4, <1>8, <1>11, <1>13, <1>14, HasRunInv

\* A crossing whose source is done
LEMMA FinishCrossingInv ==
  ASSUME Good, sim.inCSim, NEW t \in Threads, NEW d, NEW i, NEW w, NEW l, Runs(t, d, i, w, l),
         w.ev[i].kind = "cross", FinishCrossing(t, l, w), cache' = cache, rec' = rec, RestOfRun
  PROVE  Inv'
<1> DEFINE c == Max({l.cyc, w.ev[i].doneCycle})
           m == [l EXCEPT !.cyc = c]
           P == Pending
<1>1. Running(t, d, i, w, P) /\ Fit(t, d, l) /\ l.dom = d /\ l.ev = i /\ l.cyc \in Nat
  BY DEF Runs
<1>2. w.ev[i] \in EventRec
  BY <1>1 DEF Running, Worlds
<1>3. c \in Nat
  <2>1. w.ev[i].doneCycle \in Nat
    BY <1>2 DEF EventRec
  <2> QED  BY <1>1, <2>1, MaxOfCycles
<1>4. HasRun(t, m, w) /\ w.ev[i].called /\ sim' = sim /\ lastCrossing' = lastCrossing
  BY <1>1 DEF FinishCrossing, RestOfRun
<1> HIDE DEF c
<1>5. m = [l EXCEPT !.cyc = c]
  OBVIOUS
<1> HIDE DEF m
<1>6. Fit(t, d, m) /\ m.dom = d /\ m.ev = i /\ m.cyc = c
  BY <1>1, <1>3, <1>5, FitAt
<1>7. \E n \in Worlds : Near(n, d, i) /\ Becomes(n) /\ (n.ok => w.ok)
  BY <1>1, <1>3, <1>4, <1>6, HasRunIs
<1>8. Rest(i) /\ Pending' = P /\ cache' \in [Domain -> CacheRec]
  BY <1>1, <1>2, <1>4, <1>7, SameRest
<1> HIDE DEF P
<1> QED  BY <1>1, <1>2, <1>3, <1>4, <1>6, <1>8, HasRunInv

\* A thread that looks after a crossing
Looking(l) == [l EXCEPT !.pc = "look"]

\* Its fields
LEMMA LookingIs ==
  ASSUME NEW l \in ThreadRec, NEW m, m = Looking(l)
  PROVE  m.pc = "look" /\ m.ev = l.ev /\ m.cyc = l.cyc /\ Same(m, l, l.dom)
<1>1. m = [l EXCEPT !.pc = "look"]
  BY DEF Looking
<1>2. m \in ThreadRec
  <2>1. m = [pc |-> "look", dom |-> l.dom, ev |-> l.ev, cyc |-> l.cyc, next |-> l.next, domPq |-> l.domPq,
             stalled |-> l.stalled, nextStalled |-> l.nextStalled, fromStalled |-> l.fromStalled]
    BY <1>1 DEF ThreadRec
  <2> HIDE <1>1
  <2> QED  BY <2>1 DEF ThreadRec
<1>3. /\ m.pc = "look" /\ m.ev = l.ev /\ m.cyc = l.cyc /\ m.dom = l.dom /\ m.domPq = l.domPq
      /\ m.stalled = l.stalled /\ m.nextStalled = l.nextStalled /\ m.fromStalled = l.fromStalled
  BY <1>1 DEF ThreadRec
<1> QED  BY <1>2, <1>3 DEF Same

\* A crossing
LEMMA RunCrossingInv ==
  ASSUME Good, sim.inCSim, NEW t \in Threads, NEW d, NEW i, NEW w, NEW l, Runs(t, d, i, w, l),
         w.ev[i].kind = "cross" => w.ev[i].minStart <= l.cyc,
         RunCrossing(t, l, w), RestOfRun
  PROVE  Inv'
<1>1. /\ Running(t, d, i, w, Pending) /\ Fit(t, d, l) /\ l.dom = d /\ l.ev = i /\ l.cyc \in Nat
      /\ l \in ThreadRec
  BY DEF Runs, Fit
<1>2. w.ev[i].kind = "cross" /\ cache' = cache /\ rec' = rec /\ sim' = sim /\ lastCrossing' = lastCrossing
  BY <1>1 DEF RunCrossing, RestOfRun
<1>3. CASE FinishCrossing(t, l, w)
  BY <1>2, <1>3, FinishCrossingInv
<1>4. CASE Becomes(w) /\ th' = [th EXCEPT ![t] = [l EXCEPT !.pc = "look"]]
  <2> DEFINE m == Looking(l)
  <2>1. th' = [th EXCEPT ![t] = m]
    BY <1>4 DEF Looking
  <2>2. m = Looking(l)
    OBVIOUS
  <2> HIDE DEF m
  <2>3. m.pc = "look" /\ m.ev = i /\ m.cyc = l.cyc /\ Same(m, l, d) /\ m \in ThreadRec /\ m.dom = d
    BY <1>1, <2>2, LookingIs DEF Same
  <2>4. /\ d \in Domain /\ i \in Ids /\ i \notin Others(t) /\ w \in Worlds /\ Near(w, d, i)
        /\ w.ev[i].dom = d /\ w.ev[i].minStart <= sim.limit /\ i # NoId
    BY <1>1, <1>2, NoIdIs DEF Running
  <2>5. WorkGoesOn(t, d, m) /\ d \in WorkOf(t, m) /\ NoneStalled(m) /\ Tidy(t, m)
        /\ th[t].pc # "asleep"
    BY <1>1, <2>3, <2>4, SameWork DEF Fit
  <2>6. EventOK(m, w)
    BY <1>2, <2>3, <2>4 DEF EventOK
  <2>7. Rest(i) /\ Pending' = Pending /\ cache' \in [Domain -> CacheRec]
    BY <1>1, <1>2, <1>4, <2>4, SameRest
  <2>8. pq' \in [Domain -> Ordered] /\ fault' = ~w.ok
    BY <1>4, <2>4 DEF Becomes, Worlds
  <2>9. ASSUME ~fault' PROVE Good'
    <3>1. w.ok /\ PendOK' /\ RecStep(i)
      BY <2>4, <2>7, <2>8, <2>9 DEF Rest, Worlds
    <3>2. WorldOK(w, Pending', Others(t) \cup Mine(m.ev), ToldOthers(t) \cup MineTold(m), {})
      <4>1. Mine(m.ev) = {i} /\ MineTold(m) = {}
        BY <2>3, <2>4 DEF Mine, MineTold
      <4>2. WorldOK(w, Pending, Others(t) \cup {i}, ToldOthers(t), {})
        BY <1>1, <3>1 DEF Running
      <4>3. ToldOthers(t) \cup MineTold(m) = ToldOthers(t)
        BY <4>1
      <4> QED  BY <2>7, <4>1, <4>2, <4>3
    <3> QED  BY <1>2, <1>4, <2>1, <2>3, <2>4, <2>5, <2>6, <2>7, <3>1, <3>2, BecomesTurns, StepGood
  <2> QED  BY <2>8, <2>9 DEF Inv
<1> QED  BY <1>3, <1>4 DEF RunCrossing

-----------------------------------------------------------------------------
(* The weave phase: the TimingCache                                        *)

CacheWith(d, k) == [cache EXCEPT ![d] = k]

\* The cache of a domain changes, and with it what waits.
LEMMA CacheWithIs ==
  ASSUME Good, NEW d \in Domain, NEW k \in CacheRec, cache' = CacheWith(d, k)
  PROVE  /\ cache' \in [Domain -> CacheRec] /\ cache'[d] = k
         /\ \A b \in Domain : b # d => cache'[b] = cache[b]
         /\ k.pendingQueue = cache[d].pendingQueue => Pending' = Pending
         /\ k.pendingQueue = {} => Pending' = Pending \ cache[d].pendingQueue
         /\ \A i : k.pendingQueue = cache[d].pendingQueue \cup {i} => Pending' = Pending \cup {i}
<1>1. cache \in [Domain -> CacheRec] /\ PendOK
  BY DEF Good, TypeOK
<1>2. /\ cache' \in [Domain -> CacheRec] /\ cache'[d] = k
      /\ \A b \in Domain : b # d => cache'[b] = cache[b]
  BY <1>1 DEF CacheWith
<1>3. Pending' = UNION {cache'[b].pendingQueue : b \in Domain}
  BY DEF Pending
<1>4. \A b \in Domain : b # d => cache[b].pendingQueue \cap cache[d].pendingQueue = {}
  BY <1>1 DEF PendOK
<1>5. \A j : j \in Pending' <=> \E b \in Domain : j \in (IF b = d THEN k.pendingQueue ELSE cache[b].pendingQueue)
  BY <1>2, <1>3
<1>6. \A j : j \in Pending <=> \E b \in Domain : j \in cache[b].pendingQueue
  BY DEF Pending
<1>7. k.pendingQueue = cache[d].pendingQueue => Pending' = Pending
  BY <1>5, <1>6
<1>8. k.pendingQueue = {} => Pending' = Pending \ cache[d].pendingQueue
  BY <1>4, <1>5, <1>6
<1>9. \A i : k.pendingQueue = cache[d].pendingQueue \cup {i} => Pending' = Pending \cup {i}
  BY <1>5, <1>6
<1> QED  BY <1>2, <1>7, <1>8, <1>9

\* What waits after a change of the cache of domain d waits for a busy MSHR.
LEMMA CacheWithOK ==
  ASSUME Good, NEW d \in Domain, NEW k \in CacheRec, cache' = CacheWith(d, k),
         k.activeMisses <= k.numMSHRs, k.pendingQueue # {} => k.activeMisses = k.numMSHRs,
         NEW i \in Ids, k.pendingQueue \subseteq cache[d].pendingQueue \cup {i},
         NEW n \in Worlds, Near(n, d, i), Becomes(n), i \notin Pending,
         i \in k.pendingQueue => n.ev[i].dom = d
  PROVE  PendOK'
<1>1. cache \in [Domain -> CacheRec] /\ PendOK
  BY DEF Good, TypeOK
<1>2. cache'[d] = k /\ \A b \in Domain : b # d => cache'[b] = cache[b]
  BY CacheWithIs
<1>3. ASSUME NEW b \in Domain, NEW j \in cache'[b].pendingQueue PROVE ev'[j].dom = b
  <2>1. CASE j = i
    <3>1. b = d
      BY <1>2, <1>3, <2>1 DEF Pending
    <3> QED  BY <1>2, <1>3, <2>1, <3>1 DEF Becomes
  <2>2. CASE j # i
    <3>1. j \in cache[b].pendingQueue
      BY <1>2, <1>3, <2>2
    <3>2. j \in Ids /\ ev[j].dom = b
      BY <1>1, <3>1 DEF PendOK, CacheRec
    <3> QED  BY <2>2, <3>2 DEF Near, Becomes
  <2> QED  BY <2>1, <2>2
<1> QED  BY <1>1, <1>2, <1>3 DEF PendOK

\* A cache's counts, its cycles and what waits
CacheOf(k, active, acc, free, wait) ==
  [k EXCEPT !.activeMisses = active, !.lastAccCycle = acc, !.lastFreeCycle = free,
            !.pendingQueue = wait]

\* Its fields
LEMMA CacheOfIs ==
  ASSUME NEW k \in CacheRec, NEW active \in Int, NEW acc \in Nat, NEW free \in Int,
         NEW wait \in SUBSET Ids, NEW x, x = CacheOf(k, active, acc, free, wait)
  PROVE  /\ x \in CacheRec /\ x.activeMisses = active /\ x.numMSHRs = k.numMSHRs
         /\ x.pendingQueue = wait
<1>1. x \in CacheRec
  BY DEF CacheOf, CacheRec
<1>2. x.activeMisses = active /\ x.numMSHRs = k.numMSHRs /\ x.pendingQueue = wait
  BY DEF CacheOf, CacheRec
<1> QED  BY <1>1, <1>2

\* A lookup that finds an MSHR free
LEMMA LookupHasRun ==
  ASSUME Good, sim.inCSim, NEW t \in Threads, NEW d, NEW i, NEW w, NEW l, Runs(t, d, i, w, l),
         w.ev[i].kind \in {"hit", "missStart"}, cache[d].activeMisses < cache[d].numMSHRs,
         HasRun(t, [l EXCEPT !.cyc = LookupCycle(d, @)], [w EXCEPT !.ok = @ /\ l.cyc >= cache[d].lastFreeCycle]),
         cache' = [cache EXCEPT ![d] = [HighPrio(cache[d], d, l.cyc) EXCEPT
                     !.activeMisses = IF w.ev[i].kind = "missStart" THEN @ + 1 ELSE @]],
         rec' = rec, RestOfRun
  PROVE  Inv'
<1> DEFINE c == LookupCycle(d, l.cyc)
           m == [l EXCEPT !.cyc = c]
           P == Pending
           ok == w.ok /\ l.cyc >= cache[d].lastFreeCycle
           v == Turned(w, w.ev, ok)
           k == cache[d]
           active == IF w.ev[i].kind = "missStart" THEN k.activeMisses + 1 ELSE k.activeMisses
           free == IF k.lastAccCycle < l.cyc - 1 THEN l.cyc - 1 ELSE k.lastFreeCycle
           x == CacheOf(k, active, c, free, k.pendingQueue)
<1>1. Running(t, d, i, w, P) /\ Fit(t, d, l) /\ l.dom = d /\ l.ev = i /\ l.cyc \in Nat
  BY DEF Runs
<1>2. /\ w \in Worlds /\ d \in Domain /\ i \in Ids /\ i \notin P /\ i \notin Others(t)
      /\ w.ev[i].kind = ev[i].kind
  BY <1>1 DEF Running
<1>3. k \in CacheRec /\ PendOK
  BY <1>2 DEF Good, TypeOK
<1>4. /\ k.activeMisses \in Int /\ k.numMSHRs \in Nat /\ k.lastAccCycle \in Nat
      /\ k.lastFreeCycle \in Int /\ k.pendingQueue \in SUBSET Ids
  BY <1>3 DEF CacheRec
<1>5. c \in Nat
  <2> DEFINE a == k.lastAccCycle + 1
             b == l.cyc
  <2>1. a \in Nat /\ b \in Nat
    BY <1>1, <1>4
  <2>2. c = Max({b, a})
    BY DEF LookupCycle
  <2> HIDE DEF a, b, c
  <2> QED  BY <2>1, <2>2, MaxOfCycles
<1>6. HasRun(t, m, v)
  <2>1. [w EXCEPT !.ok = @ /\ l.cyc >= cache[d].lastFreeCycle] = v
    BY <1>2 DEF Turned, Worlds
  <2>2. [l EXCEPT !.cyc = LookupCycle(d, @)] = m
    OBVIOUS
  <2> QED  BY <2>1, <2>2
<1>7. cache' = CacheWith(d, x)
  <2>1. [HighPrio(k, d, l.cyc) EXCEPT
             !.activeMisses = IF w.ev[i].kind = "missStart" THEN @ + 1 ELSE @] = x
    BY <1>3 DEF HighPrio, CacheOf, CacheRec
  <2> QED  BY <2>1 DEF CacheWith
<1>8. active \in Int /\ free \in Int /\ active <= k.numMSHRs
  BY <1>1, <1>4
<1>9. k.pendingQueue = {}
  BY <1>2, <1>3, <1>4 DEF PendOK
<1>10. x = CacheOf(k, active, c, free, k.pendingQueue) /\ v = Turned(w, w.ev, ok)
       /\ ok \in BOOLEAN /\ (ok => w.ok) /\ m = [l EXCEPT !.cyc = c]
  OBVIOUS
<1> HIDE DEF x, v, ok, m, active, free, c
<1>11. x \in CacheRec /\ x.activeMisses = active /\ x.numMSHRs = k.numMSHRs /\ x.pendingQueue = k.pendingQueue
  BY <1>3, <1>4, <1>5, <1>8, <1>10, CacheOfIs
<1>12. cache' \in [Domain -> CacheRec] /\ Pending' = P
  BY <1>2, <1>7, <1>11, CacheWithIs
<1>13. Running(t, d, i, v, P)
  BY <1>1, <1>10, RunningTurned
<1>14. v.ev = w.ev
  BY <1>2, <1>10, TurnedIs DEF Worlds
<1>15. Fit(t, d, m) /\ m.dom = d /\ m.ev = i /\ m.cyc = c
  BY <1>1, <1>5, <1>10, FitAt
<1>16. PICK n \in Worlds : Near(n, d, i) /\ Becomes(n)
  BY <1>5, <1>6, <1>13, <1>15, HasRunIs
<1>17. PendOK'
  BY <1>2, <1>7, <1>8, <1>9, <1>11, <1>16, CacheWithOK
<1>18. RecStep(i)
  BY <1>2, RecSame
<1>19. sim' = sim /\ lastCrossing' = lastCrossing /\ v.ev[i].kind # "cross" /\ Rest(i)
  BY <1>14, <1>17, <1>18 DEF RestOfRun, Rest
<1> HIDE DEF P
<1> QED  BY <1>5, <1>6, <1>12, <1>13, <1>15, <1>19, HasRunInv

\* A lookup that finds none
LEMMA LookupHasNotRun ==
  ASSUME Good, sim.inCSim, NEW t \in Threads, NEW d, NEW i, NEW w, NEW l, Runs(t, d, i, w, l),
         w.ev[i].kind \in {"hit", "missStart"}, ~(cache[d].activeMisses < cache[d].numMSHRs),
         HasNotRun(t, l, [w EXCEPT !.ev[i].state = "held"]),
         cache' = [cache EXCEPT ![d].pendingQueue = @ \cup {i}], rec' = rec, RestOfRun
  PROVE  Inv'
<1> DEFINE P == Pending
           E == WithEvent(w.ev, i, WithState(w.ev[i], "held"))
           n == Turned(w, E, w.ok)
           k == cache[d]
           wait == k.pendingQueue \cup {i}
           x == CacheOf(k, k.activeMisses, k.lastAccCycle, k.lastFreeCycle, wait)
<1>1. Running(t, d, i, w, P) /\ Fit(t, d, l) /\ l.dom = d /\ l.ev = i /\ l.cyc \in Nat
  BY DEF Runs
<1>2. /\ w \in Worlds /\ d \in Domain /\ i \in Ids /\ i \notin P /\ i \notin Others(t)
      /\ w.ev[i].kind = ev[i].kind /\ w.ev[i].dom = d /\ w.ev[i] \in EventRec /\ w.ok \in BOOLEAN
      /\ w.ev \in [Ids -> EventRec]
  BY <1>1 DEF Running, Worlds
<1>3. k \in CacheRec /\ PendOK
  BY <1>2 DEF Good, TypeOK
<1>4. /\ k.activeMisses \in Int /\ k.numMSHRs \in Nat /\ k.lastAccCycle \in Nat
      /\ k.lastFreeCycle \in Int /\ k.pendingQueue \in SUBSET Ids /\ wait \in SUBSET Ids
  BY <1>2, <1>3 DEF CacheRec
<1>5. k.activeMisses = k.numMSHRs
  BY <1>2, <1>3, <1>4 DEF PendOK
<1>6. [w EXCEPT !.ev[i].state = "held"] = n
  BY <1>2 DEF Turned, WithEvent, WithState, Worlds
<1>7. HasNotRun(t, l, n)
  BY <1>6
<1>8. cache' = CacheWith(d, x)
  BY <1>3 DEF CacheWith, CacheOf, CacheRec
<1>9. x = CacheOf(k, k.activeMisses, k.lastAccCycle, k.lastFreeCycle, wait)
  OBVIOUS
<1> HIDE DEF x
<1>10. x \in CacheRec /\ x.activeMisses = k.activeMisses /\ x.numMSHRs = k.numMSHRs
       /\ x.pendingQueue = wait
  BY <1>3, <1>4, <1>9, CacheOfIs
<1>11. cache' \in [Domain -> CacheRec] /\ Pending' = P \cup {i}
  BY <1>2, <1>8, <1>10, CacheWithIs
<1>12. n = Turned(w, WithEvent(w.ev, i, WithState(w.ev[i], "held")), w.ok)
  OBVIOUS
<1>13. "held" \in States
  BY DEF States
<1>14. E \in [Ids -> EventRec] /\ E[i].dom = d
  <2> DEFINE e == WithState(w.ev[i], "held")
  <2>1. e \in EventRec /\ e.dom = w.ev[i].dom
    BY <1>2, <1>13, WithStateIs
  <2> HIDE DEF e
  <2>2. WithEvent(w.ev, i, e) \in [Ids -> EventRec] /\ WithEvent(w.ev, i, e)[i] = e
    BY <1>2, <2>1, WithEventIs
  <2> QED  BY <1>2, <2>1, <2>2 DEF e
<1>15. n.ev = E
  <2>1. n = Turned(w, E, w.ok)
    OBVIOUS
  <2> HIDE DEF E, n
  <2> QED  BY <1>2, <1>14, <2>1, TurnedIs
<1> HIDE DEF n, E
<1>16. Left(t, d, i, NoId, n, P \cup {i})
  BY <1>1, <1>12, RunningHeld
<1>17. n \in Worlds /\ Near(n, d, i) /\ Becomes(n)
  BY <1>7, <1>16 DEF Left, HasNotRun
<1>18. PendOK'
  BY <1>2, <1>4, <1>5, <1>8, <1>10, <1>14, <1>15, <1>17, CacheWithOK
<1>19. RecStep(i)
  BY <1>2, RecSame
<1>20. sim' = sim /\ lastCrossing' = lastCrossing /\ Rest(i)
  BY <1>18, <1>19 DEF RestOfRun, Rest
<1> DEFINE R == P \cup {i}
<1>21. R = Pending' /\ Left(t, d, i, NoId, n, R)
  BY <1>11, <1>16
<1> HIDE DEF P, R
<1> QED  BY <1>1, <1>2, <1>7, <1>11, <1>20, <1>21, HasNotRunInv

\* Hits and the start of misses
LEMMA RunLookupInv ==
  ASSUME Good, sim.inCSim, NEW t \in Threads, NEW d, NEW i, NEW w, NEW l, Runs(t, d, i, w, l),
         RunLookup(t, l, w), RestOfRun
  PROVE  Inv'
<1>1. l.dom = d /\ l.ev = i
  BY DEF Runs
<1>2. w.ev[i].kind \in {"hit", "missStart"} /\ rec' = rec
  BY <1>1 DEF RunLookup
<1>3. CASE cache[d].activeMisses < cache[d].numMSHRs
  <2>1. /\ HasRun(t, [l EXCEPT !.cyc = LookupCycle(d, @)],
                    [w EXCEPT !.ok = @ /\ l.cyc >= cache[d].lastFreeCycle])
        /\ cache' = [cache EXCEPT ![d] = [HighPrio(cache[d], d, l.cyc) EXCEPT
                     !.activeMisses = IF w.ev[i].kind = "missStart" THEN @ + 1 ELSE @]]
    BY <1>1, <1>3 DEF RunLookup
  <2> QED  BY <1>2, <1>3, <2>1, LookupHasRun
<1>4. CASE ~(cache[d].activeMisses < cache[d].numMSHRs)
  <2>1. /\ HasNotRun(t, l, [w EXCEPT !.ev[i].state = "held"])
        /\ cache' = [cache EXCEPT ![d].pendingQueue = @ \cup {i}]
    BY <1>1, <1>4 DEF RunLookup
  <2> QED  BY <1>2, <1>4, <2>1, LookupHasNotRun
<1> QED  BY <1>3, <1>4

\* The end of a miss that releases its MSHR
LEMMA WritebackHasRun ==
  ASSUME Good, sim.inCSim, NEW t \in Threads, NEW d, NEW i, NEW w, NEW l, Runs(t, d, i, w, l),
         w.ev[i].kind = "missWb",
         HasRun(t, l, Released([w EXCEPT !.ok = @ /\ cache[d].activeMisses > 0], d, l.cyc + 1)),
         cache' = [cache EXCEPT ![d] = [LowPrio(cache[d], l.cyc) EXCEPT
                     !.activeMisses = @ - 1, !.pendingQueue = {}]],
         rec' = rec, RestOfRun
  PROVE  Inv'
<1> DEFINE P == Pending
           k == cache[d]
           S == k.pendingQueue
           ok == w.ok /\ k.activeMisses > 0
           v == Turned(w, w.ev, ok)
           c == l.cyc + 1
           n == Requeue(v, d, S, c)
           active == k.activeMisses - 1
           acc == Max({l.cyc - 1, k.lastAccCycle})
           x == CacheOf(k, active, acc, 0, {})
<1>1. Running(t, d, i, w, P) /\ Fit(t, d, l) /\ l.dom = d /\ l.ev = i /\ l.cyc \in Nat
  BY DEF Runs
<1>2. /\ w \in Worlds /\ d \in Domain /\ i \in Ids /\ i \notin P /\ i \notin Others(t)
      /\ w.ev[i].kind = ev[i].kind
  BY <1>1 DEF Running
<1>3. k \in CacheRec /\ PendOK
  BY <1>2 DEF Good, TypeOK
<1>4. /\ k.activeMisses \in Int /\ k.numMSHRs \in Nat /\ k.lastAccCycle \in Nat
      /\ k.lastFreeCycle \in Int /\ k.pendingQueue \in SUBSET Ids
  BY <1>3 DEF CacheRec
<1>5. acc \in Nat
  <2> DEFINE a == l.cyc - 1
             b == k.lastAccCycle
  <2>1. a \in Int /\ b \in Int /\ b >= 0
    BY <1>1, <1>4
  <2> HIDE DEF a, b
  <2>2. Max({a, b}) \in Int /\ Max({a, b}) >= b
    BY <2>1, MaxOfTwo
  <2>3. Max({a, b}) \in Nat
    BY <2>1, <2>2
  <2> QED  BY <2>3 DEF a, b
<1>6. HasRun(t, l, n)
  <2>1. [w EXCEPT !.ok = @ /\ cache[d].activeMisses > 0] = v
    BY <1>2 DEF Turned, Worlds
  <2> QED  BY <2>1 DEF Released
<1>7. cache' = CacheWith(d, x)
  <2>1. [LowPrio(k, l.cyc) EXCEPT !.activeMisses = @ - 1, !.pendingQueue = {}] = x
    BY <1>3 DEF LowPrio, CacheOf, CacheRec
  <2> QED  BY <2>1 DEF CacheWith
<1>8. c \in Nat /\ active \in Int /\ 0 \in Int /\ {} \in SUBSET Ids /\ active <= k.numMSHRs
  BY <1>1, <1>2, <1>3, <1>4 DEF PendOK
<1>9. v = Turned(w, w.ev, ok) /\ ok \in BOOLEAN /\ (ok => w.ok) /\ n = Requeue(v, d, S, c)
      /\ x = CacheOf(k, active, acc, 0, {}) /\ S = cache[d].pendingQueue
  OBVIOUS
<1> HIDE DEF v, ok, n, x, active, acc, c
<1>10. /\ x \in CacheRec /\ x.activeMisses = active /\ x.numMSHRs = k.numMSHRs
       /\ x.pendingQueue = {}
  BY <1>3, <1>5, <1>8, <1>9, CacheOfIs
<1>11. cache' \in [Domain -> CacheRec] /\ Pending' = P \ S
  BY <1>2, <1>7, <1>10, CacheWithIs
<1>12. Running(t, d, i, v, P)
  BY <1>1, <1>9, RunningTurned
<1>13. Running(t, d, i, n, P \ S)
  BY <1>8, <1>9, <1>12, RunningReleased
<1>14. PICK u \in Worlds : Near(u, d, i) /\ Becomes(u)
  BY <1>1, <1>6, <1>13, HasRunIs
<1>15. PendOK'
  BY <1>2, <1>7, <1>8, <1>10, <1>14, CacheWithOK
<1>16. RecStep(i)
  BY <1>2, RecSame
<1>17. n.ev[i].kind # "cross"
  BY <1>2, <1>13 DEF Running
<1>18. sim' = sim /\ lastCrossing' = lastCrossing /\ Rest(i)
  BY <1>15, <1>16 DEF RestOfRun, Rest
<1> DEFINE R == P \ S
<1>19. R = Pending' /\ Running(t, d, i, n, R)
  BY <1>11, <1>13
<1> HIDE DEF P, R, S
<1> QED  BY <1>1, <1>6, <1>11, <1>17, <1>18, <1>19, HasRunInv

\* The end of a miss
LEMMA RunWritebackInv ==
  ASSUME Good, sim.inCSim, NEW t \in Threads, NEW d, NEW i, NEW w, NEW l, Runs(t, d, i, w, l),
         RunWriteback(t, l, w), RestOfRun
  PROVE  Inv'
<1>1. /\ Running(t, d, i, w, Pending) /\ Fit(t, d, l) /\ l.dom = d /\ l.ev = i /\ l.cyc \in Nat
  BY DEF Runs
<1>2. w.ev[i].kind = "missWb" /\ rec' = rec /\ sim' = sim /\ lastCrossing' = lastCrossing
  BY <1>1 DEF RunWriteback, RestOfRun
<1>3. CASE LowPrioGranted(d, l.cyc)
  <2>1. /\ HasRun(t, l, Released([w EXCEPT !.ok = @ /\ cache[d].activeMisses > 0], d, l.cyc + 1))
        /\ cache' = [cache EXCEPT ![d] = [LowPrio(cache[d], l.cyc) EXCEPT
                     !.activeMisses = @ - 1, !.pendingQueue = {}]]
    BY <1>1, <1>3 DEF RunWriteback
  <2> QED  BY <1>2, <2>1, WritebackHasRun
<1>4. CASE ~LowPrioGranted(d, l.cyc)
  <2> DEFINE P == Pending
             c == l.cyc + 1
             n == Requeue(w, d, {i}, c)
  <2>1. HasNotRun(t, l, n) /\ cache' = cache
    BY <1>1, <1>4 DEF RunWriteback
  <2>2. c \in Nat /\ n = Requeue(w, d, {i}, c)
    BY <1>1
  <2> HIDE DEF n, c
  <2>3. Left(t, d, i, NoId, n, P)
    BY <1>1, <1>2, <2>2, RunningRequeued
  <2>4. n \in Worlds /\ Near(n, d, i) /\ Becomes(n)
    BY <2>1, <2>3 DEF Left, HasNotRun
  <2>5. Rest(i) /\ Pending' = P /\ cache' \in [Domain -> CacheRec]
    BY <1>1, <1>2, <2>1, <2>4, SameRest
  <2>6. d \in Domain /\ i \in Ids /\ i \notin Others(t)
    BY <1>1 DEF Running
  <2> HIDE DEF P
  <2> QED  BY <1>1, <1>2, <2>1, <2>3, <2>5, <2>6, HasNotRunInv
<1> QED  BY <1>3, <1>4

-----------------------------------------------------------------------------
(* The weave phase: the steps of a thread                                  *)

\* The local state of a thread that runs an event of domain d
Here(l, d, i, c) == [l EXCEPT !.dom = d, !.ev = i, !.cyc = c]

\* Its fields
LEMMA HereIs ==
  ASSUME NEW t, NEW d \in Domain, NEW l, Fit(t, d, l), NEW i \in Ids, NEW c \in Nat,
         NEW m, m = Here(l, d, i, c), l.pc = "loop"
  PROVE  Fit(t, d, m) /\ m.dom = d /\ m.ev = i /\ m.cyc = c
<1>1. l \in ThreadRec
  BY DEF Fit
<1>2. /\ m.pc = l.pc /\ m.dom = d /\ m.ev = i /\ m.cyc = c /\ m.next = l.next
      /\ m.domPq = l.domPq /\ m.stalled = l.stalled /\ m.nextStalled = l.nextStalled
      /\ m.fromStalled = l.fromStalled
  BY <1>1 DEF ThreadRec, Here
<1>3. m \in ThreadRec
  <2>1. m = [pc |-> l.pc, dom |-> d, ev |-> i, cyc |-> c, next |-> l.next, domPq |-> l.domPq,
             stalled |-> l.stalled, nextStalled |-> l.nextStalled, fromStalled |-> l.fromStalled]
    BY <1>1 DEF ThreadRec, Here
  <2>2. i \in MaybeId
    BY DEF MaybeId
  <2> HIDE <1>2
  <2> QED  BY <1>1, <2>1, <2>2 DEF ThreadRec
<1>4. WorkOf(t, m) = WorkOf(t, l)
  BY <1>2 DEF WorkOf
<1> QED  BY <1>2, <1>3, <1>4 DEF Fit, WorkGoesOn

\* A thread takes the first event of domain d and runs it.
LEMMA RunEventInv ==
  ASSUME Good, sim.inCSim, NEW t \in Threads, th[t].pc = "loop", NEW d \in Domain, Due(t, d),
         NEW l, Fit(t, d, l), l.pc = "loop", RunEvent(t, d, l)
  PROVE  Inv'
<1> DEFINE Runner(m, w) == /\ \/ RunCore(t, m, w) \/ RunMemory(t, m, w) \/ RunLookup(t, m, w)
                              \/ RunWriteback(t, m, w) \/ RunCrossing(t, m, w)
                           /\ RestOfRun
           Asserted(i, cycle) ==
              /\ Alone(t) => cycle >= curCycle[d]
              /\ \/ l.fromStalled
                 \/ ev[i].state \in {"none", "queued"} /\ cycle >= ev[i].minStart
<1>0. \E n \in {Rounds(pq[d])} : \E q \in {Advanced(pq[d], n)} : \E i \in Firsts(q) :
        \E w \in {TakenWorld(d, i, Removed(q, i), DequeueCycle(q), Asserted(i, DequeueCycle(q)))} :
           Runner(Here(l, d, i, DequeueCycle(q)), w)
  BY Zenon DEF RunEvent, Here, TakenWorld
<1> HIDE DEF Runner, Asserted
<1>1. PICK i \in Firsts(Advanced(pq[d], Rounds(pq[d]))) :
        LET cycle == DequeueCycle(Advanced(pq[d], Rounds(pq[d]))) IN
        Runner(Here(l, d, i, cycle),
               TakenWorld(d, i, Removed(Advanced(pq[d], Rounds(pq[d])), i), cycle, Asserted(i, cycle)))
  BY <1>0
<1> DEFINE q == Advanced(pq[d], Rounds(pq[d]))
           cycle == DequeueCycle(q)
           m == Here(l, d, i, cycle)
           ok == Asserted(i, cycle)
           w == TakenWorld(d, i, Removed(q, i), cycle, ok)
<1>2. /\ \/ RunCore(t, m, w) \/ RunMemory(t, m, w) \/ RunLookup(t, m, w)
         \/ RunWriteback(t, m, w) \/ RunCrossing(t, m, w)
      /\ RestOfRun
  BY <1>1 DEF Runner
<1>3. /\ q = Advanced(pq[d], Rounds(pq[d])) /\ i \in Firsts(q) /\ cycle = DequeueCycle(q)
      /\ m = Here(l, d, i, cycle) /\ w = TakenWorld(d, i, Removed(q, i), cycle, ok)
  OBVIOUS
<1>4. ok \in BOOLEAN
  BY DEF Fit, ThreadRec, Asserted
<1> HIDE DEF q, cycle, m, ok, w
<1>5. /\ Running(t, d, i, w, Pending) /\ cycle \in Nat
      /\ w.ev[i].kind = "cross" => w.ev[i].minStart <= cycle
  BY <1>3, <1>4, TakenOK
<1>6. i \in Ids
  BY <1>5 DEF Running
<1>7. Fit(t, d, m) /\ m.dom = d /\ m.ev = i /\ m.cyc = cycle
  BY <1>3, <1>5, <1>6, HereIs
<1>8. Runs(t, d, i, w, m)
  BY <1>5, <1>7 DEF Runs
<1>9. CASE RunCore(t, m, w)
  BY <1>2, <1>8, <1>9, RunCoreInv
<1>10. CASE RunMemory(t, m, w)
  BY <1>2, <1>8, <1>10, RunMemoryInv
<1>11. CASE RunLookup(t, m, w)
  BY <1>2, <1>8, <1>11, RunLookupInv
<1>12. CASE RunWriteback(t, m, w)
  BY <1>2, <1>8, <1>12, RunWritebackInv
<1>13. CASE RunCrossing(t, m, w)
  BY <1>2, <1>5, <1>7, <1>8, <1>13, RunCrossingInv
<1> QED  BY <1>2, <1>9, <1>10, <1>11, <1>12, <1>13

\* The local state of a thread as it is
LEMMA LocalIs ==
  ASSUME Good, NEW t \in Threads, th[t].pc # "asleep"
  PROVE  /\ sim.inCSim /\ th[t] \in ThreadRec
         /\ \A d \in Domain : IF th[t].pc = "loop" THEN (Alone(t) => d = t) => Fit(t, d, th[t])
                             ELSE d = th[t].dom => Fit(t, d, th[t])
<1>1. sim.inCSim /\ NoneStalled(th[t]) /\ Tidy(t, th[t])
  BY DEF Good, LocalOK
<1>2. th[t] \in ThreadRec
  BY DEF Good, TypeOK
<1>3. Works(t) = WorkOf(t, th[t])
  BY DEF Works
<1> QED  BY <1>1, <1>2, <1>3 DEF Fit, WorkGoesOn, NoneStalled, Tidy

\* The crossing is looked after once more.
LEMMA RecheckInv ==
  ASSUME Good, NEW t \in Threads, Recheck(t)
  PROVE  Inv'
<1> DEFINE l == th[t]
           d == l.dom
           i == l.ev
           w == World
<1>1. l.pc = "recheck" /\ cache' = cache /\ rec' = rec /\ RestOfRun
  BY DEF Recheck
<1>2. sim.inCSim /\ l \in ThreadRec /\ (d \in Domain => Fit(t, d, l))
  BY <1>1, LocalIs
<1>3. d \in Domain /\ l.cyc \in Nat /\ l.next \in Nat /\ l.next >= l.cyc
  BY <1>1, <1>2 DEF ThreadRec, Good, HeldOK
<1>4. /\ Running(t, d, i, w, Pending)
      /\ w.ev[i].kind = "cross" /\ w.ev[i].minStart <= l.cyc
  BY <1>1, <1>2, LookingOK
<1>5. /\ w \in Worlds /\ w.ev = ev /\ w.pq = pq /\ w.cur = curCycle
      /\ w.live = live /\ w.halves = halves /\ w.ok = TRUE
      /\ WorldOK(w, Pending, Held, ToldIds, {})
  BY <1>2, WorldIs
<1>6. Runs(t, d, i, w, l)
  BY <1>2, <1>3, <1>4 DEF Runs
<1>7. CASE FinishCrossing(t, l, w)
  <2>1. sim.inCSim /\ Runs(t, d, i, w, l) /\ w.ev[i].kind = "cross" /\ FinishCrossing(t, l, w)
        /\ cache' = cache /\ rec' = rec /\ RestOfRun
    BY <1>1, <1>2, <1>4, <1>6, <1>7
  <2> HIDE DEF l, d, i, w
  <2> QED  BY <2>1, FinishCrossingInv
<1>8. CASE LookLater(t)
  <2> DEFINE E == WithEvent(w.ev, i, [w.ev[i] EXCEPT !.parents = 0])
             v == Turned(w, E, w.ok)
             c == l.next
             n == Requeue(v, d, {i}, c)
             P == Pending
  <2>1. i \in Ids /\ ev[i] \in EventRec /\ i \in Held /\ w.ev \in [Ids -> EventRec]
    <3>1. i \in Ids /\ i # NoId
      BY <1>4, NoIdIs DEF Running
    <3> QED  BY <1>5, <3>1 DEF Worlds, Held
  <2>2. ev[i].parents = 0 /\ ev[i].kind # "none"
    BY <1>5, <2>1 DEF WorldOK, Struct, PlacesOK
  <2>3. [w.ev[i] EXCEPT !.parents = 0] = w.ev[i]
    BY <1>5, <2>1, <2>2 DEF EventRec
  <2>4. E = w.ev
    BY <2>1, <2>3 DEF WithEvent
  <2>5. HasNotRun(t, l, n)
    <3>1. [w EXCEPT !.ev[i].parents = 0] = v
      BY <1>5 DEF Turned, WithEvent, Worlds
    <3> QED  BY <1>8, <3>1 DEF LookLater
  <2>6. v = w
    BY <1>5, <2>4 DEF Turned, Worlds
  <2>7. n = Requeue(w, d, {i}, c) /\ c \in Nat
    BY <1>3, <2>6
  <2>8. w.ev[i].kind = "cross" => c >= w.ev[i].minStart
    <3>1. w.ev[i].minStart \in Nat
      BY <1>5, <2>1 DEF EventRec
    <3> QED  BY <1>3, <1>4, <3>1
  <2> HIDE DEF E, v, n, c, w
  <2>9. Left(t, d, i, NoId, n, P)
    <3> HIDE DEF l, d, i, P
    <3> QED  BY <1>4, <2>7, <2>8, RunningRequeued DEF P
  <2>10. n \in Worlds /\ Near(n, d, i) /\ Becomes(n)
    BY <2>5, <2>9 DEF Left, HasNotRun
  <2>11. Rest(i) /\ Pending' = P /\ cache' \in [Domain -> CacheRec]
    <3>1. w.ev[i].kind # "core"
      BY <1>4
    <3> HIDE DEF l, d, i
    <3> QED  BY <1>1, <1>2, <1>4, <2>10, <3>1, SameRest
  <2>12. d \in Domain /\ i \in Ids /\ i \notin Others(t) /\ sim' = sim /\ lastCrossing' = lastCrossing
         /\ Fit(t, d, l) /\ l.dom = d
    BY <1>1, <1>2, <1>3, <1>4 DEF Running, RestOfRun
  <2> HIDE DEF P, l, d, i
  <2> QED  BY <1>2, <2>5, <2>9, <2>11, <2>12, HasNotRunInv
<1> QED  BY <1>7, <1>8 DEF Recheck

\* A sequence without its last element
LEMMA FrontIs ==
  ASSUME NEW T, NEW s \in Seq(T), s # <<>>
  PROVE  /\ Front(s) \in Seq(T) /\ Last(s) \in T
         /\ \A b \in Members(s) : b # Last(s) => b \in Members(Front(s))
<1>1. Len(s) \in Nat \ {0} /\ DOMAIN s = 1 .. Len(s) /\ \A n \in 1 .. Len(s) : s[n] \in T
  BY LastOfSeq
<1>2. Last(s) = s[Len(s)] /\ Last(s) \in T
  BY <1>1 DEF Last
<1>3. Front(s) = [n \in 1 .. Len(s) - 1 |-> s[n]]
  BY <1>1 DEF Front
<1>4. Front(s) \in Seq(T)
  BY <1>1, <1>3
<1>5. ASSUME NEW b \in Members(s), b # Last(s) PROVE b \in Members(Front(s))
  <2>1. PICK n \in 1 .. Len(s) : s[n] = b
    BY <1>1 DEF Members
  <2>2. n \in 1 .. Len(s) - 1
    BY <1>1, <1>2, <1>5, <2>1
  <2>3. DOMAIN Front(s) = 1 .. Len(s) - 1 /\ Front(s)[n] = b
    BY <1>3, <2>1, <2>2
  <2> QED  BY <2>2, <2>3 DEF Members
<1> QED  BY <1>2, <1>4, <1>5

\* The queues of a thread over its domains
LocalWith(l, domPq, stalled, next, from) ==
  [l EXCEPT !.domPq = domPq, !.stalled = stalled, !.nextStalled = next, !.fromStalled = from]

\* Its fields
LEMMA LocalWithIs ==
  ASSUME NEW l \in ThreadRec, NEW domPq \in SUBSET Domain, NEW stalled \in Seq(Domain),
         NEW next \in Seq(Domain), NEW from, from \in BOOLEAN,
         NEW m, m = LocalWith(l, domPq, stalled, next, from)
  PROVE  /\ m \in ThreadRec /\ m.domPq = domPq /\ m.stalled = stalled /\ m.nextStalled = next
         /\ m.fromStalled = from /\ m.pc = l.pc /\ m.ev = l.ev /\ m.dom = l.dom
<1>1. m = [pc |-> l.pc, dom |-> l.dom, ev |-> l.ev, cyc |-> l.cyc, next |-> l.next, domPq |-> domPq,
           stalled |-> stalled, nextStalled |-> next, fromStalled |-> from]
  BY DEF LocalWith, ThreadRec
<1>2. m \in ThreadRec
  BY <1>1 DEF ThreadRec
<1> QED  BY <1>1, <1>2

\* A thread finishes a domain for this phase.
LEMMA FinishDomainInv ==
  ASSUME Good, sim.inCSim, ~fault, NEW t \in Threads, th[t].pc = "loop", NEW d \in Domain, ~Due(t, d),
         NEW l \in ThreadRec, WorkGoesOn(t, d, l), l.pc = "loop", l.ev = NoId, NoneStalled(l),
         Tidy(t, l), FinishDomain(t, d, l)
  PROVE  Inv'
<1> DEFINE C == [curCycle EXCEPT ![d] = sim.limit]
           w == World
           n == [World EXCEPT !.cur = C]
<1>1. /\ curCycle' = C /\ th' = [th EXCEPT ![t] = l] /\ ev' = ev /\ pq' = pq /\ live' = live
      /\ slab' = slab /\ halves' = halves /\ fault' = fault /\ sim' = sim /\ cache' = cache /\ rec' = rec
      /\ lastCrossing' = lastCrossing
  BY DEF FinishDomain, Phase, graphVars
<1>2. /\ w \in Worlds /\ w.ev = ev /\ w.pq = pq /\ w.cur = curCycle
      /\ w.live = live /\ w.halves = halves /\ w.ok = TRUE
      /\ WorldOK(w, Pending, Held, ToldIds, {})
  BY WorldIs
<1>3. TypeOK /\ sim.limit \in Nat /\ curCycle \in [Domain -> Nat] /\ rec \in [Core -> RecRec]
      /\ pq[d] \in Ordered /\ fault = FALSE'
  BY <1>1 DEF Good, TypeOK, SimRec
<1>4. C \in [Domain -> Nat] /\ C[d] = sim.limit /\ \A b \in Domain : b # d => C[b] = curCycle[b]
  BY <1>3
<1> HIDE DEF C
<1>5. /\ n \in Worlds /\ n.ev = ev /\ n.pq = pq /\ n.cur = C /\ n.live = live /\ n.halves = halves
      /\ n.ok = TRUE
  <2> HIDE DEF w
  <2>1. n = [w EXCEPT !.cur = C]
    BY DEF w
  <2> HIDE DEF n
  <2>2. n \in Worlds
    BY <1>2, <1>4, <2>1 DEF Worlds
  <2>3. /\ n.ev = w.ev /\ n.pq = w.pq /\ n.cur = C /\ n.live = w.live /\ n.halves = w.halves
        /\ n.ok = w.ok
    BY <1>2, <2>1 DEF Worlds
  <2> QED  BY <1>2, <2>2, <2>3
<1> HIDE DEF n, w
<1>6. Turns(n) /\ n.ok
  BY <1>1, <1>3, <1>5 DEF Turns
<1>7. Near(n, d, NoId) /\ NoId \notin Others(t)
  BY <1>4, <1>5 DEF Near, Others
<1>8. EventOK(l, n)
  BY DEF EventOK
<1>9. Over(d, sim.limit)'
  <2>1. \A p \in Entries(pq[d]) : p[1] >= sim.limit
    <3>1. CASE QueueEmpty(pq[d])
      BY <1>3, <3>1, EmptyQueueIs
    <3>2. CASE ~QueueEmpty(pq[d])
      <4>1. FirstCycle(pq[d]) \in Nat /\ \A p \in Entries(pq[d]) : FirstCycle(pq[d]) <= p[1] /\ p[1] \in Nat
        <5>1. pq \in [Domain -> Ordered]
          BY <1>3 DEF TypeOK
        <5>2. FirstCycle(pq[d]) \in Nat /\ \A p \in Entries(pq[d]) : FirstCycle(pq[d]) <= p[1]
          BY <1>3, <3>2, FirstCycleOf
        <5> QED  BY <5>1, <5>2, EntryOfQueue
      <4>2. FirstCycle(pq[d]) >= sim.limit
        BY <1>3, <3>2, <4>1 DEF Due
      <4> QED  BY <1>3, <4>1, <4>2
    <3> QED  BY <3>1, <3>2
  <2> QED  BY <1>1, <1>4, <2>1 DEF Over
<1>10. WorldOK(n, Pending', Others(t) \cup Mine(l.ev), ToldOthers(t) \cup MineTold(l), {})
  <2>1. Mine(l.ev) = {} /\ MineTold(l) = {}
    BY DEF Mine, MineTold
  <2>2. Pending' = Pending /\ Held = Others(t) /\ ToldIds = ToldOthers(t)
    BY <1>1, LoopIs DEF Pending
  <2>3. WorldOK(n, Pending, Held, ToldIds, {})
    BY <1>2, <1>5 DEF WorldOK
  <2>4. Others(t) \cup Mine(l.ev) = Held /\ ToldOthers(t) \cup MineTold(l) = ToldIds
    BY <2>1, <2>2
  <2> QED  BY <2>2, <2>3, <2>4
<1>11. cache' \in [Domain -> CacheRec] /\ PendOK'
  BY <1>1, <1>3 DEF TypeOK, Good, PendOK
<1>12. RecStep(NoId)
  BY <1>1, <1>3 DEF RecStep
<1>13. Good'
  BY <1>1, <1>5, <1>6, <1>7, <1>8, <1>9, <1>10, <1>11, <1>12, StepGood
<1> QED  BY <1>1, <1>3, <1>13 DEF Inv, TypeOK

\* A thread with one domain
LEMMA RunAloneInv ==
  ASSUME Good, NEW t \in Threads, RunAlone(t)
  PROVE  Inv'
<1>1. th[t].pc = "loop" /\ Alone(t) /\ Due(t, t) /\ RunEvent(t, t, th[t])
  BY DEF RunAlone
<1>2. t \in Domain
  BY <1>1 DEF Threads, Alone, Domain
<1>3. sim.inCSim /\ Fit(t, t, th[t])
  BY <1>1, <1>2, LocalIs
<1> QED  BY <1>1, <1>2, <1>3, RunEventInv

\* Several domains: one that is not stalled
LEMMA RunFirstInv ==
  ASSUME Good, ~fault, NEW t \in Threads, RunFirst(t)
  PROVE  Inv'
<1> DEFINE k == th[t]
<1>1. PICK d \in k.domPq :
        LET l == [k EXCEPT !.domPq = @ \ {d}, !.fromStalled = FALSE] IN
        /\ k.pc = "loop" /\ ~Alone(t)
        /\ IF Due(t, d) THEN RunEvent(t, d, l) ELSE FinishDomain(t, d, l)
  BY DEF RunFirst
<1>2. sim.inCSim /\ k \in ThreadRec /\ NoneStalled(k) /\ k.ev = NoId /\ Works(t) = WorkOf(t, k)
  BY <1>1, LocalIs DEF Good, LocalOK, Works
<1>3. /\ d \in Domain /\ k.domPq \ {d} \in SUBSET Domain /\ k.stalled \in Seq(Domain)
      /\ k.nextStalled \in Seq(Domain) /\ FALSE \in BOOLEAN
  BY <1>2 DEF ThreadRec
<1> DEFINE l == LocalWith(k, k.domPq \ {d}, k.stalled, k.nextStalled, FALSE)
<1>4. k.pc = "loop" /\ ~Alone(t) /\ IF Due(t, d) THEN RunEvent(t, d, l) ELSE FinishDomain(t, d, l)
  <2>1. [k EXCEPT !.domPq = @ \ {d}, !.fromStalled = FALSE] = l
    BY <1>2 DEF LocalWith, ThreadRec
  <2> QED  BY <1>1, <2>1
<1>5. l = LocalWith(k, k.domPq \ {d}, k.stalled, k.nextStalled, FALSE)
  OBVIOUS
<1> HIDE DEF l, k
<1>6. /\ l \in ThreadRec /\ l.domPq = k.domPq \ {d} /\ l.stalled = k.stalled
      /\ l.nextStalled = k.nextStalled /\ l.fromStalled = FALSE /\ l.pc = "loop" /\ l.ev = NoId
  <2> DEFINE D == k.domPq \ {d}
             S == k.stalled
             N == k.nextStalled
             f == FALSE
  <2>1. /\ k \in ThreadRec /\ D \in SUBSET Domain /\ S \in Seq(Domain) /\ N \in Seq(Domain)
        /\ f \in BOOLEAN /\ l = LocalWith(k, D, S, N, f)
    BY <1>2, <1>3, <1>5
  <2> HIDE DEF D, S, N, f
  <2>2. /\ l \in ThreadRec /\ l.domPq = D /\ l.stalled = S /\ l.nextStalled = N
        /\ l.fromStalled = f /\ l.pc = k.pc /\ l.ev = k.ev
    BY <2>1, LocalWithIs
  <2> QED  BY <1>2, <1>4, <2>2 DEF D, S, N, f
<1>7. WorkGoesOn(t, d, l)
  BY <1>2, <1>4, <1>6 DEF WorkGoesOn, WorkOf
<1>8. NoneStalled(l) /\ Tidy(t, l)
  BY <1>2, <1>4, <1>6 DEF NoneStalled, Tidy
<1>9. Fit(t, d, l)
  BY <1>4, <1>6, <1>7, <1>8 DEF Fit, NoneStalled, k
<1>10. CASE Due(t, d)
  BY <1>2, <1>3, <1>4, <1>6, <1>9, <1>10, RunEventInv DEF k
<1>11. CASE ~Due(t, d)
  BY <1>2, <1>3, <1>4, <1>6, <1>7, <1>8, <1>11, FinishDomainInv DEF k
<1> QED  BY <1>10, <1>11

\* A thread goes over the stalled domains again.
LEMMA SwapIs ==
  ASSUME NEW l \in ThreadRec, NEW m, m = SwapStalled(l)
  PROVE  /\ m \in ThreadRec /\ m.domPq = l.domPq /\ m.fromStalled = l.fromStalled
         /\ m.pc = l.pc /\ m.ev = l.ev /\ m.dom = l.dom
         /\ m.stalled = <<>> => m.nextStalled = <<>>
         /\ \A b : b \in Members(l.stalled) \cup Members(l.nextStalled)
                   => b \in Members(m.stalled) \cup Members(m.nextStalled)
<1>1. /\ l.domPq \in SUBSET Domain /\ l.nextStalled \in Seq(Domain) /\ <<>> \in Seq(Domain)
      /\ l.fromStalled \in BOOLEAN
  BY DEF ThreadRec
<1>2. CASE l.stalled = <<>>
  <2> DEFINE v == LocalWith(l, l.domPq, l.nextStalled, <<>>, l.fromStalled)
  <2>1. m = v
    BY <1>2 DEF SwapStalled, LocalWith, ThreadRec
  <2>2. m = LocalWith(l, l.domPq, l.nextStalled, <<>>, l.fromStalled)
    BY <2>1
  <2>3. /\ m \in ThreadRec /\ m.domPq = l.domPq /\ m.stalled = l.nextStalled /\ m.nextStalled = <<>>
        /\ m.fromStalled = l.fromStalled /\ m.pc = l.pc /\ m.ev = l.ev /\ m.dom = l.dom
    <3> DEFINE D == l.domPq
               S == l.nextStalled
               N == <<>>
               f == l.fromStalled
    <3>1. /\ D \in SUBSET Domain /\ S \in Seq(Domain) /\ N \in Seq(Domain)
          /\ f \in BOOLEAN /\ m = LocalWith(l, D, S, N, f)
      BY <1>1, <2>2
    <3> HIDE DEF D, S, N, f
    <3>2. /\ m \in ThreadRec /\ m.domPq = D /\ m.stalled = S /\ m.nextStalled = N
          /\ m.fromStalled = f /\ m.pc = l.pc /\ m.ev = l.ev /\ m.dom = l.dom
      BY <3>1, LocalWithIs
    <3> QED  BY <3>2 DEF D, S, N, f
  <2>4. Members(l.stalled) = {}
    BY <1>2 DEF Members
  <2> QED  BY <2>3, <2>4
<1>3. CASE l.stalled # <<>>
  BY <1>3 DEF SwapStalled
<1> QED  BY <1>2, <1>3

\* Several domains: one that is stalled
LEMMA RunStalledInv ==
  ASSUME Good, ~fault, NEW t \in Threads, RunStalled(t)
  PROVE  Inv'
<1> DEFINE k == th[t]
           d == Last(k.stalled)
           l == LocalWith(k, k.domPq, Front(k.stalled), k.nextStalled, TRUE)
           m == SwapStalled(l)
<1>1. k.pc = "loop" /\ ~Alone(t) /\ k.domPq = {} /\ k.stalled # <<>>
  BY DEF RunStalled
<1>2. sim.inCSim /\ k \in ThreadRec /\ k.ev = NoId /\ Works(t) = WorkOf(t, k)
  BY <1>1, LocalIs DEF Good, LocalOK, Works
<1>3. /\ k.domPq \in SUBSET Domain /\ k.stalled \in Seq(Domain) /\ k.nextStalled \in Seq(Domain)
      /\ TRUE \in BOOLEAN
  BY <1>2 DEF ThreadRec
<1>4. /\ Front(k.stalled) \in Seq(Domain) /\ d \in Domain
      /\ \A b \in Members(k.stalled) : b # d => b \in Members(Front(k.stalled))
  BY <1>1, <1>3, FrontIs
<1>5. IF Due(t, d) THEN RunEvent(t, d, l) ELSE FinishDomain(t, d, m)
  <2>1. [k EXCEPT !.stalled = Front(@), !.fromStalled = TRUE] = l
    BY <1>2 DEF LocalWith, ThreadRec
  <2> QED  BY <2>1 DEF RunStalled
<1>6. l = LocalWith(k, k.domPq, Front(k.stalled), k.nextStalled, TRUE) /\ m = SwapStalled(l)
  OBVIOUS
<1> HIDE DEF l, m, d, k
<1>7. /\ l \in ThreadRec /\ l.domPq = k.domPq /\ l.stalled = Front(k.stalled)
      /\ l.nextStalled = k.nextStalled /\ l.fromStalled = TRUE /\ l.pc = "loop" /\ l.ev = NoId
  <2> DEFINE D == k.domPq
             S == Front(k.stalled)
             N == k.nextStalled
             f == TRUE
  <2>1. /\ k \in ThreadRec /\ D \in SUBSET Domain /\ S \in Seq(Domain) /\ N \in Seq(Domain)
        /\ f \in BOOLEAN /\ l = LocalWith(k, D, S, N, f)
    BY <1>2, <1>3, <1>4, <1>6
  <2> HIDE DEF D, S, N, f
  <2>2. /\ l \in ThreadRec /\ l.domPq = D /\ l.stalled = S /\ l.nextStalled = N
        /\ l.fromStalled = f /\ l.pc = k.pc /\ l.ev = k.ev
    BY <2>1, LocalWithIs
  <2> QED  BY <1>1, <1>2, <2>2 DEF D, S, N, f
<1>8. WorkGoesOn(t, d, l)
  BY <1>1, <1>2, <1>4, <1>7 DEF WorkGoesOn, WorkOf
<1>9. Fit(t, d, l)
  BY <1>1, <1>7, <1>8 DEF Fit, k
<1>10. CASE Due(t, d)
  BY <1>1, <1>2, <1>4, <1>5, <1>7, <1>9, <1>10, RunEventInv DEF k
<1>11. CASE ~Due(t, d)
  <2>1. /\ m \in ThreadRec /\ m.domPq = l.domPq /\ m.pc = l.pc /\ m.ev = l.ev
        /\ m.stalled = <<>> => m.nextStalled = <<>>
        /\ \A b : b \in Members(l.stalled) \cup Members(l.nextStalled)
                   => b \in Members(m.stalled) \cup Members(m.nextStalled)
    BY <1>6, <1>7, SwapIs
  <2>2. NoneStalled(m) /\ Tidy(t, m)
    BY <1>1, <2>1 DEF NoneStalled, Tidy
  <2>3. WorkGoesOn(t, d, m)
    BY <1>1, <1>7, <1>8, <2>1 DEF WorkGoesOn, WorkOf
  <2> QED  BY <1>1, <1>2, <1>4, <1>5, <1>7, <1>11, <2>1, <2>2, <2>3, FinishDomainInv DEF k
<1> QED  BY <1>10, <1>11

-----------------------------------------------------------------------------
(* The weave phase: a thread looks at the clocks                           *)

\* The local state of a thread that has read the clocks
LookAt(l, n) == [l EXCEPT !.pc = "recheck", !.next = n]

\* Its fields
LEMMA LookAtIs ==
  ASSUME NEW l \in ThreadRec, NEW n \in Nat, NEW m, m = LookAt(l, n)
  PROVE  /\ Same(m, l, l.dom) /\ m.pc = "recheck" /\ m.ev = l.ev /\ m.cyc = l.cyc /\ m.next = n
<1>1. m \in ThreadRec
  <2>1. m = [pc |-> "recheck", dom |-> l.dom, ev |-> l.ev, cyc |-> l.cyc, next |-> n,
             domPq |-> l.domPq, stalled |-> l.stalled, nextStalled |-> l.nextStalled,
             fromStalled |-> l.fromStalled]
    BY DEF LookAt, ThreadRec
  <2> QED  BY <2>1 DEF ThreadRec
<1>2. /\ m.pc = "recheck" /\ m.ev = l.ev /\ m.cyc = l.cyc /\ m.next = n /\ m.dom = l.dom
      /\ m.domPq = l.domPq /\ m.stalled = l.stalled /\ m.nextStalled = l.nextStalled
      /\ m.fromStalled = l.fromStalled
  BY DEF LookAt, ThreadRec
<1> QED  BY <1>1, <1>2 DEF Same

\* When a crossing looks again
NextLook(t) ==
  LET e == ev[th[t].ev] IN
  Max({rec[e.owner].startSlack + e.orig + e.postSlack,
       curCycle[e.src] + e.preSlack + e.postSlack, th[t].cyc})
\* It is not before now.
LEMMA NextLookIs ==
  ASSUME Good, NEW t \in Threads, th[t].ev \in Ids, ev[th[t].ev].kind = "cross"
  PROVE  NextLook(t) \in Nat /\ NextLook(t) >= th[t].cyc
<1> DEFINE e == ev[th[t].ev]
           a == rec[e.owner].startSlack + e.orig + e.postSlack
           b == curCycle[e.src] + e.preSlack + e.postSlack
           c == th[t].cyc
<1>1. /\ e \in EventRec /\ rec \in [Core -> RecRec] /\ curCycle \in [Domain -> Nat]
      /\ th[t] \in ThreadRec
  BY DEF Good, TypeOK
<1>2. rec[e.owner] \in RecRec /\ curCycle[e.src] \in Nat
  <2>1. e.owner = th[t].ev[1] /\ th[t].ev[1] \in Core
    BY DEF Good, Struct, EventsOK, Ids
  <2>2. e.src \in Domain
    BY <1>1 DEF EventRec
  <2> QED  BY <1>1, <2>1, <2>2
<1>3. a \in Int /\ b \in Int /\ c \in Int /\ c \in Nat
  <2>1. /\ e.orig \in Int /\ e.postSlack \in Nat /\ e.preSlack \in Nat
        /\ rec[e.owner].startSlack \in Int /\ c \in Nat
    BY <1>1, <1>2 DEF EventRec, RecRec, ThreadRec
  <2> QED  BY <1>2, <2>1
<1>4. NextLook(t) = Max({a, b, c})
  BY DEF NextLook
<1> HIDE DEF a, b, c
<1>5. Max({a, b, c}) \in {a, b, c} /\ Max({a, b, c}) >= c
  BY <1>3, MaxOfThree
<1>6. NextLook(t) \in Nat /\ NextLook(t) >= c
  BY <1>3, <1>4, <1>5
<1> QED  BY <1>6 DEF c

\* The clock and the delay are read.
LEMMA LookInv ==
  ASSUME Good, ~fault, NEW t \in Threads, Look(t)
  PROVE  Inv'
<1> DEFINE l == th[t]
           d == l.dom
           i == l.ev
           c == NextLook(t)
           m == LookAt(l, c)
           n == World
<1>1. /\ l.pc = "look" /\ cache' = cache /\ rec' = rec /\ sim' = sim /\ lastCrossing' = lastCrossing
      /\ ev' = ev /\ pq' = pq /\ live' = live /\ slab' = slab /\ halves' = halves
      /\ curCycle' = curCycle /\ fault' = fault
  BY DEF Look, RestOfRun, graphVars
<1>2. th' = [th EXCEPT ![t] = m]
  <2>1. th' = [th EXCEPT ![t].pc = "recheck", ![t].next = c]
    BY DEF Look, NextLook
  <2>2. th \in [Threads -> ThreadRec]
    BY DEF Good, TypeOK
  <2> HIDE DEF c
  <2> QED  BY <2>1, <2>2 DEF LookAt
<1>3. sim.inCSim /\ l \in ThreadRec /\ (d \in Domain => Fit(t, d, l))
  BY <1>1, LocalIs
<1>4. d \in Domain /\ i \in MaybeId
  BY <1>3 DEF ThreadRec
<1>5. /\ Running(t, d, i, n, Pending)
      /\ n.ev[i].kind = "cross" /\ n.ev[i].minStart <= l.cyc
  BY <1>1, <1>3, LookingOK
<1>6. /\ n \in Worlds /\ n.ev = ev /\ n.pq = pq /\ n.cur = curCycle
      /\ n.live = live /\ n.halves = halves /\ n.ok = TRUE
      /\ WorldOK(n, Pending, Held, ToldIds, {})
  BY <1>3, WorldIs
<1>7. i \in Ids /\ i \notin Others(t) /\ Near(n, d, i) /\ n.ev[i].dom = d
      /\ n.ev[i].minStart <= sim.limit
  BY <1>5 DEF Running
<1>8. c \in Nat /\ c >= l.cyc
  BY <1>5, <1>6, <1>7, NextLookIs
<1>9. m = LookAt(l, c)
  OBVIOUS
<1> HIDE DEF m, c
<1>10. Same(m, l, d) /\ m.pc = "recheck" /\ m.ev = i /\ m.cyc = l.cyc /\ m.next = c
  BY <1>3, <1>8, <1>9, LookAtIs
<1> HIDE DEF n
<1>11. Turns(n) /\ n.ok /\ ev' = n.ev
  BY <1>1, <1>6 DEF Turns
<1>12. m \in ThreadRec /\ m.dom = d
  BY <1>10 DEF Same
<1>13. EventOK(m, n)
  <2> HIDE DEF l, d, i
  <2>1. /\ m.ev = i /\ m.pc = "recheck" /\ m.cyc = l.cyc /\ m.next >= m.cyc /\ m.dom = d
        /\ n.ev[i].dom = d /\ n.ev[i].kind = "cross" /\ n.ev[i].minStart <= l.cyc
        /\ n.ev[i].minStart <= sim.limit /\ i # NoId
    BY <1>5, <1>7, <1>8, <1>10, <1>12, NoIdIs
  <2> QED  BY <2>1 DEF EventOK
<1>14. WorkGoesOn(t, d, m) /\ d \in WorkOf(t, m) /\ NoneStalled(m) /\ Tidy(t, m)
  <2> HIDE DEF l, d
  <2> QED  BY <1>3, <1>4, <1>10, SameWork
<1>15. Rest(i) /\ Pending' = Pending /\ cache' \in [Domain -> CacheRec]
  <2>1. ev[i].kind # "core" /\ i \notin Pending
    BY <1>5, <1>6 DEF Running
  <2> HIDE DEF l, d, i
  <2>2. RecStep(i)
    BY <1>1, <1>3, <1>7, <2>1, RecSame
  <2>3. PendOK' /\ Pending' = Pending /\ cache' \in [Domain -> CacheRec]
    BY <1>1, <1>6, <1>7, <1>11, <2>1, CacheSame
  <2> QED  BY <2>2, <2>3 DEF Rest
<1>16. WorldOK(n, Pending', Others(t) \cup Mine(m.ev), ToldOthers(t) \cup MineTold(m), {})
  <2>1. Mine(m.ev) = {i} /\ MineTold(m) = {}
    BY <1>7, <1>10, NoIdIs DEF Mine, MineTold
  <2>2. Held = Others(t) \cup {i} /\ ToldIds = ToldOthers(t)
    <3>1. th[t].pc = "look" /\ th[t].ev = i /\ i # NoId
      BY <1>1, <1>7, NoIdIs
    <3> QED  BY <3>1, OthersAre
  <2>3. /\ Others(t) \cup Mine(m.ev) = Held /\ ToldOthers(t) \cup MineTold(m) = ToldIds
        /\ Pending' = Pending
    BY <1>15, <2>1, <2>2
  <2> QED  BY <1>6, <2>3
<1>17. PendOK' /\ RecStep(i) /\ l.pc # "asleep" /\ m.ev \in {i, NoId}
  BY <1>1, <1>10, <1>15 DEF Rest
<1> HIDE DEF i, d
<1>18. Good'
  BY <1>1, <1>2, <1>3, <1>4, <1>6, <1>7, <1>11, <1>12, <1>13, <1>14, <1>15, <1>16, <1>17, StepGood
<1> QED  BY <1>1, <1>6, <1>18 DEF Inv, Worlds

-----------------------------------------------------------------------------
(* The weave phase: threads wake and sleep                                 *)

\* The state of the simulation after a thread woke or fell asleep
SimWith(w, n, o) == [sim EXCEPT !.woken = w, !.threadsDone = n, !.waitOpen = o]
\* Its fields
LEMMA SimWithIs ==
  ASSUME Good, NEW w \in SUBSET Nat, NEW n \in Nat, NEW o, o \in BOOLEAN, NEW s, s = SimWith(w, n, o)
  PROVE  /\ s \in SimRec /\ s.woken = w /\ s.threadsDone = n /\ s.waitOpen = o
         /\ s.inCSim = sim.inCSim /\ s.limit = sim.limit /\ s.lastLimit = sim.lastLimit
         /\ s.numSimThreads = sim.numSimThreads
<1>1. sim \in SimRec
  BY DEF Good, TypeOK
<1>2. s = [inCSim |-> sim.inCSim, limit |-> sim.limit, lastLimit |-> sim.lastLimit, threadsDone |-> n,
           numSimThreads |-> sim.numSimThreads, woken |-> w, waitOpen |-> o]
  BY <1>1 DEF SimWith, SimRec
<1>3. s \in SimRec
  BY <1>1, <1>2 DEF SimRec
<1> QED  BY <1>2, <1>3

\* A thread without an event wakes or falls asleep.
LEMMA SleepGood ==
  ASSUME Good, sim.inCSim, NEW t \in Threads, th[t].ev = NoId, th[t].pc \in {"asleep", "loop"},
         NEW m \in ThreadRec, m.ev = NoId, m.pc \in {"asleep", "loop"}, th' = [th EXCEPT ![t] = m],
         ev' = ev, pq' = pq, live' = live, slab' = slab, halves' = halves, cache' = cache, rec' = rec,
         lastCrossing' = lastCrossing, curCycle' \in [Domain -> Nat],
         sim' \in SimRec, sim'.numSimThreads = sim.numSimThreads, sim'.inCSim = TRUE,
         sim'.limit = sim.limit, sim'.woken \subseteq Threads,
         \A u \in Threads : LocalOK(u)', CountOK', DomainsOK'
  PROVE  Good'
<1>1. TypeOK /\ th \in [Threads -> ThreadRec] /\ Threads' = Threads
  BY DEF Good, TypeOK, Threads
<1>2. th'[t] = m /\ \A u \in Threads : u # t => th'[u] = th[u]
  BY <1>1
<1>3. th' \in [Threads -> ThreadRec]
  BY <1>1
<1>4. TypeOK'
  BY <1>1, <1>3 DEF TypeOK
<1>5. Held' = Held
  BY <1>1, <1>2 DEF Held
<1>6. ToldIds' = ToldIds
  <2> DEFINE S == {v \in Threads : th[v].pc = "after"}
  <2>1. {v \in Threads : th'[v].pc = "after"} = S /\ \A u \in S : th'[u].ev = th[u].ev
    BY <1>2
  <2>2. /\ ToldIds' = {th'[u].ev : u \in {v \in Threads : th'[v].pc = "after"}} \ {NoId}
        /\ ToldIds = {th[u].ev : u \in S} \ {NoId}
    BY <1>1 DEF ToldIds
  <2> HIDE DEF S
  <2>3. {th'[u].ev : u \in S} = {th[u].ev : u \in S}
    BY <2>1
  <2> QED  BY <2>1, <2>2, <2>3
<1>7. Pending' = Pending /\ Horizon' = Horizon
  BY DEF Pending, Horizon
<1>8. Struct(ev', pq', Pending', Held', ToldIds', {})
  BY <1>5, <1>6, <1>7 DEF Good
<1>9. Counted(ev', live', halves') /\ LastOK(ev', lastCrossing', Horizon')
  BY <1>7 DEF Good
<1>10. PendOK'
  BY DEF Good, PendOK
<1>11. HeldOK'
  <2> SUFFICES ASSUME NEW u \in Threads
               PROVE  /\ th'[u].ev # NoId => ThreadEventOK(u)'
                      /\ th'[u].pc \in {"look", "recheck"} => th'[u].ev # NoId
                      /\ th'[u].pc = "recheck" => th'[u].next >= th'[u].cyc
    BY <1>1 DEF HeldOK
  <2>1. CASE u = t
    BY <1>2, <2>1
  <2>2. CASE u # t
    <3>1. th'[u] = th[u]
      BY <1>2, <2>2
    <3>2. /\ th[u].ev # NoId => ThreadEventOK(u)
          /\ th[u].pc \in {"look", "recheck"} => th[u].ev # NoId
          /\ th[u].pc = "recheck" => th[u].next >= th[u].cyc
      BY DEF Good, HeldOK
    <3>3. ASSUME th[u].ev # NoId, ThreadEventOK(u) PROVE ThreadEventOK(u)'
      <4>1. \A v \in Threads' : th'[v].ev = th[u].ev => v = u
        BY <1>1, <1>2, <3>3 DEF ThreadEventOK
      <4> QED  BY <3>1, <3>3, <4>1 DEF ThreadEventOK
    <3> QED  BY <3>1, <3>2, <3>3
  <2> QED  BY <2>1, <2>2
<1>12. RecOK'
  BY <1>6 DEF Good, RecOK, PrevOK
<1>13. SlabsOK'
  BY DEF Good, SlabsOK
<1> QED  BY <1>1, <1>4, <1>8, <1>9, <1>10, <1>11, <1>12, <1>13 DEF Good

\* The domains of a thread
LEMMA DomainsOfOK ==
  ASSUME NEW m \in Nat \ {0}, NEW n \in Nat \ {0}, m % n = 0, NEW t \in 0 .. n - 1,
         NEW p, p = m \div n
  PROVE  p \in Nat /\ t * p \in Nat /\ (t + 1) * p \in Nat /\ (t + 1) * p <= m /\ (m = n => p = 1)
<1>1. p \in Nat /\ m = n * p
  <2> DEFINE q == m \div n
  <2>1. /\ q \in Nat /\ m % n \in 0 .. n - 1 /\ m = n * q + (m % n)
    BY Quotient
  <2>2. p = q
    OBVIOUS
  <2> HIDE DEF q
  <2>3. n * q \in Nat
    BY <2>1
  <2> QED  BY <2>1, <2>2, <2>3
<1>2. (t + 1) * p <= m /\ t * p \in Nat /\ (t + 1) * p \in Nat
  <2>1. n - (t + 1) \in Nat /\ t \in Nat
    OBVIOUS
  <2>2. (n - (t + 1)) * p \in Nat /\ (t + 1) * p \in Nat /\ t * p \in Nat
    BY <1>1, <2>1
  <2>3. n * p = (t + 1) * p + (n - (t + 1)) * p
    BY <1>1, <2>1
  <2> QED  BY <1>1, <2>2, <2>3
<1>3. ASSUME m = n PROVE p = 1
  <2>1. p # 0
    BY <1>1, <1>3
  <2>2. p < 2
    <3> SUFFICES ASSUME p >= 2 PROVE FALSE
      BY <1>1
    <3>1. p - 2 \in Nat /\ n * (p - 2) \in Nat
      BY <1>1
    <3>2. n * p = 2 * n + n * (p - 2)
      BY <1>1
    <3> QED  BY <1>1, <1>3, <3>1, <3>2
  <2> QED  BY <1>1, <2>1, <2>2
<1> QED  BY <1>1, <1>2, <1>3

\* The local state of a thread that has just woken
Awoken(D) == [Asleep EXCEPT !.pc = "loop", !.domPq = D]
\* Its fields
LEMMA AwokenIs ==
  ASSUME NEW D \in SUBSET Domain, NEW m, m = Awoken(D)
  PROVE  /\ m \in ThreadRec /\ m.pc = "loop" /\ m.ev = NoId /\ m.domPq = D
         /\ m.stalled = <<>> /\ m.nextStalled = <<>>
<1>1. m = [pc |-> "loop", dom |-> 0, ev |-> NoId, cyc |-> 0, next |-> 0, domPq |-> D,
           stalled |-> <<>>, nextStalled |-> <<>>, fromStalled |-> FALSE]
  BY DEF Awoken, Asleep
<1>2. 0 \in Domain /\ <<>> \in Seq(Domain) /\ NoId \in MaybeId
  BY CSimAssumption DEF Domain, MaybeId
<1> QED  BY <1>1, <1>2 DEF ThreadRec
\* So is the one of a thread that sleeps.
LEMMA AsleepIs ==
  Asleep \in ThreadRec /\ Asleep.pc = "asleep" /\ Asleep.ev = NoId
<1>1. 0 \in Domain /\ <<>> \in Seq(Domain) /\ NoId \in MaybeId
  BY CSimAssumption DEF Domain, MaybeId
<1> QED  BY <1>1 DEF ThreadRec, Asleep

\* A thread wakes.
LEMMA WakeInv ==
  ASSUME Good, ~fault, NEW t \in Threads, Wake(t)
  PROVE  Inv'
<1> DEFINE D == IF Alone(t) THEN {} ELSE DomainsOf(t)
           m == Awoken(D)
           s == SimWith(sim.woken \ {t}, sim.threadsDone, sim.waitOpen)
<1>1. /\ th[t].pc = "asleep" /\ t \in sim.woken /\ th' = [th EXCEPT ![t] = m] /\ sim' = s
      /\ ev' = ev /\ pq' = pq /\ live' = live /\ slab' = slab /\ halves' = halves
      /\ cache' = cache /\ rec' = rec
      /\ lastCrossing' = lastCrossing /\ curCycle' = curCycle /\ fault' = fault
  <2>1. sim \in SimRec
    BY DEF Good, TypeOK
  <2>2. [sim EXCEPT !.woken = @ \ {t}] = s
    BY <2>1 DEF SimRec, SimWith
  <2> QED  BY <2>2 DEF Wake, Phase, graphVars, Awoken
<1>2. /\ sim.inCSim /\ sim \in SimRec /\ sim.woken \subseteq Threads /\ TypeOK
      /\ th \in [Threads -> ThreadRec] /\ numDomains % sim.numSimThreads = 0
  BY <1>1 DEF Good, CountOK, TypeOK
<1>3. DomainsOf(t) \in SUBSET Domain /\ (Alone(t) => DomainsOf(t) = {t})
  <2> DEFINE k == sim.numSimThreads
             n == numDomains
             u == t
             p == n \div k
  <2>1. k \in Nat \ {0} /\ n \in Nat \ {0} /\ n % k = 0 /\ u \in 0 .. k - 1
    BY <1>2, CSimAssumption DEF SimRec, Threads
  <2>0. p = n \div k
    OBVIOUS
  <2> HIDE DEF k, n, u, p
  <2>2. u * p \in Nat /\ (u + 1) * p \in Nat /\ (u + 1) * p <= n /\ (n = k => p = 1)
    BY <2>1, <2>0, DomainsOfOK
  <2>3. DomainsOf(t) = u * p .. (u + 1) * p - 1
    BY DEF DomainsOf, k, n, u, p
  <2>4. Domain = 0 .. n - 1 /\ (Alone(t) <=> k = n) /\ u = t
    BY DEF Domain, Alone, k, n, u
  <2>5. DomainsOf(t) \in SUBSET Domain
    <3> DEFINE a == u * p
               b == (u + 1) * p
    <3>1. a \in Nat /\ b \in Nat /\ b <= n /\ DomainsOf(t) = a .. b - 1 /\ n \in Nat
      BY <2>1, <2>2, <2>3
    <3> HIDE DEF a, b
    <3> QED  BY <2>4, <3>1
  <2>6. ASSUME Alone(t) PROVE DomainsOf(t) = {t}
    <3>1. p = 1 /\ u \in Nat
      BY <2>1, <2>2, <2>4, <2>6
    <3>2. u * p = u /\ (u + 1) * p - 1 = u
      BY <3>1
    <3> QED  BY <2>3, <2>4, <3>1, <3>2
  <2> QED  BY <2>5, <2>6
<1>4. D \in SUBSET Domain
  BY <1>3
<1>5. m = Awoken(D) /\ D = IF Alone(t) THEN {} ELSE DomainsOf(t)
  OBVIOUS
<1> HIDE DEF m, D
<1>6. /\ m \in ThreadRec /\ m.pc = "loop" /\ m.ev = NoId /\ m.domPq = D
      /\ m.stalled = <<>> /\ m.nextStalled = <<>>
  BY <1>4, <1>5, AwokenIs
<1>7. /\ s \in SimRec /\ s.woken = sim.woken \ {t} /\ s.threadsDone = sim.threadsDone
      /\ s.waitOpen = sim.waitOpen
      /\ s.inCSim = sim.inCSim /\ s.limit = sim.limit /\ s.lastLimit = sim.lastLimit
      /\ s.numSimThreads = sim.numSimThreads
  <2> DEFINE w == sim.woken \ {t}
             k == sim.threadsDone
             o == sim.waitOpen
  <2>1. w \in SUBSET Nat /\ k \in Nat /\ o \in BOOLEAN /\ s = SimWith(w, k, o)
    BY <1>2 DEF SimRec
  <2> HIDE DEF w, k, o, s
  <2>2. /\ s \in SimRec /\ s.woken = w /\ s.threadsDone = k /\ s.waitOpen = o
        /\ s.inCSim = sim.inCSim /\ s.limit = sim.limit /\ s.lastLimit = sim.lastLimit
        /\ s.numSimThreads = sim.numSimThreads
    BY <2>1, SimWithIs
  <2> QED  BY <2>2 DEF w, k, o
<1> HIDE DEF s
<1>8. /\ th'[t] = m /\ (\A u \in Threads : u # t => th'[u] = th[u]) /\ Threads' = Threads
      /\ \A u \in Threads : Alone(u)' = Alone(u)
  BY <1>1, <1>2, <1>7 DEF Threads, Alone
<1>9. ASSUME NEW u \in Threads PROVE LocalOK(u)'
  <2>1. CASE u = t
    <3>1. NoneStalled(th[t])' /\ Tidy(t, th[t])'
      BY <1>5, <1>6, <1>8 DEF NoneStalled, Tidy
    <3>2. th'[t].pc = "loop" /\ th'[t].ev = NoId /\ t \notin sim'.woken /\ sim'.inCSim
      BY <1>1, <1>2, <1>6, <1>7, <1>8
    <3> QED  BY <2>1, <3>1, <3>2 DEF LocalOK
  <2>2. CASE u # t
    <3>1. LocalOK(u) /\ th'[u] = th[u] /\ Alone(u)' = Alone(u)
      BY <1>8, <2>2 DEF Good
    <3> QED  BY <1>1, <1>2, <1>7, <3>1 DEF LocalOK, NoneStalled, Tidy
  <2> QED  BY <2>1, <2>2
<1>10. Slept' = Slept
  BY <1>1, <1>6, <1>7, <1>8 DEF Slept
<1>11. CountOK'
  <2>1. t \notin Slept
    BY <1>1 DEF Slept
  <2>2. ~sim.waitOpen
    BY <2>1 DEF Good, CountOK
  <2> QED  BY <1>1, <1>2, <1>7, <1>10, <2>2 DEF Good, CountOK
<1>12. DomainsOK'
  <2> SUFFICES ASSUME NEW d \in Domain
               PROVE  Over(d, sim.limit)' \/ \E u \in Threads : d \in Works(u)'
    BY <1>1, <1>2, <1>7, <1>8 DEF DomainsOK
  <2>1. CASE Over(d, sim.limit)
    BY <1>1, <1>7, <2>1 DEF Over
  <2>2. ASSUME NEW u \in Threads, d \in Works(u) PROVE d \in Works(u)'
    <3>1. CASE u = t
      <4>1. d \in DomainsOf(t)
        BY <1>1, <2>2, <3>1 DEF Works
      <4>2. Works(t)' = WorkOf(t, th[t])'
        BY <1>6, <1>8 DEF Works
      <4>3. d \in th'[t].domPq \/ (Alone(t)' /\ d = t)
        BY <1>3, <1>5, <1>6, <1>8, <4>1
      <4> QED  BY <3>1, <4>2, <4>3 DEF WorkOf
    <3>2. CASE u # t
      BY <1>1, <1>7, <1>8, <2>2, <3>2 DEF Works, WorkOf, DomainsOf
    <3> QED  BY <3>1, <3>2
  <2> QED  BY <1>2, <2>1, <2>2 DEF Good, DomainsOK
<1>13. th[t].ev = NoId
  BY <1>1, AsleepIs DEF Good, LocalOK
<1>14. /\ curCycle' \in [Domain -> Nat] /\ sim' \in SimRec /\ sim'.numSimThreads = sim.numSimThreads
       /\ sim'.inCSim = TRUE /\ sim'.limit = sim.limit /\ sim'.woken \subseteq Threads
  BY <1>1, <1>2, <1>7 DEF TypeOK, SimRec
<1>15. Good'
  BY <1>1, <1>2, <1>6, <1>9, <1>11, <1>12, <1>13, <1>14, SleepGood
<1> QED  BY <1>1, <1>2, <1>15 DEF Inv, TypeOK

\* A thread that is done with the phase: its domains are over.
LEMMA DoneGood ==
  ASSUME Good, ~fault, NEW t \in Threads, th[t].pc = "loop", ThreadDone(t),
         curCycle' \in [Domain -> Nat],
         \A b \in Domain : curCycle'[b] = curCycle[b] \/ curCycle'[b] = sim.limit,
         \A b \in Domain : b \in Works(t) => curCycle'[b] = sim.limit /\ \A p \in Entries(pq[b]) : p[1] >= sim.limit
  PROVE  Inv'
<1> DEFINE last == sim.threadsDone + 1 = sim.numSimThreads
           k == IF last THEN 0 ELSE sim.threadsDone + 1
           o == IF last THEN TRUE ELSE sim.waitOpen
           s == SimWith(sim.woken, k, o)
           m == Asleep
<1>1. /\ th' = [th EXCEPT ![t] = m] /\ sim' = s
      /\ ev' = ev /\ pq' = pq /\ live' = live /\ slab' = slab /\ halves' = halves
      /\ cache' = cache /\ rec' = rec
      /\ lastCrossing' = lastCrossing /\ fault' = fault
  <2>1. sim \in SimRec
    BY DEF Good, TypeOK
  <2>2. [sim EXCEPT !.threadsDone = IF last THEN 0 ELSE @ + 1, !.waitOpen = IF last THEN TRUE ELSE @] = s
    BY <2>1 DEF SimRec, SimWith
  <2> HIDE DEF s
  <2> QED  BY <2>2 DEF ThreadDone, Phase, graphVars
<1>2. /\ sim.inCSim /\ sim \in SimRec /\ sim.woken \subseteq Threads /\ TypeOK
      /\ th \in [Threads -> ThreadRec] /\ t \notin sim.woken /\ th[t].ev = NoId
      /\ sim.threadsDone \in Nat /\ sim.waitOpen \in BOOLEAN /\ sim.numSimThreads \in Nat \ {0}
  BY DEF Good, LocalOK, TypeOK, SimRec
<1>3. k \in Nat /\ o \in BOOLEAN /\ s = SimWith(sim.woken, k, o)
  <2>1. k \in Nat /\ o \in {TRUE, sim.waitOpen}
    BY <1>2
  <2>2. o \in BOOLEAN
    <3> HIDE DEF o
    <3> QED  BY <1>2, <2>1
  <2> QED  BY <2>1, <2>2
<1> HIDE DEF s, k, o
<1>4. /\ s \in SimRec /\ s.woken = sim.woken /\ s.threadsDone = k /\ s.waitOpen = o
      /\ s.inCSim = sim.inCSim /\ s.limit = sim.limit /\ s.lastLimit = sim.lastLimit
      /\ s.numSimThreads = sim.numSimThreads
  <2> DEFINE w == sim.woken
  <2>1. w \in SUBSET Nat /\ s = SimWith(w, k, o)
    BY <1>2, <1>3 DEF SimRec
  <2> HIDE DEF w
  <2>2. /\ s \in SimRec /\ s.woken = w /\ s.threadsDone = k /\ s.waitOpen = o
        /\ s.inCSim = sim.inCSim /\ s.limit = sim.limit /\ s.lastLimit = sim.lastLimit
        /\ s.numSimThreads = sim.numSimThreads
    BY <1>3, <2>1, SimWithIs
  <2> QED  BY <2>2 DEF w
<1>5. m \in ThreadRec /\ m.pc = "asleep" /\ m.ev = NoId
  BY AsleepIs
<1>6. /\ th'[t] = m /\ (\A u \in Threads : u # t => th'[u] = th[u]) /\ Threads' = Threads
      /\ \A u \in Threads : Alone(u)' = Alone(u)
  BY <1>1, <1>2, <1>4 DEF Threads, Alone
<1>7. ASSUME NEW u \in Threads PROVE LocalOK(u)'
  <2>1. CASE u = t
    <3>1. NoneStalled(th[t])' /\ Tidy(t, th[t])'
      BY <1>5, <1>6 DEF NoneStalled, Tidy, Asleep
    <3> QED  BY <1>5, <1>6, <2>1, <3>1 DEF LocalOK
  <2>2. CASE u # t
    <3>1. LocalOK(u) /\ th'[u] = th[u] /\ Alone(u)' = Alone(u)
      BY <1>6, <2>2 DEF Good
    <3> QED  BY <1>1, <1>2, <1>4, <3>1 DEF LocalOK, NoneStalled, Tidy
  <2> QED  BY <2>1, <2>2
<1>8. Slept' = Slept \cup {t} /\ t \notin Slept /\ Slept' \in SUBSET Threads
  BY <1>1, <1>2, <1>4, <1>5, <1>6 DEF Slept
<1>9. /\ IsFiniteSet(Threads) /\ Cardinality(Threads) = sim.numSimThreads
      /\ IsFiniteSet(Slept) /\ Cardinality(Slept') = Cardinality(Slept) + 1
      /\ Cardinality(Slept') = Cardinality(Threads) => Slept' = Threads
  <2>1. IsFiniteSet(Threads) /\ Cardinality(Threads) = sim.numSimThreads
    <3> DEFINE n == sim.numSimThreads - 1
    <3>1. n \in Int /\ 0 \in Int /\ n >= 0 /\ n + 1 = sim.numSimThreads /\ Threads = 0 .. n
      BY <1>2 DEF Threads
    <3> HIDE DEF n
    <3> QED  BY <3>1, FS_Interval
  <2>2. Slept \in SUBSET Threads
    BY DEF Slept
  <2>3. IsFiniteSet(Slept)
    BY <2>1, <2>2, FS_Subset
  <2>4. Cardinality(Slept') = Cardinality(Slept) + 1
    BY <1>8, <2>3, FS_AddElement
  <2>5. Cardinality(Slept') = Cardinality(Threads) => Slept' = Threads
    BY <1>8, <2>1, FS_Subset
  <2> QED  BY <2>1, <2>3, <2>4, <2>5
<1>10. CountOK'
  <2>1. ~sim.waitOpen
    BY <1>8 DEF Good, CountOK
  <2>2. sim.threadsDone = Cardinality(Slept)
    BY <1>2, <2>1 DEF Good, CountOK
  <2>3. CASE last
    <3>1. k = 0 /\ o = TRUE
      BY <2>3 DEF k, o
    <3>2. Slept' = Threads
      BY <1>9, <2>2, <2>3
    <3> QED  BY <1>1, <1>2, <1>4, <1>6, <3>1, <3>2 DEF CountOK
  <2>4. CASE ~last
    <3>1. k = sim.threadsDone + 1 /\ o = FALSE
      BY <1>2, <2>1, <2>4 DEF k, o
    <3> QED  BY <1>1, <1>2, <1>4, <1>9, <2>2, <3>1 DEF CountOK
  <2> QED  BY <2>3, <2>4
<1>11. DomainsOK'
  <2> SUFFICES ASSUME NEW d \in Domain
               PROVE  Over(d, sim.limit)' \/ \E u \in Threads : d \in Works(u)'
    BY <1>1, <1>2, <1>4, <1>6 DEF DomainsOK
  <2>1. CASE Over(d, sim.limit)
    BY <1>1, <1>4, <2>1 DEF Over
  <2>2. CASE d \in Works(t)
    BY <1>1, <1>4, <2>2 DEF Over
  <2>3. ASSUME NEW u \in Threads, d \in Works(u), u # t PROVE d \in Works(u)'
    BY <1>1, <1>4, <1>6, <2>3 DEF Works, WorkOf, DomainsOf
  <2> QED  BY <1>2, <2>1, <2>2, <2>3 DEF Good, DomainsOK
<1>12. /\ sim' \in SimRec /\ sim'.numSimThreads = sim.numSimThreads
       /\ sim'.inCSim = TRUE /\ sim'.limit = sim.limit /\ sim'.woken \subseteq Threads
  BY <1>1, <1>2, <1>4 DEF SimRec
<1> HIDE DEF m
<1>13. Good'
  BY <1>1, <1>2, <1>5, <1>7, <1>10, <1>11, <1>12, SleepGood
<1> QED  BY <1>1, <1>2, <1>13 DEF Inv, TypeOK

\* Nothing is left in the queue of a domain that is not due.
LEMMA NotDueIs ==
  ASSUME Good, NEW t, NEW d \in Domain, ~Due(t, d)
  PROVE  \A p \in Entries(pq[d]) : p[1] >= sim.limit
<1>1. pq \in [Domain -> Ordered] /\ pq[d] \in Ordered /\ sim.limit \in Nat
  BY DEF Good, TypeOK, SimRec
<1>2. CASE QueueEmpty(pq[d])
  BY <1>1, <1>2, EmptyQueueIs
<1>3. CASE ~QueueEmpty(pq[d])
  <2>1. FirstCycle(pq[d]) \in Nat /\ \A p \in Entries(pq[d]) : FirstCycle(pq[d]) <= p[1] /\ p[1] \in Nat
    <3>1. FirstCycle(pq[d]) \in Nat /\ \A p \in Entries(pq[d]) : FirstCycle(pq[d]) <= p[1]
      BY <1>1, <1>3, FirstCycleOf
    <3> QED  BY <1>1, <3>1, EntryOfQueue
  <2>2. FirstCycle(pq[d]) >= sim.limit
    BY <1>1, <1>3, <2>1 DEF Due
  <2> QED  BY <1>1, <2>1, <2>2
<1> QED  BY <1>2, <1>3

\* One domain: the end of the loop
LEMMA EndAloneInv ==
  ASSUME Good, ~fault, NEW t \in Threads, EndAlone(t)
  PROVE  Inv'
<1>1. /\ th[t].pc = "loop" /\ Alone(t) /\ ~Due(t, t) /\ ThreadDone(t)
      /\ curCycle' = [curCycle EXCEPT ![t] = sim.limit]
  BY DEF EndAlone
<1>2. t \in Domain
  BY <1>1 DEF Threads, Alone, Domain
<1>3. curCycle \in [Domain -> Nat] /\ sim.limit \in Nat /\ Tidy(t, th[t])
  BY DEF Good, TypeOK, SimRec, LocalOK
<1>4. /\ curCycle' \in [Domain -> Nat] /\ curCycle'[t] = sim.limit
      /\ \A b \in Domain : curCycle'[b] = curCycle[b] \/ curCycle'[b] = sim.limit
  BY <1>1, <1>2, <1>3
<1>5. Works(t) = {t}
  <2>1. th[t].domPq = {} /\ Members(th[t].stalled) = {} /\ Members(th[t].nextStalled) = {}
    BY <1>1, <1>3 DEF Tidy, Members
  <2> QED  BY <1>1, <2>1 DEF Works, WorkOf
<1>6. \A p \in Entries(pq[t]) : p[1] >= sim.limit
  BY <1>1, <1>2, NotDueIs
<1>7. \A b \in Domain : b \in Works(t) => curCycle'[b] = sim.limit /\ \A p \in Entries(pq[b]) : p[1] >= sim.limit
  BY <1>4, <1>5, <1>6
<1> QED  BY <1>1, <1>4, <1>7, DoneGood

\* Several domains: none is left.
LEMMA EndSeveralInv ==
  ASSUME Good, ~fault, NEW t \in Threads, EndSeveral(t)
  PROVE  Inv'
<1>1. /\ th[t].pc = "loop" /\ ~Alone(t) /\ ThreadDone(t) /\ curCycle' = curCycle
      /\ th[t].domPq = {} /\ th[t].stalled = <<>>
  BY DEF EndSeveral
<1>2. curCycle \in [Domain -> Nat] /\ NoneStalled(th[t])
  BY DEF Good, TypeOK, LocalOK
<1>3. Works(t) = {}
  <2>1. Members(th[t].stalled) = {} /\ Members(th[t].nextStalled) = {}
    BY <1>1, <1>2 DEF NoneStalled, Members
  <2> QED  BY <1>1, <2>1 DEF Works, WorkOf
<1> QED  BY <1>1, <1>2, <1>3, DoneGood

-----------------------------------------------------------------------------
(* The weave phase: a thread publishes what its event has done             *)

\* What is alive after an event is freed
LEMMA FreeLiveIs ==
  ASSUME NEW w \in Worlds, NEW i \in Ids, NEW n, n = FreeEvent(w, i)
  PROVE  n.live = Plus(w.live, w.ev[i].owner, Freed(w.ev[i]))
<1> DEFINE c == w.ev[i].owner
           M == [w.live EXCEPT ![c] = @ - IF Links(w.ev[i]) > 1 THEN 2 ELSE 1]
           F == WithEvent(w.ev, i, NoEvent)
<1>1. n = [w EXCEPT !.ev = F, !.live = M]
  BY DEF FreeEvent, WithEvent
<1>2. M = Plus(w.live, c, Freed(w.ev[i]))
  <2> DEFINE e == w.ev[i]
             l == w.live
  <2>1. l \in [Core -> Int]
    BY DEF Worlds
  <2> HIDE DEF e, l, c
  <2>2. [l EXCEPT ![c] = @ - IF Links(e) > 1 THEN 2 ELSE 1] = Plus(l, c, Freed(e))
    BY <2>1, PlusFreed
  <2> QED  BY <2>2 DEF e, l
<1> HIDE DEF M, F
<1>3. n.live = M
  BY <1>1 DEF Worlds
<1> QED  BY <1>2, <1>3 DEF c

\* The source half of crossing x is called and freed.
HalfCalled(w, x, c) == [w EXCEPT !.ev[x].called = TRUE, !.live[c] = @ - 1, !.halves[c] = @ + 1]
\* Its fields
LEMMA HalfCalledIs ==
  ASSUME NEW w \in Worlds, NEW x \in Ids, NEW c \in Core, NEW n, n = HalfCalled(w, x, c)
  PROVE  /\ n \in Worlds /\ n.ev = WithEvent(w.ev, x, WithCalled(w.ev[x]))
         /\ n.pq = w.pq /\ n.cur = w.cur /\ n.ok = w.ok
         /\ n.live = Plus(w.live, c, -1) /\ n.halves = Plus(w.halves, c, 1)
<1> DEFINE E == WithEvent(w.ev, x, WithCalled(w.ev[x]))
           L == Plus(w.live, c, -1)
           H == Plus(w.halves, c, 1)
<1>1. /\ w.ev \in [Ids -> EventRec] /\ w.live \in [Core -> Int] /\ w.halves \in [Core -> Int]
  BY DEF Worlds
<1>2. E \in [Ids -> EventRec]
  <2>1. WithCalled(w.ev[x]) \in EventRec
    BY <1>1, WithCalledIs
  <2> QED  BY <1>1, <2>1, WithEventIs
<1>3. L \in [Core -> Int] /\ H \in [Core -> Int]
  <2>1. -1 \in Int /\ 1 \in Int
    OBVIOUS
  <2> QED  BY <1>1, <2>1, PlusIs
<1>4. n = [w EXCEPT !.ev = E, !.live = L, !.halves = H]
  <2> DEFINE l == w.live
             h == w.halves
  <2>1. l \in [Core -> Int] /\ h \in [Core -> Int]
    BY <1>1
  <2>2. n = [w EXCEPT !.ev = E, !.live = [l EXCEPT ![c] = @ - 1], !.halves = [h EXCEPT ![c] = @ + 1]]
    BY DEF HalfCalled, WithEvent, WithCalled
  <2> HIDE DEF l, h
  <2>3. [l EXCEPT ![c] = @ - 1] = Plus(l, c, -1)
    <3>1. l[c] - 1 = l[c] + -1
      BY <2>1
    <3> QED  BY <3>1 DEF Plus
  <2>4. [h EXCEPT ![c] = @ + 1] = Plus(h, c, 1)
    BY DEF Plus
  <2> HIDE DEF E
  <2> QED  BY <2>2, <2>3, <2>4 DEF l, h
<1> HIDE DEF E, L, H
<1>5. n \in Worlds
  BY <1>2, <1>3, <1>4 DEF Worlds
<1>6. /\ n.ev = E /\ n.live = L /\ n.halves = H /\ n.pq = w.pq /\ n.cur = w.cur /\ n.ok = w.ok
  BY <1>4 DEF Worlds
<1> QED  BY <1>5, <1>6 DEF E, L, H

\* A crossing is called, and the event before it is freed.
LEMMA CalledOK ==
  ASSUME Good, NEW w \in Worlds, NEW i \in Ids, EventsOK(w.ev), w.ev[i].xing # NoId,
         NEW n, n = Called(w, i)
  PROVE  /\ n \in Worlds /\ n.pq = w.pq /\ n.cur = w.cur /\ n.ok = w.ok
         /\ \A j \in Ids : j # i => /\ n.ev[j].kind = w.ev[j].kind /\ n.ev[j].dom = w.ev[j].dom
                                    /\ n.ev[j].minStart = w.ev[j].minStart
                                    /\ n.ev[j].xing = w.ev[j].xing
         /\ \A P, X, T : WorldOK(w, P, X, T, {}) /\ T \subseteq X /\ i \in T
                         => WorldOK(n, P, X \ {i}, T \ {i}, {})
<1> DEFINE E == w.ev
           x == E[i].xing
           c == E[x].owner
           v == HalfCalled(w, x, c)
           u == FreeEvent(w, i)
<1>1. E \in [Ids -> EventRec] /\ w.live \in [Core -> Int] /\ w.halves \in [Core -> Int]
      /\ w.pq \in [Domain -> Ordered]
  BY DEF Worlds
<1>2. /\ x \in Ids /\ E[i].kind # "cross" /\ E[x].kind = "cross" /\ E[x].parentEv = i /\ c \in Core
      /\ x # i /\ \A j \in Ids : E[j].xing = x => j = i
  <2>1. x \in Ids
    BY <1>1 DEF EventRec, MaybeId
  <2>2. E[i].kind # "cross" /\ E[x].kind = "cross" /\ E[x].parentEv = i
    BY DEF EventsOK
  <2>3. c = x[1]
    BY <2>1, <2>2 DEF EventsOK
  <2>4. c \in Core
    BY <2>1, <2>3 DEF Ids
  <2>5. \A j \in Ids : E[j].xing = x => j = i
    <3> TAKE j \in Ids
    <3> HAVE E[j].xing = x
    <3>1. E[j].xing # NoId
      BY <2>1, NoIdIs
    <3>2. E[x].parentEv = j
      BY <3>1 DEF EventsOK
    <3> QED  BY <2>2, <3>2
  <2> QED  BY <2>1, <2>2, <2>4, <2>5
<1>3. n = FreeEvent(v, i)
  BY DEF Called, HalfCalled
<1>4. v = HalfCalled(w, x, c) /\ u = FreeEvent(w, i)
  OBVIOUS
<1> HIDE DEF v, u
<1>5. /\ v \in Worlds /\ v.ev = WithEvent(E, x, WithCalled(E[x]))
      /\ v.pq = w.pq /\ v.cur = w.cur /\ v.ok = w.ok
      /\ v.live = Plus(w.live, c, -1) /\ v.halves = Plus(w.halves, c, 1)
  <2> DEFINE y == x
             b == c
  <2>1. y \in Ids /\ b \in Core /\ v = HalfCalled(w, y, b)
    BY <1>2, <1>4
  <2> HIDE DEF y, b
  <2>2. /\ v \in Worlds /\ v.ev = WithEvent(w.ev, y, WithCalled(w.ev[y]))
        /\ v.pq = w.pq /\ v.cur = w.cur /\ v.ok = w.ok
        /\ v.live = Plus(w.live, b, -1) /\ v.halves = Plus(w.halves, b, 1)
    BY <2>1, HalfCalledIs
  <2> QED  BY <2>2 DEF y, b
<1>6. /\ n \in Worlds /\ n.pq = v.pq /\ n.cur = v.cur /\ n.halves = v.halves /\ n.ok = v.ok
      /\ n.ev = WithEvent(v.ev, i, NoEvent)
  BY <1>3, <1>5, FreeEventOK
<1>7. /\ u \in Worlds /\ u.pq = w.pq /\ u.cur = w.cur /\ u.halves = w.halves /\ u.ok = w.ok
      /\ u.ev = WithEvent(E, i, NoEvent)
      /\ \A P, X, T : WorldOK(w, P, X, T, {}) /\ T \subseteq X /\ i \in X /\ i \in T
                      => WorldOK(u, P, X \ {i}, T \ {i}, {})
  BY <1>2, <1>4, FreeEventOK
<1>8. /\ n.live = Plus(v.live, v.ev[i].owner, Freed(v.ev[i]))
      /\ u.live = Plus(w.live, E[i].owner, Freed(E[i]))
  BY <1>3, <1>4, <1>5, FreeLiveIs
<1>9. WithCalled(E[x]) \in EventRec /\ E[x] \in EventRec
  BY <1>1, <1>2, WithCalledIs
<1>10. v.ev[i] = E[i] /\ v.ev[x] = WithCalled(E[x]) /\ \A j \in Ids : j # x => v.ev[j] = E[j]
  <2> HIDE DEF x, E
  <2> QED  BY <1>1, <1>2, <1>5, <1>9, WithEventIs
<1>11. /\ n.ev[i] = NoEvent /\ u.ev[i] = NoEvent
       /\ \A j \in Ids : j # i => n.ev[j] = v.ev[j] /\ u.ev[j] = E[j]
  <2> HIDE DEF x, E
  <2> DEFINE V == v.ev
  <2>1. V \in [Ids -> EventRec] /\ E \in [Ids -> EventRec] /\ NoEvent \in EventRec
    BY <1>1, <1>5, NoEventIs DEF Worlds
  <2>2. n.ev = WithEvent(V, i, NoEvent) /\ u.ev = WithEvent(E, i, NoEvent)
    BY <1>6, <1>7
  <2> HIDE DEF V
  <2>3. n.ev[i] = NoEvent /\ \A j \in Ids : j # i => n.ev[j] = V[j]
    <3> DEFINE F == WithEvent(V, i, NoEvent)
    <3>1. F[i] = NoEvent
      BY <2>1, WithEventIs
    <3>2. \A j \in Ids : j # i => F[j] = V[j]
      BY <2>1, WithEventIs
    <3> QED  BY <2>2, <3>1, <3>2
  <2>4. u.ev[i] = NoEvent /\ \A j \in Ids : j # i => u.ev[j] = E[j]
    BY <2>1, <2>2, WithEventIs
  <2> QED  BY <2>3, <2>4 DEF V
<1>12. n.ev = WithEvent(u.ev, x, WithCalled(u.ev[x]))
  <2>1. u.ev[x] = E[x]
    BY <1>2, <1>11
  <2>2. n.ev \in [Ids -> EventRec] /\ u.ev \in [Ids -> EventRec]
    BY <1>6, <1>7 DEF Worlds
  <2> DEFINE e == WithCalled(E[x])
             U == u.ev
             y == x
             F == WithEvent(U, y, e)
  <2>3. F \in [Ids -> EventRec] /\ F[y] = e /\ \A j \in Ids : j # y => F[j] = U[j]
    <3>1. e \in EventRec /\ y \in Ids /\ U \in [Ids -> EventRec]
      BY <1>2, <1>9, <2>2
    <3> HIDE DEF e, y, U
    <3>2. F \in [Ids -> EventRec] /\ F[y] = e
      BY <3>1, WithEventIs
    <3>3. \A j \in Ids : j # y => F[j] = U[j]
      BY <3>1, WithEventIs
    <3> QED  BY <3>2, <3>3
  <2> HIDE DEF e
  <2> HIDE DEF F, x, E
  <2>4. \A j \in Ids : n.ev[j] = F[j]
    BY <1>2, <1>10, <1>11, <2>1, <2>3 DEF e
  <2>5. n.ev = F
    BY <2>2, <2>3, <2>4
  <2> QED  BY <2>1, <2>5 DEF F, e
<1>13. /\ u.ev[x] = E[x] /\ u.ev[x].kind = "cross" /\ \A j \in Ids : u.ev[j].xing # x
  <2>1. u.ev[x] = E[x]
    BY <1>2, <1>11
  <2>2. \A j \in Ids : u.ev[j].xing # x
    BY <1>2, <1>11, NoEventIs, NoIdIs
  <2> QED  BY <1>2, <2>1, <2>2
<1> HIDE DEF E, x, c
<1>14. \A j \in Ids : /\ n.ev[j].kind = u.ev[j].kind /\ n.ev[j].dom = u.ev[j].dom
                      /\ n.ev[j].minStart = u.ev[j].minStart /\ n.ev[j].xing = u.ev[j].xing
                      /\ n.ev[j].kids = u.ev[j].kids
  <2>1. u.ev \in [Ids -> EventRec] /\ u.ev[x] \in EventRec
    BY <1>2, <1>7 DEF Worlds
  <2>2. WithCalled(u.ev[x]) \in EventRec
    BY <2>1, WithCalledIs
  <2>3. n.ev[x] = WithCalled(u.ev[x]) /\ \A j \in Ids : j # x => n.ev[j] = u.ev[j]
    BY <1>2, <1>12, <2>1, <2>2, WithEventIs
  <2>4. /\ n.ev[x].kind = u.ev[x].kind /\ n.ev[x].dom = u.ev[x].dom
        /\ n.ev[x].minStart = u.ev[x].minStart /\ n.ev[x].xing = u.ev[x].xing
        /\ n.ev[x].kids = u.ev[x].kids
    <3> DEFINE s == u.ev[x]
    <3>1. s \in EventRec /\ n.ev[x] = WithCalled(s)
      BY <2>1, <2>3
    <3> HIDE DEF s
    <3>2. /\ WithCalled(s).kind = s.kind /\ WithCalled(s).dom = s.dom
          /\ WithCalled(s).minStart = s.minStart /\ WithCalled(s).xing = s.xing
          /\ WithCalled(s).kids = s.kids
      BY <3>1, WithCalledIs
    <3> QED  BY <3>1, <3>2 DEF s
  <2> QED  BY <2>3, <2>4
<1>15. \A b \in Core : n.live[b] + n.halves[b] = u.live[b] + u.halves[b]
  <2> DEFINE k == Freed(E[i])
             o == E[i].owner
             L == w.live
             H == w.halves
             L1 == Plus(L, c, -1)
  <2>1. k \in Int /\ -1 \in Int /\ 1 \in Int /\ L \in [Core -> Int] /\ H \in [Core -> Int]
    BY <1>1 DEF Freed
  <2>2. n.live = Plus(L1, o, k) /\ u.live = Plus(L, o, k) /\ n.halves = Plus(H, c, 1) /\ u.halves = H
    BY <1>5, <1>6, <1>7, <1>8, <1>10
  <2>3. L1 \in [Core -> Int] /\ \A b \in Core : L1[b] = IF b = c THEN L[b] + -1 ELSE L[b]
    <3> HIDE DEF L, H, k, o
    <3> QED  BY <2>1, PlusIs
  <2> HIDE DEF L1, L, H, k, o
  <2>4. \A b \in Core : /\ n.live[b] = IF b = o THEN L1[b] + k ELSE L1[b]
                        /\ u.live[b] = IF b = o THEN L[b] + k ELSE L[b]
                        /\ n.halves[b] = IF b = c THEN H[b] + 1 ELSE H[b]
    BY <2>1, <2>2, <2>3, PlusIs
  <2> SUFFICES ASSUME NEW b \in Core PROVE n.live[b] + n.halves[b] = u.live[b] + u.halves[b]
    OBVIOUS
  <2>5. L[b] \in Int /\ H[b] \in Int
    BY <2>1
  <2> QED  BY <2>1, <2>2, <2>3, <2>4, <2>5
<1>16. ASSUME NEW P, NEW X, NEW T, WorldOK(w, P, X, T, {}), T \subseteq X, i \in T
       PROVE  WorldOK(n, P, X \ {i}, T \ {i}, {})
  <2> DEFINE Y == X \ {i}
             S == T \ {i}
  <2>1. WorldOK(u, P, Y, S, {})
    BY <1>7, <1>16
  <2> HIDE DEF Y, S
  <2>2. /\ Struct(u.ev, u.pq, P, Y, S, {}) /\ Counted(u.ev, u.live, u.halves)
        /\ LastOK(u.ev, lastCrossing, sim.limit) /\ Later(u.halves)
    BY <2>1 DEF WorldOK
  <2>3. u.ev \in [Ids -> EventRec] /\ u.pq \in [Domain -> Ordered]
    BY <1>7 DEF Worlds
  <2>4. Struct(n.ev, u.pq, P, Y, S, {})
    <3> DEFINE F == u.ev
               Q == u.pq
               N == {}
    <3>1. /\ F \in [Ids -> EventRec] /\ Q \in [Domain -> Ordered] /\ Struct(F, Q, P, Y, S, N)
          /\ x \in Ids /\ F[x].kind = "cross" /\ \A j \in Ids : F[j].xing # x
          /\ n.ev = WithEvent(F, x, WithCalled(F[x]))
      BY <1>2, <1>12, <1>13, <2>2, <2>3
    <3> HIDE DEF F, Q, N
    <3>2. Struct(WithEvent(F, x, WithCalled(F[x])), Q, P, Y, S, N)
      BY <3>1, CalledStruct
    <3> QED  BY <3>1, <3>2 DEF Q, N
  <2>5. Counted(n.ev, u.live, u.halves)
    BY <1>14, <2>2, <2>3, KinCounted
  <2>6. Counted(n.ev, n.live, n.halves)
    BY <1>15, <2>5 DEF Counted
  <2>7. LastOK(n.ev, lastCrossing, sim.limit)
    BY <1>14, <2>2, KinLast
  <2>8. n.pq = u.pq
    BY <1>5, <1>6, <1>7
  <2>9. Later(n.halves)
    <3> DEFINE H == w.halves
    <3>1. H \in [Core -> Int] /\ halves \in [Core -> Int] /\ n.halves = Plus(H, c, 1) /\ u.halves = H
      BY <1>5, <1>6, <1>7 DEF Worlds, Good, TypeOK
    <3> HIDE DEF H
    <3>2. \A b \in Core : n.halves[b] = IF b = c THEN H[b] + 1 ELSE H[b]
      BY <3>1 DEF Plus
    <3> QED  BY <2>2, <3>1, <3>2 DEF Later
  <2>10. WorldOK(n, P, Y, S, {})
    BY <2>4, <2>6, <2>7, <2>8, <2>9 DEF WorldOK
  <2> QED  BY <2>10 DEF Y, S
<1>17. \A j \in Ids : j # i => /\ n.ev[j].kind = E[j].kind /\ n.ev[j].dom = E[j].dom
                               /\ n.ev[j].minStart = E[j].minStart /\ n.ev[j].xing = E[j].xing
  BY <1>11, <1>14
<1> QED  BY <1>5, <1>6, <1>16, <1>17 DEF E

\* The local state of a thread that goes back to its loop
Looped(k) == [k EXCEPT !.pc = "loop", !.ev = NoId]
\* Its fields
LEMMA LoopedIs ==
  ASSUME NEW k \in ThreadRec, NEW l, l = Looped(k)
  PROVE  /\ l \in ThreadRec /\ l.pc = "loop" /\ l.ev = NoId /\ l.dom = k.dom /\ l.domPq = k.domPq
         /\ l.stalled = k.stalled /\ l.nextStalled = k.nextStalled /\ l.fromStalled = k.fromStalled
<1>1. l = [pc |-> "loop", dom |-> k.dom, ev |-> NoId, cyc |-> k.cyc, next |-> k.next,
           domPq |-> k.domPq, stalled |-> k.stalled, nextStalled |-> k.nextStalled,
           fromStalled |-> k.fromStalled]
  BY DEF Looped, ThreadRec
<1>2. l \in ThreadRec
  BY <1>1 DEF ThreadRec, MaybeId
<1> QED  BY <1>1, <1>2

\* The domains in the queues of a thread
Queues(l) == l.domPq \cup Members(l.stalled) \cup Members(l.nextStalled)

\* A sequence with one more element
LEMMA AppendIs ==
  ASSUME NEW T, NEW s \in Seq(T), NEW x \in T
  PROVE  Append(s, x) \in Seq(T) /\ Append(s, x) # <<>> /\ Members(s) \cup {x} \subseteq Members(Append(s, x))
<1> DEFINE a == Append(s, x)
<1>1. /\ a \in Seq(T) /\ Len(a) = Len(s) + 1 /\ Len(s) \in Nat /\ DOMAIN a = 1 .. Len(a)
      /\ DOMAIN s = 1 .. Len(s)
      /\ a[Len(s) + 1] = x /\ \A n \in 1 .. Len(s) : a[n] = s[n]
  OBVIOUS
<1> HIDE DEF a
<1>2. a # <<>>
  BY <1>1
<1>3. x \in Members(a)
  BY <1>1 DEF Members
<1>4. \A b \in Members(s) : b \in Members(a)
  BY <1>1 DEF Members
<1> QED  BY <1>1, <1>2, <1>3, <1>4 DEF a

\* Where it goes once the queues are changed
LEMMA RankedWith ==
  ASSUME NEW v \in ThreadRec, v.pc = "loop", v.ev = NoId, NEW m, m = SwapStalled(v)
  PROVE  /\ m \in ThreadRec /\ m.pc = "loop" /\ m.ev = NoId /\ NoneStalled(m)
         /\ Queues(v) \subseteq Queues(m)
<1>1. /\ m \in ThreadRec /\ m.domPq = v.domPq /\ m.fromStalled = v.fromStalled
      /\ m.pc = v.pc /\ m.ev = v.ev /\ (m.stalled = <<>> => m.nextStalled = <<>>)
      /\ \A b : b \in Members(v.stalled) \cup Members(v.nextStalled)
                 => b \in Members(m.stalled) \cup Members(m.nextStalled)
  BY SwapIs
<1>2. NoneStalled(m)
  BY <1>1 DEF NoneStalled
<1>3. Queues(v) \subseteq Queues(m)
  BY <1>1 DEF Queues
<1> QED  BY <1>1, <1>2, <1>3

\* Where a domain goes, it is in the thread's queues.
LEMMA RankedIs ==
  ASSUME NEW l \in ThreadRec, l.pc = "loop", l.ev = NoId, NEW d \in Domain,
         ~l.fromStalled => (l.stalled = <<>> => l.nextStalled = <<>>), NEW m, m = Ranked(l, d)
  PROVE  /\ m \in ThreadRec /\ m.pc = "loop" /\ m.ev = NoId /\ NoneStalled(m)
         /\ Queues(l) \cup {d} \subseteq Queues(m)
<1>1. /\ l.domPq \in SUBSET Domain /\ l.stalled \in Seq(Domain) /\ l.nextStalled \in Seq(Domain)
      /\ l.fromStalled \in BOOLEAN
  BY DEF ThreadRec
<1> DEFINE f == l.fromStalled
           v == IF prio[d] = 0 THEN LocalWith(l, l.domPq \cup {d}, l.stalled, l.nextStalled, f)
                ELSE IF f THEN LocalWith(l, l.domPq, l.stalled, Append(l.nextStalled, d), f)
                ELSE LocalWith(l, l.domPq, Append(l.stalled, d), l.nextStalled, f)
<1>2. m = IF f THEN SwapStalled(v) ELSE v
  BY DEF Ranked, LocalWith, ThreadRec
<1>3. /\ v \in ThreadRec /\ v.pc = "loop" /\ v.ev = NoId /\ v.fromStalled = f
      /\ Queues(l) \cup {d} \subseteq Queues(v)
      /\ ~f => NoneStalled(v)
  <2>1. CASE prio[d] = 0
    <3> DEFINE S == l.stalled
               N == l.nextStalled
               D == l.domPq \cup {d}
    <3>1. /\ v = LocalWith(l, D, S, N, f) /\ D \in SUBSET Domain /\ S \in Seq(Domain)
          /\ N \in Seq(Domain) /\ f \in BOOLEAN
          /\ Queues(l) \cup {d} \subseteq D \cup Members(S) \cup Members(N)
          /\ ~f => (S = <<>> => N = <<>>)
      BY <1>1, <2>1 DEF Queues
    <3> HIDE DEF v, S, N, D, f
    <3>2. v \in ThreadRec /\ v.domPq = D /\ v.stalled = S /\ v.nextStalled = N
      BY <3>1, LocalWithIs
    <3>3. v.fromStalled = f /\ v.pc = l.pc /\ v.ev = l.ev
      BY <3>1, LocalWithIs
    <3> QED  BY <3>1, <3>2, <3>3 DEF Queues, NoneStalled
  <2>2. CASE prio[d] # 0 /\ f
    <3> DEFINE S == l.stalled
               D == l.domPq
               N == Append(l.nextStalled, d)
    <3>1. N \in Seq(Domain) /\ Members(l.nextStalled) \cup {d} \subseteq Members(N)
      BY <1>1, AppendIs
    <3>2. /\ v = LocalWith(l, D, S, N, f) /\ D \in SUBSET Domain /\ S \in Seq(Domain)
          /\ N \in Seq(Domain) /\ f \in BOOLEAN
      BY <1>1, <2>2, <3>1
    <3>3. Queues(l) \cup {d} \subseteq D \cup Members(S) \cup Members(N)
      BY <3>1 DEF Queues
    <3> HIDE DEF v, S, N, D, f
    <3>4. v \in ThreadRec /\ v.domPq = D /\ v.stalled = S /\ v.nextStalled = N
      BY <3>2, LocalWithIs
    <3>5. v.fromStalled = f /\ v.pc = l.pc /\ v.ev = l.ev
      BY <3>2, LocalWithIs
    <3> QED  BY <2>2, <3>3, <3>4, <3>5 DEF Queues
  <2>3. CASE prio[d] # 0 /\ ~f
    <3> DEFINE N == l.nextStalled
               D == l.domPq
               S == Append(l.stalled, d)
    <3>1. S \in Seq(Domain) /\ S # <<>> /\ Members(l.stalled) \cup {d} \subseteq Members(S)
      BY <1>1, AppendIs
    <3>2. /\ v = LocalWith(l, D, S, N, f) /\ D \in SUBSET Domain /\ S \in Seq(Domain)
          /\ N \in Seq(Domain) /\ f \in BOOLEAN /\ S # <<>>
      BY <1>1, <2>3, <3>1
    <3>3. Queues(l) \cup {d} \subseteq D \cup Members(S) \cup Members(N)
      BY <3>1 DEF Queues
    <3> HIDE DEF v, S, N, D, f
    <3>4. v \in ThreadRec /\ v.domPq = D /\ v.stalled = S /\ v.nextStalled = N
      BY <3>2, LocalWithIs
    <3>5. v.fromStalled = f /\ v.pc = l.pc /\ v.ev = l.ev
      BY <3>2, LocalWithIs
    <3> QED  BY <3>2, <3>3, <3>4, <3>5 DEF Queues, NoneStalled
  <2> QED  BY <1>1, <2>1, <2>2, <2>3
<1> HIDE DEF v
<1>4. CASE f
  <2>1. m = SwapStalled(v)
    BY <1>2, <1>4
  <2>2. m \in ThreadRec /\ m.pc = "loop" /\ m.ev = NoId /\ NoneStalled(m)
    BY <1>3, <2>1, RankedWith
  <2>3. Queues(v) \subseteq Queues(m)
    BY <1>3, <2>1, RankedWith
  <2> QED  BY <1>3, <2>2, <2>3
<1>5. CASE ~f
  BY <1>2, <1>3, <1>5
<1> QED  BY <1>4, <1>5

\* The world with a clock set
Clocked(d, now, ok) == [World EXCEPT !.cur[d] = now, !.ok = ok]
\* Its fields
LEMMA ClockedIs ==
  ASSUME Good, sim.inCSim, NEW d \in Domain, NEW now \in Nat, NEW ok, ok \in BOOLEAN,
         NEW w, w = Clocked(d, now, ok)
  PROVE  /\ w \in Worlds /\ w.ev = ev /\ w.pq = pq /\ w.live = live /\ w.halves = halves /\ w.ok = ok
         /\ \A b \in Domain : b # d => w.cur[b] = curCycle[b]
         /\ WorldOK(w, Pending, Held, ToldIds, {})
<1> DEFINE C == [curCycle EXCEPT ![d] = now]
           v == World
<1>1. /\ v \in Worlds /\ v.ev = ev /\ v.pq = pq /\ v.cur = curCycle
      /\ v.live = live /\ v.halves = halves /\ WorldOK(v, Pending, Held, ToldIds, {})
  BY WorldIs
<1>2. curCycle \in [Domain -> Nat]
  BY DEF Good, TypeOK
<1>3. C \in [Domain -> Nat] /\ \A b \in Domain : b # d => C[b] = curCycle[b]
  BY <1>2
<1>4. w = [v EXCEPT !.cur = C, !.ok = ok]
  <2> HIDE DEF v
  <2>1. w = [v EXCEPT !.cur[d] = now, !.ok = ok]
    BY DEF Clocked, v
  <2> QED  BY <1>1, <2>1
<1> HIDE DEF C, v
<1>5. w \in Worlds
  BY <1>1, <1>3, <1>4 DEF Worlds
<1>6. /\ w.ev = v.ev /\ w.pq = v.pq /\ w.live = v.live /\ w.halves = v.halves /\ w.ok = ok /\ w.cur = C
  BY <1>1, <1>4 DEF Worlds
<1> QED  BY <1>1, <1>3, <1>5, <1>6 DEF WorldOK

\* The state is in order when the world is.
LEMMA PublishGood ==
  ASSUME Good, sim.inCSim, NEW t \in Threads, th[t].pc = "after", NEW d \in Domain,
         NEW i, i = th[t].ev, NEW n \in Worlds, Near(n, d, i), Becomes(n), n.pq = pq,
         sim' = sim, cache' = cache, rec' = rec, lastCrossing' = lastCrossing,
         NEW m \in ThreadRec, m.pc = "loop", m.ev = NoId, th' = [th EXCEPT ![t] = m],
         NoneStalled(m), Tidy(t, m), WorkGoesOn(t, d, m), d \in WorkOf(t, m),
         WorldOK(n, Pending, Others(t), ToldOthers(t), {})
  PROVE  Inv'
<1>1. /\ th \in [Threads -> ThreadRec] /\ i \in MaybeId /\ rec \in [Core -> RecRec]
  BY DEF Good, TypeOK, ThreadRec
<1>2. i \notin Others(t)
  <2>1. i # NoId => \A u \in Threads : th[u].ev = i => u = t
    BY DEF Good, HeldOK, ThreadEventOK
  <2> QED  BY <2>1 DEF Others
<1>3. i \notin Pending
  BY HeldApart, NoIdIs DEF Held
<1>4. PendOK' /\ Pending' = Pending /\ cache' \in [Domain -> CacheRec]
  BY <1>3, CacheSame DEF Becomes
<1>5. RecStep(i)
  <2>1. \A c \in Core : rec[c].prevRespEvent # NoId => rec[c].prevRespEvent # i
    <3> SUFFICES ASSUME NEW c \in Core, rec[c].prevRespEvent # NoId, rec[c].prevRespEvent = i
                 PROVE  FALSE
      OBVIOUS
    <3>1. rec[c].prevRespEvent \notin ToldIds
      BY DEF Good, RecOK, PrevOK
    <3> QED  BY <3>1 DEF ToldIds
  <2> QED  BY <1>1, <2>1 DEF RecStep
<1>6. EventOK(m, n)
  BY DEF EventOK
<1>7. WorldOK(n, Pending', Others(t) \cup Mine(m.ev), ToldOthers(t) \cup MineTold(m), {})
  <2>1. Mine(m.ev) = {} /\ MineTold(m) = {}
    BY DEF Mine, MineTold
  <2>2. Others(t) \cup Mine(m.ev) = Others(t) /\ ToldOthers(t) \cup MineTold(m) = ToldOthers(t)
    BY <2>1
  <2> QED  BY <1>4, <2>2
<1>8. fault' = ~n.ok /\ n.ok \in BOOLEAN /\ pq' = n.pq /\ n.pq \in [Domain -> Ordered]
  BY DEF Becomes, Worlds
<1>9. ASSUME ~fault' PROVE Good'
  <2>1. n.ok /\ m.ev \in {i, NoId} /\ th[t].pc # "asleep"
    BY <1>8, <1>9
  <2> QED  BY <1>2, <1>4, <1>5, <1>6, <1>7, <2>1, BecomesTurns, StepGood
<1> QED  BY <1>8, <1>9 DEF Inv

\* A crossing is called, and the clock goes on to the next event.
LEMMA PublishInv ==
  ASSUME Good, NEW t \in Threads, Publish(t)
  PROVE  Inv'
<1> DEFINE k == th[t]
           d == k.dom
           i == k.ev
           l == Looped(k)
           now == ClockOr(pq[d])
           ok == (Alone(t) => now >= curCycle[d])
           w == Clocked(d, now, ok)
           n == IF i = NoId THEN w ELSE Called(w, i)
           m == IF Alone(t) THEN l ELSE Ranked(l, d)
<1>1. /\ k.pc = "after" /\ Becomes(n) /\ th' = [th EXCEPT ![t] = m]
      /\ sim' = sim /\ cache' = cache /\ rec' = rec /\ lastCrossing' = lastCrossing
  <2>1. /\ k.pc = "after" /\ sim' = sim /\ Phase
    BY DEF Publish
  <2>2. Becomes(n)
    BY DEF Publish, Clocked
  <2>3. th' = [th EXCEPT ![t] = m]
    BY DEF Publish, Looped
  <2> QED  BY <2>1, <2>2, <2>3 DEF Phase
<1>2. sim.inCSim /\ k \in ThreadRec /\ (d \in Domain => Fit(t, d, k))
  BY <1>1, LocalIs
<1>3. d \in Domain /\ i \in MaybeId /\ Fit(t, d, k)
  BY <1>2 DEF ThreadRec
<1>4. now \in Nat
  <2>1. pq[d] \in Ordered /\ sim.limit \in Nat
    BY <1>3 DEF Good, TypeOK, SimRec
  <2>2. ~QueueEmpty(pq[d]) => FirstCycle(pq[d]) \in Nat
    BY <2>1, FirstCycleOf
  <2> QED  BY <2>1, <2>2 DEF ClockOr
<1>5. /\ ok \in BOOLEAN /\ w = Clocked(d, now, ok) /\ l = Looped(k)
      /\ m = (IF Alone(t) THEN l ELSE Ranked(l, d))
      /\ n = (IF i = NoId THEN w ELSE Called(w, i))
  OBVIOUS
<1> HIDE DEF n, w, m, l, ok, now
<1>6. /\ w \in Worlds /\ w.ev = ev /\ w.pq = pq /\ w.live = live /\ w.halves = halves
      /\ \A b \in Domain : b # d => w.cur[b] = curCycle[b]
      /\ WorldOK(w, Pending, Held, ToldIds, {})
  <2> HIDE DEF d
  <2> QED  BY <1>2, <1>3, <1>4, <1>5, ClockedIs
<1>7. /\ l \in ThreadRec /\ l.pc = "loop" /\ l.ev = NoId /\ l.dom = d /\ l.domPq = k.domPq
      /\ l.stalled = k.stalled /\ l.nextStalled = k.nextStalled /\ l.fromStalled = k.fromStalled
  BY <1>2, <1>5, LoopedIs
<1>8. /\ ~k.fromStalled => (k.stalled = <<>> => k.nextStalled = <<>>)
      /\ Alone(t) => d = t /\ k.domPq = {} /\ k.stalled = <<>> /\ k.nextStalled = <<>>
      /\ WorkGoesOn(t, d, k)
  BY <1>3 DEF Fit
<1>9. /\ m \in ThreadRec /\ m.pc = "loop" /\ m.ev = NoId /\ NoneStalled(m) /\ Tidy(t, m)
      /\ WorkGoesOn(t, d, m) /\ d \in WorkOf(t, m)
  <2>1. CASE Alone(t)
    <3>1. m = l
      BY <1>5, <2>1
    <3>2. NoneStalled(m) /\ Tidy(t, m)
      BY <1>7, <1>8, <2>1, <3>1 DEF NoneStalled, Tidy
    <3>3. d \in WorkOf(t, m)
      BY <1>8, <2>1 DEF WorkOf
    <3>4. WorkGoesOn(t, d, m)
      BY <1>7, <1>8, <2>1, <3>1 DEF WorkGoesOn, WorkOf
    <3> QED  BY <1>7, <3>1, <3>2, <3>3, <3>4
  <2>2. CASE ~Alone(t)
    <3>1. m = Ranked(l, d)
      BY <1>5, <2>2
    <3>2. /\ m \in ThreadRec /\ m.pc = "loop" /\ m.ev = NoId /\ NoneStalled(m)
          /\ Queues(l) \cup {d} \subseteq Queues(m)
      <4> HIDE DEF d, k
      <4> QED  BY <1>3, <1>7, <1>8, <3>1, RankedIs
    <3>3. Tidy(t, m)
      BY <2>2 DEF Tidy
    <3>4. d \in WorkOf(t, m)
      BY <3>2 DEF WorkOf, Queues
    <3>5. WorkGoesOn(t, d, m)
      <4> SUFFICES ASSUME NEW b \in Domain, b \in Works(t), b # d PROVE b \in WorkOf(t, m)
        BY DEF WorkGoesOn
      <4>1. b \in WorkOf(t, k)
        BY <1>8 DEF WorkGoesOn
      <4>2. b \in Queues(l)
        BY <1>7, <2>2, <4>1 DEF WorkOf, Queues
      <4> QED  BY <3>2, <4>2 DEF WorkOf, Queues
    <3> QED  BY <3>2, <3>3, <3>4, <3>5
  <2> QED  BY <2>1, <2>2
<1>10. /\ Held = Others(t) \cup ({i} \ {NoId}) /\ ToldIds = ToldOthers(t) \cup ({i} \ {NoId})
       /\ ToldOthers(t) \subseteq Others(t)
  BY <1>1, OthersAre
<1>11. n \in Worlds /\ Near(n, d, i) /\ n.pq = pq /\ WorldOK(n, Pending, Others(t), ToldOthers(t), {})
  <2>1. CASE i = NoId
    <3>1. n = w /\ Held = Others(t) /\ ToldIds = ToldOthers(t)
      BY <1>5, <1>10, <2>1
    <3> QED  BY <1>6, <3>1 DEF Near
  <2>2. CASE i # NoId
    <3>1. n = Called(w, i) /\ i \in Ids
      BY <1>3, <1>5, <2>2 DEF MaybeId
    <3>2. /\ ev[i].xing # NoId /\ i \notin Others(t)
      <4>1. ThreadEventOK(t)
        BY <2>2 DEF Good, HeldOK
      <4> QED  BY <1>1, <2>2, <4>1 DEF ThreadEventOK, Others
    <3>3. EventsOK(w.ev) /\ w.ev[i].xing # NoId
      BY <1>6, <3>2 DEF Good, Struct
    <3> HIDE DEF i, d, k
    <3>4. /\ n \in Worlds /\ n.pq = w.pq /\ n.cur = w.cur
          /\ \A j \in Ids : j # i => /\ n.ev[j].kind = w.ev[j].kind /\ n.ev[j].dom = w.ev[j].dom
                                     /\ n.ev[j].minStart = w.ev[j].minStart
                                     /\ n.ev[j].xing = w.ev[j].xing
          /\ \A P, X, T : WorldOK(w, P, X, T, {}) /\ T \subseteq X /\ i \in T
                          => WorldOK(n, P, X \ {i}, T \ {i}, {})
      BY <1>6, <3>1, <3>3, CalledOK
    <3>5. /\ Held \ {i} = Others(t) /\ ToldIds \ {i} = ToldOthers(t) /\ ToldIds \subseteq Held
          /\ i \in ToldIds
      BY <1>10, <2>2, <3>2
    <3>6. WorldOK(n, Pending, Held \ {i}, ToldIds \ {i}, {})
      BY <1>6, <3>4, <3>5
    <3>7. Near(n, d, i)
      BY <1>6, <3>4 DEF Near
    <3> QED  BY <1>6, <3>4, <3>5, <3>6, <3>7
  <2> QED  BY <2>1, <2>2
<1>12. i = th[t].ev /\ th[t].pc = "after"
  BY <1>1
<1> HIDE DEF i, d, k
<1> QED  BY <1>1, <1>2, <1>3, <1>9, <1>11, <1>12, PublishGood

-----------------------------------------------------------------------------
(* Every step, and the theorems                                            *)

\* A step of a simulation thread keeps the invariant.
LEMMA ThreadStepInv ==
  ASSUME Inv, NEW t \in DOMAIN th, ThreadStep(t)
  PROVE  Inv'
<1>1. Good /\ ~fault
  BY DEF Inv, ThreadStep
<1>2. t \in Threads
  <2>1. th \in [Threads -> ThreadRec]
    BY <1>1 DEF Good, TypeOK
  <2> QED  BY <2>1
<1>3. CASE Wake(t)
  BY <1>1, <1>2, <1>3, WakeInv
<1>4. CASE RunAlone(t)
  BY <1>1, <1>2, <1>4, RunAloneInv
<1>5. CASE EndAlone(t)
  BY <1>1, <1>2, <1>5, EndAloneInv
<1>6. CASE RunFirst(t)
  BY <1>1, <1>2, <1>6, RunFirstInv
<1>7. CASE RunStalled(t)
  BY <1>1, <1>2, <1>7, RunStalledInv
<1>8. CASE EndSeveral(t)
  BY <1>1, <1>2, <1>8, EndSeveralInv
<1>9. CASE Look(t)
  BY <1>1, <1>2, <1>9, LookInv
<1>10. CASE Recheck(t)
  BY <1>1, <1>2, <1>10, RecheckInv
<1>11. CASE Publish(t)
  BY <1>1, <1>2, <1>11, PublishInv
<1>12. \/ Wake(t) \/ RunAlone(t) \/ EndAlone(t) \/ RunFirst(t) \/ RunStalled(t) \/ EndSeveral(t)
       \/ Look(t) \/ Recheck(t) \/ Publish(t)
  BY DEF ThreadStep
<1> QED  BY <1>3, <1>4, <1>5, <1>6, <1>7, <1>8, <1>9, <1>10, <1>11, <1>12

\* So does a step that changes nothing.
LEMMA StutterInv ==
  ASSUME Inv, UNCHANGED vars
  PROVE  Inv'
<1>1. /\ ev' = ev /\ pq' = pq /\ live' = live /\ slab' = slab /\ halves' = halves
      /\ curCycle' = curCycle /\ cache' = cache /\ rec' = rec /\ lastCrossing' = lastCrossing /\ sim' = sim /\ th' = th
      /\ fault' = fault
  BY DEF vars, graphVars
<1>2. (Pending' = Pending) /\ (Held' = Held) /\ (ToldIds' = ToldIds) /\ (Horizon' = Horizon)
  BY <1>1 DEF Pending, Held, ToldIds, Horizon, Threads
<1>3. CASE fault
  BY <1>1, <1>3 DEF Inv
<1>4. CASE ~fault
  <2>1. Good
    BY <1>4 DEF Inv
  <2>2. TypeOK'
    BY <1>1, <2>1 DEF Good, TypeOK, Threads
  <2>3. /\ Struct(ev', pq', Pending', Held', ToldIds', {}) /\ Counted(ev', live', halves')
        /\ LastOK(ev', lastCrossing', Horizon')
    BY <1>1, <1>2, <2>1 DEF Good
  <2>4. PendOK' /\ RecOK'
    BY <1>1, <1>2, <2>1 DEF Good, PendOK, RecOK, PrevOK
  <2>5. HeldOK'
    BY <1>1, <2>1 DEF Good, HeldOK, ThreadEventOK, Threads
  <2>6. \A t \in Threads' : LocalOK(t)'
    BY <1>1, <2>1 DEF Good, LocalOK, Tidy, NoneStalled, Alone, Threads
  <2>7. CountOK'
    BY <1>1, <2>1 DEF Good, CountOK, Slept, Threads
  <2>8. DomainsOK'
    BY <1>1, <2>1 DEF Good, DomainsOK, Over, Works, WorkOf, DomainsOf, Alone, Threads
  <2>9. SlabsOK'
    BY <1>1, <2>1 DEF Good, SlabsOK
  <2>10. Good'
    BY <2>2, <2>3, <2>4, <2>5, <2>6, <2>7, <2>8, <2>9 DEF Good
  <2>11. pq' \in [Domain -> Ordered]
    BY <1>1 DEF Inv
  <2> QED  BY <2>10, <2>11 DEF Inv
<1> QED  BY <1>3, <1>4

\* Every step keeps the invariant.
LEMMA NextInv ==
  ASSUME Inv, [Next]_vars
  PROVE  Inv'
<1>1. CASE \E c \in Core : Join(c) \/ Leave(c) \/ \E a \in Accesses[c] : Record(c, a)
  <2>1. PICK c \in Core : Join(c) \/ Leave(c) \/ \E a \in Accesses[c] : Record(c, a)
    BY <1>1
  <2>2. CASE Join(c)
    BY <2>2, JoinInv
  <2>3. CASE Leave(c)
    BY <2>3, LeaveInv
  <2>4. CASE \E a \in Accesses[c] : Record(c, a)
    BY <2>4, RecordInv
  <2> QED  BY <2>1, <2>2, <2>3, <2>4
<1>2. CASE StartWeave
  BY <1>2, StartWeaveInv
<1>3. CASE EndWeave
  BY <1>3, EndWeaveInv
<1>4. CASE \E t \in DOMAIN th : ThreadStep(t)
  BY <1>4, ThreadStepInv
<1>5. CASE Stop
  BY <1>5, StutterInv DEF Stop
<1>6. CASE UNCHANGED vars
  BY <1>6, StutterInv
<1> QED  BY <1>1, <1>2, <1>3, <1>4, <1>5, <1>6 DEF Next

\* At the start there are no events.
LEMMA InitStruct ==
  ASSUME Init
  PROVE  /\ Struct(ev, pq, {}, {}, {}, {}) /\ Counted(ev, live, halves)
         /\ LastOK(ev, lastCrossing, 0) /\ \A d \in Domain : Entries(pq[d]) = {}
<1>1. /\ ev = [i \in Ids |-> NoEvent] /\ pq = [d \in Domain |-> EmptyQueue]
      /\ live = [c \in Core |-> 0] /\ halves = [c \in Core |-> 0]
  BY DEF Init
<1>2. \A i \in Ids : ev[i] = NoEvent
  BY <1>1
<1>3. NoEvent.kind = "none" /\ NoEvent.xing = NoId /\ NoEvent.kids = {}
  BY DEF NoEvent
<1>4. \A d \in Domain : Entries(pq[d]) = {}
  BY <1>1, EmptyQueueOrdered
<1>5. EventsOK(ev)
  BY <1>2, <1>3 DEF EventsOK
<1>6. QueuesOK(ev, pq, {})
  BY <1>4, FS_EmptySet DEF QueuesOK
<1>7. KidsOK(ev, {})
  BY <1>2, <1>3 DEF KidsOK
<1>8. PlacesOK(ev, {}, {}, {})
  BY DEF PlacesOK
<1>9. Somewhere(ev, pq, {}, {}, {}, {})
  BY <1>2, <1>3 DEF Somewhere
<1>10. Counted(ev, live, halves)
  <2> SUFFICES ASSUME NEW c \in Core
               PROVE  live[c] + halves[c] = Cardinality(EventsOf(c, ev)) + Cardinality(BlocksOf(c, ev))
    BY DEF Counted
  <2>1. live[c] = 0 /\ halves[c] = 0
    BY <1>1
  <2>2. \A i \in {c} \X (1 .. MaxEvents) : i \in Ids
    BY DEF Ids
  <2>3. EventsOf(c, ev) = {}
    BY <1>2, <1>3, <2>2 DEF EventsOf
  <2>4. Links(NoEvent) = 0
    BY <1>3, FS_EmptySet DEF Links
  <2>5. BlocksOf(c, ev) = {}
    <3>1. \A i \in {c} \X (1 .. MaxEvents) : ~(Links(ev[i]) > 1)
      BY <1>2, <2>2, <2>4
    <3> QED  BY <3>1 DEF BlocksOf
  <2> QED  BY <2>1, <2>3, <2>5, FS_EmptySet
<1>11. LastOK(ev, lastCrossing, 0)
  <2>1. lastCrossing = [c \in Core |-> [s \in Domain |-> [d \in Domain |-> [cycle |-> 0, ev |-> NoId]]]]
    BY DEF Init
  <2>2. \A c \in Core, s, d \in Domain : lastCrossing[c][s][d].cycle = 0
    BY <2>1
  <2> QED  BY <2>2 DEF LastOK
<1> QED  BY <1>4, <1>5, <1>6, <1>7, <1>8, <1>9, <1>10, <1>11 DEF Struct

\* The state at the start has its type.
LEMMA InitType ==
  ASSUME Init
  PROVE  TypeOK /\ sim.inCSim = FALSE /\ sim.lastLimit = 0 /\ sim.woken = {} /\ sim.threadsDone = 0
         /\ sim.waitOpen = FALSE /\ (\A t \in Threads : th[t] = Asleep)
         /\ \A d \in Domain : cache[d].pendingQueue = {} /\ cache[d].activeMisses = 0
                              /\ cache[d].numMSHRs \in Nat
<1>1. PICK f \in Configs :
        /\ sim = [inCSim |-> FALSE, limit |-> 0, lastLimit |-> 0, threadsDone |-> 0,
                 numSimThreads |-> f.numSimThreads, woken |-> {}, waitOpen |-> FALSE]
        /\ th = [t \in 0 .. f.numSimThreads - 1 |-> Asleep]
        /\ cache = [d \in Domain |-> [activeMisses |-> 0, numMSHRs |-> f.numMSHRs,
                                     lastAccCycle |-> 0, lastFreeCycle |-> 0,
                                     pendingQueue |-> {}]]
  BY DEF Init
<1>2. /\ f.numSimThreads \in Nat \ {0} /\ numDomains % f.numSimThreads = 0
      /\ f.numMSHRs \in Nat \ {0}
  BY CSimAssumption
<1>3. 0 \in Domain /\ NoId \in MaybeId
  BY CSimAssumption DEF Domain, MaybeId
<1>4. ev \in [Ids -> EventRec]
  BY NoEventIs DEF Init
<1>5. pq \in [Domain -> Ordered]
  BY EmptyQueueOrdered DEF Init
<1>6. /\ curCycle \in [Domain -> Nat] /\ live \in [Core -> Int] /\ halves \in [Core -> Int]
      /\ slab \in [Core -> SlabStates]
  BY DEF Init, SlabStates
<1>7. cache \in [Domain -> CacheRec]
  <2>1. [activeMisses |-> 0, numMSHRs |-> f.numMSHRs, lastAccCycle |-> 0, lastFreeCycle |-> 0,
         pendingQueue |-> {}] \in CacheRec
    BY <1>2 DEF CacheRec
  <2> QED  BY <1>1, <2>1
<1>8. rec \in [Core -> RecRec]
  <2>1. [state |-> "HALTED", prevRespEvent |-> NoId, prevRespCycle |-> 0,
         curCycle |-> 0, gapCycles |-> 0, lastStart |-> 0, lastOrig |-> 0,
         startSlack |-> 0, accesses |-> 0, leaves |-> 0] \in RecRec
    BY <1>3 DEF RecRec
  <2> QED  BY <2>1 DEF Init
<1>9. lastCrossing \in Crossings
  BY <1>3 DEF Init, Crossings
<1>10. sim \in SimRec
  BY <1>1, <1>2 DEF SimRec
<1>11. sim.numSimThreads = f.numSimThreads
  BY <1>1
<1>12. th \in [Threads -> ThreadRec] /\ \A t \in Threads : th[t] = Asleep
  BY <1>1, <1>11, AsleepIs DEF Threads
<1>13. TypeOK
  BY <1>1, <1>2, <1>4, <1>5, <1>6, <1>7, <1>8, <1>9, <1>10, <1>11, <1>12 DEF TypeOK
<1>14. \A d \in Domain : cache[d].pendingQueue = {} /\ cache[d].activeMisses = 0
                         /\ cache[d].numMSHRs \in Nat
  BY <1>1, <1>2
<1> QED  BY <1>1, <1>12, <1>13, <1>14

\* The invariant holds at the start.
LEMMA InitInv == Init => Inv
<1> SUFFICES ASSUME Init PROVE Inv
  OBVIOUS
<1>1. /\ TypeOK /\ sim.inCSim = FALSE /\ sim.lastLimit = 0 /\ sim.woken = {} /\ sim.threadsDone = 0
      /\ sim.waitOpen = FALSE /\ (\A t \in Threads : th[t] = Asleep)
      /\ \A d \in Domain : cache[d].pendingQueue = {} /\ cache[d].activeMisses = 0
                           /\ cache[d].numMSHRs \in Nat
  BY InitType
<1>2. /\ Asleep.ev = NoId /\ Asleep.pc = "asleep" /\ Asleep.domPq = {} /\ Asleep.stalled = <<>>
      /\ Asleep.nextStalled = <<>>
  BY DEF Asleep
<1>3. (Pending = {}) /\ (Held = {}) /\ (ToldIds = {}) /\ (Horizon = 0)
  BY <1>1, <1>2 DEF Pending, Held, ToldIds, Horizon
<1>4. Struct(ev, pq, Pending, Held, ToldIds, {}) /\ Counted(ev, live, halves)
      /\ LastOK(ev, lastCrossing, Horizon)
  BY <1>3, InitStruct
<1>5. PendOK
  BY <1>1 DEF PendOK
<1>6. HeldOK
  BY <1>1, <1>2 DEF HeldOK
<1>7. RecOK
  BY DEF Init, RecOK, PrevOK
<1>8. \A t \in Threads : LocalOK(t)
  BY <1>1, <1>2 DEF LocalOK, NoneStalled, Tidy
<1>9. CountOK
  BY <1>1 DEF CountOK
<1>10. DomainsOK
  <2>1. \A d \in Domain : curCycle[d] = 0
    BY DEF Init
  <2>2. \A d \in Domain : Entries(pq[d]) = {}
    BY InitStruct
  <2> QED  BY <1>1, <2>1, <2>2 DEF DomainsOK, Over
<1>11. pq \in [Domain -> Ordered]
  BY <1>1 DEF TypeOK
<1>12. SlabsOK
  BY DEF Init, SlabsOK
<1> QED  BY <1>1, <1>4, <1>5, <1>6, <1>7, <1>8, <1>9, <1>10, <1>11, <1>12 DEF Inv, Good

\* The invariant always holds.
THEOREM Invariant == Spec => []Inv
<1>1. Inv /\ [Next]_vars => Inv'
  BY NextInv
<1> QED  BY <1>1, InitInv, PTL DEF Spec

\* As long as no assertion has failed, the state is of its type: simulate and
\* the recorders keep every event, queue, clock and thread well formed.
THEOREM WeaveTypeOK == Spec => [](AssertionsHold => TypeOK)
<1>1. Inv => (AssertionsHold => TypeOK)
  BY DEF Inv, Good, AssertionsHold
<1> QED  BY <1>1, Invariant, PTL

\* In every domain's queue the map has only events that do not fit in the ring
\* and firstCycle is the least cycle of all (PrioQueue::enqueue, dequeue),
\* whatever the threads, the cores and the crossings do.
THEOREM WeaveQueuesOrdered == Spec => []QueuesOrdered
<1>1. Inv => QueuesOrdered
  BY OrderedFirst DEF Inv, QueuesOrdered
<1> QED  BY <1>1, Invariant, PTL

\* As long as no crossing of a core has been called, its slab counts the events
\* that are alive in it and the blocks of their children, and it has not been
\* collected with an event alive (alloc, done, freeEvent, freeElem): every event
\* is freed once, none too early, whatever crossings the other cores have.
THEOREM WeaveSlabsExact == Spec => [](AssertionsHold => SlabsExact)
<1>1. Inv => (AssertionsHold => SlabsExact)
  <2> SUFFICES ASSUME Good, NEW c \in Core, halves[c] = 0
               PROVE  /\ slab[c] = "ok"
                      /\ live[c] = Cardinality(EventsOf(c, ev)) + Cardinality(BlocksOf(c, ev))
    BY DEF Inv, AssertionsHold, SlabsExact
  <2>1. slab[c] = "ok" /\ live[c] \in Int
    BY DEF Good, SlabsOK, TypeOK
  <2>2. live[c] + halves[c] = Cardinality(EventsOf(c, ev)) + Cardinality(BlocksOf(c, ev))
    BY DEF Good, Counted
  <2> QED  BY <2>1, <2>2
<1> QED  BY <1>1, Invariant, PTL

\* When a phase is over no event was left behind: it is queued for a later
\* cycle, follows one that is, or waits for an MSHR that is not free.
THEOREM WeaveNothingLeft == Spec => [](AssertionsHold => NothingLeft)
<1>1. Inv /\ AssertionsHold => NothingLeft
  <2> SUFFICES ASSUME Inv, AssertionsHold, ~sim.inCSim, NEW i \in Ids, ev[i].kind # "none"
               PROVE  \/ \E p \in Entries(pq[ev[i].dom]) : p[2] = i /\ p[1] >= sim.lastLimit
                      \/ ev[i].state = "none" /\ \E j \in Ids : i \in ev[j].kids
                      \/ /\ i \in cache[ev[i].dom].pendingQueue
                         /\ cache[ev[i].dom].activeMisses = cache[ev[i].dom].numMSHRs
    BY DEF NothingLeft
  <2>1. Good
    BY DEF Inv, AssertionsHold
  <2>2. (Held = {}) /\ (ToldIds = {})
    BY <2>1, BoundIs
  <2>3. Somewhere(ev, pq, Pending, Held, ToldIds, {}) /\ KidsOK(ev, ToldIds)
    BY <2>1 DEF Good, Struct
  <2>4. ev[i].dom \in Domain
    BY <2>1 DEF Good, TypeOK, EventRec
  <2>5. \A p \in Entries(pq[ev[i].dom]) : p[1] >= sim.lastLimit
    BY <2>1, <2>4 DEF Good, DomainsOK, Over
  <2>6. CASE Queued(ev, pq, i)
    BY <2>5, <2>6 DEF Queued
  <2>7. CASE i \in Pending
    <3>1. PICK d \in Domain : i \in cache[d].pendingQueue
      BY <2>7 DEF Pending
    <3>2. ev[i].dom = d /\ cache[d].activeMisses = cache[d].numMSHRs
      BY <2>1, <3>1 DEF Good, PendOK
    <3> QED  BY <3>1, <3>2
  <2>8. CASE \E j \in Ids \ ToldIds : i \in ev[j].kids
    BY <2>3, <2>8 DEF KidsOK, KidOK
  <2> QED  BY <2>2, <2>3, <2>6, <2>7, <2>8 DEF Somewhere
<1> QED  BY <1>1, Invariant, PTL
=============================================================================
