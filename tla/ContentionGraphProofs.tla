----------------------- MODULE ContentionGraphProofs ------------------------
(***************************************************************************)
(* The graph of events of ContentionSim, whatever the cores record and for *)
(* any number of cores, domains and events: what each operator does to it, *)
(* the invariant of the whole simulation, and that the steps of the bound  *)
(* phase and those that start and end a weave phase keep it.               *)
(***************************************************************************)
EXTENDS ContentionSim, FiniteSetTheorems, FunctionTheorems, SequenceTheorems, NaturalsInduction, TLAPS

PQ == INSTANCE PrioQueueProofs WITH Member <- Ids, queue <- pq

-----------------------------------------------------------------------------
(* The queue of a domain, by the lemmas of PrioQueueProofs                 *)

\* What a queue of a domain may be
Queue == [blocks: [Slots -> [Offsets -> SUBSET Ids]],
          feMap: SUBSET (Nat \X Ids), curBlock: Nat]
QueueOK(q) == q \in Queue /\ MapIsLater(q)

\* The parameters of the queues are legal.
LEMMA QueueParameters == PQ!PQAssumption
BY PQAssumption DEF PQ!PQAssumption

\* The operators of PrioQueueProofs are those of the queues.
LEMMA SamePlaces ==
  /\ Half = PQ!Half /\ Slots = PQ!Slots /\ Offsets = PQ!Offsets
  /\ \A x : Block(x) = PQ!Block(x)
BY Zenon DEF Half, PQ!Half, Slots, PQ!Slots, Offsets, PQ!Offsets, Block, PQ!Block

\* So are what queues are and whether they are in order,
LEMMA SameQueues ==
  /\ Queue = PQ!Queue
  /\ \A x : Least(x) = PQ!Least(x)
  /\ \A q : MapIsLater(q) <=> PQ!MapIsLater(q)
  /\ \A q, c : MayEnqueue(q, c) <=> PQ!MayEnqueue(q, c)
<1>1. Queue = PQ!Queue
  BY SamePlaces, Zenon DEF Queue, PQ!Queue
<1>2. \A x : Least(x) = PQ!Least(x)
  BY Zenon DEF Least, PQ!Least
<1>3. \A q : MapIsLater(q) <=> PQ!MapIsLater(q)
  BY SamePlaces, Zenon DEF MapIsLater, PQ!MapIsLater
<1>4. \A q, c : MayEnqueue(q, c) <=> PQ!MayEnqueue(q, c)
  BY SamePlaces, Zenon DEF MayEnqueue, PQ!MayEnqueue
<1> QED  BY <1>1, <1>2, <1>3, <1>4

\* their entries,
LEMMA SameEntries == ASSUME NEW q PROVE Entries(q) = PQ!Entries(q)
<1>1. \A b : RingEntries(q, b) = PQ!RingEntries(q, b)
  BY SamePlaces, Zenon DEF RingEntries, PQ!RingEntries
<1> QED  BY <1>1, Zenon DEF Entries, PQ!Entries

\* enqueue of one event and of several,
LEMMA SameEnqueue ==
  /\ \A q, e, c : Enqueue(q, e, c) = PQ!Enqueue(q, e, c)
  /\ \A q, at : EnqueueEach(q, at) = PQ!EnqueueEach(q, at)
<1>1. \A q, e, c : Enqueue(q, e, c) = PQ!Enqueue(q, e, c)
  BY SamePlaces, Zenon DEF Enqueue, PQ!Enqueue
<1>2. \A q, at : EnqueueEach(q, at) = PQ!EnqueueEach(q, at)
  <2> TAKE q, at
  <2> DEFINE near == {e \in DOMAIN at : Block(at[e]) < q.curBlock + B}
             near2 == {e \in DOMAIN at : PQ!Block(at[e]) < q.curBlock + B}
             f(i, o) == q.blocks[i][o] \cup {e \in near : Block(at[e]) % B = i /\ at[e] % W = o}
             g(i, o) == q.blocks[i][o] \cup {e \in near2 : PQ!Block(at[e]) % B = i /\ at[e] % W = o}
  <2>1. near = near2
    BY SamePlaces
  <2>2. \A i, o : f(i, o) = g(i, o)
    BY <2>1, SamePlaces
  <2>3. {<<at[e], e>> : e \in DOMAIN at \ near} = {<<at[e], e>> : e \in DOMAIN at \ near2}
    BY <2>1
  <2>4. [i \in Slots |-> [o \in Offsets |-> f(i, o)]] = [i \in PQ!Slots |-> [o \in PQ!Offsets |-> g(i, o)]]
    <3> HIDE DEF f, g
    <3>1. \A i : [o \in Offsets |-> f(i, o)] = [o \in PQ!Offsets |-> g(i, o)]
      BY <2>2, SamePlaces
    <3> QED  BY <3>1, SamePlaces
  <2>5. EnqueueEach(q, at) =
          [q EXCEPT !.blocks = [i \in Slots |-> [o \in Offsets |-> f(i, o)]],
                    !.feMap = @ \cup {<<at[e], e>> : e \in DOMAIN at \ near}]
    BY Zenon DEF EnqueueEach
  <2>6. PQ!EnqueueEach(q, at) =
          [q EXCEPT !.blocks = [i \in PQ!Slots |-> [o \in PQ!Offsets |-> g(i, o)]],
                    !.feMap = @ \cup {<<at[e], e>> : e \in DOMAIN at \ near2}]
    BY Zenon DEF PQ!EnqueueEach
  <2> HIDE DEF near, near2, f, g
  <2> QED  BY <2>3, <2>4, <2>5, <2>6
<1> QED  BY <1>1, <1>2

\* the blocks that are occupied,
LEMMA SameOccupied ==
  /\ \A q, i : SlotOccupied(q, i) <=> PQ!SlotOccupied(q, i)
  /\ \A q : Occupied(q) <=> PQ!Occupied(q)
  /\ \A q : QueueEmpty(q) <=> PQ!QueueEmpty(q)
  /\ \A q, b : FirstOf(q, b) = PQ!FirstOf(q, b)
<1>1. \A q, i : SlotOccupied(q, i) <=> PQ!SlotOccupied(q, i)
  BY SamePlaces, Zenon DEF SlotOccupied, PQ!SlotOccupied
<1>2. \A q : Occupied(q) <=> PQ!Occupied(q)
  BY <1>1, Zenon DEF Occupied, PQ!Occupied
<1>3. \A q : QueueEmpty(q) <=> PQ!QueueEmpty(q)
  BY <1>1, SamePlaces, Zenon DEF QueueEmpty, PQ!QueueEmpty
<1>4. \A q, b : FirstOf(q, b) = PQ!FirstOf(q, b)
  BY SamePlaces, Zenon DEF FirstOf, PQ!FirstOf, Least, PQ!Least
<1> QED  BY <1>1, <1>2, <1>3, <1>4

\* firstCycle,
LEMMA SameFirstCycle == ASSUME NEW q PROVE FirstCycle(q) = PQ!FirstCycle(q)
<1>1. \A n, m : OccupiedFrom(q, n, m) = PQ!OccupiedFrom(q, n, m)
  BY SameOccupied, Zenon DEF OccupiedFrom, PQ!OccupiedFrom
<1> QED  BY <1>1, SamePlaces, SameOccupied, SameQueues, Zenon DEF FirstCycle, PQ!FirstCycle

\* and dequeue.
LEMMA SameDequeue ==
  /\ \A q, n : Advanced(q, n) = PQ!Advanced(q, n)
  /\ \A q : Rounds(q) = PQ!Rounds(q)
  /\ \A q : DequeueCycle(q) = PQ!DequeueCycle(q)
  /\ \A q : Firsts(q) = PQ!Firsts(q)
  /\ \A q, e : Removed(q, e) = PQ!Removed(q, e)
<1>1. \A q, n : Advanced(q, n) = PQ!Advanced(q, n)
  <2>1. \A q, b : Coming(q, b) = PQ!Coming(q, b)
    BY SamePlaces, Zenon DEF Coming, PQ!Coming
  <2> TAKE q, n
  <2> DEFINE coming == UNION {Coming(q, b) : b \in q.curBlock + 1 .. q.curBlock + n}
             coming2 == UNION {PQ!Coming(q, b) : b \in q.curBlock + 1 .. q.curBlock + n}
             f(i, o) == q.blocks[i][o] \cup
               {p[2] : p \in {r \in coming : Block(r[1]) % B = i /\ r[1] % W = o}}
             g(i, o) == q.blocks[i][o] \cup
               {p[2] : p \in {r \in coming2 : PQ!Block(r[1]) % B = i /\ r[1] % W = o}}
  <2>2. coming = coming2
    BY <2>1
  <2>3. \A i, o : f(i, o) = g(i, o)
    BY <2>2, SamePlaces
  <2>4. [i \in Slots |-> [o \in Offsets |-> f(i, o)]] = [i \in PQ!Slots |-> [o \in PQ!Offsets |-> g(i, o)]]
    <3> HIDE DEF f, g
    <3>1. \A i : [o \in Offsets |-> f(i, o)] = [o \in PQ!Offsets |-> g(i, o)]
      BY <2>3, SamePlaces
    <3> QED  BY <3>1, SamePlaces
  <2>5. Advanced(q, n) = [blocks |-> [i \in Slots |-> [o \in Offsets |-> f(i, o)]],
                          feMap |-> q.feMap \ coming, curBlock |-> q.curBlock + n]
    BY Zenon DEF Advanced
  <2>6. PQ!Advanced(q, n) = [blocks |-> [i \in PQ!Slots |-> [o \in PQ!Offsets |-> g(i, o)]],
                          feMap |-> q.feMap \ coming2, curBlock |-> q.curBlock + n]
    BY Zenon DEF PQ!Advanced
  <2> HIDE DEF coming, coming2, f, g
  <2> QED  BY <2>2, <2>4, <2>5, <2>6
<1>2. \A q : Rounds(q) = PQ!Rounds(q)
  <2> TAKE q
  <2> DEFINE last == CHOOSE b \in {Block(p[1]) : p \in Entries(q)} :
                      \A p \in Entries(q) : Block(p[1]) <= b
             last2 == CHOOSE b \in {PQ!Block(p[1]) : p \in PQ!Entries(q)} :
                        \A p \in PQ!Entries(q) : PQ!Block(p[1]) <= b
             rounds == {n \in 0 .. last - q.curBlock : Occupied(Advanced(q, n))}
             rounds2 == {n \in 0 .. last2 - q.curBlock : PQ!Occupied(PQ!Advanced(q, n))}
  <2>1. Entries(q) = PQ!Entries(q)
    BY SameEntries
  <2>2. last = last2
    BY <2>1, Zenon DEF Block, PQ!Block
  <2>3. \A n : Occupied(Advanced(q, n)) <=> PQ!Occupied(PQ!Advanced(q, n))
    BY <1>1, SameOccupied
  <2>4. rounds = rounds2
    <3> HIDE DEF last, last2
    <3> QED  BY <2>2, <2>3
  <2>5. Rounds(q) = Least({last - q.curBlock} \cup rounds)
    BY Zenon DEF Rounds
  <2>6. PQ!Rounds(q) = PQ!Least({last2 - q.curBlock} \cup rounds2)
    BY Zenon DEF PQ!Rounds
  <2>7. \A x : Least(x) = PQ!Least(x)
    BY SameQueues
  <2> HIDE DEF last, last2, rounds, rounds2
  <2> QED  BY <2>2, <2>4, <2>5, <2>6, <2>7
<1>3. \A q : DequeueCycle(q) = PQ!DequeueCycle(q)
  BY SameOccupied, Zenon DEF DequeueCycle, PQ!DequeueCycle
<1>4. \A q : Firsts(q) = PQ!Firsts(q)
  BY <1>3, Zenon DEF Firsts, PQ!Firsts
<1>5. \A q, e : Removed(q, e) = PQ!Removed(q, e)
  BY <1>3, Zenon DEF Removed, PQ!Removed
<1> QED  BY <1>1, <1>2, <1>3, <1>4, <1>5

\* A queue that is in order, with what its map has beyond the ring
Ordered == {q \in Queue : MapIsLater(q)}

\* Whatever the cycle, a queue is in order after enqueue;
LEMMA EnqueueOrdered ==
  ASSUME NEW q \in Ordered, NEW e \in Ids, NEW cycle \in Nat
  PROVE  Enqueue(q, e, cycle) \in Ordered
<1>1. /\ Block(cycle) \in Nat /\ Block(cycle) % B \in Slots /\ cycle % W \in Offsets
  BY PQ!CyclePlace, QueueParameters, SamePlaces
<1>2. CASE Block(cycle) < q.curBlock + B
  <2>1. Enqueue(q, e, cycle) = [q EXCEPT !.blocks[Block(cycle) % B][cycle % W] = @ \cup {e}]
    BY <1>2 DEF Enqueue
  <2>2. Enqueue(q, e, cycle) \in Queue
    <3>1. q \in Queue /\ q.blocks \in [Slots -> [Offsets -> SUBSET Ids]]
      BY DEF Ordered, Queue
    <3> DEFINE b == Block(cycle) % B
               o == cycle % W
               s == [q.blocks[b] EXCEPT ![o] = @ \cup {e}]
               bs == [q.blocks EXCEPT ![b] = s]
    <3>2. Enqueue(q, e, cycle) = [q EXCEPT !.blocks = bs]
      BY <2>1
    <3>3. b \in Slots /\ o \in Offsets
      BY <1>1
    <3> HIDE DEF b, o
    <3>4. s \in [Offsets -> SUBSET Ids]
      BY <3>1, <3>3
    <3> HIDE DEF s
    <3>5. bs \in [Slots -> [Offsets -> SUBSET Ids]]
      BY <3>1, <3>4
    <3> HIDE DEF bs
    <3> QED  BY <3>1, <3>2, <3>5 DEF Queue
  <2>3. Enqueue(q, e, cycle).feMap = q.feMap /\ Enqueue(q, e, cycle).curBlock = q.curBlock
    BY <2>1 DEF Ordered, Queue
  <2> QED  BY <2>2, <2>3 DEF Ordered, MapIsLater
<1>3. CASE ~(Block(cycle) < q.curBlock + B)
  <2>1. Enqueue(q, e, cycle) = [q EXCEPT !.feMap = @ \cup {<<cycle, e>>}]
    BY <1>3 DEF Enqueue
  <2>2. Enqueue(q, e, cycle) \in Queue
    BY <2>1 DEF Ordered, Queue
  <2>3. /\ Enqueue(q, e, cycle).feMap = q.feMap \cup {<<cycle, e>>}
        /\ Enqueue(q, e, cycle).curBlock = q.curBlock
    BY <2>1 DEF Ordered, Queue
  <2>4. q.curBlock \in Nat /\ (q.curBlock \div Half) * Half <= q.curBlock
    <3>1. q.curBlock \in Nat
      BY DEF Ordered, Queue
    <3> QED  BY <3>1, PQ!MarkNear, QueueParameters, SamePlaces DEF PQ!Mark
  <2>5. (q.curBlock \div Half) * Half \in Int
    BY <2>4, PQ!MarkNear, QueueParameters, SamePlaces DEF PQ!Mark
  <2>6. Block(cycle) >= (q.curBlock \div Half) * Half + B
    BY <1>3, <2>4, <2>5, <1>1, PQAssumption
  <2> QED  BY <2>2, <2>3, <2>6 DEF Ordered, MapIsLater
<1> QED  BY <1>2, <1>3

\* and so it is after several.
LEMMA EnqueueEachOrdered ==
  ASSUME NEW q \in Ordered, NEW S \in SUBSET Ids, NEW at \in [S -> Nat]
  PROVE  EnqueueEach(q, at) \in Ordered /\ EnqueueEach(q, at).curBlock = q.curBlock
<1> DEFINE near == {e \in DOMAIN at : Block(at[e]) < q.curBlock + B}
           f(i, o) == q.blocks[i][o] \cup {e \in near : Block(at[e]) % B = i /\ at[e] % W = o}
           blocks == [i \in Slots |-> [o \in Offsets |-> f(i, o)]]
           feMap == q.feMap \cup {<<at[e], e>> : e \in DOMAIN at \ near}
           n == EnqueueEach(q, at)
<1>1. n = [q EXCEPT !.blocks = blocks, !.feMap = feMap]
  BY Zenon DEF EnqueueEach
<1>2. blocks \in [Slots -> [Offsets -> SUBSET Ids]]
  <2>1. \A i \in Slots, o \in Offsets : f(i, o) \in SUBSET Ids
    BY DEF Ordered, Queue
  <2> HIDE DEF f
  <2> QED  BY <2>1
<1>3. feMap \in SUBSET (Nat \X Ids)
  BY DEF Ordered, Queue
<1>4. \A p \in feMap : Block(p[1]) >= (q.curBlock \div Half) * Half + B
  <2> SUFFICES ASSUME NEW e \in DOMAIN at \ near
               PROVE  Block(at[e]) >= (q.curBlock \div Half) * Half + B
    BY DEF Ordered, MapIsLater
  <2>1. q.curBlock \in Nat
    BY DEF Ordered, Queue
  <2>2. (q.curBlock \div Half) * Half \in Nat /\ (q.curBlock \div Half) * Half <= q.curBlock
    BY <2>1, PQ!MarkNear, QueueParameters, SamePlaces DEF PQ!Mark
  <2>3. Block(at[e]) \in Nat
    BY PQ!CyclePlace, QueueParameters, SamePlaces
  <2>4. ~(Block(at[e]) < q.curBlock + B)
    OBVIOUS
  <2> QED  BY <2>1, <2>2, <2>3, <2>4, PQAssumption
<1> HIDE DEF blocks, feMap, n, near
<1>5. n \in Queue /\ n.feMap = feMap /\ n.curBlock = q.curBlock
  BY <1>1, <1>2, <1>3 DEF Ordered, Queue
<1> QED  BY <1>4, <1>5 DEF Ordered, MapIsLater, n

\* enqueue adds an entry to a queue, unless its cycle is before the current block.
LEMMA EnqueueAdds ==
  ASSUME NEW q \in Ordered, NEW e \in Ids, NEW cycle \in Nat, MayEnqueue(q, cycle)
  PROVE  Entries(Enqueue(q, e, cycle)) = Entries(q) \cup {<<cycle, e>>}
BY PQ!PutAdds, QueueParameters, SameQueues, SameEntries, SameEnqueue DEF Ordered

\* Several at once
LEMMA EnqueueEachAdds ==
  ASSUME NEW q \in Ordered, NEW S \in SUBSET Ids, NEW at \in [S -> Nat],
         \A e \in S : MayEnqueue(q, at[e])
  PROVE  Entries(EnqueueEach(q, at)) = Entries(q) \cup {<<at[e], e>> : e \in S}
BY PQ!PutAllAdds, QueueParameters, SameQueues, SameEntries, SameEnqueue DEF Ordered

\* The loop of dequeue and what it takes
LEMMA Dequeues ==
  ASSUME NEW q \in Ordered, IsFiniteSet(Entries(q)), ~QueueEmpty(q),
         NEW e \in Firsts(Advanced(q, Rounds(q)))
  PROVE  LET a == Advanced(q, Rounds(q))  c == DequeueCycle(a)  n == Removed(a, e) IN
         /\ e \in Ids /\ c \in Nat /\ n \in Ordered
         /\ <<c, e>> \in Entries(q) /\ Entries(n) = Entries(q) \ {<<c, e>>}
         /\ \A p \in Entries(q) : c <= p[1]
         /\ n.curBlock = Block(c)
<1>1. q \in PQ!Queue /\ PQ!MapIsLater(q) /\ PQ!IsFiniteSet(PQ!Entries(q))
  <2>1. IsFiniteSet(Entries(q)) <=> PQ!IsFiniteSet(Entries(q))
    BY Zenon DEF IsFiniteSet, PQ!IsFiniteSet
  <2> QED  BY <2>1, SameQueues, SameEntries DEF Ordered
<1>2. PQ!Entries(q) # {}
  BY <1>1, PQ!EmptyIs, QueueParameters, SameOccupied
<1>3. e \in PQ!Firsts(PQ!Advanced(q, PQ!Rounds(q)))
  BY SameDequeue
<1> DEFINE a == PQ!Advanced(q, PQ!Rounds(q))
           c == PQ!DequeueCycle(a)
           n == PQ!Removed(a, e)
<1>4. /\ e \in Ids /\ c \in Nat /\ n \in PQ!Queue /\ PQ!MapIsLater(n)
      /\ <<c, e>> \in PQ!Entries(q) /\ PQ!Entries(n) = PQ!Entries(q) \ {<<c, e>>}
      /\ \A p \in PQ!Entries(q) : c <= p[1]
      /\ n.curBlock = PQ!Block(c)
  <2> HIDE DEF a, c, n
  <2> DEFINE A == PQ!Advanced(q, PQ!Rounds(q))
             D == PQ!DequeueCycle(A)
             N == PQ!Removed(A, e)
  <2>1. /\ e \in Ids /\ D \in Nat /\ N \in PQ!Queue /\ PQ!MapIsLater(N)
        /\ <<D, e>> \in PQ!Entries(q) /\ PQ!Entries(N) = PQ!Entries(q) \ {<<D, e>>}
        /\ \A p \in PQ!Entries(q) : D <= p[1]
        /\ N.curBlock = PQ!Block(D)
    BY <1>1, <1>2, <1>3, PQ!DequeueTakes, QueueParameters
  <2> QED  BY <2>1 DEF a, c, n
<1>5. /\ Advanced(q, Rounds(q)) = a /\ DequeueCycle(a) = c /\ Removed(a, e) = n
  BY SameDequeue
<1> HIDE DEF a, c, n
<1>6. n \in Ordered
  BY <1>4, SameQueues DEF Ordered
<1> QED  BY <1>4, <1>5, <1>6, SameEntries, SamePlaces

\* A queue is empty when it has no entry,
LEMMA EmptyQueueIs ==
  ASSUME NEW q \in Ordered
  PROVE  QueueEmpty(q) <=> Entries(q) = {}
BY PQ!EmptyIs, QueueParameters, SameOccupied, SameEntries, SameQueues DEF Ordered

\* and otherwise firstCycle is the least cycle of its entries.
LEMMA FirstCycleOf ==
  ASSUME NEW q \in Ordered, ~QueueEmpty(q)
  PROVE  /\ FirstCycle(q) \in Nat
         /\ \A p \in Entries(q) : FirstCycle(q) <= p[1]
         /\ \E p \in Entries(q) : p[1] = FirstCycle(q)
<1>1. Entries(q) # {}
  BY EmptyQueueIs
<1> QED  BY <1>1, PQ!FirstCycleIs, QueueParameters, SameEntries, SameQueues, SameFirstCycle DEF Ordered

\* The entries of a queue are events with their cycles.
LEMMA EntryIs ==
  ASSUME NEW q \in Ordered, NEW p \in Entries(q)
  PROVE  p = <<p[1], p[2]>> /\ p[1] \in Nat /\ p[2] \in Ids
<1>1. q \in PQ!Queue /\ p \in PQ!Entries(q)
  BY SameEntries, SameQueues DEF Ordered
<1> QED  BY <1>1, PQ!InEntries, QueueParameters

\* Blocks are in the order of their cycles.
LEMMA BlocksInOrder ==
  ASSUME NEW c \in Nat, NEW d \in Nat, c <= d
  PROVE  Block(c) \in Nat /\ Block(d) \in Nat /\ Block(c) <= Block(d)
BY PQ!BlockMono, PQ!CyclePlace, QueueParameters, SamePlaces

\* In a queue that is in order firstCycle is the least cycle of all entries.
LEMMA OrderedFirst ==
  ASSUME NEW q \in Ordered
  PROVE  MapIsLater(q) /\ FirstIsLeast(q)
<1>1. PQ!FirstIsLeast(q)
  BY PQ!FirstCycleIsLeast, QueueParameters, SameQueues DEF Ordered
<1>2. {p[1] : p \in Entries(q)} = {p[1] : p \in PQ!Entries(q)}
  BY SameEntries
<1> QED  BY <1>1, <1>2, SameEntries, SameQueues, SameFirstCycle, Zenon DEF Ordered, FirstIsLeast, PQ!FirstIsLeast

\* The empty queue
LEMMA EmptyQueueOrdered ==
  EmptyQueue \in Ordered /\ Entries(EmptyQueue) = {} /\ EmptyQueue.curBlock = 0
<1>1. EmptyQueue \in Queue
  BY DEF EmptyQueue, Queue
<1>2. MapIsLater(EmptyQueue)
  BY DEF EmptyQueue, MapIsLater
<1>3. QueueEmpty(EmptyQueue)
  BY DEF EmptyQueue, QueueEmpty, SlotOccupied
<1>4. EmptyQueue.curBlock = 0
  BY DEF EmptyQueue
<1> QED  BY <1>1, <1>2, <1>3, <1>4, EmptyQueueIs DEF Ordered

-----------------------------------------------------------------------------
(* What the variables hold                                                 *)

Kinds == {"none", "core", "hit", "missStart", "mem", "missResp", "missWb", "cross"}
States == {"none", "queued", "running", "held"}
MaybeId == Ids \cup {NoId}
EventRec ==
  [kind : Kinds, state : States, owner : Core \cup {NoId}, dom : Domain, pre : Nat, post : Nat,
   minStart : Nat, cycle : Nat, parents : Int, kids : SUBSET Ids, xing : MaybeId,
   orig : Int, lat : Nat, src : Domain, parentEv : MaybeId, preSlack : Nat, postSlack : Nat,
   called : BOOLEAN, doneCycle : Nat]
Crossings == [Core -> [Domain -> [Domain -> [cycle : Nat, ev : MaybeId]]]]
Graphs ==
  [ev : [Ids -> EventRec], pq : [Domain -> Ordered], live : [Core -> Int], last : Crossings,
   stack : Seq(Ids), path : Seq(MaybeId), prev : [Core -> MaybeId], ok : BOOLEAN]

\* A change of one event, and of one count
WithEvent(E, i, e) == [E EXCEPT ![i] = e]
Plus(L, c, n) == [L EXCEPT ![c] = L[c] + n]

\* Only that event changes, and only that count.
LEMMA WithEventIs ==
  ASSUME NEW E \in [Ids -> EventRec], NEW i \in Ids, NEW e \in EventRec
  PROVE  /\ WithEvent(E, i, e) \in [Ids -> EventRec] /\ WithEvent(E, i, e)[i] = e
         /\ \A j \in Ids : j # i => WithEvent(E, i, e)[j] = E[j]
BY DEF WithEvent

\* A count with a number added
LEMMA PlusIs ==
  ASSUME NEW L \in [Core -> Int], NEW c, NEW n \in Int
  PROVE  /\ Plus(L, c, n) \in [Core -> Int]
         /\ \A b \in Core : Plus(L, c, n)[b] = IF b = c THEN L[b] + n ELSE L[b]
<1>1. \A b \in Core : Plus(L, c, n)[b] = IF b = c THEN L[b] + n ELSE L[b]
  BY DEF Plus
<1>2. Plus(L, c, n) = [b \in Core |-> Plus(L, c, n)[b]]
  BY DEF Plus
<1> QED  BY <1>1, <1>2

\* An event is not the absence of one.
LEMMA NoIdIs == NoId \notin Ids /\ \A i \in Ids : i = <<i[1], i[2]>> /\ i[1] \in Core /\ i[2] \in 1 .. MaxEvents
BY DEF NoId, Ids

\* There are finitely many events, and so there are of each core.
LEMMA FiniteIds == IsFiniteSet(Ids) /\ \A S \in SUBSET Ids : IsFiniteSet(S)
<1>1. IsFiniteSet(Core) /\ IsFiniteSet(1 .. MaxEvents)
  BY FS_Interval, CSimAssumption
<1>2. IsFiniteSet(Ids)
  BY <1>1, FS_Product DEF Ids
<1> QED  BY <1>2, FS_Subset

\* The least of some numbers that are not less than 1
LEMMA LeastOf ==
  ASSUME NEW S \in SUBSET Nat, S # {}
  PROVE  Least(S) \in S /\ \A y \in S : Least(S) <= y
BY PQ!LeastIs, QueueParameters, SameQueues

\* The greater of two numbers, and the greatest of three
LEMMA MaxOfTwo ==
  ASSUME NEW a \in Int, NEW b \in Int
  PROVE  /\ Max({a, b}) \in {a, b} /\ Max({a, b}) >= a /\ Max({a, b}) >= b
         /\ Max({a, b}) = IF a >= b THEN a ELSE b
<1>1. \E x \in {a, b} : \A y \in {a, b} : x >= y
  OBVIOUS
<1>2. Max({a, b}) \in {a, b} /\ \A y \in {a, b} : Max({a, b}) >= y
  BY <1>1, Zenon DEF Max
<1> QED  BY <1>2
\* ... and the greatest of three.
LEMMA MaxOfThree ==
  ASSUME NEW a \in Int, NEW b \in Int, NEW c \in Int
  PROVE  /\ Max({a, b, c}) \in {a, b, c}
         /\ Max({a, b, c}) >= a /\ Max({a, b, c}) >= b /\ Max({a, b, c}) >= c
<1>1. \E x \in {a, b, c} : \A y \in {a, b, c} : x >= y
  OBVIOUS
<1>2. Max({a, b, c}) \in {a, b, c} /\ \A y \in {a, b, c} : Max({a, b, c}) >= y
  BY <1>1, Zenon DEF Max
<1> QED  BY <1>2

\* The end of a sequence
LEMMA LastOfAppend ==
  ASSUME NEW T, NEW s \in Seq(T), NEW x \in T
  PROVE  /\ Append(s, x) \in Seq(T) /\ Append(s, x) # <<>> /\ Last(Append(s, x)) = x
BY DEF Last
\* ... is one of its members, as is what comes before.
LEMMA LastOfSeq ==
  ASSUME NEW T, NEW s \in Seq(T), s # <<>>
  PROVE  /\ Last(s) \in T /\ Front(s) \in Seq(T) /\ Len(s) \in Nat \ {0}
         /\ Last(s) = s[Len(s)] /\ Len(s) \in DOMAIN s
         /\ Len(Front(s)) = Len(s) - 1 /\ \A n \in 1 .. Len(s) - 1 : Front(s)[n] = s[n]
<1>1. Len(s) \in Nat \ {0} /\ s \in [1 .. Len(s) -> T]
  OBVIOUS
<1>2. Last(s) = s[Len(s)] /\ s[Len(s)] \in T /\ Len(s) \in DOMAIN s
  BY <1>1 DEF Last
<1>3. Front(s) = [n \in 1 .. Len(s) - 1 |-> s[n]]
  BY <1>1 DEF Front
<1>4. Front(s) \in Seq(T) /\ Len(Front(s)) = Len(s) - 1
  BY <1>1, <1>3
<1>5. \A n \in 1 .. Len(s) - 1 : Front(s)[n] = s[n]
  BY <1>3
<1> QED  BY <1>1, <1>2, <1>4, <1>5

\* The numbers that are free
LEMMA FreeIs ==
  ASSUME NEW c \in Core, NEW E \in [Ids -> EventRec]
  PROVE  /\ Free(c, E) \in SUBSET (1 .. MaxEvents) /\ IsFiniteSet(Free(c, E))
         /\ Cardinality(Free(c, E)) \in Nat
         /\ Cardinality(Free(c, E)) >= 1 => Free(c, E) # {}
         /\ Free(c, E) # {} => /\ <<c, Least(Free(c, E))>> \in Ids
                               /\ E[<<c, Least(Free(c, E))>>].kind = "none"
<1>1. Free(c, E) \in SUBSET (1 .. MaxEvents) /\ IsFiniteSet(1 .. MaxEvents)
  <2>1. Free(c, E) \in SUBSET (1 .. MaxEvents)
    BY DEF Free
  <2>2. IsFiniteSet(1 .. MaxEvents)
    BY FS_Interval, CSimAssumption
  <2> QED  BY <2>1, <2>2
<1>2. IsFiniteSet(Free(c, E)) /\ Cardinality(Free(c, E)) \in Nat
  BY <1>1, FS_Subset, FS_CardinalityType
<1>3. Cardinality(Free(c, E)) >= 1 => Free(c, E) # {}
  BY FS_EmptySet
<1>4. Free(c, E) # {} => Least(Free(c, E)) \in Free(c, E)
  BY <1>1, LeastOf
<1>5. Free(c, E) # {} => /\ <<c, Least(Free(c, E))>> \in Ids
                         /\ E[<<c, Least(Free(c, E))>>].kind = "none"
  BY <1>4 DEF Free, Ids
<1> QED  BY <1>1, <1>2, <1>3, <1>5

\* A new event takes a free number of its core.
LEMMA CreateIs ==
  ASSUME NEW g \in Graphs, NEW e \in EventRec, e.owner \in Core, e.kind # "none",
         Cardinality(Free(e.owner, g.ev)) >= 1
  PROVE  LET n == Create(g, e)  i == Last(n.path) IN
         /\ n \in Graphs /\ i \in Ids /\ i[1] = e.owner /\ g.ev[i].kind = "none"
         /\ n.ev = WithEvent(g.ev, i, e) /\ n.live = Plus(g.live, e.owner, 1)
         /\ n.path = Append(g.path, i) /\ n.path # <<>>
         /\ n.pq = g.pq /\ n.last = g.last /\ n.stack = g.stack /\ n.prev = g.prev /\ n.ok = g.ok
         /\ Cardinality(Free(e.owner, n.ev)) = Cardinality(Free(e.owner, g.ev)) - 1
<1> DEFINE c == e.owner
           m == Least(Free(c, g.ev))
           i == <<c, m>>
           n == Create(g, e)
<1>1. /\ i \in Ids /\ g.ev[i].kind = "none" /\ i[1] = c
      /\ IsFiniteSet(Free(c, g.ev)) /\ m \in Free(c, g.ev)
  <2>1. g.ev \in [Ids -> EventRec]
    BY DEF Graphs
  <2>2. /\ Free(c, g.ev) # {} /\ IsFiniteSet(Free(c, g.ev)) /\ Free(c, g.ev) \in SUBSET (1 .. MaxEvents)
        /\ i \in Ids /\ g.ev[i].kind = "none"
    BY <2>1, FreeIs
  <2>3. m \in Free(c, g.ev)
    BY <2>2, LeastOf
  <2> QED  BY <2>2, <2>3
<1>2. n = [g EXCEPT !.ev = WithEvent(g.ev, i, e), !.live = Plus(g.live, c, 1), !.path = Append(@, i)]
  BY DEF Create, WithEvent, Plus
<1>3. Append(g.path, i) \in Seq(MaybeId) /\ Append(g.path, i) # <<>> /\ Last(Append(g.path, i)) = i
  <2>1. g.path \in Seq(MaybeId) /\ i \in MaybeId
    BY <1>1 DEF Graphs, MaybeId
  <2> HIDE DEF i
  <2> QED  BY <2>1, LastOfAppend
<1>4. WithEvent(g.ev, i, e) \in [Ids -> EventRec]
  BY <1>1, WithEventIs DEF Graphs
<1>5. Plus(g.live, c, 1) \in [Core -> Int]
  BY PlusIs DEF Graphs
<1> HIDE DEF n, i, m
<1>6. /\ n.ev = WithEvent(g.ev, i, e) /\ n.live = Plus(g.live, c, 1)
      /\ n.path = Append(g.path, i)
      /\ n.pq = g.pq /\ n.last = g.last /\ n.stack = g.stack /\ n.prev = g.prev /\ n.ok = g.ok
  BY <1>2 DEF Graphs
<1>7. n \in Graphs
  BY <1>2, <1>3, <1>4, <1>5 DEF Graphs
<1>8. Free(c, n.ev) = Free(c, g.ev) \ {m}
  BY <1>6, <1>1 DEF Free, Graphs, i, Ids, WithEvent
<1>9. Cardinality(Free(c, n.ev)) = Cardinality(Free(c, g.ev)) - 1
  <2>1. Cardinality(Free(c, g.ev) \ {m}) = Cardinality(Free(c, g.ev)) - 1
    BY <1>1, FS_RemoveElement
  <2> QED  BY <1>8, <2>1
<1> QED  BY <1>1, <1>3, <1>6, <1>7, <1>9 DEF n

\* Links and blocks
LEMMA BlocksAre ==
  ASSUME NEW e
  PROVE  Block2(e) \in {0, 1}
BY DEF Block2

\* An event with one more child, one with one more parent, and one with a crossing
WithKid(e, k) == [e EXCEPT !.kids = e.kids \cup {k}]
WithParent(e) == [e EXCEPT !.parents = e.parents + 1]
WithXing(e, x) == [e EXCEPT !.xing = x]

\* What a change of links leaves alone
Alike(f, e) ==
  /\ f.kind = e.kind /\ f.owner = e.owner /\ f.dom = e.dom /\ f.called = e.called
  /\ f.parentEv = e.parentEv /\ f.src = e.src /\ f.state = e.state
  /\ f.minStart = e.minStart /\ f.xing = e.xing

\* Their fields
LEMMA WithIs ==
  ASSUME NEW e \in EventRec, NEW k \in Ids
  PROVE  /\ WithKid(e, k) \in EventRec /\ WithParent(e) \in EventRec
         /\ Alike(WithKid(e, k), e) /\ Alike(WithParent(e), e)
         /\ WithKid(e, k).kids = e.kids \cup {k} /\ WithKid(e, k).parents = e.parents
         /\ WithParent(e).kids = e.kids /\ WithParent(e).parents = e.parents + 1
<1>1. e.kids \cup {k} \in SUBSET Ids /\ e.parents + 1 \in Int
  BY DEF EventRec
<1>2. WithKid(e, k) \in EventRec
  BY <1>1 DEF WithKid, EventRec
<1>3. WithParent(e) \in EventRec
  BY <1>1 DEF WithParent, EventRec
<1>4. /\ Alike(WithKid(e, k), e)
      /\ WithKid(e, k).kids = e.kids \cup {k} /\ WithKid(e, k).parents = e.parents
  BY DEF WithKid, EventRec, Alike
<1>5. /\ Alike(WithParent(e), e)
      /\ WithParent(e).kids = e.kids /\ WithParent(e).parents = e.parents + 1
  BY DEF WithParent, EventRec, Alike
<1> QED  BY <1>2, <1>3, <1>4, <1>5

\* Event p gets a child k.
Linked(E, p, k) == [E EXCEPT ![p].kids = @ \cup {k}, ![k].parents = @ + 1]

\* Only these two events change.
LEMMA LinkedIs ==
  ASSUME NEW E \in [Ids -> EventRec], NEW p \in MaybeId, NEW k \in Ids
  PROVE  /\ Linked(E, p, k) \in [Ids -> EventRec]
         /\ \A i \in Ids : /\ Linked(E, p, k)[i].kind = E[i].kind
                            /\ Linked(E, p, k)[i].owner = E[i].owner
                            /\ Linked(E, p, k)[i].dom = E[i].dom
<1> DEFINE e1 == WithKid(E[p], k)
           E1 == [E EXCEPT ![p] = e1]
           e2 == WithParent(E1[k])
           E2 == [E1 EXCEPT ![k] = e2]
<1>1. Linked(E, p, k) = E2
  BY DEF Linked, WithKid, WithParent
<1>2. E1 \in [Ids -> EventRec] /\ \A i \in Ids : E1[i].kind = E[i].kind /\ E1[i].owner = E[i].owner /\ E1[i].dom = E[i].dom
  <2>1. CASE p \in Ids
    <3>1. E[p] \in EventRec
      BY <2>1
    <3>2. e1 \in EventRec /\ e1.kind = E[p].kind /\ e1.owner = E[p].owner /\ e1.dom = E[p].dom
      BY <3>1, WithIs DEF Alike
    <3> HIDE DEF e1
    <3> QED  BY <3>2
  <2>2. CASE p \notin Ids
    <3> HIDE DEF e1
    <3> QED  BY <2>2
  <2> QED  BY <2>1, <2>2
<1>3. E2 \in [Ids -> EventRec] /\ \A i \in Ids : E2[i].kind = E1[i].kind /\ E2[i].owner = E1[i].owner /\ E2[i].dom = E1[i].dom
  <2> HIDE DEF E1
  <2>1. E1[k] \in EventRec
    BY <1>2
  <2>2. e2 \in EventRec /\ e2.kind = E1[k].kind /\ e2.owner = E1[k].owner /\ e2.dom = E1[k].dom
    BY <2>1, WithIs DEF Alike
  <2> HIDE DEF e2
  <2> QED  BY <2>2, <1>2
<1> HIDE DEF E1, E2
<1> QED  BY <1>1, <1>2, <1>3

\* The parent gets a child, and the child a parent.
LEMMA LinkedAt ==
  ASSUME NEW E \in [Ids -> EventRec], NEW p \in Ids, NEW k \in Ids, p # k
  PROVE  /\ Linked(E, p, k)[p] = WithKid(E[p], k)
         /\ Linked(E, p, k)[k] = WithParent(E[k])
         /\ \A i \in Ids : i # p /\ i # k => Linked(E, p, k)[i] = E[i]
<1> DEFINE e1 == WithKid(E[p], k)
           E1 == [E EXCEPT ![p] = e1]
           e2 == WithParent(E1[k])
           E2 == [E1 EXCEPT ![k] = e2]
<1>1. Linked(E, p, k) = E2
  BY DEF Linked, WithKid, WithParent
<1>2. E1[k] = E[k] /\ E1[p] = e1 /\ \A i \in Ids : i # p => E1[i] = E[i]
  <2> HIDE DEF e1
  <2> QED  OBVIOUS
<1>3. E2[k] = e2 /\ \A i \in Ids : i # k => E2[i] = E1[i]
  <2> HIDE DEF e1, e2
  <2> QED  OBVIOUS
<1> HIDE DEF e1, E1, E2
<1> QED  BY <1>1, <1>2, <1>3 DEF e1

\* A child is linked, and the slab gives a block for the second one.
LEMMA AddChildIs ==
  ASSUME NEW g \in Graphs, NEW p \in MaybeId, NEW k \in Ids
  PROVE  LET n == AddChild(g, p, k) IN
         /\ n \in Graphs
         /\ n.pq = g.pq /\ n.last = g.last /\ n.stack = g.stack /\ n.path = g.path
         /\ n.prev = g.prev
         /\ n.ev = Linked(g.ev, p, k)
         /\ n.live = Plus(g.live, g.ev[p].owner, Block2(g.ev[p]))
         /\ n.ok => /\ g.ok /\ g.ev[p].kind # "none" /\ g.ev[p].state \in {"none", "queued"}
                    /\ g.ev[k].state = "none"
<1> DEFINE o == g.ev[p].owner
           b == Block2(g.ev[p])
           live1 == Plus(g.live, o, b)
           good == /\ g.ok /\ g.ev[p].kind # "none" /\ g.ev[p].state \in {"none", "queued"}
                   /\ g.ev[k].state = "none"
           n == AddChild(g, p, k)
<1>1. /\ n.ev = Linked(g.ev, p, k) /\ n.live = live1 /\ n.ok = good
      /\ n.pq = g.pq /\ n.last = g.last /\ n.stack = g.stack /\ n.path = g.path /\ n.prev = g.prev
      /\ n = [g EXCEPT !.ev = n.ev, !.live = n.live, !.ok = n.ok]
  BY DEF AddChild, Graphs, Linked, Plus
<1>2. g.ev \in [Ids -> EventRec] /\ g.live \in [Core -> Int]
  BY DEF Graphs
<1>3. n.ev \in [Ids -> EventRec]
  <2>1. Linked(g.ev, p, k) \in [Ids -> EventRec]
    BY <1>2, LinkedIs
  <2>2. n.ev = Linked(g.ev, p, k)
    BY <1>1
  <2> QED  BY <2>1, <2>2, Zenon
<1>4. n.live \in [Core -> Int]
  <2>1. b \in Int
    BY BlocksAre
  <2>2. n.live = live1
    BY <1>1
  <2> HIDE DEF o, b, n
  <2> QED  BY <1>2, <2>1, <2>2, PlusIs
<1>5. n.ok \in BOOLEAN
  BY <1>1
<1>6. n \in Graphs
  <2> HIDE DEF n
  <2> QED  BY <1>1, <1>3, <1>4, <1>5 DEF Graphs
<1> QED  BY <1>1, <1>6

\* Where a new event is queued
LEMMA EnqueueSyncedIs ==
  ASSUME NEW g \in Graphs, NEW i \in Ids, NEW cycle \in Nat
  PROVE  LET n == EnqueueSynced(g, i, cycle)  d == g.ev[i].dom IN
         /\ n \in Graphs /\ d \in Domain
         /\ n.ev = g.ev /\ n.live = g.live /\ n.last = g.last /\ n.stack = g.stack
         /\ n.path = g.path /\ n.prev = g.prev
         /\ \A b \in Domain : b # d => n.pq[b] = g.pq[b]
         /\ n.ok => /\ g.ok /\ ~sim.inCSim /\ cycle >= sim.lastLimit /\ g.ev[i].parents = 0
                    /\ MayEnqueue(g.pq[d], cycle)
                    /\ Entries(n.pq[d]) = Entries(g.pq[d]) \cup {<<cycle, i>>}
<1> DEFINE n == EnqueueSynced(g, i, cycle)
           d == g.ev[i].dom
           q == Enqueue(g.pq[d], i, cycle)
           good == /\ g.ok /\ ~sim.inCSim /\ cycle >= sim.lastLimit /\ g.ev[i].parents = 0
                   /\ MayEnqueue(g.pq[d], cycle)
<1>1. d \in Domain /\ g.pq[d] \in Ordered /\ g.pq \in [Domain -> Ordered]
  BY DEF Graphs, EventRec
<1>2. n = [g EXCEPT !.pq = [@ EXCEPT ![d] = q], !.ok = good]
  BY DEF EnqueueSynced, Graphs
<1>3. q \in Ordered
  BY <1>1, EnqueueOrdered
<1>4. good => Entries(q) = Entries(g.pq[d]) \cup {<<cycle, i>>}
  BY <1>1, EnqueueAdds
<1>5. good \in BOOLEAN
  OBVIOUS
<1>6. [g.pq EXCEPT ![d] = q] \in [Domain -> Ordered]
  BY <1>1, <1>3
<1> HIDE DEF n, q, good
<1>7. /\ n.pq = [g.pq EXCEPT ![d] = q] /\ n.ok = good
      /\ n.ev = g.ev /\ n.live = g.live /\ n.last = g.last /\ n.stack = g.stack
      /\ n.path = g.path /\ n.prev = g.prev
  BY <1>2 DEF Graphs
<1>8. n \in Graphs
  BY <1>2, <1>5, <1>6 DEF Graphs
<1>9. \A b \in Domain : b # d => n.pq[b] = g.pq[b]
  BY <1>7, <1>1
<1>10. n.pq[d] = q
  BY <1>7, <1>1
<1> QED  BY <1>1, <1>4, <1>7, <1>8, <1>9, <1>10 DEF n, good

-----------------------------------------------------------------------------
(* Where the events are.  Q are the queues; P are the events that wait for  *)
(* an MSHR, X those that a thread runs; those of T have told their children *)
(* that they are done; N are new and not yet linked or queued.              *)

EventsOK(E) == \A i \in Ids :
  /\ E[i].kind = "none" => E[i] = NoEvent
  /\ E[i].kind # "none" => E[i].owner = i[1]
  /\ E[i].xing # NoId =>
       LET x == E[i].xing IN
       /\ E[i].kind # "cross" /\ E[x].kind = "cross" /\ ~E[x].called
       /\ E[x].parentEv = i /\ E[x].src = E[i].dom /\ E[x].dom # E[i].dom

EntryOK(E, d, N, p) ==
  LET e == E[p[2]] IN
  /\ e.kind # "none" /\ e.dom = d /\ e.state \in {"none", "queued"} /\ e.parents = 0
  /\ p[2] \notin N
  /\ e.kind = "cross" => p[1] >= e.minStart
QueuesOK(E, Q, N) == \A d \in Domain :
  /\ IsFiniteSet(Entries(Q[d]))
  /\ \A p \in Entries(Q[d]) : EntryOK(E, d, N, p)
  /\ \A p, r \in Entries(Q[d]) : p[2] = r[2] => p = r

KidOK(E, T, j, k) ==
  /\ E[k].kind # "none" /\ E[k].dom = E[j].dom /\ E[k].state = "none" /\ E[k].parents = 1
  /\ \A h \in Ids \ T : k \in E[h].kids => h = j
KidsOK(E, T) == \A j \in Ids \ T : \A k \in E[j].kids : KidOK(E, T, j, k)

PlacesOK(E, P, X, N) == \A i \in Ids :
  /\ i \in P => E[i].kind \in {"hit", "missStart"} /\ E[i].state = "held" /\ E[i].parents = 0
  /\ i \in X => E[i].kind # "none" /\ E[i].state = "running" /\ E[i].parents = 0
  /\ i \in N => E[i].kind # "none" /\ E[i].state \in {"none", "queued"} /\ E[i].parents = 0

Queued(E, Q, i) == \E p \in Entries(Q[E[i].dom]) : p[2] = i
Somewhere(E, Q, P, X, T, N) == \A i \in Ids : E[i].kind # "none" =>
  \/ Queued(E, Q, i) \/ i \in P \/ i \in X \/ i \in N
  \/ \E j \in Ids \ T : i \in E[j].kids

Struct(E, Q, P, X, T, N) ==
  /\ EventsOK(E) /\ QueuesOK(E, Q, N) /\ KidsOK(E, T) /\ PlacesOK(E, P, X, N)
  /\ Somewhere(E, Q, P, X, T, N)

\* The entries of a queue of a domain
LEMMA EntryOfQueue ==
  ASSUME NEW Q \in [Domain -> Ordered], NEW d \in Domain, NEW p \in Entries(Q[d])
  PROVE  p = <<p[1], p[2]>> /\ p[1] \in Nat /\ p[2] \in Ids
BY EntryIs

\* A new event
LEMMA CreateStruct ==
  ASSUME NEW E \in [Ids -> EventRec], NEW Q \in [Domain -> Ordered],
         NEW P, NEW X, NEW T, NEW N, Struct(E, Q, P, X, T, N),
         NEW i \in Ids, E[i].kind = "none",
         NEW e \in EventRec, e.kind # "none", e.owner = i[1], e.xing = NoId, e.kids = {},
         e.parents = 0, e.state \in {"none", "queued"}
  PROVE  Struct(WithEvent(E, i, e), Q, P, X, T, N \cup {i})
<1> DEFINE F == WithEvent(E, i, e)
<1>1. F \in [Ids -> EventRec] /\ F[i] = e /\ \A j \in Ids : j # i => F[j] = E[j]
  BY WithEventIs
<1> HIDE DEF F
<1>2. EventsOK(F)
  <2> SUFFICES ASSUME NEW j \in Ids
               PROVE  /\ F[j].kind = "none" => F[j] = NoEvent
                      /\ F[j].kind # "none" => F[j].owner = j[1]
                      /\ F[j].xing # NoId =>
                           LET x == F[j].xing IN
                           /\ F[j].kind # "cross" /\ F[x].kind = "cross" /\ ~F[x].called
                           /\ F[x].parentEv = j /\ F[x].src = F[j].dom /\ F[x].dom # F[j].dom
    BY DEF EventsOK
  <2>1. CASE j = i
    BY <1>1, <2>1
  <2>2. CASE j # i
    <3>1. F[j] = E[j]
      BY <1>1, <2>2
    <3>2. E[j].xing # NoId => E[j].xing \in Ids /\ E[j].xing # i
      BY DEF Struct, EventsOK, EventRec, MaybeId
    <3>3. E[j].xing # NoId => F[E[j].xing] = E[E[j].xing]
      BY <1>1, <3>2
    <3> QED  BY <3>1, <3>3 DEF Struct, EventsOK
  <2> QED  BY <2>1, <2>2
<1>3. QueuesOK(F, Q, N \cup {i})
  <2> SUFFICES ASSUME NEW d \in Domain, NEW p \in Entries(Q[d])
               PROVE  EntryOK(F, d, N \cup {i}, p)
    BY DEF Struct, QueuesOK
  <2>1. EntryOK(E, d, N, p) /\ p[2] \in Ids
    BY EntryOfQueue DEF Struct, QueuesOK
  <2>2. p[2] # i /\ F[p[2]] = E[p[2]]
    BY <1>1, <2>1 DEF EntryOK
  <2> QED  BY <2>1, <2>2 DEF EntryOK
<1>4. KidsOK(F, T)
  <2> SUFFICES ASSUME NEW j \in Ids \ T, NEW k \in F[j].kids
               PROVE  KidOK(F, T, j, k)
    BY DEF KidsOK
  <2>1. j # i /\ F[j] = E[j]
    BY <1>1
  <2>2. k \in Ids /\ KidOK(E, T, j, k)
    BY <2>1 DEF Struct, KidsOK, EventRec
  <2>3. k # i /\ F[k] = E[k]
    BY <1>1, <2>2 DEF KidOK
  <2>4. \A h \in Ids : k \in F[h].kids => k \in E[h].kids
    BY <1>1
  <2> QED  BY <2>1, <2>2, <2>3, <2>4 DEF KidOK
<1>5. PlacesOK(F, P, X, N \cup {i})
  <2>1. \A j \in Ids : j # i => F[j] = E[j]
    BY <1>1
  <2>2. i \notin P /\ i \notin X
    BY DEF Struct, PlacesOK
  <2> QED  BY <1>1, <2>1, <2>2 DEF Struct, PlacesOK
<1>6. Somewhere(F, Q, P, X, T, N \cup {i})
  <2> SUFFICES ASSUME NEW j \in Ids, F[j].kind # "none", j # i
               PROVE  \/ Queued(F, Q, j) \/ j \in P \/ j \in X \/ j \in N \cup {i}
                      \/ \E h \in Ids \ T : j \in F[h].kids
    BY DEF Somewhere
  <2>1. F[j] = E[j]
    BY <1>1
  <2>2. \/ Queued(E, Q, j) \/ j \in P \/ j \in X \/ j \in N
        \/ \E h \in Ids \ T : j \in E[h].kids
    BY <2>1 DEF Struct, Somewhere
  <2>3. ASSUME NEW h \in Ids \ T, j \in E[h].kids
        PROVE  j \in F[h].kids
    <3>1. h # i
      BY <2>3 DEF Struct, EventsOK, NoEvent
    <3> QED  BY <3>1, <2>3, <1>1
  <2> QED  BY <2>1, <2>2, <2>3 DEF Queued
<1> QED  BY <1>2, <1>3, <1>4, <1>5, <1>6 DEF Struct, F

\* An event gets its crossing.
LEMMA CrossedStruct ==
  ASSUME NEW E \in [Ids -> EventRec], NEW Q \in [Domain -> Ordered],
         NEW P, NEW X, NEW T, NEW N, Struct(E, Q, P, X, T, N),
         NEW p \in Ids, NEW x \in Ids, E[p].kind \notin {"none", "cross"},
         E[x].kind = "cross", ~E[x].called, E[x].parentEv = p, E[x].src = E[p].dom,
         E[x].dom # E[p].dom
  PROVE  Struct(WithEvent(E, p, WithXing(E[p], x)), Q, P, X, T, N)
<1> DEFINE F == WithEvent(E, p, WithXing(E[p], x))
<1>1. /\ \A i \in Ids : i # p => F[i] = E[i]
      /\ F[p] = WithXing(E[p], x)
  BY DEF WithEvent
<1>2. \A i \in Ids : /\ F[i].kind = E[i].kind /\ F[i].owner = E[i].owner /\ F[i].dom = E[i].dom
                     /\ F[i].called = E[i].called /\ F[i].parentEv = E[i].parentEv
                     /\ F[i].src = E[i].src /\ F[i].state = E[i].state /\ F[i].kids = E[i].kids
                     /\ F[i].parents = E[i].parents /\ F[i].minStart = E[i].minStart
                     /\ F[i].xing = IF i = p THEN x ELSE E[i].xing
  BY <1>1 DEF EventRec, WithXing
<1> HIDE DEF F
<1>3. \A i \in Ids : E[i].xing \in MaybeId /\ E[i].kids \in SUBSET Ids
  BY DEF EventRec
<1>4. EventsOK(F)
  <2> SUFFICES ASSUME NEW j \in Ids
               PROVE  /\ F[j].kind = "none" => F[j] = NoEvent
                      /\ F[j].kind # "none" => F[j].owner = j[1]
                      /\ F[j].xing # NoId =>
                           LET y == F[j].xing IN
                           /\ F[j].kind # "cross" /\ F[y].kind = "cross" /\ ~F[y].called
                           /\ F[y].parentEv = j /\ F[y].src = F[j].dom /\ F[y].dom # F[j].dom
    BY DEF EventsOK
  <2>1. F[j].kind = "none" => F[j] = NoEvent
    BY <1>1, <1>2 DEF Struct, EventsOK
  <2>2. F[j].kind # "none" => F[j].owner = j[1]
    BY <1>2 DEF Struct, EventsOK
  <2>3. CASE j = p
    BY <2>1, <2>2, <2>3, <1>2
  <2>4. CASE j # p
    BY <2>1, <2>2, <2>4, <1>2, <1>3 DEF Struct, EventsOK, MaybeId
  <2> QED  BY <2>3, <2>4
<1>5. QueuesOK(F, Q, N)
  BY <1>2, EntryOfQueue DEF Struct, QueuesOK, EntryOK
<1>6. KidsOK(F, T)
  BY <1>2, <1>3 DEF Struct, KidsOK, KidOK
<1>7. PlacesOK(F, P, X, N)
  BY <1>2 DEF Struct, PlacesOK
<1>8. Somewhere(F, Q, P, X, T, N)
  BY <1>2 DEF Struct, Somewhere, Queued
<1> QED  BY <1>4, <1>5, <1>6, <1>7, <1>8 DEF Struct, F

\* A new event becomes a child.
LEMMA LinkedStruct ==
  ASSUME NEW E \in [Ids -> EventRec], NEW Q \in [Domain -> Ordered],
         NEW P, NEW X, NEW T, NEW N, Struct(E, Q, P, X, T, N),
         NEW p \in Ids \ T, NEW k \in Ids, p # k, k \in N, k \notin P, k \notin X,
         E[p].kind # "none", E[k].state = "none", E[k].dom = E[p].dom
  PROVE  Struct(Linked(E, p, k), Q, P, X, T, N \ {k})
<1> DEFINE F == Linked(E, p, k)
<1>0. /\ F[p] = WithKid(E[p], k) /\ F[k] = WithParent(E[k])
      /\ \A i \in Ids : i # p /\ i # k => F[i] = E[i]
  BY LinkedAt
<1> HIDE DEF F
<1>10. \A i \in Ids : i # p /\ i # k => F[i] = E[i]
  BY <1>0
<1>13. /\ Alike(F[p], E[p]) /\ Alike(F[k], E[k])
       /\ F[p].kids = E[p].kids \cup {k} /\ F[p].parents = E[p].parents
       /\ F[k].kids = E[k].kids /\ F[k].parents = E[k].parents + 1
  <2>1. E[p] \in EventRec /\ E[k] \in EventRec
    OBVIOUS
  <2> QED  BY <1>0, <2>1, WithIs
<1>11. \A i \in Ids : F[i].kids = (IF i = p THEN E[i].kids \cup {k} ELSE E[i].kids)
  BY <1>10, <1>13
<1>12. \A i \in Ids : F[i].parents = (IF i = k THEN E[i].parents + 1 ELSE E[i].parents)
  BY <1>10, <1>13
<1>1. \A i \in Ids : /\ F[i].kind = E[i].kind /\ F[i].owner = E[i].owner /\ F[i].dom = E[i].dom
                     /\ F[i].called = E[i].called /\ F[i].parentEv = E[i].parentEv
                     /\ F[i].src = E[i].src /\ F[i].state = E[i].state
                     /\ F[i].minStart = E[i].minStart /\ F[i].xing = E[i].xing
  BY <1>10, <1>13 DEF Alike
<1>2. E[k].kind # "none" /\ E[k].parents = 0
  BY DEF Struct, PlacesOK
<1>3. \A i \in Ids : E[i].xing \in MaybeId /\ E[i].kids \in SUBSET Ids
  BY DEF EventRec
<1>4. \A j \in Ids \ T : k \notin E[j].kids
  BY <1>2 DEF Struct, KidsOK, KidOK
<1>5. EventsOK(F)
  <2> SUFFICES ASSUME NEW j \in Ids
               PROVE  /\ F[j].kind = "none" => F[j] = NoEvent
                      /\ F[j].kind # "none" => F[j].owner = j[1]
                      /\ F[j].xing # NoId =>
                           LET y == F[j].xing IN
                           /\ F[j].kind # "cross" /\ F[y].kind = "cross" /\ ~F[y].called
                           /\ F[y].parentEv = j /\ F[y].src = F[j].dom /\ F[y].dom # F[j].dom
    BY DEF EventsOK
  <2>1. F[j].kind = "none" => F[j] = NoEvent
    BY <1>1, <1>10, <1>2 DEF Struct, EventsOK
  <2>2. F[j].kind # "none" => F[j].owner = j[1]
    BY <1>1 DEF Struct, EventsOK
  <2>3. F[j].xing # NoId =>
          LET y == F[j].xing IN
          /\ F[j].kind # "cross" /\ F[y].kind = "cross" /\ ~F[y].called
          /\ F[y].parentEv = j /\ F[y].src = F[j].dom /\ F[y].dom # F[j].dom
    <3>1. E[j].xing # NoId => E[j].xing \in Ids
      BY <1>3 DEF MaybeId
    <3>2. E[j].xing # NoId =>
          LET y == E[j].xing IN
          /\ E[j].kind # "cross" /\ E[y].kind = "cross" /\ ~E[y].called
          /\ E[y].parentEv = j /\ E[y].src = E[j].dom /\ E[y].dom # E[j].dom
      BY DEF Struct, EventsOK
    <3> QED  BY <3>1, <3>2, <1>1
  <2> QED  BY <2>1, <2>2, <2>3
<1>6. QueuesOK(F, Q, N \ {k})
  <2> SUFFICES ASSUME NEW d \in Domain, NEW e \in Entries(Q[d])
               PROVE  EntryOK(F, d, N \ {k}, e)
    BY DEF Struct, QueuesOK
  <2>1. EntryOK(E, d, N, e) /\ e[2] \in Ids
    BY EntryOfQueue DEF Struct, QueuesOK
  <2>2. e[2] # k
    BY <2>1 DEF EntryOK
  <2> QED  BY <1>1, <1>12, <2>1, <2>2 DEF EntryOK
<1>7. KidsOK(F, T)
  <2> SUFFICES ASSUME NEW j \in Ids \ T, NEW h \in F[j].kids
               PROVE  KidOK(F, T, j, h)
    BY DEF KidsOK
  <2>1. CASE h = k
    <3>1. j = p
      BY <1>11, <1>4, <2>1
    <3>2. \A i \in Ids \ T : k \in F[i].kids => i = p
      BY <1>11, <1>4
    <3>3. F[k].kind # "none" /\ F[k].dom = F[p].dom /\ F[k].state = "none" /\ F[k].parents = 1
      BY <1>1, <1>12, <1>2
    <3> QED  BY <3>1, <3>2, <3>3, <2>1 DEF KidOK
  <2>2. CASE h # k
    <3>1. h \in E[j].kids /\ h \in Ids
      BY <1>11, <1>3, <2>2
    <3>2. KidOK(E, T, j, h)
      BY <3>1 DEF Struct, KidsOK
    <3>3. \A i \in Ids \ T : h \in F[i].kids => h \in E[i].kids
      BY <1>11, <2>2
    <3>4. F[h].parents = E[h].parents
      BY <1>12, <2>2, <3>1
    <3> QED  BY <3>1, <3>2, <3>3, <3>4, <1>1 DEF KidOK
  <2> QED  BY <2>1, <2>2
<1>8. PlacesOK(F, P, X, N \ {k})
  BY <1>1, <1>12 DEF Struct, PlacesOK
<1>9. Somewhere(F, Q, P, X, T, N \ {k})
  <2> SUFFICES ASSUME NEW j \in Ids, F[j].kind # "none"
               PROVE  \/ Queued(F, Q, j) \/ j \in P \/ j \in X \/ j \in N \ {k}
                      \/ \E h \in Ids \ T : j \in F[h].kids
    BY DEF Somewhere
  <2>1. CASE j = k
    BY <2>1, <1>11
  <2>2. CASE j # k
    <3>1. \/ Queued(E, Q, j) \/ j \in P \/ j \in X \/ j \in N
          \/ \E h \in Ids \ T : j \in E[h].kids
      BY <1>1 DEF Struct, Somewhere
    <3>2. \A h \in Ids : j \in E[h].kids => j \in F[h].kids
      BY <1>11
    <3> QED  BY <3>1, <3>2, <2>2, <1>1 DEF Queued
  <2> QED  BY <2>1, <2>2
<1> QED  BY <1>5, <1>6, <1>7, <1>8, <1>9 DEF Struct, F

\* A new event is queued.
LEMMA EnqueuedStruct ==
  ASSUME NEW E \in [Ids -> EventRec], NEW Q \in [Domain -> Ordered],
         NEW P, NEW X, NEW T, NEW N, Struct(E, Q, P, X, T, N),
         NEW i \in Ids, i \in N, NEW cycle \in Nat, E[i].kind = "cross" => cycle >= E[i].minStart,
         NEW R \in [Domain -> Ordered],
         Entries(R[E[i].dom]) = Entries(Q[E[i].dom]) \cup {<<cycle, i>>},
         \A d \in Domain : d # E[i].dom => R[d] = Q[d]
  PROVE  Struct(E, R, P, X, T, N \ {i})
<1>1. E[i].dom \in Domain
  BY DEF EventRec
<1>2. E[i].kind # "none" /\ E[i].state \in {"none", "queued"} /\ E[i].parents = 0
  BY DEF Struct, PlacesOK
<1>3. QueuesOK(E, R, N \ {i})
  <2> SUFFICES ASSUME NEW d \in Domain
               PROVE  /\ IsFiniteSet(Entries(R[d]))
                      /\ \A p \in Entries(R[d]) : EntryOK(E, d, N \ {i}, p)
                      /\ \A p, r \in Entries(R[d]) : p[2] = r[2] => p = r
    BY DEF QueuesOK
  <2>1. /\ IsFiniteSet(Entries(Q[d]))
        /\ \A p \in Entries(Q[d]) : EntryOK(E, d, N \ {i}, p) /\ p[2] # i
        /\ \A p, r \in Entries(Q[d]) : p[2] = r[2] => p = r
    BY DEF Struct, QueuesOK, EntryOK
  <2>2. CASE d # E[i].dom
    BY <2>1, <2>2
  <2>3. CASE d = E[i].dom
    <3>0. Entries(R[d]) = Entries(Q[d]) \cup {<<cycle, i>>}
      BY <2>3
    <3>1. IsFiniteSet(Entries(R[d]))
      <4>1. IsFiniteSet(Entries(Q[d]))
        BY <2>1
      <4>2. IsFiniteSet(Entries(Q[d]) \cup {<<cycle, i>>})
        BY <4>1, FS_AddElement
      <4> QED  BY <4>2, <3>0
    <3>2. EntryOK(E, d, N \ {i}, <<cycle, i>>)
      BY <1>2, <2>3 DEF EntryOK
    <3>3. \A p \in Entries(R[d]) : EntryOK(E, d, N \ {i}, p)
      BY <2>1, <3>0, <3>2
    <3>4. \A p \in Entries(R[d]) : p[2] = i => p = <<cycle, i>>
      BY <2>1, <3>0
    <3>5. \A p, r \in Entries(R[d]) : p[2] = r[2] => p = r
      BY <2>1, <3>0, <3>4
    <3> QED  BY <3>1, <3>3, <3>5
  <2> QED  BY <2>2, <2>3
<1>4. PlacesOK(E, P, X, N \ {i})
  BY DEF Struct, PlacesOK
<1>5. Somewhere(E, R, P, X, T, N \ {i})
  <2>1. Queued(E, R, i)
    <3>1. <<cycle, i>> \in Entries(R[E[i].dom]) /\ <<cycle, i>>[2] = i
      OBVIOUS
    <3> QED  BY <3>1 DEF Queued
  <2>2. \A j \in Ids : Queued(E, Q, j) => Queued(E, R, j)
    BY DEF Queued, EventRec
  <2> QED  BY <2>1, <2>2 DEF Struct, Somewhere
<1> QED  BY <1>3, <1>4, <1>5 DEF Struct

-----------------------------------------------------------------------------
(* What is alive in the slabs                                              *)

Counted(E, L, H) ==
  \A c \in Core : L[c] + H[c] = Cardinality(EventsOf(c, E)) + Cardinality(BlocksOf(c, E))

\* The events of a core and their blocks are finitely many.
LEMMA CountsAre ==
  ASSUME NEW E, NEW c \in Core
  PROVE  /\ IsFiniteSet(EventsOf(c, E)) /\ IsFiniteSet(BlocksOf(c, E))
         /\ Cardinality(EventsOf(c, E)) \in Nat /\ Cardinality(BlocksOf(c, E)) \in Nat
<1>1. EventsOf(c, E) \in SUBSET Ids /\ BlocksOf(c, E) \in SUBSET Ids
  BY DEF EventsOf, BlocksOf, Ids
<1> QED  BY <1>1, FiniteIds, FS_CardinalityType

\* Links counts the children.
LEMMA LinksAre ==
  ASSUME NEW e \in EventRec
  PROVE  /\ Links(e) \in Nat /\ IsFiniteSet(e.kids)
         /\ e.kids = {} => Links(e) = (IF e.xing = NoId THEN 0 ELSE 1)
<1>1. IsFiniteSet(e.kids)
  BY FiniteIds DEF EventRec
<1>2. Cardinality(e.kids) \in Nat
  BY <1>1, FS_CardinalityType
<1>3. e.kids = {} => Cardinality(e.kids) = 0
  BY FS_EmptySet
<1> QED  BY <1>1, <1>2, <1>3 DEF Links

\* A new event counts once.
LEMMA CreateCounted ==
  ASSUME NEW E \in [Ids -> EventRec], NEW L \in [Core -> Int], NEW H \in [Core -> Int],
         Counted(E, L, H), EventsOK(E), NEW i \in Ids, E[i].kind = "none",
         NEW e \in EventRec, e.kind # "none", e.xing = NoId, e.kids = {}
  PROVE  Counted(WithEvent(E, i, e), Plus(L, i[1], 1), H)
<1> DEFINE F == WithEvent(E, i, e)
           M == Plus(L, i[1], 1)
<1>1. F[i] = e /\ \A j \in Ids : j # i => F[j] = E[j]
  BY WithEventIs
<1>0. \A b \in Core : M[b] = IF b = i[1] THEN L[b] + 1 ELSE L[b]
  BY PlusIs
<1>2. i[1] \in Core /\ i = <<i[1], i[2]>>
  BY NoIdIs
<1>3. Links(E[i]) = 0 /\ Links(e) = 0
  <2>1. E[i].kids = {} /\ E[i].xing = NoId /\ E[i] \in EventRec
    BY DEF EventsOK, NoEvent
  <2> QED  BY <2>1, LinksAre
<1> HIDE DEF F, M
<1> SUFFICES ASSUME NEW c \in Core
             PROVE  M[c] + H[c] = Cardinality(EventsOf(c, F)) + Cardinality(BlocksOf(c, F))
  BY DEF Counted, F, M
<1>4. L[c] + H[c] = Cardinality(EventsOf(c, E)) + Cardinality(BlocksOf(c, E))
  BY DEF Counted
<1>5. BlocksOf(c, F) = BlocksOf(c, E)
  <2>1. \A j \in {c} \X (1 .. MaxEvents) : Links(F[j]) > 1 <=> Links(E[j]) > 1
    <3> TAKE j \in {c} \X (1 .. MaxEvents)
    <3>1. j \in Ids
      BY DEF Ids
    <3> QED  BY <3>1, <1>1, <1>3
  <2> QED  BY <2>1 DEF BlocksOf
<1>6. CASE c # i[1]
  <2>1. EventsOf(c, F) = EventsOf(c, E)
    BY <1>1, <1>6 DEF EventsOf, Ids
  <2>2. M[c] = L[c]
    BY <1>6, <1>0
  <2> QED  BY <2>1, <2>2, <1>4, <1>5
<1>7. CASE c = i[1]
  <2>1. EventsOf(c, F) = EventsOf(c, E) \cup {i} /\ i \notin EventsOf(c, E)
    BY <1>1, <1>2, <1>7 DEF EventsOf, Ids
  <2>2. Cardinality(EventsOf(c, F)) = Cardinality(EventsOf(c, E)) + 1
    BY <2>1, CountsAre, FS_AddElement
  <2>3. M[c] = L[c] + 1
    BY <1>7, <1>0
  <2> QED  BY <2>2, <2>3, <1>4, <1>5, CountsAre
<1> QED  BY <1>6, <1>7

\* A link counts when it needs a block.
LEMMA LinkCounted ==
  ASSUME NEW E \in [Ids -> EventRec], NEW L \in [Core -> Int], NEW H \in [Core -> Int],
         Counted(E, L, H), NEW p \in Ids, NEW F \in [Ids -> EventRec],
         \A i \in Ids : F[i].kind = E[i].kind /\ (i # p => Links(F[i]) = Links(E[i])),
         Links(F[p]) = Links(E[p]) + 1
  PROVE  Counted(F, Plus(L, p[1], Block2(E[p])), H)
<1> DEFINE M == Plus(L, p[1], Block2(E[p]))
<1>0. Block2(E[p]) \in Int /\ \A b \in Core : M[b] = IF b = p[1] THEN L[b] + Block2(E[p]) ELSE L[b]
  BY PlusIs, BlocksAre
<1> HIDE DEF M
<1> SUFFICES ASSUME NEW c \in Core
             PROVE  M[c] + H[c] = Cardinality(EventsOf(c, F)) + Cardinality(BlocksOf(c, F))
  BY DEF Counted, M
<1>1. L[c] + H[c] = Cardinality(EventsOf(c, E)) + Cardinality(BlocksOf(c, E))
  BY DEF Counted
<1>2. EventsOf(c, F) = EventsOf(c, E)
  BY DEF EventsOf, Ids
<1>3. p[1] \in Core /\ p = <<p[1], p[2]>> /\ Links(E[p]) \in Nat
  BY NoIdIs, LinksAre
<1>4. Block2(E[p]) = IF Links(E[p]) = 1 THEN 1 ELSE 0
  BY DEF Block2
<1>5. CASE c # p[1] \/ Links(E[p]) # 1
  <2>1. BlocksOf(c, F) = BlocksOf(c, E)
    <3>1. \A j \in {c} \X (1 .. MaxEvents) : Links(F[j]) > 1 <=> Links(E[j]) > 1
      <4> TAKE j \in {c} \X (1 .. MaxEvents)
      <4>1. j \in Ids /\ j[1] = c
        BY DEF Ids
      <4>2. CASE j = p
        BY <4>1, <4>2, <1>3, <1>5
      <4>3. CASE j # p
        BY <4>1, <4>3
      <4> QED  BY <4>2, <4>3
    <3> QED  BY <3>1 DEF BlocksOf
  <2>2. M[c] = L[c]
    BY <1>5, <1>4, <1>0
  <2> QED  BY <2>1, <2>2, <1>1, <1>2
<1>6. CASE c = p[1] /\ Links(E[p]) = 1
  <2>1. BlocksOf(c, F) = BlocksOf(c, E) \cup {p} /\ p \notin BlocksOf(c, E)
    BY <1>3, <1>6 DEF BlocksOf, Ids
  <2>2. Cardinality(BlocksOf(c, F)) = Cardinality(BlocksOf(c, E)) + 1
    BY <2>1, CountsAre, FS_AddElement
  <2>3. M[c] = L[c] + 1
    BY <1>6, <1>4, <1>0
  <2> QED  BY <2>2, <2>3, <1>1, <1>2, CountsAre
<1> QED  BY <1>5, <1>6

\* The links of an event with one more child, or a crossing
LEMMA MoreLinks ==
  ASSUME NEW e \in EventRec, NEW k \in Ids
  PROVE  /\ k \notin e.kids => Links(WithKid(e, k)) = Links(e) + 1
         /\ e.xing = NoId => Links(WithXing(e, k)) = Links(e) + 1
         /\ Links(WithParent(e)) = Links(e)
<1>1. IsFiniteSet(e.kids) /\ Cardinality(e.kids) \in Nat
  BY LinksAre, FS_CardinalityType
<1>2. k \notin e.kids => Cardinality(e.kids \cup {k}) = Cardinality(e.kids) + 1
  BY <1>1, FS_AddElement
<1>3. /\ WithKid(e, k).kids = e.kids \cup {k} /\ WithKid(e, k).xing = e.xing
      /\ WithXing(e, k).kids = e.kids /\ WithXing(e, k).xing = k
      /\ WithParent(e).kids = e.kids /\ WithParent(e).xing = e.xing
  BY DEF EventRec, WithKid, WithXing, WithParent
<1> QED  BY <1>1, <1>2, <1>3, NoIdIs DEF Links

-----------------------------------------------------------------------------
(* The bound phase: a graph under construction                             *)

RecRec ==
  [state : {"HALTED", "RUNNING", "DRAINING"}, prevRespEvent : MaybeId, prevRespCycle : Nat,
   curCycle : Nat, gapCycles : Nat, lastStart : Nat, lastOrig : Int, startSlack : Int,
   accesses : Nat, leaves : Nat]

\* What a graph is built in: no thread is awake, and the clocks of all domains
\* are at the end of the last phase.
BoundOK ==
  /\ ~sim.inCSim /\ sim.lastLimit \in Nat
  /\ curCycle \in [Domain -> Nat] /\ \A d \in Domain : curCycle[d] = sim.lastLimit
  /\ rec \in [Core -> RecRec] /\ halves \in [Core -> Int]

Pending == UNION {cache[d].pendingQueue : d \in Domain}

\* A crossing that is the last one between two domains has not been run when
\* its cycle is after cycle h.
LastOK(E, L, h) == \A c \in Core, s, d \in Domain :
  LET l == L[c][s][d] IN
  l.cycle > h => /\ l.ev \in Ids /\ E[l.ev].kind = "cross" /\ E[l.ev].dom = d
                 /\ E[l.ev].minStart = l.cycle

\* The stack has crossings whose source is yet to be made.
StackOK(E, s) == \A n \in DOMAIN s :
  LET x == E[s[n]] IN
  x.parentEv \in Ids /\ E[x.parentEv].kind \notin {"none", "cross"} /\ E[x.parentEv].dom = x.src

EntriesFrom(Q, h) == \A d \in Domain : \A p \in Entries(Q[d]) : p[1] >= h

GraphOK(g, N) ==
  /\ Struct(g.ev, g.pq, Pending, {}, {}, N)
  /\ Counted(g.ev, g.live, halves)
  /\ LastOK(g.ev, g.last, sim.lastLimit)
  /\ StackOK(g.ev, g.stack)
  /\ EntriesFrom(g.pq, sim.lastLimit)

\* A new event
Unlinked(e, c, d) ==
  /\ e \in EventRec /\ e.kind # "none" /\ e.owner = c /\ e.dom = d
  /\ e.xing = NoId /\ e.kids = {} /\ e.parents = 0 /\ e.state \in {"none", "queued"} /\ ~e.called
New(e, c, d) == Unlinked(e, c, d) /\ e.state = "none"

\* Crossings that stay what they are stay the last ones.
LEMMA SameLast ==
  ASSUME NEW E, NEW F, NEW L, NEW h, LastOK(E, L, h),
         \A i \in Ids : E[i].kind = "cross" =>
           /\ F[i].kind = "cross" /\ F[i].dom = E[i].dom /\ F[i].minStart = E[i].minStart
  PROVE  LastOK(F, L, h)
<1> SUFFICES ASSUME NEW c \in Core, NEW s \in Domain, NEW d \in Domain,
                    L[c][s][d].cycle > h
             PROVE  LET l == L[c][s][d] IN
                    /\ l.ev \in Ids /\ F[l.ev].kind = "cross" /\ F[l.ev].dom = d
                    /\ F[l.ev].minStart = l.cycle
  BY Zenon DEF LastOK
<1> DEFINE l == L[c][s][d]
<1>1. /\ l.ev \in Ids /\ E[l.ev].kind = "cross" /\ E[l.ev].dom = d /\ E[l.ev].minStart = l.cycle
  BY Zenon DEF LastOK
<1> QED  BY <1>1

\* Its fields
LEMMA EventIs ==
  ASSUME BoundOK, NEW kind \in Kinds \ {"none"}, NEW c \in Core, NEW d \in Domain,
         NEW post \in Nat, NEW minStart \in Nat
  PROVE  LET e == Event(kind, c, d, post, minStart) IN
         /\ New(e, c, d) /\ e.kind = kind /\ e.post = post /\ e.minStart = minStart
<1> DEFINE e == Event(kind, c, d, post, minStart)
<1>1. rec[c].gapCycles \in Nat
  BY DEF BoundOK, RecRec
<1>2. 0 \in Domain
  BY CSimAssumption DEF Domain
<1>3. NoEvent \in EventRec
  BY <1>2 DEF NoEvent, EventRec, Kinds, States, MaybeId
<1>4. e = [NoEvent EXCEPT !.kind = kind, !.owner = c, !.dom = d, !.post = post,
                          !.minStart = minStart, !.orig = minStart - rec[c].gapCycles]
  BY Zenon DEF Event
<1> HIDE DEF e
<1>5. minStart - rec[c].gapCycles \in Int
  BY <1>1
<1>6. e \in EventRec
  BY <1>3, <1>4, <1>5 DEF EventRec
<1>7. /\ e.kind = kind /\ e.owner = c /\ e.dom = d /\ e.post = post /\ e.minStart = minStart
      /\ e.xing = NoId /\ e.kids = {} /\ e.parents = 0 /\ e.state = "none" /\ ~e.called
  BY <1>4 DEF NoEvent
<1> QED  BY <1>6, <1>7 DEF New, Unlinked, e

\* A graph stays in order when a new event is made,
LEMMA CreateOK ==
  ASSUME BoundOK, NEW g \in Graphs, NEW N, GraphOK(g, N),
         NEW e, NEW c \in Core, NEW d \in Domain, Unlinked(e, c, d),
         NEW i \in Ids, g.ev[i].kind = "none", i[1] = c,
         NEW n \in Graphs, n.ev = WithEvent(g.ev, i, e), n.live = Plus(g.live, c, 1),
         n.pq = g.pq, n.last = g.last, n.stack = g.stack
  PROVE  GraphOK(n, N \cup {i})
<1>1. g.ev \in [Ids -> EventRec] /\ g.pq \in [Domain -> Ordered] /\ g.live \in [Core -> Int]
      /\ g.last \in Crossings /\ g.stack \in Seq(Ids)
  BY DEF Graphs
<1>2. Struct(n.ev, n.pq, Pending, {}, {}, N \cup {i})
  <2>1. /\ e \in EventRec /\ e.kind # "none" /\ e.owner = i[1] /\ e.xing = NoId /\ e.kids = {}
        /\ e.parents = 0 /\ e.state \in {"none", "queued"}
    BY DEF Unlinked
  <2>2. Struct(g.ev, g.pq, Pending, {}, {}, N)
    BY DEF GraphOK
  <2>3. Struct(WithEvent(g.ev, i, e), g.pq, Pending, {}, {}, N \cup {i})
    BY <1>1, <2>1, <2>2, CreateStruct
  <2> QED  BY <2>3
<1>3. Counted(n.ev, n.live, halves)
  <2>1. e \in EventRec /\ e.kind # "none" /\ e.xing = NoId /\ e.kids = {}
    BY DEF Unlinked
  <2>2. Counted(g.ev, g.live, halves) /\ EventsOK(g.ev) /\ halves \in [Core -> Int]
    BY DEF GraphOK, Struct, BoundOK
  <2>3. Counted(WithEvent(g.ev, i, e), Plus(g.live, i[1], 1), halves)
    BY <1>1, <2>1, <2>2, CreateCounted
  <2> QED  BY <2>3
<1>4. n.ev[i] = e /\ \A j \in Ids : j # i => n.ev[j] = g.ev[j]
  BY <1>1, WithEventIs DEF Unlinked
<1>5. LastOK(n.ev, n.last, sim.lastLimit)
  <2>1. LastOK(g.ev, g.last, sim.lastLimit)
    BY DEF GraphOK
  <2>2. \A j \in Ids : g.ev[j].kind = "cross" => n.ev[j] = g.ev[j]
    BY <1>4
  <2>3. LastOK(n.ev, g.last, sim.lastLimit)
    BY <2>1, <2>2, SameLast
  <2> QED  BY <2>3
<1>6. StackOK(n.ev, n.stack)
  <2> SUFFICES ASSUME NEW m \in DOMAIN g.stack
               PROVE  LET x == n.ev[g.stack[m]] IN
                      /\ x.parentEv \in Ids /\ n.ev[x.parentEv].kind \notin {"none", "cross"}
                      /\ n.ev[x.parentEv].dom = x.src
    BY DEF StackOK
  <2>1. LET x == g.ev[g.stack[m]] IN
        /\ x.parentEv \in Ids /\ g.ev[x.parentEv].kind \notin {"none", "cross"}
        /\ g.ev[x.parentEv].dom = x.src
    BY DEF GraphOK, StackOK
  <2>2. g.stack[m] \in Ids
    BY <1>1
  <2>3. g.stack[m] # i
    <3>1. g.ev[i] = NoEvent
      BY DEF GraphOK, Struct, EventsOK
    <3> QED  BY <3>1, <2>1, NoIdIs DEF NoEvent
  <2> QED  BY <2>1, <2>2, <2>3, <1>4
<1> QED  BY <1>2, <1>3, <1>5, <1>6 DEF GraphOK

\* and when it is linked.
LEMMA LinkOK ==
  ASSUME BoundOK, NEW g \in Graphs, NEW N, GraphOK(g, N),
         NEW p \in Ids, NEW k \in Ids, p # k, k \in N,
         g.ev[p].kind # "none", g.ev[k].state = "none", g.ev[k].dom = g.ev[p].dom,
         NEW n \in Graphs, n.ev = Linked(g.ev, p, k),
         n.live = Plus(g.live, g.ev[p].owner, Block2(g.ev[p])),
         n.pq = g.pq, n.last = g.last, n.stack = g.stack
  PROVE  GraphOK(n, N \ {k})
<1>1. g.ev \in [Ids -> EventRec] /\ g.pq \in [Domain -> Ordered] /\ g.live \in [Core -> Int]
      /\ g.stack \in Seq(Ids)
  BY DEF Graphs
<1>2. k \notin Pending /\ g.ev[p].owner = p[1] /\ g.ev[k].parents = 0
  BY DEF GraphOK, Struct, PlacesOK, EventsOK
<1>3. Struct(n.ev, n.pq, Pending, {}, {}, N \ {k})
  <2>1. Struct(g.ev, g.pq, Pending, {}, {}, N)
    BY DEF GraphOK
  <2>2. Struct(Linked(g.ev, p, k), g.pq, Pending, {}, {}, N \ {k})
    BY <1>1, <1>2, <2>1, LinkedStruct
  <2> QED  BY <2>2
<1>4. /\ n.ev[p] = WithKid(g.ev[p], k) /\ n.ev[k] = WithParent(g.ev[k])
      /\ \A i \in Ids : i # p /\ i # k => n.ev[i] = g.ev[i]
  BY <1>1, LinkedAt
<1>5. g.ev[p] \in EventRec /\ g.ev[k] \in EventRec
  BY <1>1
<1>10. Alike(n.ev[p], g.ev[p]) /\ Alike(n.ev[k], g.ev[k])
  BY <1>4, <1>5, WithIs
<1>7. \A i \in Ids : Alike(n.ev[i], g.ev[i])
  <2> TAKE i \in Ids
  <2>1. CASE i \in {p, k}
    BY <2>1, <1>10
  <2>2. CASE i \notin {p, k}
    BY <2>2, <1>4 DEF Alike
  <2> QED  BY <2>1, <2>2
<1>6. Counted(n.ev, n.live, halves)
  <2>1. k \notin g.ev[p].kids
    BY <1>2 DEF GraphOK, Struct, KidsOK, KidOK
  <2>2. Links(n.ev[p]) = Links(g.ev[p]) + 1 /\ Links(n.ev[k]) = Links(g.ev[k])
    BY <2>1, <1>4, <1>5, MoreLinks
  <2>3. \A i \in Ids : n.ev[i].kind = g.ev[i].kind /\ (i # p => Links(n.ev[i]) = Links(g.ev[i]))
    <3> TAKE i \in Ids
    <3>1. n.ev[i].kind = g.ev[i].kind
      BY <1>7 DEF Alike
    <3> QED  BY <3>1, <1>4, <2>2
  <2>4. n.ev \in [Ids -> EventRec] /\ halves \in [Core -> Int]
    BY DEF Graphs, BoundOK
  <2>5. Counted(g.ev, g.live, halves)
    BY DEF GraphOK
  <2>6. Counted(n.ev, Plus(g.live, p[1], Block2(g.ev[p])), halves)
    BY <1>1, <2>2, <2>3, <2>4, <2>5, LinkCounted
  <2> QED  BY <2>6, <1>2
<1>8. LastOK(n.ev, n.last, sim.lastLimit)
  <2>1. LastOK(g.ev, g.last, sim.lastLimit)
    BY DEF GraphOK
  <2>2. \A i \in Ids : /\ n.ev[i].kind = g.ev[i].kind /\ n.ev[i].dom = g.ev[i].dom
                       /\ n.ev[i].minStart = g.ev[i].minStart
    BY <1>7 DEF Alike
  <2>3. LastOK(n.ev, g.last, sim.lastLimit)
    BY <2>1, <2>2, SameLast
  <2> QED  BY <2>3
<1>9. StackOK(n.ev, n.stack)
  <2>1. StackOK(g.ev, g.stack)
    BY DEF GraphOK
  <2>2. \A i \in Ids : /\ n.ev[i].kind = g.ev[i].kind /\ n.ev[i].dom = g.ev[i].dom
                       /\ n.ev[i].parentEv = g.ev[i].parentEv /\ n.ev[i].src = g.ev[i].src
    BY <1>7 DEF Alike
  <2>3. \A m \in DOMAIN g.stack : g.stack[m] \in Ids
    BY <1>1
  <2> QED  BY <2>1, <2>2, <2>3 DEF StackOK
<1> QED  BY <1>3, <1>6, <1>8, <1>9 DEF GraphOK

\* A graph stays in order when an event is queued.
LEMMA SyncedOK ==
  ASSUME BoundOK, NEW g \in Graphs, NEW N, GraphOK(g, N),
         NEW x \in Ids, x \in N, NEW cycle \in Nat, g.ev[x].kind = "cross" => cycle >= g.ev[x].minStart,
         NEW n \in Graphs, n.ev = g.ev, n.live = g.live, n.last = g.last, n.stack = g.stack,
         \A b \in Domain : b # g.ev[x].dom => n.pq[b] = g.pq[b],
         cycle >= sim.lastLimit,
         Entries(n.pq[g.ev[x].dom]) = Entries(g.pq[g.ev[x].dom]) \cup {<<cycle, x>>}
  PROVE  GraphOK(n, N \ {x})
<1>1. /\ g.ev \in [Ids -> EventRec] /\ g.pq \in [Domain -> Ordered] /\ n.pq \in [Domain -> Ordered]
      /\ g.ev[x].dom \in Domain
  BY DEF Graphs, EventRec
<1>2. Struct(g.ev, g.pq, Pending, {}, {}, N)
  BY DEF GraphOK
<1>3. Struct(g.ev, n.pq, Pending, {}, {}, N \ {x})
  BY <1>1, <1>2, EnqueuedStruct
<1>4. EntriesFrom(n.pq, sim.lastLimit)
  <2> SUFFICES ASSUME NEW d \in Domain, NEW e \in Entries(n.pq[d])
               PROVE  e[1] >= sim.lastLimit
    BY DEF EntriesFrom
  <2>1. CASE e \in Entries(g.pq[d])
    BY <2>1 DEF GraphOK, EntriesFrom
  <2>2. CASE e = <<cycle, x>>
    BY <2>2
  <2> QED  BY <2>1, <2>2
<1> QED  BY <1>3, <1>4 DEF GraphOK

\* What enqueueCrossing pushes
Pushed(g, x, cycle) ==
  LET e == g.ev[x] IN
  [g EXCEPT !.stack = Append(@, x),
            !.last[e.owner][e.src][e.dom] = [cycle |-> cycle, ev |-> x]]

\* A graph stays in order when a crossing is pushed.
LEMMA PushedIs ==
  ASSUME BoundOK, NEW g \in Graphs, NEW x \in Ids, NEW cycle \in Nat, g.ev[x].owner \in Core
  PROVE  LET n == Pushed(g, x, cycle) IN
         /\ n \in Graphs
         /\ n.ev = g.ev /\ n.pq = g.pq /\ n.live = g.live /\ n.path = g.path /\ n.prev = g.prev
         /\ n.ok = g.ok
         /\ \A N : GraphOK(g, N) /\ g.ev[x].kind = "cross" /\ g.ev[x].parentEv \in Ids
                   /\ g.ev[g.ev[x].parentEv].kind \notin {"none", "cross"}
                   /\ g.ev[g.ev[x].parentEv].dom = g.ev[x].src
                   /\ (cycle > sim.lastLimit => cycle = g.ev[x].minStart)
                   => GraphOK(n, N)
<1> DEFINE e == g.ev[x]
           l == [cycle |-> cycle, ev |-> x]
           l1 == [g.last[e.owner][e.src] EXCEPT ![e.dom] = l]
           l2 == [g.last[e.owner] EXCEPT ![e.src] = l1]
           l3 == [g.last EXCEPT ![e.owner] = l2]
           n == Pushed(g, x, cycle)
<1>1. n = [g EXCEPT !.stack = Append(@, x), !.last = l3]
  BY DEF Pushed, Graphs
<1>2. e \in EventRec /\ e.src \in Domain /\ e.dom \in Domain
  BY DEF Graphs, EventRec
<1>3. Append(g.stack, x) \in Seq(Ids)
  BY DEF Graphs
<1>4. l \in [cycle : Nat, ev : MaybeId]
  BY DEF MaybeId
<1>5. g.last \in Crossings
  BY DEF Graphs
<1> HIDE DEF e, l
<1>6. l1 \in [Domain -> [cycle : Nat, ev : MaybeId]] /\ e.owner \in Core
  BY <1>2, <1>4, <1>5 DEF Crossings, e
<1>7. /\ l1[e.dom] = l
      /\ \A d \in Domain : d # e.dom => l1[d] = g.last[e.owner][e.src][d]
  BY <1>2, <1>5, <1>6 DEF Crossings
<1> HIDE DEF l1
<1>8. l2 \in [Domain -> [Domain -> [cycle : Nat, ev : MaybeId]]]
  BY <1>2, <1>5, <1>6 DEF Crossings
<1>9. l2[e.src] = l1 /\ \A s \in Domain : s # e.src => l2[s] = g.last[e.owner][s]
  BY <1>2, <1>5, <1>6 DEF Crossings
<1> HIDE DEF l2
<1>10. l3 \in Crossings
  BY <1>5, <1>6, <1>8 DEF Crossings
<1>11. l3[e.owner] = l2 /\ \A c \in Core : c # e.owner => l3[c] = g.last[c]
  BY <1>5, <1>6 DEF Crossings
<1> HIDE DEF l3, n
<1>12. /\ n.ev = g.ev /\ n.pq = g.pq /\ n.live = g.live /\ n.path = g.path /\ n.prev = g.prev
       /\ n.ok = g.ok /\ n.stack = Append(g.stack, x) /\ n.last = l3
  BY <1>1 DEF Graphs
<1>13. n \in Graphs
  BY <1>1, <1>3, <1>10 DEF Graphs
<1>14. ASSUME NEW N, GraphOK(g, N), e.kind = "cross", e.parentEv \in Ids,
              g.ev[e.parentEv].kind \notin {"none", "cross"}, g.ev[e.parentEv].dom = e.src,
              cycle > sim.lastLimit => cycle = e.minStart
       PROVE  GraphOK(n, N)
  <2>1. LastOK(g.ev, l3, sim.lastLimit)
    <3> SUFFICES ASSUME NEW c \in Core, NEW s \in Domain, NEW d \in Domain,
                        l3[c][s][d].cycle > sim.lastLimit
                 PROVE  /\ l3[c][s][d].ev \in Ids /\ g.ev[l3[c][s][d].ev].kind = "cross"
                        /\ g.ev[l3[c][s][d].ev].dom = d
                        /\ g.ev[l3[c][s][d].ev].minStart = l3[c][s][d].cycle
      BY DEF LastOK
    <3>1. CASE c = e.owner /\ s = e.src /\ d = e.dom
      <4>1. l3[c][s][d] = l
        BY <3>1, <1>7, <1>9, <1>11
      <4>2. l.cycle = cycle /\ l.ev = x
        BY DEF l
      <4> QED  BY <4>1, <4>2, <3>1, <1>14 DEF e
    <3>2. CASE ~(c = e.owner /\ s = e.src /\ d = e.dom)
      <4>1. l3[c][s][d] = g.last[c][s][d]
        BY <3>2, <1>7, <1>9, <1>11
      <4>2. LastOK(g.ev, g.last, sim.lastLimit)
        BY <1>14 DEF GraphOK
      <4>3. g.last[c][s][d].cycle > sim.lastLimit =>
              /\ g.last[c][s][d].ev \in Ids /\ g.ev[g.last[c][s][d].ev].kind = "cross"
              /\ g.ev[g.last[c][s][d].ev].dom = d
              /\ g.ev[g.last[c][s][d].ev].minStart = g.last[c][s][d].cycle
        BY <4>2 DEF LastOK
      <4> QED  BY <4>1, <4>3
    <3> QED  BY <3>1, <3>2
  <2>2. StackOK(g.ev, Append(g.stack, x))
    <3> SUFFICES ASSUME NEW m \in DOMAIN Append(g.stack, x)
                 PROVE  LET y == g.ev[Append(g.stack, x)[m]] IN
                        /\ y.parentEv \in Ids /\ g.ev[y.parentEv].kind \notin {"none", "cross"}
                        /\ g.ev[y.parentEv].dom = y.src
      BY DEF StackOK
    <3>1. g.stack \in Seq(Ids)
      BY DEF Graphs
    <3>2. CASE m \in DOMAIN g.stack
      <4>1. Append(g.stack, x)[m] = g.stack[m]
        BY <3>1, <3>2
      <4> QED  BY <4>1, <3>2, <1>14 DEF GraphOK, StackOK
    <3>3. CASE m = Len(g.stack) + 1
      <4>1. Append(g.stack, x)[m] = x
        BY <3>1, <3>3
      <4>2. e.parentEv \in Ids /\ g.ev[e.parentEv].kind \notin {"none", "cross"}
            /\ g.ev[e.parentEv].dom = e.src
        BY <1>14
      <4>3. g.ev[x] = e
        BY DEF e
      <4> HIDE DEF e
      <4> QED  BY <4>1, <4>2, <4>3
    <3>4. m \in DOMAIN g.stack \/ m = Len(g.stack) + 1
      BY <3>1
    <3> QED  BY <3>2, <3>3, <3>4
  <2> QED  BY <2>1, <2>2, <1>12, <1>14 DEF GraphOK
<1> QED  BY <1>12, <1>13, <1>14 DEF n, e

\* A graph of which only queues, the stack and links changed
SameShape(n, g) ==
  /\ n.path = g.path /\ n.prev = g.prev /\ (n.ok => g.ok)
  /\ \A i \in Ids : n.ev[i].kind = g.ev[i].kind /\ n.ev[i].owner = g.ev[i].owner
                    /\ n.ev[i].dom = g.ev[i].dom

\* A graph of which the stack or the verdict changed
WithOk(g, b) == [g EXCEPT !.ok = b]
WithStack(g, s) == [g EXCEPT !.stack = s]

\* They leave the rest alone.
LEMMA WithOkIs ==
  ASSUME NEW g \in Graphs, NEW b \in BOOLEAN
  PROVE  /\ WithOk(g, b) \in Graphs /\ WithOk(g, b).ok = b
         /\ WithOk(g, b).ev = g.ev /\ WithOk(g, b).pq = g.pq /\ WithOk(g, b).live = g.live
         /\ WithOk(g, b).last = g.last /\ WithOk(g, b).stack = g.stack
         /\ WithOk(g, b).path = g.path /\ WithOk(g, b).prev = g.prev
         /\ \A N : GraphOK(g, N) => GraphOK(WithOk(g, b), N)
<1> DEFINE n == WithOk(g, b)
<1>1. n \in Graphs
  BY DEF Graphs, WithOk
<1>2. /\ n.ok = b /\ n.ev = g.ev /\ n.pq = g.pq /\ n.live = g.live /\ n.last = g.last
      /\ n.stack = g.stack /\ n.path = g.path /\ n.prev = g.prev
  BY DEF Graphs, WithOk
<1> HIDE DEF n
<1>3. \A N : GraphOK(g, N) => GraphOK(n, N)
  BY <1>2 DEF GraphOK
<1> QED  BY <1>1, <1>2, <1>3 DEF n
\* So does the stack without its end.
LEMMA WithStackIs ==
  ASSUME NEW g \in Graphs, g.stack # <<>>
  PROVE  LET n == WithStack(g, Front(g.stack)) IN
         /\ n \in Graphs /\ n.ok = g.ok
         /\ n.ev = g.ev /\ n.pq = g.pq /\ n.live = g.live /\ n.last = g.last
         /\ n.path = g.path /\ n.prev = g.prev
         /\ \A N : GraphOK(g, N) => GraphOK(n, N)
<1> DEFINE s == Front(g.stack)
           n == WithStack(g, s)
<1>0. g.stack \in Seq(Ids)
  BY DEF Graphs
<1>1. /\ s \in Seq(Ids) /\ Len(s) = Len(g.stack) - 1 /\ Len(g.stack) \in Nat
      /\ \A m \in 1 .. Len(g.stack) - 1 : s[m] = g.stack[m]
  BY <1>0, LastOfSeq
<1> HIDE DEF s
<1>2. n \in Graphs
  BY <1>1 DEF Graphs, WithStack
<1>3. /\ n.ok = g.ok /\ n.ev = g.ev /\ n.pq = g.pq /\ n.live = g.live /\ n.last = g.last
      /\ n.stack = s /\ n.path = g.path /\ n.prev = g.prev
  BY DEF Graphs, WithStack
<1> HIDE DEF n
<1>4. StackOK(g.ev, g.stack) => StackOK(g.ev, s)
  <2>1. DOMAIN s = 1 .. Len(g.stack) - 1 /\ DOMAIN g.stack = 1 .. Len(g.stack)
    BY <1>0, <1>1
  <2>2. \A m \in DOMAIN s : m \in DOMAIN g.stack /\ s[m] = g.stack[m]
    BY <1>1, <2>1
  <2> QED  BY <2>2 DEF StackOK
<1>5. \A N : GraphOK(g, N) => GraphOK(n, N)
  BY <1>3, <1>4 DEF GraphOK
<1> QED  BY <1>2, <1>3, <1>5 DEF n, s

\* A link leaves everything but children and parents alone.
LEMMA LinkedAlike ==
  ASSUME NEW E \in [Ids -> EventRec], NEW p \in Ids, NEW k \in Ids, p # k
  PROVE  \A i \in Ids : Alike(Linked(E, p, k)[i], E[i])
<1>1. E[p] \in EventRec /\ E[k] \in EventRec
  OBVIOUS
<1>2. Alike(WithKid(E[p], k), E[p]) /\ Alike(WithParent(E[k]), E[k])
  BY <1>1, WithIs
<1> TAKE i \in Ids
<1>3. Linked(E, p, k)[p] = WithKid(E[p], k) /\ Linked(E, p, k)[k] = WithParent(E[k])
      /\ (i # p /\ i # k => Linked(E, p, k)[i] = E[i])
  BY LinkedAt
<1>4. Alike(E[i], E[i])
  BY DEF Alike
<1> QED  BY <1>2, <1>3, <1>4

\* A graph stays in order when a crossing is made the child of an event.
LEMMA ChildOK ==
  ASSUME BoundOK, NEW g \in Graphs, NEW p \in MaybeId, NEW x \in Ids,
         NEW n, n = AddChild(g, p, x)
  PROVE  /\ n \in Graphs /\ SameShape(n, g)
         /\ p \in Ids /\ p # x => \A i \in Ids : Alike(n.ev[i], g.ev[i])
         /\ n.ok /\ p \in Ids /\ p # x /\ g.ev[x].dom = g.ev[p].dom =>
              \A N : x \in N /\ GraphOK(g, N) => GraphOK(n, N \ {x})
<1>1. /\ n \in Graphs
      /\ n.pq = g.pq /\ n.last = g.last /\ n.stack = g.stack /\ n.path = g.path
      /\ n.prev = g.prev
      /\ n.ev = Linked(g.ev, p, x)
      /\ n.live = Plus(g.live, g.ev[p].owner, Block2(g.ev[p]))
      /\ n.ok => /\ g.ok /\ g.ev[p].kind # "none" /\ g.ev[p].state \in {"none", "queued"}
                 /\ g.ev[x].state = "none"
  BY AddChildIs
<1>2. g.ev \in [Ids -> EventRec]
  BY DEF Graphs
<1>3. SameShape(n, g)
  <2>1. \A i \in Ids : n.ev[i].kind = g.ev[i].kind /\ n.ev[i].owner = g.ev[i].owner
                       /\ n.ev[i].dom = g.ev[i].dom
    BY <1>1, <1>2, LinkedIs
  <2> QED  BY <1>1, <2>1 DEF SameShape
<1>4. ASSUME p \in Ids, p # x
      PROVE  \A i \in Ids : Alike(n.ev[i], g.ev[i])
  BY <1>1, <1>2, <1>4, LinkedAlike
<1>5. ASSUME n.ok, p \in Ids, p # x, g.ev[x].dom = g.ev[p].dom, NEW N, x \in N, GraphOK(g, N)
      PROVE  GraphOK(n, N \ {x})
  BY <1>1, <1>5, LinkOK
<1> QED  BY <1>1, <1>3, <1>4, <1>5

\* The last crossings that are yet to run are not event x.
Fresh(g, x) == \A c \in Core, s, d \in Domain :
  g.last[c][s][d].ev = x => g.last[c][s][d].cycle <= sim.lastLimit

\* A graph stays in order when a crossing is queued or follows another event.
LEMMA CrossingOK ==
  ASSUME BoundOK, NEW g \in Graphs, NEW x \in Ids, g.ev[x].owner \in Core,
         NEW n, n = EnqueueCrossing(g, x, Max({sim.lastLimit, g.ev[x].minStart}))
  PROVE  /\ n \in Graphs /\ SameShape(n, g)
         /\ n.ok /\ GraphOK(g, {x}) /\ g.ev[x].kind = "cross" /\ g.ev[x].state = "none"
            /\ g.ev[x].parentEv \in Ids
            /\ g.ev[g.ev[x].parentEv].kind \notin {"none", "cross"}
            /\ g.ev[g.ev[x].parentEv].dom = g.ev[x].src
            /\ Fresh(g, x)
            => GraphOK(n, {}) /\ \A i \in Ids : Alike(n.ev[i], g.ev[i])
<1> DEFINE e == g.ev[x]
           cycle == Max({sim.lastLimit, e.minStart})
           top == IF g.stack = <<>> THEN NoEvent ELSE g.ev[Last(g.stack)]
           isResp == g.stack # <<>> /\ top.src = e.dom /\ top.dom = e.src
           last == g.last[e.owner][e.src][e.dom]
           u == Pushed(g, x, cycle)
           chain == last.cycle > curCycle[e.src] /\ last.cycle <= cycle
           ok2 == u.ok /\ g.ev[last.ev].kind = "cross"
           ok3 == u.ok /\ cycle >= curCycle[e.src]
           hyp == /\ n.ok /\ GraphOK(g, {x}) /\ g.ev[x].kind = "cross" /\ g.ev[x].state = "none"
                  /\ g.ev[x].parentEv \in Ids
                  /\ g.ev[g.ev[x].parentEv].kind \notin {"none", "cross"}
                  /\ g.ev[g.ev[x].parentEv].dom = g.ev[x].src
                  /\ Fresh(g, x)
<1>1. e \in EventRec /\ e.src \in Domain /\ e.dom \in Domain /\ e.minStart \in Nat
  BY DEF Graphs, EventRec
<1>2. cycle \in Nat /\ cycle >= sim.lastLimit /\ cycle >= e.minStart
      /\ (cycle > sim.lastLimit => cycle = e.minStart)
  <2>1. sim.lastLimit \in Nat
    BY DEF BoundOK
  <2> DEFINE a == sim.lastLimit
             b == e.minStart
  <2>2. cycle = Max({a, b}) /\ a \in Nat /\ b \in Nat
    BY <1>1, <2>1
  <2> HIDE DEF a, b, cycle
  <2>3. Max({a, b}) \in {a, b} /\ Max({a, b}) >= a /\ Max({a, b}) >= b
    BY <2>2, MaxOfTwo
  <2>4. cycle \in {a, b} /\ cycle >= a /\ cycle >= b
    BY <2>2, <2>3
  <2> QED  BY <2>2, <2>4 DEF a, b
<1>3. n = IF isResp THEN AddChild(WithStack(g, Front(g.stack)), top.parentEv, x)
          ELSE IF chain THEN AddChild(WithOk(u, ok2), last.ev, x)
          ELSE EnqueueSynced(WithOk(u, ok3), x, cycle)
  BY DEF EnqueueCrossing, WithStack, WithOk, Pushed
<1>4. last \in [cycle : Nat, ev : MaybeId] /\ last.cycle \in Nat /\ last.ev \in MaybeId
  <2>1. g.last \in [Core -> [Domain -> [Domain -> [cycle : Nat, ev : MaybeId]]]]
    BY DEF Graphs, Crossings
  <2>2. last \in [cycle : Nat, ev : MaybeId]
    BY <1>1, <2>1
  <2> HIDE DEF last
  <2> QED  BY <2>2
<1>5. /\ u \in Graphs
      /\ u.ev = g.ev /\ u.pq = g.pq /\ u.live = g.live /\ u.path = g.path /\ u.prev = g.prev
      /\ u.ok = g.ok
      /\ hyp => GraphOK(u, {x})
  <2> HIDE DEF cycle, u
  <2>1. LET v == Pushed(g, x, cycle) IN
         /\ v \in Graphs
         /\ v.ev = g.ev /\ v.pq = g.pq /\ v.live = g.live /\ v.path = g.path /\ v.prev = g.prev
         /\ v.ok = g.ok
         /\ \A N : GraphOK(g, N) /\ g.ev[x].kind = "cross" /\ g.ev[x].parentEv \in Ids
                   /\ g.ev[g.ev[x].parentEv].kind \notin {"none", "cross"}
                   /\ g.ev[g.ev[x].parentEv].dom = g.ev[x].src
                   /\ (cycle > sim.lastLimit => cycle = g.ev[x].minStart)
                   => GraphOK(v, N)
    BY <1>2, PushedIs
  <2> QED  BY <1>2, <2>1 DEF u
<1> HIDE DEF u, cycle
<1>6. CASE isResp
  <2> DEFINE v == WithStack(g, Front(g.stack))
  <2>1. g.stack \in Seq(Ids) /\ Last(g.stack) \in Ids /\ g.stack # <<>> /\ Last(g.stack) = g.stack[Len(g.stack)]
        /\ Len(g.stack) \in DOMAIN g.stack
    BY <1>6, LastOfSeq DEF Graphs
  <2>2. top = g.ev[Last(g.stack)] /\ top.parentEv \in MaybeId
    BY <2>1 DEF Graphs, EventRec
  <2>3. v \in Graphs /\ v.ok = g.ok /\ v.ev = g.ev /\ v.path = g.path /\ v.prev = g.prev
        /\ \A N : GraphOK(g, N) => GraphOK(v, N)
    BY <2>1, WithStackIs
  <2>4. n = AddChild(v, top.parentEv, x)
    BY <1>3, <1>6
  <2> HIDE DEF v, top
  <2>5. /\ n \in Graphs /\ SameShape(n, v)
        /\ top.parentEv \in Ids /\ top.parentEv # x => \A i \in Ids : Alike(n.ev[i], v.ev[i])
        /\ n.ok /\ top.parentEv \in Ids /\ top.parentEv # x /\ v.ev[x].dom = v.ev[top.parentEv].dom =>
              \A N : x \in N /\ GraphOK(v, N) => GraphOK(n, N \ {x})
    BY <2>2, <2>3, <2>4, ChildOK
  <2>6. ASSUME hyp PROVE GraphOK(n, {}) /\ \A i \in Ids : Alike(n.ev[i], g.ev[i])
    <3>1. StackOK(g.ev, g.stack)
      BY <2>6 DEF GraphOK
    <3>2. /\ top.parentEv \in Ids /\ g.ev[top.parentEv].kind \notin {"none", "cross"}
          /\ g.ev[top.parentEv].dom = top.src
      BY <3>1, <2>1, <2>2 DEF StackOK
    <3>3. top.parentEv # x /\ g.ev[top.parentEv].dom = e.dom
      BY <3>2, <1>6, <2>6
    <3>4. GraphOK(n, {x} \ {x}) /\ \A i \in Ids : Alike(n.ev[i], v.ev[i])
      BY <2>3, <2>5, <2>6, <3>2, <3>3
    <3>5. {x} \ {x} = {}
      OBVIOUS
    <3> QED  BY <3>4, <3>5, <2>3
  <2>7. SameShape(n, g)
    BY <2>3, <2>5 DEF SameShape
  <2> QED  BY <2>5, <2>6, <2>7
<1>7. CASE ~isResp /\ chain
  <2> DEFINE v == WithOk(u, ok2)
  <2>1. ok2 \in BOOLEAN
    OBVIOUS
  <2>2. v \in Graphs /\ v.ok = ok2 /\ v.ev = g.ev /\ v.path = g.path /\ v.prev = g.prev
        /\ (hyp => GraphOK(v, {x}))
    <3> HIDE DEF ok2, hyp
    <3> QED  BY <2>1, <1>5, WithOkIs
  <2>3. n = AddChild(v, last.ev, x)
    BY <1>3, <1>7
  <2> HIDE DEF v
  <2>4. /\ n \in Graphs /\ SameShape(n, v)
        /\ last.ev \in Ids /\ last.ev # x => \A i \in Ids : Alike(n.ev[i], v.ev[i])
        /\ n.ok /\ last.ev \in Ids /\ last.ev # x /\ v.ev[x].dom = v.ev[last.ev].dom =>
              \A N : x \in N /\ GraphOK(v, N) => GraphOK(n, N \ {x})
    BY <1>4, <2>2, <2>3, ChildOK
  <2>5. ASSUME hyp PROVE GraphOK(n, {}) /\ \A i \in Ids : Alike(n.ev[i], g.ev[i])
    <3>1. last.cycle > sim.lastLimit
      BY <1>7, <1>1 DEF BoundOK
    <3>2. LastOK(g.ev, g.last, sim.lastLimit) /\ e.owner \in Core
      BY <2>5 DEF GraphOK
    <3>3. last.ev \in Ids /\ g.ev[last.ev].dom = e.dom
      BY <3>1, <3>2, <1>1 DEF LastOK
    <3>4. last.ev # x
      <4>1. \A c \in Core, s, d \in Domain :
              g.last[c][s][d].ev = x => g.last[c][s][d].cycle <= sim.lastLimit
        BY <2>5 DEF Fresh
      <4>2. last.ev = x => last.cycle <= sim.lastLimit
        BY <4>1, <3>2, <1>1
      <4>3. sim.lastLimit \in Nat
        BY DEF BoundOK
      <4> HIDE DEF last
      <4> QED  BY <4>2, <4>3, <3>1, <1>4
    <3>5. GraphOK(n, {x} \ {x}) /\ \A i \in Ids : Alike(n.ev[i], v.ev[i])
      BY <2>2, <2>4, <2>5, <3>3, <3>4
    <3>6. {x} \ {x} = {}
      OBVIOUS
    <3> QED  BY <3>5, <3>6, <2>2
  <2>6. SameShape(n, g)
    BY <2>2, <2>4, <1>5 DEF SameShape
  <2> QED  BY <2>4, <2>5, <2>6
<1>8. CASE ~isResp /\ ~chain
  <2> DEFINE v == WithOk(u, ok3)
  <2>1. ok3 \in BOOLEAN
    OBVIOUS
  <2>2. v \in Graphs /\ v.ok = ok3 /\ v.ev = g.ev /\ v.path = g.path /\ v.prev = g.prev
        /\ (hyp => GraphOK(v, {x}))
    <3> HIDE DEF ok3, hyp
    <3> QED  BY <2>1, <1>5, WithOkIs
  <2>3. n = EnqueueSynced(v, x, cycle)
    BY <1>3, <1>8
  <2> HIDE DEF v
  <2>4. /\ n \in Graphs
        /\ n.ev = v.ev /\ n.live = v.live /\ n.last = v.last /\ n.stack = v.stack
        /\ n.path = v.path /\ n.prev = v.prev
        /\ \A b \in Domain : b # v.ev[x].dom => n.pq[b] = v.pq[b]
        /\ n.ok => /\ v.ok /\ cycle >= sim.lastLimit
                   /\ Entries(n.pq[v.ev[x].dom]) = Entries(v.pq[v.ev[x].dom]) \cup {<<cycle, x>>}
    <3>1. LET z == EnqueueSynced(v, x, cycle)  d == v.ev[x].dom IN
         /\ z \in Graphs /\ d \in Domain
         /\ z.ev = v.ev /\ z.live = v.live /\ z.last = v.last /\ z.stack = v.stack
         /\ z.path = v.path /\ z.prev = v.prev
         /\ \A b \in Domain : b # d => z.pq[b] = v.pq[b]
         /\ z.ok => /\ v.ok /\ ~sim.inCSim /\ cycle >= sim.lastLimit /\ v.ev[x].parents = 0
                    /\ MayEnqueue(v.pq[d], cycle)
                    /\ Entries(z.pq[d]) = Entries(v.pq[d]) \cup {<<cycle, x>>}
      BY <1>2, <2>2, EnqueueSyncedIs
    <3> QED  BY <2>3, <3>1
  <2>5. ASSUME hyp PROVE GraphOK(n, {}) /\ \A i \in Ids : Alike(n.ev[i], g.ev[i])
    <3>1. GraphOK(v, {x})
      BY <2>2, <2>5
    <3>2. Entries(n.pq[v.ev[x].dom]) = Entries(v.pq[v.ev[x].dom]) \cup {<<cycle, x>>}
      BY <2>4, <2>5
    <3>3. v.ev[x].kind = "cross" => cycle >= v.ev[x].minStart
      BY <2>2, <1>2
    <3>4. GraphOK(n, {x} \ {x})
      BY <1>2, <2>2, <2>4, <3>1, <3>2, <3>3, SyncedOK
    <3>5. {x} \ {x} = {}
      OBVIOUS
    <3>6. \A i \in Ids : Alike(n.ev[i], g.ev[i])
      BY <2>2, <2>4 DEF Alike
    <3> QED  BY <3>4, <3>5, <3>6
  <2>6. SameShape(n, g)
    BY <2>2, <2>4, <1>5 DEF SameShape
  <2> QED  BY <2>4, <2>5, <2>6
<1> QED  BY <1>6, <1>7, <1>8

\* A new crossing from event p of domain s
CrossEvent(c, d, m, s, p, pre, post) ==
  [Event("cross", c, d, 0, m) EXCEPT !.src = s, !.parentEv = p, !.preSlack = pre, !.postSlack = post]

\* Its fields
LEMMA CrossEventIs ==
  ASSUME BoundOK, NEW c \in Core, NEW d \in Domain, NEW m \in Nat, NEW s \in Domain,
         NEW p \in Ids, NEW pre \in Nat, NEW post \in Nat
  PROVE  LET x == CrossEvent(c, d, m, s, p, pre, post) IN
         /\ New(x, c, d) /\ x.kind = "cross" /\ x.minStart = m /\ x.src = s /\ x.parentEv = p
<1> DEFINE f == Event("cross", c, d, 0, m)
           x == CrossEvent(c, d, m, s, p, pre, post)
<1>1. New(f, c, d) /\ f.kind = "cross" /\ f.minStart = m
  <2>1. "cross" \in Kinds \ {"none"} /\ 0 \in Nat
    BY DEF Kinds
  <2>2. LET e == Event("cross", c, d, 0, m) IN
         /\ New(e, c, d) /\ e.kind = "cross" /\ e.post = 0 /\ e.minStart = m
    BY <2>1, EventIs
  <2> QED  BY <2>2
<1>2. x = [f EXCEPT !.src = s, !.parentEv = p, !.preSlack = pre, !.postSlack = post]
  BY DEF CrossEvent
<1> HIDE DEF f, x
<1>3. f \in EventRec
  BY <1>1 DEF New, Unlinked
<1>4. p \in MaybeId
  BY DEF MaybeId
<1>5. x \in EventRec
  BY <1>2, <1>3, <1>4 DEF EventRec
<1>6. /\ x.kind = f.kind /\ x.minStart = f.minStart /\ x.src = s /\ x.parentEv = p
      /\ x.owner = f.owner /\ x.dom = f.dom /\ x.xing = f.xing /\ x.kids = f.kids
      /\ x.parents = f.parents /\ x.state = f.state /\ x.called = f.called
  BY <1>2, <1>3 DEF EventRec
<1> QED  BY <1>1, <1>5, <1>6 DEF New, Unlinked, x

\* Event p gets its crossing x.
Crossed(g, s, c, p, x) ==
  [g EXCEPT !.path = s, !.ev[p].xing = x, !.live[c] = @ + Block2(g.ev[p])]

\* Only event p and a count change,
LEMMA CrossedIs ==
  ASSUME NEW g \in Graphs, NEW s \in Seq(MaybeId), NEW c \in Core, NEW p \in Ids,
         NEW x \in Ids, NEW n, n = Crossed(g, s, c, p, x)
  PROVE  /\ n \in Graphs /\ n.path = s /\ n.prev = g.prev /\ n.ok = g.ok /\ n.last = g.last
         /\ n.pq = g.pq /\ n.stack = g.stack
         /\ n.ev = WithEvent(g.ev, p, WithXing(g.ev[p], x))
         /\ n.live = Plus(g.live, c, Block2(g.ev[p]))
         /\ n.ev[p] = WithXing(g.ev[p], x) /\ \A i \in Ids : i # p => n.ev[i] = g.ev[i]
<1> DEFINE e == WithXing(g.ev[p], x)
           E == WithEvent(g.ev, p, e)
           L == Plus(g.live, c, Block2(g.ev[p]))
<1>1. n = [g EXCEPT !.path = s, !.ev = E, !.live = L]
  BY DEF Crossed, WithEvent, WithXing, Plus
<1>2. g.ev \in [Ids -> EventRec] /\ g.live \in [Core -> Int]
  BY DEF Graphs
<1>3. e \in EventRec
  <2>1. g.ev[p] \in EventRec /\ x \in MaybeId
    BY <1>2 DEF MaybeId
  <2> QED  BY <2>1 DEF WithXing, EventRec
<1> HIDE DEF e
<1>4. E \in [Ids -> EventRec] /\ E[p] = e /\ \A i \in Ids : i # p => E[i] = g.ev[i]
  BY <1>2, <1>3, WithEventIs
<1>5. L \in [Core -> Int]
  BY <1>2, BlocksAre, PlusIs
<1> HIDE DEF E, L
<1>6. n \in Graphs
  BY <1>1, <1>4, <1>5 DEF Graphs
<1>7. /\ n.path = s /\ n.ev = E /\ n.live = L /\ n.prev = g.prev /\ n.ok = g.ok
      /\ n.last = g.last /\ n.pq = g.pq /\ n.stack = g.stack
  BY <1>1 DEF Graphs
<1> QED  BY <1>4, <1>6, <1>7 DEF E, L, e

\* and a graph stays in order when an event gets its crossing.
LEMMA CrossedOK ==
  ASSUME BoundOK, NEW g \in Graphs, NEW s \in Seq(MaybeId), NEW p \in Ids,
         NEW x \in Ids, NEW n, n = Crossed(g, s, p[1], p, x), NEW N, GraphOK(g, N),
         g.ev[p].kind \notin {"none", "cross"},
         g.ev[p].xing = NoId, g.ev[x].kind = "cross", ~g.ev[x].called,
         g.ev[x].parentEv = p, g.ev[x].src = g.ev[p].dom, g.ev[x].dom # g.ev[p].dom
  PROVE  GraphOK(n, N)
<1> DEFINE e == WithXing(g.ev[p], x)
           E == WithEvent(g.ev, p, e)
           L == Plus(g.live, p[1], Block2(g.ev[p]))
<1>2. g.ev \in [Ids -> EventRec] /\ g.live \in [Core -> Int]
  BY DEF Graphs
<1>3. /\ e \in EventRec
      /\ e.kind = g.ev[p].kind /\ e.owner = g.ev[p].owner /\ e.dom = g.ev[p].dom
      /\ e.parentEv = g.ev[p].parentEv /\ e.src = g.ev[p].src /\ e.minStart = g.ev[p].minStart
  <2>1. g.ev[p] \in EventRec /\ x \in MaybeId
    BY <1>2 DEF MaybeId
  <2> QED  BY <2>1 DEF WithXing, EventRec
<1> HIDE DEF e
<1>4. E \in [Ids -> EventRec] /\ E[p] = e /\ \A i \in Ids : i # p => E[i] = g.ev[i]
  BY <1>2, <1>3, WithEventIs
<1> HIDE DEF E, L
<1>0. p[1] \in Core
  BY NoIdIs
<1>7. /\ n.ev = E /\ n.live = L /\ n.last = g.last /\ n.pq = g.pq /\ n.stack = g.stack
  BY <1>0, CrossedIs DEF E, L, e
<1>11. Struct(E, g.pq, Pending, {}, {}, N)
  <2>1. g.pq \in [Domain -> Ordered] /\ Struct(g.ev, g.pq, Pending, {}, {}, N)
    BY DEF GraphOK, Graphs
  <2> QED  BY <1>2, <2>1, CrossedStruct DEF E, e
<1>12. Counted(E, L, halves)
  <2>1. Counted(g.ev, g.live, halves) /\ halves \in [Core -> Int]
    BY DEF GraphOK, BoundOK
  <2>2. Links(E[p]) = Links(g.ev[p]) + 1
    <3>1. g.ev[p] \in EventRec
      BY <1>2
    <3> QED  BY <3>1, <1>4, MoreLinks DEF e
  <2>3. \A i \in Ids : E[i].kind = g.ev[i].kind /\ (i # p => Links(E[i]) = Links(g.ev[i]))
    BY <1>3, <1>4
  <2> QED  BY <1>2, <1>4, <2>1, <2>2, <2>3, LinkCounted DEF L
<1>13. \A i \in Ids : /\ E[i].kind = g.ev[i].kind /\ E[i].dom = g.ev[i].dom
                     /\ E[i].minStart = g.ev[i].minStart /\ E[i].parentEv = g.ev[i].parentEv
                     /\ E[i].src = g.ev[i].src
  BY <1>3, <1>4
<1>14. LastOK(E, g.last, sim.lastLimit)
  <2>1. LastOK(g.ev, g.last, sim.lastLimit)
    BY DEF GraphOK
  <2> QED  BY <1>13, <2>1, SameLast
<1>15. StackOK(E, g.stack)
  <2>1. g.stack \in Seq(Ids) /\ StackOK(g.ev, g.stack)
    BY DEF GraphOK, Graphs
  <2>2. \A m \in DOMAIN g.stack : g.stack[m] \in Ids
    BY <2>1
  <2> SUFFICES ASSUME NEW m \in DOMAIN g.stack
               PROVE  LET y == E[g.stack[m]] IN
                      /\ y.parentEv \in Ids /\ E[y.parentEv].kind \notin {"none", "cross"}
                      /\ E[y.parentEv].dom = y.src
    BY DEF StackOK
  <2>3. LET y == g.ev[g.stack[m]] IN
        /\ y.parentEv \in Ids /\ g.ev[y.parentEv].kind \notin {"none", "cross"}
        /\ g.ev[y.parentEv].dom = y.src
    BY <2>1 DEF StackOK
  <2> QED  BY <1>13, <2>2, <2>3
<1>16. EntriesFrom(g.pq, sim.lastLimit)
  BY DEF GraphOK
<1> QED  BY <1>7, <1>11, <1>12, <1>14, <1>15, <1>16 DEF GraphOK

\* What following an event leaves alone
Keeps(n, g) ==
  /\ n.prev = g.prev /\ (n.ok => g.ok)
  /\ \A i \in Ids : g.ev[i].kind # "none" =>
       /\ n.ev[i].kind = g.ev[i].kind /\ n.ev[i].owner = g.ev[i].owner
       /\ n.ev[i].dom = g.ev[i].dom

\* At most one event, of core c, appears.
OneMore(n, g, c) ==
  \E x \in Ids : x[1] = c /\ \A i \in Ids : i # x => n.ev[i].kind = g.ev[i].kind
\* Every event but p that was there has the crossing that it had.
XingsKept(n, g, p) ==
  \A i \in Ids : g.ev[i].kind # "none" /\ i # p => n.ev[i].xing = g.ev[i].xing

\* A graph stays in order when an event follows another by a crossing.
LEMMA CrossOK ==
  ASSUME BoundOK, NEW g \in Graphs, NEW p \in Ids, NEW k \in Ids, p # k, NEW c \in Core,
         g.ev[p].owner = c, g.ev[p].kind \notin {"none", "cross"}, g.ev[k].kind # "none",
         Cardinality(Free(c, g.ev)) >= 1,
         NEW n, n = Cross(g, p, k)
  PROVE  /\ n \in Graphs /\ n.path = g.path /\ Keeps(n, g)
         /\ OneMore(n, g, c)
         /\ Cardinality(Free(c, n.ev)) = Cardinality(Free(c, g.ev)) - 1
         /\ n.ok /\ GraphOK(g, {k}) /\ g.ev[p].xing = NoId /\ g.ev[k].dom # g.ev[p].dom
            => GraphOK(n, {}) /\ XingsKept(n, g, p)
<1> DEFINE parent == g.ev[p]
           pre == PreSlackOf(parent.post)
           m == parent.minStart + pre
           x == CrossEvent(c, g.ev[k].dom, m, parent.dom, p, pre, g.ev[k].pre)
           made == Create(g, x)
           id == Last(made.path)
           mid == Crossed(made, g.path, c, p, id)
           linked == AddChild(mid, id, k)
           hyp == n.ok /\ GraphOK(g, {k}) /\ g.ev[p].xing = NoId /\ g.ev[k].dom # g.ev[p].dom
<1>1. parent \in EventRec /\ g.ev[k] \in EventRec /\ g.ev \in [Ids -> EventRec]
  BY DEF Graphs
<1>2. pre \in Nat /\ m \in Nat /\ g.ev[k].dom \in Domain /\ parent.dom \in Domain /\ g.ev[k].pre \in Nat
  <2>1. parent.post \in Nat /\ parent.minStart \in Nat
    BY <1>1 DEF EventRec
  <2>2. pre \in Nat
    BY <2>1 DEF PreSlackOf
  <2> QED  BY <1>1, <2>1, <2>2 DEF EventRec
<1>3. /\ New(x, c, g.ev[k].dom) /\ x.kind = "cross" /\ x.minStart = m
      /\ x.src = parent.dom /\ x.parentEv = p
  <2> DEFINE a == g.ev[k].dom
             s == parent.dom
             q == g.ev[k].pre
  <2>1. a \in Domain /\ s \in Domain /\ q \in Nat /\ m \in Nat /\ pre \in Nat
    BY <1>2
  <2>2. x = CrossEvent(c, a, m, s, p, pre, q)
    OBVIOUS
  <2> HIDE DEF m, pre, a, s, q, x
  <2>3. LET y == CrossEvent(c, a, m, s, p, pre, q) IN
         /\ New(y, c, a) /\ y.kind = "cross" /\ y.minStart = m /\ y.src = s /\ y.parentEv = p
    BY <2>1, CrossEventIs
  <2>4. New(x, c, a) /\ x.kind = "cross" /\ x.minStart = m /\ x.src = s /\ x.parentEv = p
    BY <2>2, <2>3
  <2> QED  BY <2>4 DEF a, s
<1>4. n = EnqueueCrossing(linked, id, Max({sim.lastLimit, m}))
  <2>1. made.ev[p] = parent
    <3>1. x \in EventRec /\ x.owner = c /\ x.kind # "none"
      BY <1>3 DEF New, Unlinked
    <3> HIDE DEF x
    <3>2. id \in Ids /\ g.ev[id].kind = "none" /\ made.ev = WithEvent(g.ev, id, x)
      BY <3>1, CreateIs
    <3> HIDE DEF made, id
    <3>3. id # p
      BY <3>2
    <3> QED  BY <1>1, <3>1, <3>2, <3>3, WithEventIs
  <2>2. n = EnqueueCrossing(AddChild([made EXCEPT !.path = g.path,
                                      !.ev[p].xing = id,
                                      !.live[c] = @ + Block2(parent)], id, k), id, Max({sim.lastLimit, m}))
    BY DEF Cross, CrossEvent
  <2>3. mid = [made EXCEPT !.path = g.path, !.ev[p].xing = id, !.live[c] = @ + Block2(parent)]
    <3> HIDE DEF made, id, parent
    <3> QED  BY <2>1 DEF Crossed
  <2> HIDE DEF made, id, mid
  <2> QED  BY <2>2, <2>3
<1> HIDE DEF x, m, pre
<1>5. /\ made \in Graphs /\ id \in Ids /\ id[1] = c /\ g.ev[id].kind = "none"
      /\ made.ev = WithEvent(g.ev, id, x) /\ made.live = Plus(g.live, c, 1)
      /\ made.pq = g.pq /\ made.last = g.last /\ made.stack = g.stack /\ made.prev = g.prev
      /\ made.ok = g.ok
      /\ Cardinality(Free(c, made.ev)) = Cardinality(Free(c, g.ev)) - 1
  <2>1. x \in EventRec /\ x.owner = c /\ x.kind # "none"
    BY <1>3 DEF New, Unlinked
  <2> QED  BY <2>1, CreateIs
<1> HIDE DEF made, id
<1>6. made.ev[id] = x /\ \A i \in Ids : i # id => made.ev[i] = g.ev[i]
  BY <1>1, <1>3, <1>5, WithEventIs DEF New, Unlinked
<1>7. id # p /\ id # k
  BY <1>5
<1>8. /\ mid \in Graphs /\ mid.path = g.path /\ mid.prev = g.prev /\ mid.ok = g.ok
      /\ mid.last = g.last
      /\ mid.ev[p] = WithXing(parent, id) /\ \A i \in Ids : i # p => mid.ev[i] = made.ev[i]
  <2>1. g.path \in Seq(MaybeId) /\ made.ev[p] = parent
    BY <1>6, <1>7 DEF Graphs
  <2>2. /\ mid \in Graphs /\ mid.path = g.path /\ mid.prev = made.prev /\ mid.ok = made.ok
        /\ mid.last = made.last
        /\ mid.ev[p] = WithXing(made.ev[p], id) /\ \A i \in Ids : i # p => mid.ev[i] = made.ev[i]
    BY <1>5, <2>1, CrossedIs
  <2> HIDE DEF mid
  <2>3. mid.ev[p] = WithXing(parent, id)
    BY <2>1, <2>2
  <2> QED  BY <1>5, <2>2, <2>3
<1>18. mid = Crossed(made, g.path, c, p, id)
  OBVIOUS
<1> HIDE DEF mid
<1>9. /\ linked \in Graphs /\ SameShape(linked, mid) /\ linked.last = mid.last
      /\ \A i \in Ids : Alike(linked.ev[i], mid.ev[i])
      /\ linked.ok /\ mid.ev[k].dom = mid.ev[id].dom =>
           \A N : k \in N /\ GraphOK(mid, N) => GraphOK(linked, N \ {k})
  <2>1. id \in MaybeId
    BY <1>5 DEF MaybeId
  <2>2. linked.last = mid.last
    BY <1>8, <2>1, AddChildIs
  <2> QED  BY <1>5, <1>7, <1>8, <2>1, <2>2, ChildOK
<1> HIDE DEF linked
<1>10. /\ linked.ev[id].kind = "cross" /\ linked.ev[id].owner = c /\ linked.ev[id].state = "none"
       /\ linked.ev[id].minStart = m /\ linked.ev[id].parentEv = p
       /\ linked.ev[id].src = parent.dom
  <2>1. mid.ev[id] = x
    BY <1>5, <1>6, <1>7, <1>8
  <2>2. Alike(linked.ev[id], x)
    BY <1>5, <1>9, <2>1
  <2> QED  BY <1>3, <2>2 DEF Alike, New, Unlinked
<1>11. /\ n \in Graphs /\ SameShape(n, linked)
       /\ n.ok /\ GraphOK(linked, {id}) /\ linked.ev[p].kind \notin {"none", "cross"}
            /\ linked.ev[p].dom = parent.dom
            /\ Fresh(linked, id)
            => GraphOK(n, {}) /\ \A i \in Ids : Alike(n.ev[i], linked.ev[i])
  <2>1. n = EnqueueCrossing(linked, id, Max({sim.lastLimit, linked.ev[id].minStart}))
    BY <1>4, <1>10
  <2>3. linked.ev[id].owner \in Core /\ linked \in Graphs /\ id \in Ids
    BY <1>5, <1>9, <1>10
  <2>2. /\ n \in Graphs /\ SameShape(n, linked)
        /\ n.ok /\ GraphOK(linked, {id}) /\ linked.ev[id].kind = "cross" /\ linked.ev[id].state = "none"
            /\ linked.ev[id].parentEv \in Ids
            /\ linked.ev[linked.ev[id].parentEv].kind \notin {"none", "cross"}
            /\ linked.ev[linked.ev[id].parentEv].dom = linked.ev[id].src
            /\ Fresh(linked, id)
            => GraphOK(n, {}) /\ \A i \in Ids : Alike(n.ev[i], linked.ev[i])
    BY <2>1, <2>3, CrossingOK
  <2>4. ASSUME n.ok, GraphOK(linked, {id}), linked.ev[p].kind \notin {"none", "cross"},
               linked.ev[p].dom = parent.dom,
               Fresh(linked, id)
        PROVE  GraphOK(n, {}) /\ \A i \in Ids : Alike(n.ev[i], linked.ev[i])
    <3>1. /\ linked.ev[id].kind = "cross" /\ linked.ev[id].state = "none"
          /\ linked.ev[id].parentEv \in Ids
          /\ linked.ev[linked.ev[id].parentEv].kind \notin {"none", "cross"}
          /\ linked.ev[linked.ev[id].parentEv].dom = linked.ev[id].src
      BY <1>10, <2>4
    <3> QED  BY <2>2, <2>4, <3>1
  <2> QED  BY <2>2, <2>4
<1>12. \A i \in Ids : i # id => /\ n.ev[i].kind = g.ev[i].kind /\ n.ev[i].owner = g.ev[i].owner
                                /\ n.ev[i].dom = g.ev[i].dom
  <2> TAKE i \in Ids
  <2> HAVE i # id
  <2>1. mid.ev[i].kind = g.ev[i].kind /\ mid.ev[i].owner = g.ev[i].owner /\ mid.ev[i].dom = g.ev[i].dom
    <3>1. CASE i = p
      BY <3>1, <1>1, <1>8 DEF WithXing, EventRec
    <3>2. CASE i # p
      BY <3>2, <1>6, <1>8
    <3> QED  BY <3>1, <3>2
  <2>2. linked.ev[i].kind = g.ev[i].kind /\ linked.ev[i].owner = g.ev[i].owner /\ linked.ev[i].dom = g.ev[i].dom
    BY <1>9, <2>1 DEF SameShape
  <2> QED  BY <1>11, <2>2 DEF SameShape
<1>13. n.ev[id].kind = "cross"
  BY <1>5, <1>10, <1>11 DEF SameShape
<1>14. n.path = g.path /\ n.prev = g.prev /\ (n.ok => g.ok)
  BY <1>8, <1>9, <1>11 DEF SameShape
<1>15. Keeps(n, g)
  BY <1>5, <1>12, <1>14 DEF Keeps
<1>16. Cardinality(Free(c, n.ev)) = Cardinality(Free(c, g.ev)) - 1
  <2>1. \A j \in 1 .. MaxEvents : n.ev[<<c, j>>].kind = made.ev[<<c, j>>].kind
    <3> TAKE j \in 1 .. MaxEvents
    <3>1. <<c, j>> \in Ids
      BY DEF Ids
    <3>2. made.ev[<<c, j>>].kind = IF <<c, j>> = id THEN "cross" ELSE g.ev[<<c, j>>].kind
      BY <1>3, <1>5, <1>6, <3>1
    <3> QED  BY <1>12, <1>13, <3>1, <3>2
  <2>2. Free(c, n.ev) = Free(c, made.ev)
    BY <2>1 DEF Free
  <2> QED  BY <2>2, <1>5
<1>17. ASSUME hyp
       PROVE  GraphOK(n, {}) /\ XingsKept(n, g, p)
  <2>0. linked.ok /\ GraphOK(g, {k}) /\ parent.xing = NoId /\ g.ev[k].dom # parent.dom
    BY <1>17, <1>11 DEF SameShape
  <2>1. GraphOK(made, {k} \cup {id})
    BY <1>2, <1>3, <1>5, <2>0, CreateOK DEF New
  <2>2. p[1] = c
    BY <2>0 DEF GraphOK, Struct, EventsOK
  <2>3. GraphOK(mid, {k} \cup {id})
    <3>1. made.ev[p] = parent
      BY <1>6, <1>7
    <3>2. /\ made.ev[id].kind = "cross" /\ ~made.ev[id].called /\ made.ev[id].parentEv = p
          /\ made.ev[id].src = parent.dom /\ made.ev[id].dom = g.ev[k].dom
      BY <1>3, <1>6 DEF New, Unlinked
    <3>3. g.path \in Seq(MaybeId)
      BY DEF Graphs
    <3>4. mid = Crossed(made, g.path, p[1], p, id)
      BY <1>18, <2>2
    <3>5. /\ made.ev[p].kind \notin {"none", "cross"} /\ made.ev[p].xing = NoId
          /\ made.ev[id].src = made.ev[p].dom /\ made.ev[id].dom # made.ev[p].dom
      BY <2>0, <3>1, <3>2
    <3> DEFINE N == {k} \cup {id}
    <3>6. GraphOK(made, N) /\ made \in Graphs /\ id \in Ids
      BY <1>5, <2>1
    <3>7. made.ev[id].kind = "cross" /\ ~made.ev[id].called /\ made.ev[id].parentEv = p
      BY <3>2
    <3> HIDE DEF N
    <3>8. GraphOK(mid, N)
      BY <3>3, <3>4, <3>5, <3>6, <3>7, CrossedOK, SMTT(60)
    <3> QED  BY <3>8 DEF N
  <2>4. mid.ev[k].dom = mid.ev[id].dom
    BY <1>3, <1>5, <1>6, <1>7, <1>8 DEF New, Unlinked
  <2>5. GraphOK(linked, ({k} \cup {id}) \ {k})
    BY <1>9, <2>0, <2>3, <2>4
  <2>6. ({k} \cup {id}) \ {k} = {id}
    BY <1>7
  <2>7. linked.ev[p].kind \notin {"none", "cross"} /\ linked.ev[p].dom = parent.dom
    <3>1. mid.ev[p].kind = parent.kind /\ mid.ev[p].dom = parent.dom
      BY <1>1, <1>8 DEF WithXing, EventRec
    <3> QED  BY <3>1, <1>9 DEF SameShape
  <2>8. Fresh(linked, id)
    <3> SUFFICES ASSUME NEW b \in Core, NEW s \in Domain, NEW d \in Domain
                 PROVE  linked.last[b][s][d].ev = id => linked.last[b][s][d].cycle <= sim.lastLimit
      BY DEF Fresh
    <3>1. linked.last = g.last
      BY <1>8, <1>9
    <3>2. g.last[b][s][d].cycle \in Nat /\ sim.lastLimit \in Nat
      <4>1. g.last[b][s][d] \in [cycle : Nat, ev : MaybeId]
        BY DEF Graphs, Crossings
      <4> QED  BY <4>1 DEF BoundOK
    <3>3. g.last[b][s][d].cycle > sim.lastLimit => g.ev[g.last[b][s][d].ev].kind = "cross"
      <4>1. LastOK(g.ev, g.last, sim.lastLimit)
        BY <2>0 DEF GraphOK
      <4> QED  BY <4>1, Zenon DEF LastOK
    <3> QED  BY <3>1, <3>2, <3>3, <1>5
  <2>9. GraphOK(n, {}) /\ \A i \in Ids : Alike(n.ev[i], linked.ev[i])
    BY <1>11, <1>17, <2>5, <2>6, <2>7, <2>8
  <2>10. XingsKept(n, g, p)
    <3> SUFFICES ASSUME NEW i \in Ids, g.ev[i].kind # "none", i # p
                 PROVE  n.ev[i].xing = g.ev[i].xing
      BY DEF XingsKept
    <3>1. mid.ev[i] = g.ev[i]
      BY <1>5, <1>6, <1>8
    <3> QED  BY <3>1, <1>9, <2>9 DEF Alike
  <2> QED  BY <2>9, <2>10
<1>19. OneMore(n, g, c)
  BY <1>5, <1>12 DEF OneMore
<1> QED  BY <1>11, <1>14, <1>15, <1>16, <1>17, <1>19

\* Where a path ends, and whether its graph is in order
Ends(g, c, d) ==
  LET p == Last(g.path) IN
  /\ g.path # <<>> /\ p \in Ids
  /\ g.ev[p].owner = c /\ g.ev[p].kind \notin {"none", "cross"} /\ g.ev[p].dom = d
Sound(g) == g.ok => GraphOK(g, {})
Bare(g) == g.ok => g.ev[Last(g.path)].xing = NoId
Room(g, c) == Cardinality(Free(c, g.ev))

\* What building leaves alone: events of core c are added.
Extends(n, g, c) == Keeps(n, g) /\ \A b \in Core : b # c => Free(b, n.ev) = Free(b, g.ev)

\* Building on what was built
LEMMA ExtendsOn ==
  ASSUME NEW g, NEW h, NEW n, NEW c, Extends(h, g, c), Extends(n, h, c)
  PROVE  Extends(n, g, c)
<1>1. \A b \in Core : b # c => Free(b, n.ev) = Free(b, g.ev)
  BY DEF Extends
<1>2. Keeps(n, g)
  BY DEF Extends, Keeps
<1> QED  BY <1>1, <1>2 DEF Extends

\* The free numbers of other cores are theirs.
LEMMA OthersFree ==
  ASSUME NEW E, NEW F, NEW c \in Core, \A i \in Ids : i[1] # c => F[i].kind = E[i].kind
  PROVE  \A b \in Core : b # c => Free(b, F) = Free(b, E)
<1> TAKE b \in Core
<1> HAVE b # c
<1>1. \A n \in 1 .. MaxEvents : F[<<b, n>>].kind = E[<<b, n>>].kind
  <2> TAKE n \in 1 .. MaxEvents
  <2>1. <<b, n>> \in Ids /\ <<b, n>>[1] = b
    BY DEF Ids
  <2> QED  BY <2>1
<1> QED  BY <1>1 DEF Free

\* The next event of a path follows the one before it.
LEMMA FollowOK ==
  ASSUME BoundOK, NEW c \in Core, NEW d \in Domain, NEW b \in Domain, NEW g \in Graphs,
         Ends(g, c, b), Sound(g), b = d \/ Bare(g),
         Room(g, c) >= 2 \/ (b = d /\ Room(g, c) >= 1),
         NEW e, New(e, c, d), e.kind # "cross",
         NEW n, n = Follow(g, e)
  PROVE  /\ n \in Graphs /\ Ends(n, c, d) /\ Sound(n) /\ Bare(n) /\ Extends(n, g, c)
         /\ n.ev[Last(n.path)].kind = e.kind
         /\ Room(n, c) \in Nat
         /\ Room(n, c) = Room(g, c) - (IF b = d THEN 1 ELSE 2)
<1> DEFINE made == Create(g, e)
           p == Last(g.path)
           k == Last(made.path)
<1>0. /\ e \in EventRec /\ e.owner = c /\ e.kind # "none" /\ e.dom = d /\ e.xing = NoId
      /\ p \in Ids /\ g.ev[p].owner = c /\ g.ev[p].kind \notin {"none", "cross"}
      /\ g.ev[p].dom = b
      /\ g.ev \in [Ids -> EventRec]
  BY DEF New, Unlinked, Ends, Graphs
<1>1. Room(g, c) \in Nat /\ Room(g, c) >= 1
  <2>1. Room(g, c) \in Nat
    BY <1>0, FreeIs DEF Room
  <2> QED  BY <2>1
<1>2. /\ made \in Graphs /\ k \in Ids /\ k[1] = c /\ g.ev[k].kind = "none"
      /\ made.ev = WithEvent(g.ev, k, e) /\ made.live = Plus(g.live, c, 1)
      /\ made.path = Append(g.path, k) /\ made.path # <<>>
      /\ made.pq = g.pq /\ made.last = g.last /\ made.stack = g.stack /\ made.prev = g.prev
      /\ made.ok = g.ok
      /\ Room(made, c) = Room(g, c) - 1
  BY <1>0, <1>1, CreateIs DEF Room
<1>3. n = IF g.ev[p].dom = d THEN AddChild(made, p, k) ELSE Cross(made, p, k)
  BY <1>0 DEF Follow
<1> HIDE DEF made
<1>4. made.ev[k] = e /\ \A i \in Ids : i # k => made.ev[i] = g.ev[i]
  BY <1>0, <1>2, WithEventIs
<1>5. p # k /\ made.ev[p] = g.ev[p]
  BY <1>0, <1>2, <1>4
<1>6. made.ok /\ GraphOK(g, {}) => GraphOK(made, {k})
  <2>1. GraphOK(g, {}) => GraphOK(made, {} \cup {k})
    BY <1>2, CreateOK DEF New
  <2>2. {} \cup {k} = {k}
    OBVIOUS
  <2> QED  BY <2>1, <2>2
<1>7. /\ n \in Graphs /\ n.path = made.path /\ Keeps(n, made)
      /\ \A i \in Ids : i[1] # c => n.ev[i].kind = made.ev[i].kind
      /\ Room(n, c) = Room(g, c) - (IF b = d THEN 1 ELSE 2)
      /\ n.ok /\ GraphOK(g, {}) /\ (b = d \/ g.ev[p].xing = NoId)
         => GraphOK(n, {}) /\ n.ev[k].xing = e.xing
  <2>1. CASE b = d
    <3>1. n = AddChild(made, p, k) /\ p \in MaybeId
      BY <1>0, <1>3, <2>1 DEF MaybeId
    <3>2. /\ n \in Graphs /\ SameShape(n, made)
          /\ \A i \in Ids : Alike(n.ev[i], made.ev[i])
          /\ n.ok => \A N : k \in N /\ GraphOK(made, N) => GraphOK(n, N \ {k})
      BY <1>0, <1>2, <1>4, <1>5, <2>1, <3>1, ChildOK
    <3>3. n.ok /\ GraphOK(g, {}) => GraphOK(n, {})
      <4>1. n.ok /\ GraphOK(made, {k}) => GraphOK(n, {k} \ {k})
        BY <3>2
      <4>2. {k} \ {k} = {}
        OBVIOUS
      <4> QED  BY <1>6, <3>2, <4>1, <4>2 DEF SameShape
    <3>4. Free(c, n.ev) = Free(c, made.ev)
      <4>1. \A j \in 1 .. MaxEvents : n.ev[<<c, j>>].kind = made.ev[<<c, j>>].kind
        <5> TAKE j \in 1 .. MaxEvents
        <5>1. <<c, j>> \in Ids
          BY DEF Ids
        <5> QED  BY <3>2, <5>1 DEF SameShape
      <4> QED  BY <4>1 DEF Free
    <3>5. n.path = made.path /\ Keeps(n, made)
      BY <3>2 DEF SameShape, Keeps
    <3>6. \A i \in Ids : n.ev[i].kind = made.ev[i].kind
      BY <3>2 DEF SameShape
    <3>7. n.ev[k].xing = e.xing
      BY <1>2, <1>4, <3>2 DEF Alike
    <3> QED  BY <1>2, <2>1, <3>2, <3>3, <3>4, <3>5, <3>6, <3>7 DEF Room
  <2>2. CASE b # d
    <3>1. n = Cross(made, p, k)
      BY <1>0, <1>3, <2>2
    <3>2. Cardinality(Free(c, made.ev)) >= 1
      BY <1>1, <1>2, <2>2 DEF Room
    <3>3. /\ n \in Graphs /\ n.path = made.path /\ Keeps(n, made)
          /\ OneMore(n, made, c)
          /\ Cardinality(Free(c, n.ev)) = Cardinality(Free(c, made.ev)) - 1
          /\ n.ok /\ GraphOK(made, {k}) /\ made.ev[p].xing = NoId /\ made.ev[k].dom # made.ev[p].dom
             => GraphOK(n, {}) /\ XingsKept(n, made, p)
      <4>1. /\ made.ev[p].owner = c /\ made.ev[p].kind \notin {"none", "cross"}
            /\ made.ev[k].kind # "none"
        BY <1>0, <1>4, <1>5
      <4>2. made \in Graphs /\ p \in Ids /\ k \in Ids /\ p # k
        BY <1>0, <1>2, <1>5
      <4> HIDE DEF p, k
      <4> QED  BY <3>1, <3>2, <4>1, <4>2, CrossOK
    <3>4. n.ok /\ GraphOK(g, {}) /\ g.ev[p].xing = NoId => GraphOK(n, {}) /\ n.ev[k].xing = e.xing
      <4>1. /\ made.ev[p].xing = g.ev[p].xing /\ made.ev[k].dom # made.ev[p].dom
            /\ made.ev[k].kind # "none" /\ made.ev[k].xing = e.xing
        BY <1>0, <1>4, <1>5, <2>2
      <4>2. n.ok => made.ok
        BY <3>3 DEF Keeps
      <4> QED  BY <1>2, <1>5, <1>6, <3>3, <4>1, <4>2 DEF XingsKept
    <3>5. \A i \in Ids : i[1] # c => n.ev[i].kind = made.ev[i].kind
      BY <3>3 DEF OneMore
    <3>6. Room(n, c) = Room(g, c) - 2
      BY <1>1, <1>2, <3>3 DEF Room
    <3> QED  BY <2>2, <3>3, <3>4, <3>5, <3>6
  <2> QED  BY <2>1, <2>2
<1>8. Last(n.path) = k /\ n.path # <<>>
  <2>1. n.path = made.path
    BY <1>7
  <2> QED  BY <1>2, <2>1
<1>9. n.ev[k].kind = e.kind /\ n.ev[k].owner = c /\ n.ev[k].dom = d
  BY <1>0, <1>2, <1>4, <1>7 DEF Keeps
<1>10. Ends(n, c, d)
  <2>1. e.kind \notin {"none", "cross"}
    BY <1>0
  <2> QED  BY <1>2, <1>8, <1>9, <2>1 DEF Ends
<1>11. Keeps(n, g)
  <2>1. \A i \in Ids : g.ev[i].kind # "none" => made.ev[i] = g.ev[i]
    BY <1>2, <1>4
  <2>2. n.prev = g.prev /\ (n.ok => g.ok)
    BY <1>2, <1>7 DEF Keeps
  <2> QED  BY <1>7, <2>1, <2>2 DEF Keeps
<1>12. Extends(n, g, c)
  <2>1. \A i \in Ids : i[1] # c => n.ev[i].kind = g.ev[i].kind
    BY <1>2, <1>4, <1>7
  <2> QED  BY <1>11, <2>1, OthersFree DEF Extends
<1>13. n.ok => g.ok
  BY <1>11 DEF Keeps
<1>14. Sound(n) /\ Bare(n)
  BY <1>0, <1>7, <1>8, <1>13 DEF Sound, Bare
<1>15. Room(n, c) \in Nat
  <2>1. n.ev \in [Ids -> EventRec]
    BY <1>7 DEF Graphs
  <2> QED  BY <2>1, FreeIs DEF Room
<1> QED  BY <1>7, <1>8, <1>9, <1>10, <1>12, <1>14, <1>15

\* A core event follows in the same domain.
LEMMA FollowCoreOK ==
  ASSUME BoundOK, NEW c \in Core, NEW d \in Domain, NEW g \in Graphs,
         Ends(g, c, d), Sound(g), Room(g, c) >= 1,
         NEW delay \in Nat, NEW cycle \in Nat,
         NEW n, n = FollowCore(g, c, delay, cycle)
  PROVE  /\ n \in Graphs /\ Ends(n, c, d) /\ Sound(n) /\ Bare(n) /\ Extends(n, g, c)
         /\ n.ev[Last(n.path)].kind = "core"
         /\ Room(n, c) \in Nat /\ Room(n, c) = Room(g, c) - 1
<1> DEFINE e == CoreEvent(c, d, delay, cycle)
<1>1. New(e, c, d) /\ e.kind = "core"
  <2>1. "core" \in Kinds \ {"none"}
    BY DEF Kinds
  <2>2. e = Event("core", c, d, delay, cycle)
    BY DEF CoreEvent
  <2> HIDE DEF e
  <2> QED  BY <2>1, <2>2, EventIs
<1>2. n = Follow(g, e)
  BY DEF FollowCore, Ends
<1> HIDE DEF e
<1>3. e.kind # "cross"
  BY <1>1
<1> QED  BY <1>1, <1>2, <1>3, FollowOK

-----------------------------------------------------------------------------
(* The invariant                                                           *)

Threads == 0 .. sim.numSimThreads - 1
CacheRec ==
  [activeMisses : Int, numMSHRs : Nat, lastAccCycle : Nat, lastFreeCycle : Int,
   pendingQueue : SUBSET Ids]
ThreadRec ==
  [pc : {"asleep", "loop", "look", "recheck", "after"}, dom : Domain, ev : MaybeId, cyc : Nat,
   next : Nat, domPq : SUBSET Domain, stalled : Seq(Domain), nextStalled : Seq(Domain),
   fromStalled : BOOLEAN]
SimRec ==
  [inCSim : BOOLEAN, limit : Nat, lastLimit : Nat, threadsDone : Nat,
   numSimThreads : Nat \ {0}, woken : SUBSET Nat, waitOpen : BOOLEAN]
SlabStates == {"ok", "early", "reused", "failed"}

TypeOK ==
  /\ ev \in [Ids -> EventRec] /\ pq \in [Domain -> Ordered] /\ curCycle \in [Domain -> Nat]
  /\ cache \in [Domain -> CacheRec] /\ rec \in [Core -> RecRec] /\ lastCrossing \in Crossings
  /\ sim \in SimRec /\ th \in [Threads -> ThreadRec] /\ sim.woken \subseteq Threads
  /\ numDomains % sim.numSimThreads = 0
  /\ live \in [Core -> Int] /\ halves \in [Core -> Int] /\ slab \in [Core -> SlabStates]

\* The events that threads run, and those that have told their children
Held == {th[t].ev : t \in Threads} \ {NoId}
ToldIds == {th[t].ev : t \in {u \in Threads : th[u].pc = "after"}} \ {NoId}

Horizon == IF sim.inCSim THEN sim.limit ELSE sim.lastLimit

\* Events that wait for an MSHR are of the cache's domain, and none is free.
PendOK == \A d \in Domain :
  /\ cache[d].activeMisses <= cache[d].numMSHRs
  /\ cache[d].pendingQueue # {} => cache[d].activeMisses = cache[d].numMSHRs
  /\ \A i \in cache[d].pendingQueue : ev[i].dom = d

\* A thread runs an event of its own; if it has told its children, the event
\* waits for its crossing to be called, and otherwise it is a crossing.
ThreadEventOK(t) ==
  LET l == th[t]  e == ev[th[t].ev] IN
  /\ \A u \in Threads : th[u].ev = l.ev => u = t
  /\ e.dom = l.dom /\ l.pc \in {"look", "recheck", "after"}
  /\ l.pc = "after" => e.xing # NoId
  /\ l.pc # "after" => e.kind = "cross" /\ e.minStart <= l.cyc /\ e.minStart <= sim.limit
HeldOK == \A t \in Threads :
  /\ th[t].ev # NoId => ThreadEventOK(t)
  /\ th[t].pc \in {"look", "recheck"} => th[t].ev # NoId
  /\ th[t].pc = "recheck" => th[t].next >= th[t].cyc

\* The last event of a core's path is not freed.
PrevOK(c) ==
  LET r == rec[c]  i == rec[c].prevRespEvent IN
  i # NoId => /\ i[1] = c /\ ev[i].kind \notin {"none", "cross"} /\ i \notin ToldIds
              /\ sim.inCSim \/ r.state = "DRAINING" => ev[i].kind = "core"
RecOK == \A c \in Core :
  /\ rec[c].prevRespCycle <= rec[c].curCycle
  /\ PrevOK(c)
  /\ rec[c].state = "HALTED" => rec[c].prevRespEvent = NoId
  /\ rec[c].state = "RUNNING" => rec[c].prevRespEvent # NoId
  /\ rec[c].state = "DRAINING" /\ ~sim.inCSim => rec[c].prevRespEvent # NoId

\* A domain is done with the phase up to h, or a thread will work on it.
Over(d, h) == curCycle[d] = h /\ \A p \in Entries(pq[d]) : p[1] >= h
Members(s) == {s[n] : n \in DOMAIN s}
WorkOf(t, l) ==
  l.domPq \cup Members(l.stalled) \cup Members(l.nextStalled)
  \cup (IF l.pc # "loop" THEN {l.dom} ELSE {}) \cup (IF Alone(t) THEN {t} ELSE {})
Works(t) ==
  IF th[t].pc = "asleep" THEN IF t \in sim.woken THEN DomainsOf(t) ELSE {} ELSE WorkOf(t, th[t])
Slept == {t \in Threads : th[t].pc = "asleep" /\ t \notin sim.woken}

NoneStalled(l) == l.pc = "loop" \/ ~l.fromStalled => (l.stalled = <<>> => l.nextStalled = <<>>)
\* A thread with one domain keeps to it.
Tidy(t, l) == Alone(t) => /\ l.domPq = {} /\ l.stalled = <<>> /\ l.nextStalled = <<>>
                          /\ l.pc \notin {"asleep", "loop"} => l.dom = t
LocalOK(t) ==
  /\ th[t].pc = "asleep" => th[t] = Asleep
  /\ th[t].pc # "asleep" => t \notin sim.woken /\ sim.inCSim
  /\ th[t].pc = "loop" => th[t].ev = NoId
  /\ NoneStalled(th[t]) /\ Tidy(t, th[t])
CountOK ==
  /\ ~sim.inCSim => sim.woken = {} /\ sim.threadsDone = 0
  /\ sim.waitOpen => sim.inCSim /\ Slept = Threads /\ sim.threadsDone = 0
  /\ sim.inCSim /\ ~sim.waitOpen => sim.threadsDone = Cardinality(Slept)
DomainsOK ==
  /\ ~sim.inCSim => \A d \in Domain : Over(d, sim.lastLimit)
  /\ sim.inCSim => \A d \in Domain : Over(d, sim.limit) \/ \E t \in Threads : d \in Works(t)

\* A slab is as it should be as long as no source half on it was called.
SlabsOK == \A c \in Core : halves[c] >= 0 /\ (halves[c] = 0 => slab[c] = "ok")

Good ==
  /\ TypeOK
  /\ Struct(ev, pq, Pending, Held, ToldIds, {})
  /\ Counted(ev, live, halves)
  /\ LastOK(ev, lastCrossing, Horizon)
  /\ PendOK /\ HeldOK /\ RecOK
  /\ \A t \in Threads : LocalOK(t)
  /\ CountOK /\ DomainsOK /\ SlabsOK

\* The queues are in order whatever happens; a failed assertion ends the program.
Inv == pq \in [Domain -> Ordered] /\ (~fault => Good)

\* In the bound phase no thread has an event,
LEMMA BoundIs ==
  ASSUME Good, ~sim.inCSim
  PROVE  /\ BoundOK /\ Held = {} /\ ToldIds = {} /\ Horizon = sim.lastLimit
         /\ \A t \in Threads : th[t] = Asleep
<1>1. \A t \in Threads : th[t] = Asleep
  BY DEF Good, LocalOK
<1>2. Held = {} /\ ToldIds = {}
  BY <1>1 DEF Held, ToldIds, Asleep
<1>3. BoundOK
  BY DEF Good, TypeOK, SimRec, DomainsOK, Over, BoundOK
<1> QED  BY <1>1, <1>2, <1>3 DEF Horizon

\* and its graph is in order.
LEMMA GraphIs ==
  ASSUME Good, ~sim.inCSim, NEW c \in Core
  PROVE  LET g == Graph(c) IN
         /\ g \in Graphs /\ GraphOK(g, {}) /\ g.ev = ev /\ g.ok = TRUE
         /\ g.path = <<rec[c].prevRespEvent>> /\ g.path # <<>>
         /\ Last(g.path) = rec[c].prevRespEvent
         /\ g.prev = [b \in Core |-> rec[b].prevRespEvent]
<1> DEFINE g == Graph(c)
<1>1. TypeOK /\ BoundOK /\ Held = {} /\ ToldIds = {} /\ Horizon = sim.lastLimit
  BY BoundIs DEF Good
<1>2. /\ g.ev = ev /\ g.pq = pq /\ g.live = live /\ g.last = lastCrossing /\ g.stack = <<>>
      /\ g.ok = TRUE /\ g.path = <<rec[c].prevRespEvent>>
      /\ g.prev = [b \in Core |-> rec[b].prevRespEvent]
  BY DEF Graph
<1>3. \A b \in Core : rec[b].prevRespEvent \in MaybeId
  BY <1>1 DEF TypeOK, RecRec
<1>4. g.prev \in [Core -> MaybeId]
  BY <1>2, <1>3
<1>5. g.path \in Seq(MaybeId)
  BY <1>2, <1>3
<1>6. g.path # <<>> /\ Last(g.path) = rec[c].prevRespEvent
  BY <1>2 DEF Last
<1>7. g \in Graphs
  <2>1. g = [ev |-> ev, pq |-> pq, live |-> live, last |-> lastCrossing, stack |-> <<>>,
             path |-> g.path, prev |-> g.prev, ok |-> TRUE]
    BY <1>2 DEF Graph
  <2>2. <<>> \in Seq(Ids)
    OBVIOUS
  <2>3. /\ ev \in [Ids -> EventRec] /\ pq \in [Domain -> Ordered] /\ live \in [Core -> Int]
        /\ lastCrossing \in Crossings
    BY <1>1 DEF TypeOK
  <2> HIDE DEF g
  <2> DEFINE path == g.path
             prev == g.prev
  <2>4. path \in Seq(MaybeId) /\ prev \in [Core -> MaybeId]
    BY <1>4, <1>5
  <2>5. g = [ev |-> ev, pq |-> pq, live |-> live, last |-> lastCrossing, stack |-> <<>>,
             path |-> path, prev |-> prev, ok |-> TRUE]
    BY <2>1
  <2> HIDE DEF path, prev
  <2> QED  BY <2>2, <2>3, <2>4, <2>5 DEF Graphs
<1>8. StackOK(g.ev, g.stack)
  BY <1>2 DEF StackOK
<1>9. EntriesFrom(g.pq, sim.lastLimit)
  BY <1>2 DEF EntriesFrom, Good, DomainsOK, Over
<1>10. GraphOK(g, {})
  <2>1. /\ Struct(ev, pq, Pending, {}, {}, {}) /\ Counted(ev, live, halves)
        /\ LastOK(ev, lastCrossing, sim.lastLimit)
    BY <1>1 DEF Good
  <2> HIDE DEF g
  <2> QED  BY <1>2, <1>8, <1>9, <2>1 DEF GraphOK
<1> QED  BY <1>2, <1>6, <1>7, <1>10

\* What is built does not change the slabs that are as they should be.
LEMMA SlabsBuilt ==
  ASSUME Good, NEW g, Built(g), halves' = halves
  PROVE  slab' \in [Core -> SlabStates] /\ SlabsOK'
<1>1. slab \in [Core -> SlabStates] /\ slab' = [c \in Core |-> HandedOut(c, g)]
  BY DEF Good, TypeOK, Built
<1>2. ASSUME NEW c \in Core
      PROVE  HandedOut(c, g) \in SlabStates /\ (slab[c] = "ok" => HandedOut(c, g) = "ok")
  BY <1>1 DEF HandedOut, SlabStates
<1>3. slab' \in [Core -> SlabStates]
  BY <1>1, <1>2
<1>4. SlabsOK'
  BY <1>1, <1>2 DEF Good, SlabsOK
<1> QED  BY <1>3, <1>4

\* The state is in order when the graph that was built is.
LEMMA BuiltOK ==
  ASSUME Good, ~sim.inCSim, NEW n \in Graphs, Sound(n), Built(n),
         UNCHANGED <<curCycle, cache, sim, th, halves>>, rec' \in [Core -> RecRec],
         ~fault' => RecOK',
         NEW g \in Graphs, g.ev = ev, Keeps(n, g)
  PROVE  Inv'
<1>1. TypeOK /\ BoundOK /\ Held = {} /\ ToldIds = {} /\ Horizon = sim.lastLimit
  BY BoundIs DEF Good
<1>2. /\ ev' = n.ev /\ pq' = n.pq /\ live' = n.live /\ lastCrossing' = n.last /\ fault' = ~n.ok
      /\ halves' = halves /\ cache' = cache /\ sim' = sim /\ th' = th /\ curCycle' = curCycle
  BY DEF Built
<1>3. /\ ev' \in [Ids -> EventRec] /\ pq' \in [Domain -> Ordered] /\ live' \in [Core -> Int]
      /\ lastCrossing' \in Crossings
  BY <1>2 DEF Graphs
<1>4. ASSUME ~fault' PROVE Good'
  <2>1. GraphOK(n, {})
    BY <1>2, <1>4 DEF Sound, Graphs
  <2>2. TypeOK'
    BY <1>1, <1>2, <1>3, SlabsBuilt DEF TypeOK, Threads
  <2>3. Held' = {} /\ ToldIds' = {} /\ Pending' = Pending /\ Horizon' = sim.lastLimit
    BY <1>1, <1>2 DEF Held, ToldIds, Threads, Pending, Horizon
  <2>4. Struct(ev', pq', Pending', Held', ToldIds', {})
    BY <1>2, <2>1, <2>3 DEF GraphOK
  <2>5. Counted(ev', live', halves')
    BY <1>2, <2>1 DEF GraphOK
  <2>6. LastOK(ev', lastCrossing', Horizon')
    BY <1>2, <2>1, <2>3 DEF GraphOK
  <2>7. PendOK'
    <3> SUFFICES ASSUME NEW d \in Domain, NEW i \in cache[d].pendingQueue
                 PROVE  ev'[i].dom = d
      BY <1>2 DEF PendOK, Good
    <3>1. i \in Pending /\ i \in Ids
      BY <1>1 DEF Pending, TypeOK, CacheRec
    <3>2. ev[i].kind \in {"hit", "missStart"} /\ ev[i].dom = d
      BY <3>1 DEF Good, Struct, PlacesOK, PendOK
    <3> QED  BY <1>2, <3>1, <3>2 DEF Keeps
  <2>8. HeldOK'
    <3>1. \A t \in Threads : th[t].ev = NoId /\ th[t].pc = "asleep"
      BY BoundIs DEF Asleep
    <3> QED  BY <1>2, <3>1 DEF HeldOK, Threads
  <2>9. \A t \in Threads' : LocalOK(t)'
    BY <1>2 DEF Good, LocalOK, NoneStalled, Tidy, Alone, Threads, Asleep
  <2>10. CountOK'
    BY <1>2 DEF Good, CountOK, Slept, Threads
  <2>11. DomainsOK'
    <3>1. \A d \in Domain : Over(d, sim.lastLimit)'
      BY <1>1, <1>2, <2>1 DEF Over, BoundOK, GraphOK, EntriesFrom
    <3> QED  BY <1>2, <3>1 DEF DomainsOK
  <2>12. SlabsOK'
    BY <1>2, SlabsBuilt
  <2> QED  BY <1>4, <2>2, <2>4, <2>5, <2>6, <2>7, <2>8, <2>9, <2>10, <2>11, <2>12 DEF Good
<1> QED  BY <1>3, <1>4 DEF Inv

-----------------------------------------------------------------------------
(* The actions of the bound phase                                          *)

\* A change of the recorder of one core
WithRec(c, r) == [rec EXCEPT ![c] = r]

\* What holds of the recorders when core c made a path that ends with event i
LEMMA RecKept ==
  ASSUME Good, ~sim.inCSim, NEW g, g.ev = ev, NEW n, Keeps(n, g), ev' = n.ev,
         NEW c \in Core, NEW r \in RecRec, rec' = WithRec(c, r), sim' = sim, th' = th,
         r.prevRespCycle <= r.curCycle, r.prevRespEvent \in Ids, r.prevRespEvent[1] = c,
         n.ev[r.prevRespEvent].kind \notin {"none", "cross"},
         r.state = "DRAINING" => n.ev[r.prevRespEvent].kind = "core",
         r.state # "HALTED"
  PROVE  RecOK' /\ rec' \in [Core -> RecRec]
<1>1. rec \in [Core -> RecRec] /\ RecOK
  BY DEF Good, TypeOK
<1>2. rec'[c] = r /\ \A b \in Core : b # c => rec'[b] = rec[b]
  BY <1>1 DEF WithRec
<1>3. rec' \in [Core -> RecRec]
  BY <1>1 DEF WithRec
<1>4. ToldIds' = {} /\ ToldIds = {}
  BY BoundIs DEF ToldIds, Threads, Asleep
<1>5. \A b \in Core : PrevOK(b)'
  <2> TAKE b \in Core
  <2>1. CASE b = c
    BY <2>1, <1>2, <1>4 DEF PrevOK
  <2>2. CASE b # c
    <3>1. rec'[b] = rec[b] /\ PrevOK(b) /\ rec[b].prevRespEvent \in MaybeId
      BY <1>1, <1>2, <2>2 DEF RecOK, RecRec
    <3>2. rec[b].prevRespEvent # NoId => rec[b].prevRespEvent \in Ids
      BY <3>1 DEF MaybeId
    <3>3. rec[b].prevRespEvent # NoId =>
            ev'[rec[b].prevRespEvent].kind = ev[rec[b].prevRespEvent].kind
      BY <3>1, <3>2 DEF PrevOK, Keeps
    <3> QED  BY <3>1, <3>3, <1>4 DEF PrevOK
  <2> QED  BY <2>1, <2>2
<1>6. RecOK'
  <2> SUFFICES ASSUME NEW b \in Core
               PROVE  /\ rec'[b].prevRespCycle <= rec'[b].curCycle
                      /\ rec'[b].state = "HALTED" => rec'[b].prevRespEvent = NoId
                      /\ rec'[b].state = "RUNNING" => rec'[b].prevRespEvent # NoId
                      /\ rec'[b].state = "DRAINING" /\ ~sim'.inCSim => rec'[b].prevRespEvent # NoId
    BY <1>5 DEF RecOK
  <2>1. CASE b = c
    BY <2>1, <1>2, NoIdIs
  <2>2. CASE b # c
    BY <2>2, <1>1, <1>2 DEF RecOK
  <2> QED  BY <2>1, <2>2
<1> QED  BY <1>3, <1>6

\* A core that is running or draining has a path to follow.
LEMMA PathIs ==
  ASSUME Good, ~sim.inCSim, NEW c \in Core, rec[c].prevRespEvent # NoId,
         NEW g \in Graphs, g.path # <<>>, Last(g.path) = rec[c].prevRespEvent,
         NEW f, f.ev = ev, Keeps(g, f)
  PROVE  /\ rec[c].prevRespEvent \in Ids /\ ev[rec[c].prevRespEvent].dom \in Domain
         /\ Ends(g, c, ev[rec[c].prevRespEvent].dom)
<1> DEFINE i == rec[c].prevRespEvent
<1>1. i \in Ids /\ i[1] = c /\ ev[i].kind \notin {"none", "cross"}
  BY DEF Good, RecOK, PrevOK, TypeOK, RecRec, MaybeId
<1>2. ev[i].dom \in Domain /\ ev[i].owner = c
  BY <1>1 DEF Good, TypeOK, EventRec, Struct, EventsOK
<1>3. g.ev[i].kind = ev[i].kind /\ g.ev[i].dom = ev[i].dom /\ g.ev[i].owner = c
  BY <1>1, <1>2 DEF Keeps
<1> QED  BY <1>1, <1>2, <1>3 DEF Ends

\* The end of a path is an event of its core.
LEMMA EndIs ==
  ASSUME NEW c \in Core, NEW d, NEW n \in Graphs, Ends(n, c, d), GraphOK(n, {})
  PROVE  /\ Last(n.path) \in Ids /\ Last(n.path)[1] = c
         /\ n.ev[Last(n.path)].kind \notin {"none", "cross"}
BY DEF Ends, GraphOK, Struct, EventsOK

\* notifyLeave
LEMMA LeaveInv ==
  ASSUME Inv, NEW c \in Core, Leave(c)
  PROVE  Inv'
<1> DEFINE r == rec[c]
           f == Graph(c)
           g == FollowCore(f, c, r.curCycle - r.prevRespCycle, r.prevRespCycle)
           h == FollowCore(g, c, 0, r.curCycle)
           d == ev[r.prevRespEvent].dom
           s == [r EXCEPT !.state = "DRAINING", !.prevRespEvent = Last(h.path),
                          !.prevRespCycle = r.curCycle, !.leaves = @ + 1]
<1>1. Good /\ ~sim.inCSim /\ BoundOK /\ r.state = "RUNNING" /\ Room(f, c) >= 6
  <2>1. Good /\ ~sim.inCSim /\ r.state = "RUNNING" /\ Cardinality(Free(c, ev)) >= 6
    BY DEF Leave, CanRun, InBound, Inv
  <2> QED  BY <2>1, BoundIs, GraphIs DEF Room
<1>2. /\ r \in RecRec /\ r.prevRespCycle <= r.curCycle /\ r.prevRespEvent # NoId
      /\ r.curCycle \in Nat /\ r.prevRespCycle \in Nat /\ r.curCycle - r.prevRespCycle \in Nat
  <2>1. r \in RecRec /\ r.prevRespCycle <= r.curCycle /\ r.prevRespEvent # NoId
    BY <1>1 DEF Good, TypeOK, RecOK
  <2> QED  BY <2>1 DEF RecRec
<1>3. f \in Graphs /\ Sound(f) /\ f.ev = ev /\ Ends(f, c, d) /\ d \in Domain
  <2>1. /\ f \in Graphs /\ GraphOK(f, {}) /\ f.ev = ev /\ f.path # <<>>
        /\ Last(f.path) = r.prevRespEvent
    BY <1>1, GraphIs
  <2>2. Keeps(f, f)
    BY DEF Keeps
  <2> HIDE DEF f
  <2> QED  BY <1>1, <1>2, <2>1, <2>2, PathIs DEF Sound
<1>4. Built(h) /\ UNCHANGED <<curCycle, cache, sim, th, halves>> /\ rec' = WithRec(c, s)
  BY DEF Leave, WithRec
<1> HIDE DEF f, d
<1>5. /\ g \in Graphs /\ Ends(g, c, d) /\ Sound(g) /\ Extends(g, f, c)
      /\ Room(g, c) \in Nat /\ Room(g, c) = Room(f, c) - 1
  <2>1. Room(f, c) >= 1
    <3>1. Room(f, c) \in Nat
      BY <1>3, FreeIs DEF Room, Graphs
    <3> QED  BY <1>1, <3>1
  <2> HIDE DEF r
  <2> QED  BY <1>1, <1>2, <1>3, <2>1, FollowCoreOK
<1>6. Room(g, c) >= 1
  <2>1. Room(f, c) \in Nat
    BY <1>3, FreeIs DEF Room, Graphs
  <2> QED  BY <1>1, <1>5, <2>1
<1> HIDE DEF g
<1>7. /\ h \in Graphs /\ Ends(h, c, d) /\ Sound(h) /\ Extends(h, g, c)
      /\ h.ev[Last(h.path)].kind = "core"
  <2>1. 0 \in Nat
    OBVIOUS
  <2> HIDE DEF r
  <2> QED  BY <1>1, <1>2, <1>3, <1>5, <1>6, <2>1, FollowCoreOK
<1> HIDE DEF h
<1>8. Keeps(h, f)
  BY <1>5, <1>7, ExtendsOn DEF Extends
<1>9. s \in RecRec
  <2>1. Last(h.path) \in MaybeId /\ r.leaves + 1 \in Nat
    BY <1>2, <1>7 DEF Ends, MaybeId, RecRec
  <2> QED  BY <1>2, <2>1 DEF RecRec
<1>10. /\ s.state = "DRAINING" /\ s.prevRespEvent = Last(h.path) /\ s.prevRespCycle = r.curCycle
       /\ s.curCycle = r.curCycle
  BY <1>2 DEF RecRec
<1> HIDE DEF s
<1>11. ~fault' => RecOK'
  <2> HAVE ~fault'
  <2>1. GraphOK(h, {})
    BY <1>4, <1>7 DEF Sound, Built
  <2>2. Last(h.path) \in Ids /\ Last(h.path)[1] = c
    BY <1>7, <2>1, EndIs
  <2>3. ev' = h.ev /\ sim' = sim /\ th' = th
    BY <1>4 DEF Built
  <2>4. /\ s.prevRespEvent \in Ids /\ s.prevRespEvent[1] = c
        /\ h.ev[s.prevRespEvent].kind = "core" /\ s.prevRespCycle <= s.curCycle
    BY <1>2, <1>7, <1>10, <2>2
  <2> QED  BY <1>1, <1>3, <1>4, <1>8, <1>9, <1>10, <2>3, <2>4, RecKept
<1>12. rec' \in [Core -> RecRec]
  BY <1>1, <1>4, <1>9 DEF WithRec, Good, TypeOK
<1> QED  BY <1>1, <1>3, <1>4, <1>7, <1>8, <1>11, <1>12, BuiltOK

\* A new memory access, with its delays
MemEvent(c, d, m, lat) ==
  [Event("mem", c, d, memPost, m) EXCEPT !.pre = memPre, !.lat = lat]

\* Its fields
LEMMA MemEventIs ==
  ASSUME BoundOK, NEW c \in Core, NEW d \in Domain, NEW m \in Nat, NEW lat \in Nat
  PROVE  New(MemEvent(c, d, m, lat), c, d) /\ MemEvent(c, d, m, lat).kind = "mem"
<1> DEFINE f == Event("mem", c, d, memPost, m)
           x == MemEvent(c, d, m, lat)
<1>1. memPost \in Nat /\ memPre \in Nat /\ "mem" \in Kinds \ {"none"}
  BY CSimAssumption DEF Kinds
<1>2. New(f, c, d) /\ f.kind = "mem"
  BY <1>1, EventIs
<1>3. x = [f EXCEPT !.pre = memPre, !.lat = lat]
  BY DEF MemEvent
<1> HIDE DEF f, x
<1>4. f \in EventRec
  BY <1>2 DEF New, Unlinked
<1>5. x \in EventRec
  BY <1>1, <1>3, <1>4 DEF EventRec
<1>6. /\ x.kind = f.kind /\ x.owner = f.owner /\ x.dom = f.dom /\ x.xing = f.xing
      /\ x.kids = f.kids /\ x.parents = f.parents /\ x.state = f.state /\ x.called = f.called
  BY <1>3, <1>4 DEF EventRec
<1> QED  BY <1>2, <1>5, <1>6 DEF New, Unlinked, x

\* An event of a kind follows a fresh one, wherever that is.
LEMMA FollowKind ==
  ASSUME BoundOK, NEW c \in Core, NEW b \in Domain, NEW d \in Domain, NEW g \in Graphs,
         Ends(g, c, b), Sound(g), Bare(g), Room(g, c) >= 2,
         NEW e, New(e, c, d), e.kind # "cross",
         NEW n, n = Follow(g, e)
  PROVE  /\ n \in Graphs /\ Ends(n, c, d) /\ Sound(n) /\ Bare(n) /\ Extends(n, g, c)
         /\ n.ev[Last(n.path)].kind = e.kind /\ Room(n, c) >= Room(g, c) - 2
<1>1. Room(g, c) \in Nat
  BY FreeIs DEF Room, Graphs
<1>2. (b = d \/ Bare(g)) /\ (Room(g, c) >= 2 \/ (b = d /\ Room(g, c) >= 1))
  OBVIOUS
<1>3. /\ n \in Graphs /\ Ends(n, c, d) /\ Sound(n) /\ Bare(n) /\ Extends(n, g, c)
      /\ n.ev[Last(n.path)].kind = e.kind /\ Room(n, c) = Room(g, c) - (IF b = d THEN 1 ELSE 2)
  BY <1>2, FollowOK
<1> QED  BY <1>1, <1>3

\* The path of recordAccess, up to the response
LEMMA AccessPath ==
  ASSUME Good, ~sim.inCSim, NEW c \in Core, rec[c].state = "RUNNING", Room(Graph(c), c) >= 12,
         NEW a \in Accesses[c], NEW req, req = rec[c].curCycle + a.think
  PROVE  LET r == rec[c]
             resp == req + accLat + IF a.type = "hit" THEN 0 ELSE memPre + memPost
             f == Graph(c)
             g == FollowCore(f, c, req - r.prevRespCycle, r.prevRespCycle)
             hit == Follow(g, Event("hit", c, a.bank, accLat, req))
             mse == Follow(g, Event("missStart", c, a.bank, accLat, req))
             mem == Follow(mse, MemEvent(c, a.mem, req + accLat, a.lat))
             mre == Follow(mem, Event("missResp", c, a.bank, 0, resp))
             mwe == Follow(mre, Event("missWb", c, a.bank, accLat, resp))
         IN /\ resp \in Nat
            /\ hit \in Graphs /\ Sound(hit) /\ Keeps(hit, f) /\ Ends(hit, c, a.bank)
            /\ mre \in Graphs /\ Ends(mre, c, a.bank)
            /\ mwe \in Graphs /\ Sound(mwe) /\ Keeps(mwe, f) /\ Keeps(mwe, mre)
<1> DEFINE r == rec[c]
           lat == IF a.type = "hit" THEN 0 ELSE memPre + memPost
           resp == req + accLat + lat
           f == Graph(c)
           g == FollowCore(f, c, req - r.prevRespCycle, r.prevRespCycle)
           hit == Follow(g, Event("hit", c, a.bank, accLat, req))
           mse == Follow(g, Event("missStart", c, a.bank, accLat, req))
           mem == Follow(mse, MemEvent(c, a.mem, req + accLat, a.lat))
           mre == Follow(mem, Event("missResp", c, a.bank, 0, resp))
           mwe == Follow(mre, Event("missWb", c, a.bank, accLat, resp))
           d == ev[r.prevRespEvent].dom
<1>0. BoundOK /\ Room(f, c) >= 12
  BY BoundIs
<1>1. /\ r \in RecRec /\ r.prevRespCycle <= r.curCycle /\ r.prevRespEvent # NoId
      /\ r.curCycle \in Nat /\ r.prevRespCycle \in Nat
  <2>1. r \in RecRec /\ r.prevRespCycle <= r.curCycle /\ r.prevRespEvent # NoId
    BY DEF Good, TypeOK, RecOK
  <2> QED  BY <2>1 DEF RecRec
<1>2. a.think \in Nat /\ a.bank \in Domain /\ a.mem \in Domain /\ a.lat \in Nat
  BY CSimAssumption DEF Domain
<1>3. accLat \in Nat /\ memPre \in Nat /\ memPost \in Nat /\ lat \in Nat
  BY CSimAssumption
<1>4. req \in Nat /\ req - r.prevRespCycle \in Nat /\ resp \in Nat /\ req + accLat \in Nat
  <2> HIDE DEF lat, r
  <2>1. req = r.curCycle + a.think
    BY DEF r
  <2> QED  BY <1>1, <1>2, <1>3, <2>1
<1> HIDE DEF resp, lat
<1>5. f \in Graphs /\ Sound(f) /\ f.ev = ev /\ Ends(f, c, d) /\ d \in Domain
  <2>1. /\ f \in Graphs /\ GraphOK(f, {}) /\ f.ev = ev /\ f.path # <<>>
        /\ Last(f.path) = r.prevRespEvent
    BY GraphIs
  <2>2. Keeps(f, f)
    BY DEF Keeps
  <2> HIDE DEF f
  <2> QED  BY <1>1, <2>1, <2>2, PathIs DEF Sound
<1> HIDE DEF f, d
<1>6. /\ g \in Graphs /\ Ends(g, c, d) /\ Sound(g) /\ Bare(g) /\ Extends(g, f, c)
      /\ Room(g, c) \in Nat /\ Room(g, c) >= 11
  <2>1. Room(f, c) \in Nat
    BY <1>5, FreeIs DEF Room, Graphs
  <2>2. Room(f, c) >= 1
    BY <1>0, <2>1
  <2> HIDE DEF r
  <2>3. /\ g \in Graphs /\ Ends(g, c, d) /\ Sound(g) /\ Bare(g) /\ Extends(g, f, c)
        /\ Room(g, c) \in Nat /\ Room(g, c) = Room(f, c) - 1
    BY <1>0, <1>1, <1>4, <1>5, <2>2, FollowCoreOK
  <2> QED  BY <1>0, <2>1, <2>3
<1> HIDE DEF g
<1>7. /\ hit \in Graphs /\ Ends(hit, c, a.bank) /\ Sound(hit) /\ Extends(hit, g, c)
  <2> DEFINE e == Event("hit", c, a.bank, accLat, req)
  <2>1. New(e, c, a.bank) /\ e.kind # "cross"
    <3>1. "hit" \in Kinds \ {"none"}
      BY DEF Kinds
    <3>2. New(e, c, a.bank) /\ e.kind = "hit"
      BY <1>0, <1>2, <1>3, <1>4, <3>1, EventIs
    <3> QED  BY <3>2
  <2>2. hit = Follow(g, e)
    OBVIOUS
  <2> HIDE DEF e, hit
  <2> QED  BY <1>0, <1>2, <1>5, <1>6, <2>1, <2>2, FollowKind
<1>8. /\ mse \in Graphs /\ Ends(mse, c, a.bank) /\ Sound(mse) /\ Bare(mse) /\ Extends(mse, g, c)
      /\ Room(mse, c) \in Nat /\ Room(mse, c) >= 9
  <2> DEFINE e == Event("missStart", c, a.bank, accLat, req)
  <2>1. New(e, c, a.bank) /\ e.kind # "cross"
    <3>1. "missStart" \in Kinds \ {"none"}
      BY DEF Kinds
    <3>2. New(e, c, a.bank) /\ e.kind = "missStart"
      BY <1>0, <1>2, <1>3, <1>4, <3>1, EventIs
    <3> QED  BY <3>2
  <2>2. mse = Follow(g, e)
    OBVIOUS
  <2> HIDE DEF e, mse
  <2>3. /\ mse \in Graphs /\ Ends(mse, c, a.bank) /\ Sound(mse) /\ Bare(mse) /\ Extends(mse, g, c)
        /\ Room(mse, c) >= Room(g, c) - 2
    BY <1>0, <1>2, <1>5, <1>6, <2>1, <2>2, FollowKind
  <2>4. Room(mse, c) \in Nat
    BY <2>3, FreeIs DEF Room, Graphs
  <2> QED  BY <1>6, <2>3, <2>4
<1> HIDE DEF hit, mse
<1>9. /\ mem \in Graphs /\ Ends(mem, c, a.mem) /\ Sound(mem) /\ Bare(mem) /\ Extends(mem, mse, c)
      /\ Room(mem, c) \in Nat /\ Room(mem, c) >= 7
  <2> DEFINE e == MemEvent(c, a.mem, req + accLat, a.lat)
  <2>1. New(e, c, a.mem) /\ e.kind # "cross"
    <3>1. New(e, c, a.mem) /\ e.kind = "mem"
      BY <1>0, <1>2, <1>3, <1>4, MemEventIs
    <3> QED  BY <3>1
  <2>2. mem = Follow(mse, e)
    OBVIOUS
  <2> HIDE DEF e, mem
  <2>3. /\ mem \in Graphs /\ Ends(mem, c, a.mem) /\ Sound(mem) /\ Bare(mem) /\ Extends(mem, mse, c)
        /\ Room(mem, c) >= Room(mse, c) - 2
    BY <1>0, <1>2, <1>8, <2>1, <2>2, FollowKind
  <2>4. Room(mem, c) \in Nat
    BY <2>3, FreeIs DEF Room, Graphs
  <2> QED  BY <1>8, <2>3, <2>4
<1> HIDE DEF mem
<1>10. /\ mre \in Graphs /\ Ends(mre, c, a.bank) /\ Sound(mre) /\ Bare(mre) /\ Extends(mre, mem, c)
       /\ Room(mre, c) \in Nat /\ Room(mre, c) >= 5
  <2> DEFINE e == Event("missResp", c, a.bank, 0, resp)
  <2>1. New(e, c, a.bank) /\ e.kind # "cross"
    <3>1. "missResp" \in Kinds \ {"none"} /\ 0 \in Nat
      BY DEF Kinds
    <3> DEFINE kind == "missResp"
               bank == a.bank
               post == 0
    <3>2. kind \in Kinds \ {"none"} /\ c \in Core /\ bank \in Domain /\ post \in Nat /\ resp \in Nat
      BY <1>0, <1>2, <1>4, <3>1
    <3>3. kind # "cross" /\ e = Event(kind, c, bank, post, resp)
      OBVIOUS
    <3> HIDE DEF kind, bank, post, e
    <3>4. New(e, c, bank) /\ e.kind = kind
      BY <1>0, <3>2, <3>3, EventIs
    <3> QED  BY <3>3, <3>4 DEF bank
  <2>2. mre = Follow(mem, e)
    OBVIOUS
  <2> HIDE DEF e, mre
  <2>3. /\ mre \in Graphs /\ Ends(mre, c, a.bank) /\ Sound(mre) /\ Bare(mre) /\ Extends(mre, mem, c)
        /\ Room(mre, c) >= Room(mem, c) - 2
    BY <1>0, <1>2, <1>9, <2>1, <2>2, FollowKind
  <2>4. Room(mre, c) \in Nat
    BY <2>3, FreeIs DEF Room, Graphs
  <2> QED  BY <1>9, <2>3, <2>4
<1> HIDE DEF mre
<1>11. /\ mwe \in Graphs /\ Sound(mwe) /\ Extends(mwe, mre, c)
  <2> DEFINE e == Event("missWb", c, a.bank, accLat, resp)
  <2>1. New(e, c, a.bank) /\ e.kind # "cross"
    <3>1. "missWb" \in Kinds \ {"none"}
      BY DEF Kinds
    <3>2. New(e, c, a.bank) /\ e.kind = "missWb"
      BY <1>0, <1>2, <1>3, <1>4, <3>1, EventIs
    <3> QED  BY <3>2
  <2>2. mwe = Follow(mre, e)
    OBVIOUS
  <2>4. Room(mre, c) >= 2
    BY <1>10
  <2> HIDE DEF e, mwe
  <2> QED  BY <1>0, <1>2, <1>10, <2>1, <2>2, <2>4, FollowKind
<1> HIDE DEF mwe
<1>12. Keeps(hit, f)
  BY <1>6, <1>7, ExtendsOn DEF Extends
<1>13. Keeps(mwe, f) /\ Keeps(mwe, mre)
  <2>1. Extends(mse, f, c)
    BY <1>6, <1>8, ExtendsOn
  <2>2. Extends(mem, f, c)
    BY <1>9, <2>1, ExtendsOn
  <2>3. Extends(mre, f, c)
    BY <1>10, <2>2, ExtendsOn
  <2>4. Extends(mwe, f, c)
    BY <1>11, <2>3, ExtendsOn
  <2> QED  BY <1>11, <2>4 DEF Extends
<1> QED  BY <1>4, <1>7, <1>10, <1>11, <1>12, <1>13 DEF f, g, hit, mse, mem, mre, mwe, resp, lat

\* recordAccess
LEMMA RecordInv ==
  ASSUME Inv, NEW c \in Core, NEW a \in Accesses[c], Record(c, a)
  PROVE  Inv'
<1> DEFINE r == rec[c]
           req == r.curCycle + a.think
           resp == req + accLat + IF a.type = "hit" THEN 0 ELSE memPre + memPost
           f == Graph(c)
           g == FollowCore(f, c, req - r.prevRespCycle, r.prevRespCycle)
           hit == Follow(g, Event("hit", c, a.bank, accLat, req))
           mse == Follow(g, Event("missStart", c, a.bank, accLat, req))
           mem == Follow(mse, MemEvent(c, a.mem, req + accLat, a.lat))
           mre == Follow(mem, Event("missResp", c, a.bank, 0, resp))
           mwe == Follow(mre, Event("missWb", c, a.bank, accLat, resp))
           n == IF a.type = "hit" THEN hit ELSE mwe
           i == IF a.type = "hit" THEN Last(hit.path) ELSE Last(mre.path)
           s == [r EXCEPT !.prevRespEvent = i, !.prevRespCycle = resp, !.curCycle = resp,
                          !.accesses = @ + 1]
<1>1. Good /\ ~sim.inCSim /\ r.state = "RUNNING" /\ Room(f, c) >= 12
  <2>1. Good /\ ~sim.inCSim /\ r.state = "RUNNING" /\ Cardinality(Free(c, ev)) >= 12
    BY DEF Record, CanRun, InBound, Inv
  <2> QED  BY <2>1, GraphIs DEF Room
<1>2. /\ resp \in Nat
      /\ hit \in Graphs /\ Sound(hit) /\ Keeps(hit, f) /\ Ends(hit, c, a.bank)
      /\ mre \in Graphs /\ Ends(mre, c, a.bank)
      /\ mwe \in Graphs /\ Sound(mwe) /\ Keeps(mwe, f) /\ Keeps(mwe, mre)
  BY <1>1, AccessPath
<1>3. Built(n) /\ UNCHANGED <<curCycle, cache, sim, th, halves>> /\ rec' = WithRec(c, s)
  BY DEF Record, WithRec, MemEvent
<1>4. f \in Graphs /\ f.ev = ev
  BY <1>1, GraphIs
<1> HIDE DEF f, hit, mre, mwe, resp
<1>5. n \in Graphs /\ Sound(n) /\ Keeps(n, f)
  BY <1>2
<1>6. /\ i \in Ids /\ n.ev[i].kind \notin {"none", "cross"} /\ n.ev[i].owner = c
  <2>1. CASE a.type = "hit"
    BY <1>2, <2>1 DEF Ends
  <2>2. CASE a.type # "hit"
    BY <1>2, <2>2 DEF Ends, Keeps
  <2> QED  BY <2>1, <2>2
<1> HIDE DEF n, i
<1>7. r \in RecRec
  BY <1>1 DEF Good, TypeOK
<1>8. s \in RecRec
  <2>1. i \in MaybeId /\ r.accesses + 1 \in Nat
    BY <1>6, <1>7 DEF MaybeId, RecRec
  <2> QED  BY <1>2, <1>7, <2>1 DEF RecRec
<1>9. s.state = r.state /\ s.prevRespEvent = i /\ s.prevRespCycle = resp /\ s.curCycle = resp
  BY <1>7 DEF RecRec
<1> HIDE DEF s
<1>10. ~fault' => RecOK'
  <2> HAVE ~fault'
  <2>1. GraphOK(n, {})
    BY <1>3, <1>5 DEF Sound, Built
  <2>2. i[1] = c
    BY <1>6, <2>1 DEF GraphOK, Struct, EventsOK
  <2>3. ev' = n.ev /\ sim' = sim /\ th' = th
    BY <1>3 DEF Built
  <2>4. s.prevRespCycle <= s.curCycle
    BY <1>2, <1>9
  <2>5. /\ s.prevRespEvent \in Ids /\ s.prevRespEvent[1] = c
        /\ n.ev[s.prevRespEvent].kind \notin {"none", "cross"} /\ s.state = "RUNNING"
    BY <1>1, <1>6, <1>9, <2>2
  <2> QED  BY <1>1, <1>3, <1>4, <1>5, <1>8, <2>3, <2>4, <2>5, RecKept
<1>11. rec' \in [Core -> RecRec]
  BY <1>1, <1>3, <1>8 DEF WithRec, Good, TypeOK
<1> QED  BY <1>1, <1>3, <1>4, <1>5, <1>10, <1>11, BuiltOK

\* An event in another state
WithState(e, s) == [e EXCEPT !.state = s]

\* Its fields
LEMMA WithStateIs ==
  ASSUME NEW e \in EventRec, NEW s \in States
  PROVE  /\ WithState(e, s) \in EventRec
         /\ WithState(e, s).state = s /\ WithState(e, s).kind = e.kind
         /\ WithState(e, s).owner = e.owner /\ WithState(e, s).dom = e.dom
         /\ WithState(e, s).kids = e.kids /\ WithState(e, s).parents = e.parents
         /\ WithState(e, s).xing = e.xing /\ WithState(e, s).called = e.called
         /\ WithState(e, s).parentEv = e.parentEv /\ WithState(e, s).src = e.src
         /\ WithState(e, s).minStart = e.minStart
BY DEF WithState, EventRec

\* The first event of a core: it is queued already.
Joined(g, i, ok) == [g EXCEPT !.ev[i].state = "queued", !.ok = ok]

\* Only that event changes.
LEMMA JoinedIs ==
  ASSUME NEW g \in Graphs, NEW i \in Ids, NEW ok \in BOOLEAN, NEW n, n = Joined(g, i, ok)
  PROVE  /\ n \in Graphs /\ n.ev = WithEvent(g.ev, i, WithState(g.ev[i], "queued"))
         /\ n.live = g.live /\ n.pq = g.pq /\ n.last = g.last /\ n.stack = g.stack
         /\ n.path = g.path /\ n.prev = g.prev /\ n.ok = ok
<1> DEFINE e == WithState(g.ev[i], "queued")
           E == WithEvent(g.ev, i, e)
<1>1. n = [g EXCEPT !.ev = E, !.ok = ok]
  BY DEF Joined, WithEvent, WithState
<1>2. g.ev \in [Ids -> EventRec] /\ g.ev[i] \in EventRec
  BY DEF Graphs
<1>3. e \in EventRec
  BY <1>2, WithStateIs DEF States
<1>4. E \in [Ids -> EventRec]
  BY <1>2, <1>3, WithEventIs
<1> HIDE DEF E
<1>5. n \in Graphs
  BY <1>1, <1>4 DEF Graphs
<1>6. /\ n.ev = E /\ n.ok = ok
      /\ n.live = g.live /\ n.pq = g.pq /\ n.last = g.last /\ n.stack = g.stack
      /\ n.path = g.path /\ n.prev = g.prev
  BY <1>1 DEF Graphs
<1> QED  BY <1>5, <1>6 DEF E

\* The first event of a core
FirstEvent(c, now) == [CoreEvent(c, coreDomain[c], 0, now) EXCEPT !.orig = now]

\* Its fields
LEMMA FirstEventIs ==
  ASSUME BoundOK, NEW c \in Core, NEW now \in Nat
  PROVE  /\ New(FirstEvent(c, now), c, coreDomain[c]) /\ FirstEvent(c, now).kind = "core"
         /\ coreDomain[c] \in Domain
<1> DEFINE d == coreDomain[c]
           f == CoreEvent(c, d, 0, now)
           x == FirstEvent(c, now)
<1>1. d \in Domain
  BY CSimAssumption DEF Domain
<1>2. New(f, c, d) /\ f.kind = "core"
  <2>1. "core" \in Kinds \ {"none"} /\ 0 \in Nat
    BY DEF Kinds
  <2>2. LET e == Event("core", c, d, 0, now) IN
        /\ New(e, c, d) /\ e.kind = "core" /\ e.post = 0 /\ e.minStart = now
    BY <1>1, <2>1, EventIs
  <2> QED  BY <2>2 DEF CoreEvent
<1>3. x = [f EXCEPT !.orig = now]
  BY DEF FirstEvent
<1> HIDE DEF f, x
<1>4. f \in EventRec
  BY <1>2 DEF New, Unlinked
<1>5. x \in EventRec
  BY <1>3, <1>4 DEF EventRec
<1>6. /\ x.kind = f.kind /\ x.owner = f.owner /\ x.dom = f.dom /\ x.xing = f.xing
      /\ x.kids = f.kids /\ x.parents = f.parents /\ x.state = f.state /\ x.called = f.called
  BY <1>3, <1>4 DEF EventRec
<1> QED  BY <1>1, <1>2, <1>5, <1>6 DEF New, Unlinked, x

\* A new event is queued.
LEMMA NewQueued ==
  ASSUME BoundOK, NEW f \in Graphs, GraphOK(f, {}), NEW c \in Core, NEW d \in Domain,
         NEW i \in Ids, f.ev[i].kind = "none", i[1] = c,
         NEW e, Unlinked(e, c, d), e.kind # "cross",
         NEW m \in Graphs, m.ev = WithEvent(f.ev, i, e), m.live = Plus(f.live, c, 1),
         m.pq = f.pq, m.last = f.last, m.stack = f.stack, NEW cycle \in Nat
  PROVE  LET h == EnqueueSynced(m, i, cycle) IN
         /\ h \in Graphs /\ Sound(h) /\ h.ev = m.ev /\ h.prev = m.prev
<1> DEFINE h == EnqueueSynced(m, i, cycle)
           N == {i}
<1>1. m.ev[i].dom = d /\ m.ev[i].kind # "cross"
  <2>1. e \in EventRec /\ f.ev \in [Ids -> EventRec] /\ e.dom = d
    BY DEF Unlinked, Graphs
  <2>2. m.ev[i] = e
    BY <2>1, WithEventIs
  <2> QED  BY <2>1, <2>2
<1>2. GraphOK(m, N)
  <2>1. GraphOK(m, {} \cup {i})
    BY CreateOK
  <2>2. {} \cup {i} = N
    OBVIOUS
  <2> QED  BY <2>1, <2>2
<1>3. /\ h \in Graphs
      /\ h.ev = m.ev /\ h.live = m.live /\ h.last = m.last /\ h.stack = m.stack
      /\ h.path = m.path /\ h.prev = m.prev
      /\ \A b \in Domain : b # m.ev[i].dom => h.pq[b] = m.pq[b]
      /\ h.ok => /\ m.ok /\ cycle >= sim.lastLimit
                 /\ Entries(h.pq[m.ev[i].dom]) = Entries(m.pq[m.ev[i].dom]) \cup {<<cycle, i>>}
  BY EnqueueSyncedIs
<1> HIDE DEF h
<1>4. ASSUME h.ok PROVE GraphOK(h, {})
  <2>1. /\ cycle >= sim.lastLimit /\ i \in N
        /\ m.ev[i].kind = "cross" => cycle >= m.ev[i].minStart
        /\ Entries(h.pq[m.ev[i].dom]) = Entries(m.pq[m.ev[i].dom]) \cup {<<cycle, i>>}
    BY <1>1, <1>3, <1>4
  <2> HIDE DEF N
  <2>2. GraphOK(h, N \ {i})
    BY <1>2, <1>3, <2>1, SyncedOK
  <2>3. N \ {i} = {}
    BY DEF N
  <2> QED  BY <2>2, <2>3
<1> QED  BY <1>3, <1>4 DEF Sound, h

\* The graph with the first event of a core, queued
FirstGraph(c, now, ok) ==
  LET g == Create(Graph(c), FirstEvent(c, now)) IN
  EnqueueSynced(Joined(g, Last(g.path), ok), Last(g.path), now)
FirstId(c, now) == Last(Create(Graph(c), FirstEvent(c, now)).path)

\* It is in order.
LEMMA FirstQueued ==
  ASSUME Good, ~sim.inCSim, NEW c \in Core, Cardinality(Free(c, ev)) >= 1,
         NEW now \in Nat, NEW ok, ok \in BOOLEAN
  PROVE  LET h == FirstGraph(c, now, ok)  i == FirstId(c, now) IN
         /\ h \in Graphs /\ Sound(h) /\ Keeps(h, Graph(c))
         /\ i \in Ids /\ i[1] = c /\ h.ev[i].kind = "core"
<1> DEFINE f == Graph(c)
           e == FirstEvent(c, now)
           d == coreDomain[c]
           g == Create(f, e)
           i == Last(g.path)
           m == Joined(g, i, ok)
           h == EnqueueSynced(m, i, now)
<1>1. BoundOK /\ f \in Graphs /\ GraphOK(f, {}) /\ f.ev = ev /\ f.ok = TRUE
  BY BoundIs, GraphIs
<1>3. New(e, c, d) /\ e.kind = "core" /\ d \in Domain
  BY <1>1, FirstEventIs
<1>4. h = FirstGraph(c, now, ok) /\ i = FirstId(c, now)
  BY DEF FirstGraph, FirstId
<1> HIDE DEF f, e, d
<1>5. /\ e \in EventRec /\ e.owner = c /\ e.kind # "none" /\ e.dom = d /\ e.xing = NoId
      /\ e.parents = 0 /\ Cardinality(Free(e.owner, f.ev)) >= 1
  BY <1>1, <1>3 DEF New, Unlinked
<1>6. /\ g \in Graphs /\ i \in Ids /\ i[1] = c /\ f.ev[i].kind = "none"
      /\ g.ev = WithEvent(f.ev, i, e) /\ g.live = Plus(f.live, c, 1)
      /\ g.pq = f.pq /\ g.last = f.last /\ g.stack = f.stack /\ g.prev = f.prev
  <2>1. LET n == Create(f, e)  j == Last(n.path) IN
         /\ n \in Graphs /\ j \in Ids /\ j[1] = e.owner /\ f.ev[j].kind = "none"
         /\ n.ev = WithEvent(f.ev, j, e) /\ n.live = Plus(f.live, e.owner, 1)
         /\ n.pq = f.pq /\ n.last = f.last /\ n.stack = f.stack /\ n.prev = f.prev
    BY <1>1, <1>5, CreateIs
  <2> QED  BY <1>5, <2>1
<1> HIDE DEF g, i
<1>7. f.ev \in [Ids -> EventRec]
  BY <1>1 DEF Graphs
<1>8. g.ev[i] = e
  BY <1>5, <1>6, <1>7, WithEventIs
<1> DEFINE e1 == WithState(e, "queued")
<1>9. /\ m \in Graphs /\ m.ev = WithEvent(g.ev, i, e1)
      /\ m.live = g.live /\ m.pq = g.pq /\ m.last = g.last /\ m.stack = g.stack /\ m.prev = g.prev
  <2>1. /\ m \in Graphs /\ m.ev = WithEvent(g.ev, i, WithState(g.ev[i], "queued"))
        /\ m.live = g.live /\ m.pq = g.pq /\ m.last = g.last /\ m.stack = g.stack
        /\ m.prev = g.prev
    BY <1>6, JoinedIs
  <2> HIDE DEF m
  <2> QED  BY <1>8, <2>1
<1> HIDE DEF m
<1>10. Unlinked(e1, c, d) /\ e1.kind = "core" /\ e1 \in EventRec
  <2>1. "queued" \in States
    BY DEF States
  <2>2. /\ e1 \in EventRec /\ e1.state = "queued" /\ e1.kind = e.kind /\ e1.owner = e.owner
        /\ e1.dom = e.dom /\ e1.kids = e.kids /\ e1.parents = e.parents /\ e1.xing = e.xing
        /\ e1.called = e.called
    BY <1>5, <2>1, WithStateIs
  <2> HIDE DEF e1
  <2> QED  BY <1>3, <2>2 DEF New, Unlinked
<1> HIDE DEF e1
<1>11. m.ev = WithEvent(f.ev, i, e1)
  BY <1>6, <1>7, <1>9 DEF WithEvent
<1>12. m.ev[i] = e1 /\ \A j \in Ids : j # i => m.ev[j] = f.ev[j]
  BY <1>6, <1>7, <1>10, <1>11, WithEventIs
<1>13. h \in Graphs /\ Sound(h) /\ h.ev = m.ev /\ h.prev = m.prev
  <2>1. /\ m.live = Plus(f.live, c, 1) /\ m.pq = f.pq /\ m.last = f.last /\ m.stack = f.stack
        /\ e1.kind # "cross"
    BY <1>6, <1>9, <1>10
  <2> QED  BY <1>1, <1>3, <1>6, <1>9, <1>10, <1>11, <2>1, NewQueued
<1> HIDE DEF h
<1>16. Keeps(h, f)
  <2>1. \A j \in Ids : f.ev[j].kind # "none" => h.ev[j] = f.ev[j]
    BY <1>6, <1>12, <1>13
  <2> QED  BY <1>1, <1>6, <1>9, <1>13, <2>1 DEF Keeps
<1>17. h.ev[i].kind = "core"
  BY <1>10, <1>12, <1>13
<1> QED  BY <1>4, <1>6, <1>13, <1>16, <1>17 DEF f

\* The recorder of a core that joins
JoinedRec(r, i, now) ==
  [r EXCEPT !.state = "RUNNING", !.prevRespEvent = i, !.prevRespCycle = now,
            !.curCycle = now, !.gapCycles = 0, !.startSlack = 0]

\* Its fields
LEMMA JoinedRecIs ==
  ASSUME NEW r \in RecRec, NEW i \in MaybeId, NEW now \in Nat
  PROVE  LET s == JoinedRec(r, i, now) IN
         /\ s \in RecRec /\ s.state = "RUNNING" /\ s.prevRespEvent = i
         /\ s.prevRespCycle = now /\ s.curCycle = now
<1> DEFINE s == JoinedRec(r, i, now)
<1>1. "RUNNING" \in {"HALTED", "RUNNING", "DRAINING"} /\ 0 \in Nat /\ 0 \in Int
  OBVIOUS
<1>2. s \in RecRec
  BY <1>1 DEF JoinedRec, RecRec
<1>3. /\ s.state = "RUNNING" /\ s.prevRespEvent = i /\ s.prevRespCycle = now /\ s.curCycle = now
  BY DEF JoinedRec, RecRec
<1> QED  BY <1>2, <1>3

\* notifyJoin
LEMMA JoinInv ==
  ASSUME Inv, NEW c \in Core, Join(c)
  PROVE  Inv'
<1> DEFINE r == rec[c]
           now == sim.lastLimit
<1>1. /\ Good /\ ~sim.inCSim /\ r.state \in {"HALTED", "DRAINING"}
      /\ Cardinality(Free(c, ev)) >= 1
      /\ UNCHANGED <<curCycle, cache, sim, th, halves>>
  BY DEF Join, InBound, Inv
<1>2. r \in RecRec /\ r.prevRespCycle <= r.curCycle /\ now \in Nat /\ BoundOK
  BY <1>1, BoundIs DEF Good, TypeOK, RecOK, SimRec
<1>3. CASE r.state = "HALTED"
  <2> DEFINE ok == r.prevRespEvent = NoId /\ r.lastStart <= now
             h == FirstGraph(c, now, ok)
             i == FirstId(c, now)
             s == JoinedRec(r, i, now)
  <2>1. Built(h) /\ rec' = WithRec(c, s)
    BY <1>3 DEF Join, Joined, FirstEvent, FirstGraph, FirstId, WithRec, JoinedRec
  <2>2. ok \in BOOLEAN
    OBVIOUS
  <2>3. Graph(c) \in Graphs /\ Graph(c).ev = ev
    BY <1>1, GraphIs
  <2>4. /\ h \in Graphs /\ Sound(h) /\ Keeps(h, Graph(c))
        /\ i \in Ids /\ i[1] = c /\ h.ev[i].kind = "core"
    <3> HIDE DEF ok, now
    <3> QED  BY <1>1, <1>2, <2>2, FirstQueued
  <2> HIDE DEF h, i, ok
  <2>6. /\ s \in RecRec /\ s.state = "RUNNING" /\ s.prevRespEvent = i /\ s.prevRespCycle = now
        /\ s.curCycle = now
    <3>1. i \in MaybeId
      BY <2>4 DEF MaybeId
    <3> HIDE DEF r, now
    <3> QED  BY <1>2, <3>1, JoinedRecIs
  <2> HIDE DEF s
  <2>7. ~fault' => RecOK'
    <3>1. ev' = h.ev /\ sim' = sim /\ th' = th
      BY <1>1, <2>1 DEF Built
    <3>2. /\ s.prevRespEvent \in Ids /\ s.prevRespEvent[1] = c
          /\ h.ev[s.prevRespEvent].kind \notin {"none", "cross"} /\ s.prevRespCycle <= s.curCycle
      BY <1>2, <2>4, <2>6
    <3> QED  BY <1>1, <2>1, <2>3, <2>4, <2>6, <3>1, <3>2, RecKept
  <2>8. rec' \in [Core -> RecRec]
    BY <1>1, <2>1, <2>6 DEF WithRec, Good, TypeOK
  <2> QED  BY <1>1, <2>1, <2>3, <2>4, <2>7, <2>8, BuiltOK
<1>4. CASE r.state # "HALTED"
  <2> DEFINE ok == r.curCycle >= sim.lastLimit
             f == Graph(c)
             h == WithOk(f, ok)
             s == [r EXCEPT !.state = "RUNNING"]
  <2>1. Built(h) /\ rec' = WithRec(c, s)
    BY <1>4 DEF Join, WithOk, WithRec
  <2>2. ok \in BOOLEAN
    OBVIOUS
  <2>3. f \in Graphs /\ GraphOK(f, {}) /\ f.ev = ev /\ f.ok = TRUE
    BY <1>1, GraphIs
  <2> HIDE DEF ok, f
  <2>4. /\ h \in Graphs /\ GraphOK(h, {}) /\ h.ev = ev /\ h.prev = f.prev
    <3>1. /\ h \in Graphs /\ h.ev = f.ev /\ h.prev = f.prev
          /\ \A N : GraphOK(f, N) => GraphOK(h, N)
      BY <2>2, <2>3, WithOkIs
    <3> QED  BY <2>3, <3>1
  <2> HIDE DEF h
  <2>5. Sound(h) /\ Keeps(h, f)
    BY <2>3, <2>4 DEF Sound, Keeps
  <2>6. s \in RecRec /\ s.state = "RUNNING" /\ s.prevRespEvent = r.prevRespEvent
        /\ s.prevRespCycle = r.prevRespCycle /\ s.curCycle = r.curCycle
    BY <1>2 DEF RecRec
  <2> HIDE DEF s
  <2>7. ~fault' => RecOK'
    <3>1. ev' = h.ev /\ sim' = sim /\ th' = th
      BY <1>1, <2>1 DEF Built
    <3>2. r.prevRespEvent # NoId /\ PrevOK(c) /\ r.prevRespEvent \in MaybeId
      BY <1>1, <1>2, <1>4 DEF Good, RecOK, RecRec
    <3>3. /\ s.prevRespEvent \in Ids /\ s.prevRespEvent[1] = c
          /\ h.ev[s.prevRespEvent].kind \notin {"none", "cross"}
      BY <2>4, <2>6, <3>2 DEF PrevOK, MaybeId
    <3> QED  BY <1>1, <1>2, <2>1, <2>3, <2>5, <2>6, <3>1, <3>3, RecKept
  <2>8. rec' \in [Core -> RecRec]
    BY <1>1, <2>1, <2>6 DEF WithRec, Good, TypeOK
  <2> QED  BY <1>1, <2>1, <2>3, <2>4, <2>5, <2>7, <2>8, BuiltOK
<1> QED  BY <1>3, <1>4

-----------------------------------------------------------------------------
(* The start of the weave phase: the graph after each core in turn         *)

\* A nonempty set of natural numbers has a least one.
LEMMA LeastNat ==
  ASSUME NEW S \in SUBSET Nat, S # {}
  PROVE  \E m \in S : \A n \in S : m <= n
BY LeastOf

\* The element that a fold takes next
Pick(s) == CHOOSE x \in s : TRUE

\* What is wrong of a set, and then also of the set without one of its
\* elements, but not of the empty set, is never wrong.
LEMMA NoSubset ==
  ASSUME NEW S, IsFiniteSet(S), NEW V \in SUBSET (SUBSET S),
         \A s \in V : s # {} /\ s \ {Pick(s)} \in V
  PROVE  V = {}
<1> SUFFICES ASSUME V # {} PROVE FALSE
  OBVIOUS
<1> DEFINE N == {Cardinality(s) : s \in V}
<1>1. \A s \in V : IsFiniteSet(s) /\ Cardinality(s) \in Nat
  BY FS_Subset, FS_CardinalityType
<1>2. PICK m \in N : \A n \in N : m <= n
  <2>1. N \in SUBSET Nat /\ N # {}
    BY <1>1
  <2> HIDE DEF N
  <2> QED  BY <2>1, LeastNat
<1>3. PICK s \in V : Cardinality(s) = m
  OBVIOUS
<1>4. s \ {Pick(s)} \in V /\ Pick(s) \in s
  <2>1. s # {}
    OBVIOUS
  <2> QED  BY <2>1 DEF Pick
<1>5. Cardinality(s \ {Pick(s)}) = m - 1
  BY <1>1, <1>3, <1>4, FS_RemoveElement
<1>6. m - 1 \in N /\ m \in Nat
  BY <1>1, <1>3, <1>4, <1>5
<1> HIDE DEF N
<1>7. m <= m - 1
  BY <1>2, <1>6
<1> QED  BY <1>6, <1>7

\* The graph with which the weave phase starts
Base == Graph(CHOOSE c \in Core : TRUE)
StartGraph == FoldSet(LAMBDA c, h : CSimStart(h, c), Base, Core)

\* The graphs on the way to it, for all sets of cores
StartSteps(G) ==
  /\ G[{}] = Base
  /\ \A s \in SUBSET Core : s # {} => G[s] = CSimStart(G[s \ {Pick(s)}], Pick(s))

\* It is the last of these.
LEMMA StartIs == \E G : StartSteps(G) /\ StartGraph = G[Core]
<1> DEFINE Value(g, s) == IF s = {} THEN Base ELSE CSimStart(g[s \ {Pick(s)}], Pick(s))
           D(n) == {s \in SUBSET Core : Cardinality(s) <= n}
           Is(g, n) == g = [s \in D(n) |-> Value(g, s)]
           All(g) == g = [s \in SUBSET Core |-> Value(g, s)]
           Bad == {n \in Nat : ~ \E g : Is(g, n)}
           G == CHOOSE g : All(g)
<1>0. IsFiniteSet(Core)
  BY CSimAssumption
<1>1. StartGraph = G[Core]
  BY Zenon DEF StartGraph, FoldSet, MapThenFoldSet, Pick
<1>2. \A s \in SUBSET Core : IsFiniteSet(s) /\ Cardinality(s) \in Nat /\ Cardinality(s) <= Cardinality(Core)
  BY <1>0, FS_Subset, FS_CardinalityType
<1>3. \A s \in SUBSET Core : s # {} =>
        /\ Pick(s) \in Core /\ s \ {Pick(s)} \in SUBSET Core
        /\ Cardinality(s \ {Pick(s)}) = Cardinality(s) - 1
  <2> SUFFICES ASSUME NEW s \in SUBSET Core, s # {}
               PROVE  /\ Pick(s) \in Core /\ s \ {Pick(s)} \in SUBSET Core
                      /\ Cardinality(s \ {Pick(s)}) = Cardinality(s) - 1
    OBVIOUS
  <2>1. Pick(s) \in s
    BY DEF Pick
  <2> QED  BY <1>2, <2>1, FS_RemoveElement
<1>4. Bad = {}
  <2> SUFFICES ASSUME Bad # {} PROVE FALSE
    OBVIOUS
  <2>1. PICK n \in Bad : \A k \in Bad : n <= k
    <3>1. Bad \in SUBSET Nat
      OBVIOUS
    <3> HIDE DEF Bad
    <3> QED  BY <3>1, LeastNat
  <2>2. n \in Nat /\ ~ \E g : Is(g, n)
    BY <2>1
  <2>3. CASE n = 0
    <3>1. \A s \in D(0) : s = {}
      <4> SUFFICES ASSUME NEW s \in D(0) PROVE s = {}
        OBVIOUS
      <4>1. Cardinality(s) = 0 /\ IsFiniteSet(s)
        BY <1>2
      <4> QED  BY <4>1, FS_EmptySet
    <3> DEFINE g == [s \in D(0) |-> Base]
    <3>2. [s \in D(0) |-> Value(g, s)] = g
      <4>1. \A s \in D(0) : Value(g, s) = Base
        BY <3>1
      <4> HIDE DEF Value, D
      <4> QED  BY <4>1
    <3>3. Is(g, 0)
      BY <3>2
    <3> QED  BY <2>2, <2>3, <3>3
  <2>4. CASE n # 0
    <3>1. n - 1 \in Nat /\ n - 1 \notin Bad
      <4> HIDE DEF Bad, Is
      <4>1. n - 1 \in Nat /\ ~(n <= n - 1)
        BY <2>2, <2>4
      <4> QED  BY <2>1, <4>1
    <3>2. PICK g : Is(g, n - 1)
      BY <3>1
    <3> DEFINE h == [s \in D(n) |-> Value(g, s)]
    <3>3. \A s \in D(n) : s # {} => s \ {Pick(s)} \in D(n - 1) /\ s \ {Pick(s)} \in D(n)
      BY <1>2, <1>3, <2>2
    <3>4. \A s \in D(n - 1) : s \in D(n) /\ g[s] = Value(g, s)
      <4>1. \A s \in D(n - 1) : s \in D(n)
        BY <1>2, <2>2
      <4> HIDE DEF Value, D
      <4> QED  BY <3>2, <4>1
    <3>5. \A s \in D(n - 1) : h[s] = g[s]
      <4> HIDE DEF Value, D
      <4> QED  BY <3>4
    <3>6. \A s \in D(n) : Value(g, s) = Value(h, s)
      <4> HIDE DEF D, h
      <4> QED  BY <3>3, <3>5
    <3>7. h = [s \in D(n) |-> Value(h, s)]
      <4>1. [s \in D(n) |-> Value(h, s)] = [s \in D(n) |-> Value(g, s)]
        <5> HIDE DEF Value, D, h
        <5> QED  BY <3>6
      <4> HIDE DEF Value, D
      <4> QED  BY <4>1
    <3>8. Is(h, n)
      BY <3>7
    <3> QED  BY <2>2, <3>8
  <2> QED  BY <2>3, <2>4
<1>5. All(G)
  <2>1. PICK g : Is(g, Cardinality(Core))
    <3>1. Cardinality(Core) \in Nat
      BY <1>0, FS_CardinalityType
    <3> QED  BY <1>4, <3>1
  <2>2. D(Cardinality(Core)) = SUBSET Core
    BY <1>2
  <2>3. All(g)
    <3> HIDE DEF D
    <3> QED  BY <2>1, <2>2
  <2> HIDE DEF All
  <2> QED  BY <2>3
<1> HIDE DEF G
<1>6. \A s \in SUBSET Core : G[s] = Value(G, s)
  <2> HIDE DEF Value
  <2> QED  BY <1>5
<1>7. StartSteps(G)
  BY <1>6 DEF StartSteps
<1> QED  BY <1>1, <1>7

\* A quotient and its remainder
LEMMA Quotient ==
  ASSUME NEW a \in Nat, NEW b \in Nat \ {0}
  PROVE  /\ a \div b \in Nat /\ a % b \in 0 .. b - 1
         /\ a = b * (a \div b) + (a % b)
OBVIOUS

\* Every domain is one of some thread's.
LEMMA DomainsCovered ==
  ASSUME NEW m \in Nat \ {0}, NEW n \in Nat \ {0}, m % n = 0, NEW d \in 0 .. m - 1
  PROVE  \E t \in 0 .. n - 1 : d \in t * (m \div n) .. (t + 1) * (m \div n) - 1
<1> DEFINE p == m \div n
<1>1. p \in Nat /\ m = n * p
  <2>1. /\ p \in Nat /\ m % n \in 0 .. n - 1 /\ m = n * p + (m % n)
    BY Quotient
  <2> HIDE DEF p
  <2>2. n * p \in Nat
    BY <2>1
  <2> QED  BY <2>1, <2>2
<1> HIDE DEF p
<1>2. p # 0
  BY <1>1
<1> DEFINE t == d \div p
           r == d % p
<1>3. t \in Nat /\ r \in 0 .. p - 1 /\ d = p * t + r
  <2>1. d \in Nat /\ p \in Nat \ {0}
    BY <1>1, <1>2
  <2>2. d \div p \in Nat /\ d % p \in 0 .. p - 1 /\ d = p * (d \div p) + (d % p)
    BY <2>1, Quotient
  <2> QED  BY <2>2
<1> HIDE DEF t, r
<1>4. p * t \in Nat /\ (t + 1) * p = p * t + p /\ t * p = p * t
  BY <1>1, <1>3
<1>5. d \in t * p .. (t + 1) * p - 1
  BY <1>1, <1>3, <1>4
<1>6. t < n
  <2> SUFFICES ASSUME t >= n PROVE FALSE
    BY <1>3
  <2>1. p * t >= n * p
    <3>1. t - n \in Nat /\ p * (t - n) \in Nat
      BY <1>1, <1>3
    <3>2. p * t = n * p + p * (t - n)
      BY <1>1, <1>3
    <3>3. n * p \in Nat
      BY <1>1
    <3> QED  BY <1>4, <3>1, <3>2, <3>3
  <2> QED  BY <1>1, <1>3, <1>4, <2>1
<1>7. t \in 0 .. n - 1
  BY <1>3, <1>6
<1> QED  BY <1>5, <1>7 DEF p

\* A graph with another path, and with another end of the path of a core
WithPath(g, s) == [g EXCEPT !.path = s]
WithPrev(g, c, i) == [g EXCEPT !.prev = [@ EXCEPT ![c] = i]]

\* They leave the rest alone.
LEMMA WithPathIs ==
  ASSUME NEW g \in Graphs, NEW i \in MaybeId
  PROVE  LET n == WithPath(g, <<i>>) IN
         /\ n \in Graphs /\ n.ok = g.ok /\ n.ev = g.ev /\ n.prev = g.prev
         /\ n.path # <<>> /\ Last(n.path) = i
         /\ \A N : GraphOK(g, N) => GraphOK(n, N)
<1> DEFINE n == WithPath(g, <<i>>)
           s == <<i>>
<1>1. s \in Seq(MaybeId) /\ s # <<>> /\ Last(s) = i
  BY DEF Last
<1>2. n = [g EXCEPT !.path = s]
  BY DEF WithPath
<1> HIDE DEF n, s
<1>3. n \in Graphs
  BY <1>1, <1>2 DEF Graphs
<1>4. /\ n.ok = g.ok /\ n.ev = g.ev /\ n.pq = g.pq /\ n.live = g.live /\ n.last = g.last
      /\ n.stack = g.stack /\ n.prev = g.prev /\ n.path = s
  BY <1>2 DEF Graphs
<1>5. \A N : GraphOK(g, N) => GraphOK(n, N)
  BY <1>4 DEF GraphOK
<1> QED  BY <1>1, <1>3, <1>4, <1>5 DEF n
\* So does the end of a path.
LEMMA WithPrevIs ==
  ASSUME NEW g \in Graphs, NEW c \in Core, NEW i \in MaybeId
  PROVE  LET n == WithPrev(g, c, i) IN
         /\ n \in Graphs /\ n.ok = g.ok /\ n.ev = g.ev
         /\ n.prev[c] = i /\ \A b \in Core : b # c => n.prev[b] = g.prev[b]
         /\ \A N : GraphOK(g, N) => GraphOK(n, N)
<1> DEFINE n == WithPrev(g, c, i)
           p == [g.prev EXCEPT ![c] = i]
<1>0. g.prev \in [Core -> MaybeId]
  BY DEF Graphs
<1>1. p \in [Core -> MaybeId] /\ p[c] = i /\ \A b \in Core : b # c => p[b] = g.prev[b]
  BY <1>0
<1>2. n = [g EXCEPT !.prev = p]
  BY DEF WithPrev
<1> HIDE DEF n, p
<1>3. n \in Graphs
  BY <1>1, <1>2 DEF Graphs
<1>4. /\ n.ok = g.ok /\ n.ev = g.ev /\ n.pq = g.pq /\ n.live = g.live /\ n.last = g.last
      /\ n.stack = g.stack /\ n.prev = p
  BY <1>2 DEF Graphs
<1>5. \A N : GraphOK(g, N) => GraphOK(n, N)
  BY <1>4 DEF GraphOK
<1> QED  BY <1>1, <1>3, <1>4, <1>5 DEF n

\* When a core's clock goes on
LEMMA StartCycleIs ==
  ASSUME NEW c \in Core, rec[c] \in RecRec, sim.lastLimit \in Nat
  PROVE  CSimStartCycle(c) \in Nat /\ CSimStartCycle(c) >= rec[c].curCycle
<1>1. /\ rec[c].curCycle \in Nat /\ rec[c].state \in {"HALTED", "RUNNING", "DRAINING"}
      /\ PhaseEnd \in Nat /\ PhaseEnd + 1 \in Nat
  BY CSimAssumption DEF RecRec, PhaseEnd
<1>2. /\ Max({rec[c].curCycle, PhaseEnd + 1}) \in Nat
      /\ Max({rec[c].curCycle, PhaseEnd + 1}) >= rec[c].curCycle
  <2> DEFINE a == rec[c].curCycle
             e == PhaseEnd + 1
  <2>1. a \in Int /\ e \in Int /\ a \in Nat /\ e \in Nat
    BY <1>1
  <2> HIDE DEF a, e
  <2>2. Max({a, e}) \in Nat /\ Max({a, e}) >= a
    BY <2>1, MaxOfTwo
  <2> QED  BY <2>2 DEF a, e
<1>3. /\ Max({rec[c].curCycle, PhaseEnd}) \in Nat
      /\ Max({rec[c].curCycle, PhaseEnd}) >= rec[c].curCycle
  <2> DEFINE a == rec[c].curCycle
             e == PhaseEnd
  <2>1. a \in Int /\ e \in Int /\ a \in Nat /\ e \in Nat
    BY <1>1
  <2> HIDE DEF a, e
  <2>2. Max({a, e}) \in Nat /\ Max({a, e}) >= a
    BY <2>1, MaxOfTwo
  <2> QED  BY <2>2 DEF a, e
<1>4. CASE rec[c].state = "HALTED"
  BY <1>1, <1>4 DEF CSimStartCycle
<1>5. CASE rec[c].state = "RUNNING"
  BY <1>2, <1>5 DEF CSimStartCycle
<1>6. CASE rec[c].state = "DRAINING"
  BY <1>3, <1>6 DEF CSimStartCycle
<1> QED  BY <1>1, <1>4, <1>5, <1>6

\* The graph after the cores of S have started
OldKept(g) == \A i \in Ids : ev[i].kind # "none" =>
  g.ev[i].kind = ev[i].kind /\ g.ev[i].owner = ev[i].owner /\ g.ev[i].dom = ev[i].dom
StartedPath(g, b) ==
  g.prev[b] \in Ids /\ g.ev[g.prev[b]].kind = "core" /\ g.ev[g.prev[b]].owner = b
PathsOf(S, g) == \A b \in Core :
  IF b \in S /\ rec[b].state = "RUNNING" THEN StartedPath(g, b)
  ELSE g.prev[b] = rec[b].prevRespEvent
Started(S, g) ==
  /\ g \in Graphs /\ Sound(g) /\ OldKept(g)
  /\ \A b \in Core \ S : Free(b, g.ev) = Free(b, ev)
  /\ PathsOf(S, g)

\* A running core starts: its path is covered up to the new cycle.
LEMMA RunningStarts ==
  ASSUME Good, ~sim.inCSim, NEW g \in Graphs, Sound(g), OldKept(g), NEW c \in Core,
         rec[c].state = "RUNNING", g.prev[c] = rec[c].prevRespEvent, Room(g, c) >= 2
  PROVE  LET n == CSimStart(g, c) IN
         /\ n \in Graphs /\ Sound(n) /\ StartedPath(n, c)
         /\ \A b \in Core : b # c => n.prev[b] = g.prev[b]
         /\ \A b \in Core : b # c => Free(b, n.ev) = Free(b, g.ev)
         /\ \A i \in Ids : g.ev[i].kind # "none" =>
              n.ev[i].kind = g.ev[i].kind /\ n.ev[i].owner = g.ev[i].owner /\ n.ev[i].dom = g.ev[i].dom
<1> DEFINE r == rec[c]
           now == CSimStartCycle(c)
           i == r.prevRespEvent
           own == WithPath(g, <<i>>)
           late == r.prevRespCycle < now
           covered == IF late THEN FollowCore(own, c, now - r.prevRespCycle, r.prevRespCycle) ELSE own
           h == FollowCore(covered, c, 0, now)
           n == WithPrev(h, c, Last(h.path))
           d == ev[i].dom
<1>1. BoundOK /\ r \in RecRec /\ r.prevRespCycle <= r.curCycle /\ i # NoId /\ PrevOK(c)
  BY BoundIs DEF Good, TypeOK, RecOK
<1>2. /\ i \in Ids /\ ev[i].kind \notin {"none", "cross"} /\ ev[i].owner = c /\ d \in Domain
  <2>1. i \in Ids /\ i[1] = c /\ ev[i].kind \notin {"none", "cross"}
    BY <1>1 DEF PrevOK, RecRec, MaybeId
  <2> QED  BY <2>1 DEF Good, TypeOK, EventRec, Struct, EventsOK
<1>3. now \in Nat /\ r.prevRespCycle \in Nat /\ (late => now - r.prevRespCycle \in Nat)
  <2>1. now \in Nat
    BY <1>1, StartCycleIs DEF BoundOK
  <2>2. r.prevRespCycle \in Nat
    BY <1>1 DEF RecRec
  <2> HIDE DEF now, r
  <2> QED  BY <2>1, <2>2
<1>4. n = CSimStart(g, c)
  BY DEF CSimStart, WithPath, WithPrev
<1> HIDE DEF n, h, covered, now
<1>5. /\ own \in Graphs /\ own.ev = g.ev /\ own.ok = g.ok /\ own.prev = g.prev
      /\ Sound(own) /\ Ends(own, c, d) /\ Room(own, c) >= 2
  <2>1. i \in MaybeId
    BY <1>2 DEF MaybeId
  <2> HIDE DEF own
  <2>2. /\ own \in Graphs /\ own.ok = g.ok /\ own.ev = g.ev /\ own.prev = g.prev
        /\ own.path # <<>> /\ Last(own.path) = i
        /\ \A N : GraphOK(g, N) => GraphOK(own, N)
    <3> HIDE DEF i, r
    <3> QED  BY <2>1, WithPathIs DEF own
  <2>3. g.ev[i].kind = ev[i].kind /\ g.ev[i].owner = c /\ g.ev[i].dom = d
    BY <1>2 DEF OldKept
  <2> HIDE DEF d, i
  <2> QED  BY <1>2, <2>2, <2>3 DEF Sound, Ends, Room
<1> HIDE DEF own, d
<1>6. Room(own, c) \in Nat
  BY <1>5, FreeIs DEF Room, Graphs
<1>7. /\ covered \in Graphs /\ Sound(covered) /\ Ends(covered, c, d) /\ Extends(covered, own, c)
      /\ Room(covered, c) >= 1
  <2>1. CASE late
    <3>1. covered = FollowCore(own, c, now - r.prevRespCycle, r.prevRespCycle)
      BY <2>1 DEF covered
    <3>2. Room(own, c) >= 1 /\ now - r.prevRespCycle \in Nat
      BY <1>3, <1>5, <1>6, <2>1
    <3>3. /\ covered \in Graphs /\ Ends(covered, c, d) /\ Sound(covered) /\ Extends(covered, own, c)
          /\ Room(covered, c) = Room(own, c) - 1
      <4> HIDE DEF r
      <4> QED  BY <1>1, <1>2, <1>3, <1>5, <3>1, <3>2, FollowCoreOK
    <3> QED  BY <1>5, <1>6, <3>3
  <2>2. CASE ~late
    <3>1. covered = own
      BY <2>2 DEF covered
    <3>2. Extends(own, own, c)
      BY DEF Extends, Keeps
    <3> QED  BY <1>5, <1>6, <3>1, <3>2
  <2> QED  BY <2>1, <2>2
<1>8. /\ h \in Graphs /\ Ends(h, c, d) /\ Sound(h) /\ Extends(h, covered, c)
      /\ h.ev[Last(h.path)].kind = "core"
  <2>1. 0 \in Nat /\ h = FollowCore(covered, c, 0, now)
    BY DEF h
  <2> QED  BY <1>1, <1>2, <1>3, <1>7, <2>1, FollowCoreOK
<1>9. Extends(h, own, c)
  BY <1>7, <1>8, ExtendsOn
<1> DEFINE j == Last(h.path)
<1>10. j \in Ids /\ j \in MaybeId /\ h.ev[j].owner = c /\ h.ev[j].kind = "core"
  BY <1>8 DEF Ends, MaybeId
<1>11. /\ n \in Graphs /\ n.ok = h.ok /\ n.ev = h.ev
       /\ n.prev[c] = j /\ \A b \in Core : b # c => n.prev[b] = h.prev[b]
       /\ \A N : GraphOK(h, N) => GraphOK(n, N)
  <2> HIDE DEF j
  <2>1. n = WithPrev(h, c, j)
    BY DEF n, j
  <2> QED  BY <1>8, <1>10, <2>1, WithPrevIs
<1>12. Sound(n)
  BY <1>8, <1>11 DEF Sound
<1>13. StartedPath(n, c)
  BY <1>10, <1>11 DEF StartedPath
<1> HIDE DEF j
<1>14. /\ \A b \in Core : b # c => n.prev[b] = g.prev[b]
       /\ \A b \in Core : b # c => Free(b, n.ev) = Free(b, g.ev)
       /\ \A k \in Ids : g.ev[k].kind # "none" =>
            n.ev[k].kind = g.ev[k].kind /\ n.ev[k].owner = g.ev[k].owner /\ n.ev[k].dom = g.ev[k].dom
  BY <1>5, <1>9, <1>11 DEF Extends, Keeps
<1> QED  BY <1>4, <1>11, <1>12, <1>13, <1>14

\* Each core in turn
LEMMA CoreStarts ==
  ASSUME Good, ~sim.inCSim, \A b \in Core : Cardinality(Free(b, ev)) >= 2,
         NEW S \in SUBSET Core, NEW g, Started(S, g), NEW c \in Core \ S
  PROVE  Started(S \cup {c}, CSimStart(g, c))
<1> DEFINE n == CSimStart(g, c)
<1>1. CASE rec[c].state = "RUNNING"
  <2>1. /\ n \in Graphs /\ Sound(n) /\ StartedPath(n, c)
        /\ \A b \in Core : b # c => n.prev[b] = g.prev[b]
        /\ \A b \in Core : b # c => Free(b, n.ev) = Free(b, g.ev)
        /\ \A i \in Ids : g.ev[i].kind # "none" =>
             n.ev[i].kind = g.ev[i].kind /\ n.ev[i].owner = g.ev[i].owner /\ n.ev[i].dom = g.ev[i].dom
    <3>1. Room(g, c) >= 2 /\ g.prev[c] = rec[c].prevRespEvent
      BY DEF Started, PathsOf, Room
    <3> QED  BY <1>1, <3>1, RunningStarts DEF Started
  <2> HIDE DEF n
  <2>2. OldKept(n)
    BY <2>1 DEF Started, OldKept
  <2>3. PathsOf(S \cup {c}, n)
    <3> SUFFICES ASSUME NEW b \in Core
                 PROVE  IF b \in S \cup {c} /\ rec[b].state = "RUNNING" THEN StartedPath(n, b)
                        ELSE n.prev[b] = rec[b].prevRespEvent
      BY DEF PathsOf
    <3>1. CASE b = c
      BY <1>1, <2>1, <3>1
    <3>2. CASE b # c
      <4>1. n.prev[b] = g.prev[b]
        BY <2>1, <3>2
      <4>2. g.prev[b] \in Ids /\ g.ev[g.prev[b]].kind = "core" =>
              /\ n.ev[g.prev[b]].kind = "core" /\ n.ev[g.prev[b]].owner = g.ev[g.prev[b]].owner
        BY <2>1
      <4> QED  BY <3>2, <4>1, <4>2 DEF Started, PathsOf, StartedPath
    <3> QED  BY <3>1, <3>2
  <2> QED  BY <2>1, <2>2, <2>3 DEF Started, n
<1>2. CASE rec[c].state # "RUNNING"
  <2>1. n = g
    BY <1>2 DEF CSimStart
  <2>2. PathsOf(S \cup {c}, g)
    BY <1>2 DEF Started, PathsOf
  <2> QED  BY <2>1, <2>2 DEF Started
<1> QED  BY <1>1, <1>2

\* All of them
LEMMA AllStarted ==
  ASSUME Good, ~sim.inCSim, \A b \in Core : Cardinality(Free(b, ev)) >= 2
  PROVE  Started(Core, StartGraph)
<1>1. PICK G : StartSteps(G) /\ StartGraph = G[Core]
  BY StartIs
<1>2. Started({}, Base)
  <2> DEFINE c0 == CHOOSE c \in Core : TRUE
  <2>1. c0 \in Core
    BY CSimAssumption
  <2> HIDE DEF c0
  <2>2. /\ Graph(c0) \in Graphs /\ GraphOK(Graph(c0), {}) /\ Graph(c0).ev = ev
        /\ Graph(c0).prev = [b \in Core |-> rec[b].prevRespEvent]
    BY <2>1, GraphIs
  <2>3. Started({}, Graph(c0))
    BY <2>2 DEF Started, Sound, OldKept, PathsOf
  <2> QED  BY <2>3 DEF Base, c0
<1> DEFINE V == {s \in SUBSET Core : ~Started(s, G[s])}
<1>3. ASSUME NEW s \in V PROVE s # {} /\ s \ {Pick(s)} \in V
  <2>1. s # {}
    BY <1>1, <1>2 DEF StartSteps
  <2>2. Pick(s) \in s
    BY <2>1 DEF Pick
  <2> DEFINE r == s \ {Pick(s)}
             c == Pick(s)
  <2>3. G[s] = CSimStart(G[r], c) /\ r \in SUBSET Core /\ c \in Core \ r /\ s = r \cup {c}
    BY <1>1, <2>1, <2>2 DEF StartSteps
  <2> HIDE DEF r, c
  <2>4. ~Started(r, G[r])
    BY <2>3, CoreStarts
  <2> QED  BY <2>1, <2>3, <2>4 DEF r
<1>4. V = {}
  <2>1. V \in SUBSET (SUBSET Core) /\ IsFiniteSet(Core)
    BY CSimAssumption
  <2> HIDE DEF V
  <2> QED  BY <1>3, <2>1, NoSubset
<1> QED  BY <1>1, <1>4

\* The recorder of a core when the weave phase starts
StartedRec(r, i, now) ==
  [r EXCEPT !.curCycle = now, !.prevRespEvent = i,
            !.prevRespCycle = IF r.state = "RUNNING" THEN now ELSE @]

\* Its fields
LEMMA StartedRecIs ==
  ASSUME NEW r \in RecRec, NEW i \in MaybeId, NEW now \in Nat
  PROVE  LET s == StartedRec(r, i, now) IN
         /\ s \in RecRec /\ s.state = r.state /\ s.prevRespEvent = i /\ s.curCycle = now
         /\ s.prevRespCycle = IF r.state = "RUNNING" THEN now ELSE r.prevRespCycle
<1> DEFINE s == StartedRec(r, i, now)
<1>1. s \in RecRec
  BY DEF StartedRec, RecRec
<1>2. /\ s.state = r.state /\ s.prevRespEvent = i /\ s.curCycle = now
      /\ s.prevRespCycle = IF r.state = "RUNNING" THEN now ELSE r.prevRespCycle
  BY DEF StartedRec, RecRec
<1> QED  BY <1>1, <1>2

\* simulatePhase, up to waking the threads
LEMMA StartWeaveInv ==
  ASSUME Inv, StartWeave
  PROVE  Inv'
<1> DEFINE g == StartGraph
<1>1. /\ Good /\ ~sim.inCSim /\ \A b \in Core : Cardinality(Free(b, ev)) >= 2
      /\ Built(g) /\ UNCHANGED <<curCycle, cache, th, halves>>
      /\ sim' = [sim EXCEPT !.inCSim = TRUE, !.limit = PhaseEnd, !.woken = DOMAIN th]
      /\ rec' = [c \in Core |-> StartedRec(rec[c], g.prev[c], CSimStartCycle(c))]
  <2>1. Core # {}
    BY CSimAssumption
  <2>2. /\ \A c \in Core : InBound(c) /\ Cardinality(Free(c, ev)) >= 2
        /\ Built(g) /\ UNCHANGED <<curCycle, cache, th, halves>>
        /\ sim' = [sim EXCEPT !.inCSim = TRUE, !.limit = PhaseEnd, !.woken = DOMAIN th]
        /\ rec' = [c \in Core |-> StartedRec(rec[c], g.prev[c], CSimStartCycle(c))]
    BY Zenon DEF StartWeave, StartGraph, Base, StartedRec
  <2>3. ~sim.inCSim /\ ~fault
    BY <2>1, <2>2 DEF InBound
  <2> QED  BY <2>2, <2>3 DEF Inv
<1>2. Started(Core, g)
  BY <1>1, AllStarted
<1>3. /\ TypeOK /\ BoundOK /\ Held = {} /\ ToldIds = {} /\ Horizon = sim.lastLimit
      /\ \A t \in Threads : th[t] = Asleep
  BY <1>1, BoundIs DEF Good
<1> HIDE DEF g
<1>4. /\ ev' = g.ev /\ pq' = g.pq /\ live' = g.live /\ lastCrossing' = g.last /\ fault' = ~g.ok
      /\ halves' = halves /\ cache' = cache /\ th' = th /\ curCycle' = curCycle
  BY <1>1 DEF Built
<1>5. /\ g \in Graphs /\ g.prev \in [Core -> MaybeId]
      /\ ev' \in [Ids -> EventRec] /\ pq' \in [Domain -> Ordered] /\ live' \in [Core -> Int]
      /\ lastCrossing' \in Crossings
  BY <1>2, <1>4 DEF Started, Graphs
<1>6. sim \in SimRec /\ PhaseEnd \in Nat /\ sim.lastLimit \in Nat /\ PhaseEnd >= sim.lastLimit
  <2>1. sim \in SimRec /\ sim.lastLimit \in Nat /\ phaseLength \in Nat
    BY <1>3, CSimAssumption DEF TypeOK, SimRec
  <2> QED  BY <2>1 DEF PhaseEnd
<1>7. DOMAIN th = Threads /\ Threads \in SUBSET Nat
  <2>1. sim.numSimThreads \in Nat \ {0} /\ th \in [Threads -> ThreadRec]
    BY <1>3, <1>6 DEF TypeOK, SimRec
  <2> QED  BY <2>1 DEF Threads
<1>8. /\ sim' \in SimRec /\ sim'.inCSim /\ sim'.limit = PhaseEnd /\ sim'.woken = Threads
      /\ sim'.lastLimit = sim.lastLimit /\ sim'.threadsDone = sim.threadsDone
      /\ sim'.numSimThreads = sim.numSimThreads /\ sim'.waitOpen = sim.waitOpen
  BY <1>1, <1>6, <1>7 DEF SimRec
<1>9. Threads' = Threads
  BY <1>8 DEF Threads
<1> DEFINE s(c) == StartedRec(rec[c], g.prev[c], CSimStartCycle(c))
<1>10. \A c \in Core :
         /\ rec'[c] \in RecRec /\ rec'[c].state = rec[c].state /\ rec'[c].prevRespEvent = g.prev[c]
         /\ rec'[c].curCycle \in Nat /\ rec'[c].curCycle >= rec[c].curCycle
         /\ rec'[c].prevRespCycle = IF rec[c].state = "RUNNING" THEN rec'[c].curCycle
                                    ELSE rec[c].prevRespCycle
  <2> SUFFICES ASSUME NEW c \in Core
      PROVE /\ rec'[c] \in RecRec /\ rec'[c].state = rec[c].state /\ rec'[c].prevRespEvent = g.prev[c]
            /\ rec'[c].curCycle \in Nat /\ rec'[c].curCycle >= rec[c].curCycle
            /\ rec'[c].prevRespCycle = IF rec[c].state = "RUNNING" THEN rec'[c].curCycle
                                       ELSE rec[c].prevRespCycle
    OBVIOUS
  <2> DEFINE now == CSimStartCycle(c)
             r == rec[c]
             i == g.prev[c]
  <2>1. r \in RecRec /\ i \in MaybeId
    BY <1>3, <1>5 DEF TypeOK
  <2>2. now \in Nat /\ now >= r.curCycle
    BY <1>6, <2>1, StartCycleIs
  <2>3. rec'[c] = StartedRec(r, i, now)
    BY <1>1
  <2> HIDE DEF now, r, i
  <2>4. LET u == StartedRec(r, i, now) IN
         /\ u \in RecRec /\ u.state = r.state /\ u.prevRespEvent = i /\ u.curCycle = now
         /\ u.prevRespCycle = IF r.state = "RUNNING" THEN now ELSE r.prevRespCycle
    BY <2>1, <2>2, StartedRecIs
  <2> QED  BY <2>2, <2>3, <2>4 DEF r, i
<1>11. rec' \in [Core -> RecRec]
  BY <1>1, <1>10
<1> HIDE DEF s
<1>12. ASSUME ~fault' PROVE Good'
  <2>1. GraphOK(g, {})
    BY <1>2, <1>4, <1>5, <1>12 DEF Started, Sound, Graphs
  <2>2. TypeOK'
    BY <1>1, <1>3, <1>4, <1>5, <1>8, <1>9, <1>11, SlabsBuilt DEF TypeOK
  <2>3. Held' = {} /\ ToldIds' = {} /\ Pending' = Pending /\ Horizon' = PhaseEnd
    BY <1>3, <1>4, <1>8, <1>9 DEF Held, ToldIds, Pending, Horizon
  <2>4. Struct(ev', pq', Pending', Held', ToldIds', {})
    BY <1>4, <2>1, <2>3 DEF GraphOK
  <2>5. Counted(ev', live', halves')
    BY <1>4, <2>1 DEF GraphOK
  <2>6. LastOK(ev', lastCrossing', Horizon')
    <3> SUFFICES ASSUME NEW c \in Core, NEW a \in Domain, NEW d \in Domain,
                        g.last[c][a][d].cycle > PhaseEnd
                 PROVE  LET l == g.last[c][a][d] IN
                        /\ l.ev \in Ids /\ g.ev[l.ev].kind = "cross" /\ g.ev[l.ev].dom = d
                        /\ g.ev[l.ev].minStart = l.cycle
      BY <1>4, <2>3 DEF LastOK
    <3>1. g.last[c][a][d].cycle \in Nat
      BY <1>5 DEF Graphs, Crossings
    <3>2. g.last[c][a][d].cycle > sim.lastLimit
      BY <1>6, <3>1
    <3>3. LastOK(g.ev, g.last, sim.lastLimit)
      BY <2>1 DEF GraphOK
    <3> QED  BY <3>2, <3>3, Zenon DEF LastOK
  <2>7. PendOK'
    <3> SUFFICES ASSUME NEW d \in Domain, NEW i \in cache[d].pendingQueue
                 PROVE  ev'[i].dom = d
      BY <1>1, <1>4 DEF PendOK, Good
    <3>1. i \in Pending /\ i \in Ids
      BY <1>3 DEF Pending, TypeOK, CacheRec
    <3>2. ev[i].kind \in {"hit", "missStart"} /\ ev[i].dom = d
      BY <1>1, <3>1 DEF Good, Struct, PlacesOK, PendOK
    <3> QED  BY <1>2, <1>4, <3>1, <3>2 DEF Started, OldKept
  <2>8. HeldOK'
    <3>1. \A t \in Threads : th[t].ev = NoId /\ th[t].pc = "asleep"
      BY <1>3 DEF Asleep
    <3> QED  BY <1>4, <1>9, <3>1 DEF HeldOK
  <2>9. RecOK'
    <3> SUFFICES ASSUME NEW c \in Core
                 PROVE  /\ rec'[c].prevRespCycle <= rec'[c].curCycle
                        /\ PrevOK(c)'
                        /\ rec'[c].state = "HALTED" => rec'[c].prevRespEvent = NoId
                        /\ rec'[c].state = "RUNNING" => rec'[c].prevRespEvent # NoId
      BY <1>8 DEF RecOK
    <3>1. /\ rec[c] \in RecRec /\ rec[c].prevRespCycle <= rec[c].curCycle /\ PrevOK(c)
          /\ rec[c].state = "HALTED" => rec[c].prevRespEvent = NoId
          /\ rec[c].state = "RUNNING" => rec[c].prevRespEvent # NoId
      BY <1>1, <1>3 DEF Good, RecOK, TypeOK
    <3>2. rec'[c].prevRespCycle <= rec'[c].curCycle
      <4>1. /\ rec[c].prevRespCycle \in Nat /\ rec[c].curCycle \in Nat
        BY <3>1 DEF RecRec
      <4> QED  BY <1>10, <3>1, <4>1
    <3>3. IF rec[c].state = "RUNNING" THEN StartedPath(g, c) ELSE g.prev[c] = rec[c].prevRespEvent
      BY <1>2 DEF Started, PathsOf
    <3>4. CASE rec[c].state = "RUNNING"
      <4>1. /\ g.prev[c] \in Ids /\ ev'[g.prev[c]].kind = "core" /\ g.ev[g.prev[c]].owner = c
        BY <1>4, <3>3, <3>4 DEF StartedPath
      <4>2. g.prev[c][1] = c
        BY <1>4, <2>1, <4>1 DEF GraphOK, Struct, EventsOK
      <4>3. g.prev[c] # NoId
        BY <4>1, NoIdIs
      <4>4. PrevOK(c)'
        BY <1>10, <2>3, <4>1, <4>2 DEF PrevOK
      <4> QED  BY <1>10, <3>2, <3>4, <4>3, <4>4
    <3>5. CASE rec[c].state # "RUNNING"
      <4> DEFINE i == rec[c].prevRespEvent
      <4>1. rec'[c].prevRespEvent = i /\ rec'[c].state = rec[c].state
        BY <1>10, <3>3, <3>5
      <4>2. i # NoId => i \in Ids /\ i[1] = c /\ ev[i].kind = "core"
        <5>1. rec[c].state \in {"HALTED", "RUNNING", "DRAINING"} /\ i \in MaybeId
          BY <3>1 DEF RecRec
        <5> QED  BY <3>1, <3>5, <5>1 DEF PrevOK, MaybeId
      <4>3. i # NoId => ev'[i].kind = "core"
        BY <1>2, <1>4, <4>2 DEF Started, OldKept
      <4> HIDE DEF i
      <4>4. PrevOK(c)'
        BY <2>3, <4>1, <4>2, <4>3 DEF PrevOK
      <4> QED  BY <3>1, <3>2, <3>5, <4>1, <4>4 DEF i
    <3> QED  BY <3>4, <3>5
  <2>10. \A t \in Threads' : LocalOK(t)'
    <3> SUFFICES ASSUME NEW t \in Threads
                 PROVE  LocalOK(t)'
      BY <1>3, <1>4, <1>9 DEF Threads
    <3>1. th'[t] = Asleep /\ th[t] = Asleep
      BY <1>1, <1>3, <1>4, <1>9
    <3>2. Asleep.pc = "asleep" /\ Asleep.stalled = <<>> /\ Asleep.nextStalled = <<>>
          /\ Asleep.domPq = {}
      BY DEF Asleep
    <3>3. NoneStalled(th'[t]) /\ Tidy(t, th[t])'
      BY <3>1, <3>2 DEF NoneStalled, Tidy, Alone
    <3> QED  BY <3>1, <3>2, <3>3 DEF LocalOK
  <2>11. CountOK'
    <3>1. Slept' = {}
      BY <1>8, <1>9 DEF Slept
    <3>2. sim.threadsDone = 0 /\ ~sim.waitOpen
      BY <1>1 DEF Good, CountOK
    <3> QED  BY <1>8, <3>1, <3>2, FS_EmptySet DEF CountOK
  <2>12. DomainsOK'
    <3> SUFFICES ASSUME NEW d \in Domain PROVE \E t \in Threads : d \in Works(t)'
      BY <1>8, <1>9 DEF DomainsOK
    <3> DEFINE n == sim.numSimThreads
    <3>1. /\ n \in Nat \ {0} /\ numDomains \in Nat \ {0} /\ numDomains % n = 0
          /\ d \in 0 .. numDomains - 1
      BY <1>3, <1>6, CSimAssumption DEF TypeOK, SimRec, Domain
    <3> HIDE DEF n
    <3>2. PICK t \in 0 .. n - 1 : d \in t * (numDomains \div n) .. (t + 1) * (numDomains \div n) - 1
      BY <3>1, DomainsCovered
    <3>3. t \in Threads
      BY <3>2 DEF Threads, n
    <3>4. d \in DomainsOf(t)'
      BY <1>8, <3>2 DEF DomainsOf, n
    <3>5. th'[t].pc = "asleep" /\ t \in sim'.woken
      BY <1>3, <1>4, <1>8, <3>3 DEF Asleep
    <3> QED  BY <3>3, <3>4, <3>5 DEF Works
  <2>13. SlabsOK'
    BY <1>1, <1>4, SlabsBuilt
  <2> QED  BY <1>9, <2>2, <2>4, <2>5, <2>6, <2>7, <2>8, <2>9, <2>10, <2>11, <2>12, <2>13 DEF Good
<1> QED  BY <1>5, <1>12 DEF Inv

\* The recorder of a core when the weave phase ends, with its delay
EndedRec(r, k) ==
  [r EXCEPT !.curCycle = @ + k, !.gapCycles = @ + k, !.prevRespCycle = @ + k,
            !.state = IF r.prevRespEvent = NoId THEN "HALTED" ELSE @]

\* Its fields
LEMMA EndedRecIs ==
  ASSUME NEW r \in RecRec, NEW k \in Nat
  PROVE  LET s == EndedRec(r, k) IN
         /\ s \in RecRec /\ s.prevRespEvent = r.prevRespEvent
         /\ s.curCycle = r.curCycle + k /\ s.prevRespCycle = r.prevRespCycle + k
         /\ s.state = IF r.prevRespEvent = NoId THEN "HALTED" ELSE r.state
<1> DEFINE s == EndedRec(r, k)
<1>1. /\ r.curCycle + k \in Nat /\ r.gapCycles + k \in Nat /\ r.prevRespCycle + k \in Nat
  BY DEF RecRec
<1>2. s \in RecRec
  BY <1>1 DEF EndedRec, RecRec
<1>3. /\ s.prevRespEvent = r.prevRespEvent
      /\ s.curCycle = r.curCycle + k /\ s.prevRespCycle = r.prevRespCycle + k
      /\ s.state = IF r.prevRespEvent = NoId THEN "HALTED" ELSE r.state
  BY DEF EndedRec, RecRec
<1> QED  BY <1>2, <1>3

\* simulatePhase, once the last thread has opened waitLock
LEMMA EndWeaveInv ==
  ASSUME Inv, EndWeave
  PROVE  Inv'
<1>1. /\ Good /\ sim.inCSim /\ sim.waitOpen
      /\ rec' = [c \in Core |-> CSimEnd(c)]
      /\ fault' = \E c \in Core : CSimEndFails(c)
      /\ sim' = [sim EXCEPT !.inCSim = FALSE, !.waitOpen = FALSE, !.lastLimit = sim.limit]
      /\ UNCHANGED <<ev, pq, live, slab, halves, curCycle, cache, lastCrossing, th>>
  BY DEF EndWeave, graphVars, Inv
<1>2. TypeOK /\ pq \in [Domain -> Ordered]
  BY <1>1 DEF Good, TypeOK
<1>3. /\ sim' \in SimRec /\ ~sim'.inCSim /\ ~sim'.waitOpen /\ sim'.lastLimit = sim.limit
      /\ sim'.limit = sim.limit /\ sim'.threadsDone = sim.threadsDone
      /\ sim'.numSimThreads = sim.numSimThreads /\ sim'.woken = sim.woken
  BY <1>1, <1>2 DEF TypeOK, SimRec
<1>4. Threads' = Threads
  BY <1>3 DEF Threads
<1>5. /\ Slept = Threads /\ sim.threadsDone = 0
      /\ \A t \in Threads : th[t] = Asleep /\ t \notin sim.woken
  BY <1>1 DEF Good, CountOK, Slept, LocalOK
<1>6. sim.woken = {}
  BY <1>2, <1>5 DEF TypeOK
<1>7. Held = {} /\ ToldIds = {}
  BY <1>5 DEF Held, ToldIds, Asleep
<1>8. ASSUME ~fault' PROVE Good'
  <2>1. \A c \in Core : rec[c].state # "HALTED" => SkewOf(c) \in Nat
    <3> SUFFICES ASSUME NEW c \in Core, rec[c].state # "HALTED" PROVE SkewOf(c) \in Nat
      OBVIOUS
    <3>1. ~(SkewOf(c) < 0)
      BY <1>1, <1>8 DEF CSimEndFails
    <3>2. rec[c].lastStart \in Int /\ rec[c].lastOrig \in Int /\ rec[c].gapCycles \in Int
      BY <1>2 DEF TypeOK, RecRec
    <3> QED  BY <3>1, <3>2 DEF SkewOf
  <2>2. \A c \in Core :
          /\ rec'[c] \in RecRec /\ rec'[c].prevRespEvent = rec[c].prevRespEvent
          /\ rec'[c].prevRespCycle <= rec'[c].curCycle
          /\ rec'[c].state = IF rec[c].prevRespEvent = NoId THEN "HALTED" ELSE rec[c].state
    <3> SUFFICES ASSUME NEW c \in Core
        PROVE  /\ rec'[c] \in RecRec /\ rec'[c].prevRespEvent = rec[c].prevRespEvent
               /\ rec'[c].prevRespCycle <= rec'[c].curCycle
               /\ rec'[c].state = IF rec[c].prevRespEvent = NoId THEN "HALTED" ELSE rec[c].state
      OBVIOUS
    <3>1. /\ rec[c] \in RecRec /\ rec[c].prevRespCycle <= rec[c].curCycle
          /\ rec[c].state = "HALTED" => rec[c].prevRespEvent = NoId
      BY <1>1, <1>2 DEF TypeOK, Good, RecOK
    <3>2. CASE rec[c].state = "HALTED"
      <4>1. rec'[c] = rec[c]
        BY <1>1, <3>2 DEF CSimEnd
      <4> QED  BY <3>1, <3>2, <4>1
    <3>3. CASE rec[c].state # "HALTED"
      <4> DEFINE k == SkewOf(c)
                 r == rec[c]
      <4>1. k \in Nat /\ rec'[c] = EndedRec(r, k)
        BY <1>1, <2>1, <3>3 DEF CSimEnd, EndedRec
      <4>2. r \in RecRec /\ r.prevRespCycle <= r.curCycle
        BY <3>1
      <4> HIDE DEF k, r
      <4>3. LET u == EndedRec(r, k) IN
            /\ u \in RecRec /\ u.prevRespEvent = r.prevRespEvent
            /\ u.curCycle = r.curCycle + k /\ u.prevRespCycle = r.prevRespCycle + k
            /\ u.state = IF r.prevRespEvent = NoId THEN "HALTED" ELSE r.state
        BY <4>1, <4>2, EndedRecIs
      <4>4. r.curCycle \in Nat /\ r.prevRespCycle \in Nat
        BY <4>2 DEF RecRec
      <4> QED  BY <4>1, <4>2, <4>3, <4>4 DEF r
    <3> QED  BY <3>2, <3>3
  <2>3. rec' \in [Core -> RecRec]
    BY <1>1, <2>2
  <2>4. TypeOK'
    BY <1>1, <1>2, <1>3, <1>4, <2>3 DEF TypeOK
  <2>5. Held' = Held /\ ToldIds' = ToldIds /\ Pending' = Pending /\ Horizon' = Horizon
    BY <1>1, <1>3, <1>4 DEF Held, ToldIds, Pending, Horizon
  <2>6. /\ Struct(ev', pq', Pending', Held', ToldIds', {}) /\ Counted(ev', live', halves')
        /\ LastOK(ev', lastCrossing', Horizon') /\ PendOK'
    BY <1>1, <2>5 DEF Good, PendOK
  <2>7. HeldOK'
    BY <1>1, <1>4, <1>5 DEF HeldOK, Asleep
  <2>8. RecOK'
    <3> SUFFICES ASSUME NEW c \in Core
                 PROVE  /\ PrevOK(c)'
                        /\ rec'[c].state = "HALTED" => rec'[c].prevRespEvent = NoId
                        /\ rec'[c].state \in {"RUNNING", "DRAINING"} => rec'[c].prevRespEvent # NoId
      BY <2>2 DEF RecOK
    <3>1. PrevOK(c) /\ (rec[c].state = "HALTED" => rec[c].prevRespEvent = NoId)
      BY <1>1 DEF Good, RecOK
    <3>2. PrevOK(c)'
      BY <1>1, <2>2, <2>5, <3>1 DEF PrevOK
    <3> QED  BY <2>2, <3>1, <3>2
  <2>9. \A t \in Threads' : LocalOK(t)'
    <3> SUFFICES ASSUME NEW t \in Threads
                 PROVE  LocalOK(t)'
      BY <1>3, <1>4
    <3>1. th'[t] = Asleep
      BY <1>1, <1>5
    <3>2. Asleep.pc = "asleep" /\ Asleep.stalled = <<>> /\ Asleep.nextStalled = <<>>
          /\ Asleep.domPq = {}
      BY DEF Asleep
    <3>3. NoneStalled(th'[t]) /\ Tidy(t, th[t])'
      BY <3>1, <3>2 DEF NoneStalled, Tidy, Alone
    <3> QED  BY <3>1, <3>2, <3>3 DEF LocalOK
  <2>10. CountOK'
    BY <1>3, <1>5, <1>6 DEF CountOK
  <2>11. DomainsOK'
    <3>1. \A t \in Threads : Works(t) = {}
      BY <1>5 DEF Works, Asleep
    <3>2. \A d \in Domain : Over(d, sim.limit)
      BY <1>1, <3>1 DEF Good, DomainsOK
    <3> QED  BY <1>1, <1>3, <3>2 DEF DomainsOK, Over
  <2>12. SlabsOK'
    BY <1>1 DEF Good, SlabsOK
  <2> QED  BY <2>4, <2>6, <2>7, <2>8, <2>9, <2>10, <2>11, <2>12 DEF Good
<1> QED  BY <1>1, <1>2, <1>8 DEF Inv
=============================================================================
