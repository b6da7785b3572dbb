-------------------------- MODULE PrioQueueProofs ---------------------------
(***************************************************************************)
(* The ring and the map of PrioQueue, for every size of the ring and of    *)
(* its blocks: no event is lost or moved to another cycle when a block is  *)
(* left or far events come into the ring, the first cycle is the least of  *)
(* all, and the queue as a whole implements CycleQueue.                    *)
(*                                                                         *)
(* The rounds of the loop of dequeue are steps of their own here, so that  *)
(* how many of them a dequeue needs does not matter.                       *)
(***************************************************************************)
EXTENDS PrioQueue, TLAPS, FiniteSetTheorems, WellFoundedInduction

CONSTANT Member

VARIABLE queue

\* enqueue
PutEvent ==
  \E e \in Member, cycle \in Nat :
    MayEnqueue(queue, cycle) /\ queue' = Enqueue(queue, e, cycle)

\* One round of the loop of dequeue, on a queue that is not empty
GoOn ==
  /\ ~QueueEmpty(queue) /\ ~Occupied(queue)
  /\ queue' = Advanced(queue, 1)

\* The rest of dequeue
TakeEvent ==
  /\ Occupied(queue)
  /\ \E e \in Firsts(queue) : queue' = Removed(queue, e)

QueueSpec == queue = EmptyQueue /\ [][PutEvent \/ GoOn \/ TakeEvent]_queue

Sorted == INSTANCE CycleQueue WITH Event <- Member, entries <- Entries(queue)

Queue == [blocks: [Slots -> [Offsets -> SUBSET Member]],
          feMap: SUBSET (Nat \X Member), curBlock: Nat]

\* The inductive invariant: the map's events are as late as MapIsLater says.
QInv == queue \in Queue /\ MapIsLater(queue)

-----------------------------------------------------------------------------
(* Arithmetic of blocks and offsets                                        *)

\* Division leaves a rest.
LEMMA DivMod ==
  ASSUME NEW x \in Nat, NEW w \in Nat \ {0}
  PROVE  x \div w \in Nat /\ x % w \in 0 .. w - 1 /\ x = (x \div w) * w + (x % w)
<1>1. x \div w \in Nat
  OBVIOUS
<1>2. x % w \in 0 .. w - 1
  OBVIOUS
<1>3. x = (x \div w) * w + (x % w)
  OBVIOUS
<1> QED  BY <1>1, <1>2, <1>3

\* A block and an offset make a cycle.
LEMMA DivUnique ==
  ASSUME NEW b \in Nat, NEW w \in Nat \ {0}, NEW o \in 0 .. w - 1
  PROVE  (b * w + o) \div w = b /\ (b * w + o) % w = o
OBVIOUS

\* A cycle is before a block when its own block is.
LEMMA DivLess ==
  ASSUME NEW x \in Nat, NEW w \in Nat \ {0}, NEW k \in Nat
  PROVE  x < k * w <=> x \div w < k
OBVIOUS

\* Two different blocks are at least one block apart.
LEMMA OneApart ==
  ASSUME NEW w \in Nat \ {0}, NEW x \in Int, NEW y \in Int, x < y
  PROVE  x * w + w <= y * w
<1>1. (x + 1) * w <= y * w
  OBVIOUS
<1>2. (x + 1) * w = x * w + w
  OBVIOUS
<1> QED  BY <1>1, <1>2

\* Of two numbers with the same rest, the greater one is at least w greater.
LEMMA SameRest ==
  ASSUME NEW w \in Nat \ {0}, NEW x \in Nat, NEW y \in Nat, x % w = y % w, x < y
  PROVE  x + w <= y
<1>1. x \div w \in Nat /\ x % w \in 0 .. w - 1 /\ x = (x \div w) * w + (x % w)
  BY DivMod
<1>2. y \div w \in Nat /\ y % w \in 0 .. w - 1 /\ y = (y \div w) * w + (y % w)
  BY DivMod
<1>3. (x \div w) * w \in Nat /\ (y \div w) * w \in Nat
  BY <1>1, <1>2
<1>4. x \div w < y \div w
  <2>1. CASE x \div w = y \div w
    BY <2>1, <1>1, <1>2
  <2>2. CASE y \div w < x \div w
    <3>1. (y \div w) * w + w <= (x \div w) * w
      BY <2>2, <1>1, <1>2, OneApart
    <3> QED  BY <3>1, <1>1, <1>2, <1>3
  <2> QED  BY <2>1, <2>2, <1>1, <1>2
<1>5. (x \div w) * w + w <= (y \div w) * w
  BY <1>4, <1>1, <1>2, OneApart
<1> QED  BY <1>5, <1>1, <1>2, <1>3

\* The ring has every block of its window in a slot of its own.
LEMMA SlotUnique ==
  ASSUME NEW w \in Nat \ {0}, NEW c \in Nat, NEW x \in c .. c + w - 1,
         NEW y \in c .. c + w - 1, x % w = y % w
  PROVE  x = y
<1> x \in Nat /\ y \in Nat
  OBVIOUS
<1>1. CASE x < y
  <2>1. x + w <= y
    BY <1>1, SameRest
  <2> QED  BY <2>1
<1>2. CASE y < x
  <2>1. y + w <= x
    BY <1>2, SameRest
  <2> QED  BY <2>1
<1> QED  BY <1>1, <1>2

\* The block after the window takes the slot of its first one.
LEMMA SlotReused ==
  ASSUME NEW w \in Nat \ {0}, NEW c \in Nat
  PROVE  (c + w) % w = c % w
<1>1. c % w \in 0 .. w - 1 /\ c \div w \in Nat /\ c = (c \div w) * w + (c % w)
  BY DivMod
<1>2. c + w = (c \div w + 1) * w + (c % w)
  BY <1>1
<1>3. c \div w + 1 \in Nat
  BY <1>1
<1>4. ((c \div w + 1) * w + (c % w)) % w = c % w
  BY <1>1, <1>3, DivUnique
<1> QED  BY <1>2, <1>4

\* A nonempty set of natural numbers has a least one.
LEMMA LeastIs ==
  ASSUME NEW S \in SUBSET Nat, S # {}
  PROVE  Least(S) \in S /\ \A y \in S : Least(S) <= y
<1> DEFINE R == {ss \in Nat \X Nat : ss[1] < ss[2]}
<1>1. IsWellFoundedOn(R, Nat)
  BY NatLessThanWellFounded, Zenon DEF OpToRel
<1>2. PICK x \in S : \A y \in S : ~(<<y, x>> \in R)
  <2> HIDE DEF R
  <2> QED  BY <1>1, WFMin
<1>3. \A y \in S : x <= y
  <2> SUFFICES ASSUME NEW y \in S PROVE x <= y
    OBVIOUS
  <2>1. ~(<<y, x>> \in R)
    BY <1>2
  <2> QED  BY <2>1
<1> QED  BY <1>3 DEF Least

\* ... and only one.
LEMMA LeastUnique ==
  ASSUME NEW S \in SUBSET Nat, NEW x \in S, \A y \in S : x <= y
  PROVE  Least(S) = x
<1>1. Least(S) \in S /\ \A y \in S : Least(S) <= y
  BY LeastIs
<1>2. Least(S) \in Nat /\ x \in Nat
  BY <1>1
<1> QED  BY <1>1, <1>2

\* The ring has an even number of blocks.
LEMMA Halves == Half \in Nat \ {0} /\ B = 2 * Half
BY PQAssumption DEF Half

\* The last multiple of half the ring
Mark(c) == (c \div Half) * Half

\* ... is less than half a ring ago,
LEMMA MarkNear ==
  ASSUME NEW c \in Nat
  PROVE  Mark(c) \in Nat /\ Mark(c) <= c /\ c < Mark(c) + Half
<1>1. c \div Half \in Nat /\ c % Half \in 0 .. Half - 1 /\ c = (c \div Half) * Half + (c % Half)
  BY DivMod, Halves
<1>2. (c \div Half) * Half \in Nat
  BY <1>1, Halves
<1> QED  BY <1>1, <1>2, Halves DEF Mark

\* ... and it only changes at a multiple.
LEMMA MarkStep ==
  ASSUME NEW c \in Nat
  PROVE  Mark(c + 1) = IF (c + 1) % Half = 0 THEN c + 1 ELSE Mark(c)
<1>1. c + 1 \in Nat /\ Half \in Nat \ {0}
  BY Halves
<1>2. (c + 1) \div Half \in Nat /\ (c + 1) % Half \in 0 .. Half - 1
      /\ c + 1 = Mark(c + 1) + ((c + 1) % Half)
  BY <1>1, DivMod DEF Mark
<1>3. CASE (c + 1) % Half = 0
  BY <1>2, <1>3, <1>1, MarkNear
<1>4. CASE (c + 1) % Half # 0
  <2>1. c = ((c + 1) \div Half) * Half + (((c + 1) % Half) - 1)
    <3>1. Mark(c + 1) \in Nat
      BY <1>1, MarkNear
    <3> QED  BY <1>2, <1>1, <3>1 DEF Mark
  <2>2. ((c + 1) % Half) - 1 \in 0 .. Half - 1
    BY <1>2, <1>4, <1>1
  <2>3. (((c + 1) \div Half) * Half + (((c + 1) % Half) - 1)) \div Half = (c + 1) \div Half
    BY <2>2, <1>2, <1>1, DivUnique
  <2> QED  BY <2>1, <2>3, <1>4 DEF Mark
<1> QED  BY <1>3, <1>4

-----------------------------------------------------------------------------
(* What is in a queue                                                      *)

\* Member e is in the ring at a cycle.
InRing(q, cycle, e) ==
  /\ Block(cycle) \in q.curBlock .. q.curBlock + B - 1
  /\ e \in q.blocks[Block(cycle) % B][cycle % W]

\* The block and the offset of a cycle index the ring.
LEMMA CyclePlace ==
  ASSUME NEW cycle \in Nat
  PROVE  /\ Block(cycle) \in Nat /\ Block(cycle) % B \in Slots /\ cycle % W \in Offsets
         /\ cycle = Block(cycle) * W + (cycle % W)
<1>1. Block(cycle) \in Nat /\ cycle % W \in Offsets
      /\ cycle = Block(cycle) * W + (cycle % W)
  BY DivMod, PQAssumption DEF Block, Offsets
<1>2. Block(cycle) % B \in Slots
  BY <1>1, DivMod, PQAssumption DEF Slots
<1> QED  BY <1>1, <1>2

\* What is in the ring of a block is at one of its cycles.
LEMMA InRingEntries ==
  ASSUME NEW q \in Queue, NEW b \in Nat, NEW p
  PROVE  p \in RingEntries(q, b) <=>
           /\ p = <<p[1], p[2]>> /\ p[1] \in Nat /\ p[2] \in Member
           /\ Block(p[1]) = b /\ p[2] \in q.blocks[b % B][p[1] % W]
<1>0. b % B \in Slots /\ W \in Nat \ {0}
  BY DivMod, PQAssumption DEF Slots
<1>1. ASSUME p \in RingEntries(q, b)
      PROVE  /\ p = <<p[1], p[2]>> /\ p[1] \in Nat /\ p[2] \in Member
             /\ Block(p[1]) = b /\ p[2] \in q.blocks[b % B][p[1] % W]
  <2>1. PICK o \in Offsets : \E e \in q.blocks[b % B][o] : p = <<b * W + o, e>>
    BY <1>1 DEF RingEntries
  <2>2. PICK e \in q.blocks[b % B][o] : p = <<b * W + o, e>>
    BY <2>1
  <2>3. (b * W + o) \div W = b /\ (b * W + o) % W = o
    BY DivUnique, <1>0 DEF Offsets
  <2>4. b * W + o \in Nat
    BY <1>0 DEF Offsets
  <2>5. e \in Member
    BY <2>2, <1>0 DEF Queue
  <2>6. p[1] = b * W + o /\ p[2] = e
    BY <2>2
  <2> QED  BY <2>2, <2>3, <2>4, <2>5, <2>6 DEF Block
<1>2. ASSUME p = <<p[1], p[2]>>, p[1] \in Nat, p[2] \in Member, Block(p[1]) = b,
             p[2] \in q.blocks[b % B][p[1] % W]
      PROVE  p \in RingEntries(q, b)
  <2>1. p[1] % W \in Offsets /\ p[1] = b * W + (p[1] % W)
    BY <1>2, CyclePlace
  <2>2. p = <<b * W + (p[1] % W), p[2]>>
    BY <1>2, <2>1
  <2> QED  BY <1>2, <2>1, <2>2 DEF RingEntries
<1> QED  BY <1>1, <1>2

\* An entry is in the map or in the window of the ring.
LEMMA InEntries ==
  ASSUME NEW q \in Queue, NEW p
  PROVE  p \in Entries(q) <=>
           /\ p = <<p[1], p[2]>> /\ p[1] \in Nat /\ p[2] \in Member
           /\ p \in q.feMap \/ InRing(q, p[1], p[2])
<1>1. \A b \in q.curBlock .. q.curBlock + B - 1 : b \in Nat
  BY PQAssumption DEF Queue
<1>2. p \in q.feMap => p = <<p[1], p[2]>> /\ p[1] \in Nat /\ p[2] \in Member
  BY DEF Queue
<1>3. p \in Entries(q) <=>
        p \in q.feMap \/ \E b \in q.curBlock .. q.curBlock + B - 1 : p \in RingEntries(q, b)
  BY DEF Entries
<1>4. (\E b \in q.curBlock .. q.curBlock + B - 1 : p \in RingEntries(q, b)) <=>
        p = <<p[1], p[2]>> /\ p[1] \in Nat /\ p[2] \in Member /\ InRing(q, p[1], p[2])
  <2>1. ASSUME NEW b \in q.curBlock .. q.curBlock + B - 1, p \in RingEntries(q, b)
        PROVE  p = <<p[1], p[2]>> /\ p[1] \in Nat /\ p[2] \in Member /\ InRing(q, p[1], p[2])
    BY <1>1, <2>1, InRingEntries DEF InRing
  <2>2. ASSUME p = <<p[1], p[2]>>, p[1] \in Nat, p[2] \in Member, InRing(q, p[1], p[2])
        PROVE  \E b \in q.curBlock .. q.curBlock + B - 1 : p \in RingEntries(q, b)
    <3>1. Block(p[1]) \in q.curBlock .. q.curBlock + B - 1
      BY <2>2 DEF InRing
    <3>2. p \in RingEntries(q, Block(p[1]))
      BY <2>2, <3>1, <1>1, InRingEntries DEF InRing
    <3> QED  BY <3>1, <3>2
  <2> QED  BY <2>1, <2>2
<1> QED  BY <1>2, <1>3, <1>4

-----------------------------------------------------------------------------
(* enqueue                                                                 *)

\* An event that is put in the queue is in it at its cycle, and nothing else
\* changes.
LEMMA PutAdds ==
  ASSUME NEW q \in Queue, NEW e \in Member, NEW cycle \in Nat, MayEnqueue(q, cycle)
  PROVE  LET n == Enqueue(q, e, cycle) IN
         /\ n \in Queue
         /\ Entries(n) = Entries(q) \cup {<<cycle, e>>}
         /\ MapIsLater(q) => MapIsLater(n)
<1> DEFINE n == Enqueue(q, e, cycle)
<1>0. /\ Block(cycle) \in Nat /\ Block(cycle) % B \in Slots /\ cycle % W \in Offsets
      /\ cycle = Block(cycle) * W + (cycle % W) /\ q.curBlock \in Nat /\ B \in Nat \ {0}
  BY CyclePlace, PQAssumption DEF Queue
<1>1. CASE Block(cycle) < q.curBlock + B
  <2>1. n = [q EXCEPT !.blocks[Block(cycle) % B][cycle % W] = @ \cup {e}]
    BY <1>1 DEF Enqueue
  <2>2. n \in Queue /\ n.feMap = q.feMap /\ n.curBlock = q.curBlock
    <3> DEFINE blocks == [q.blocks EXCEPT ![Block(cycle) % B][cycle % W] = @ \cup {e}]
    <3>1. q.blocks \in [Slots -> [Offsets -> SUBSET Member]]
      BY DEF Queue
    <3>2. blocks \in [Slots -> [Offsets -> SUBSET Member]]
      BY <3>1, <1>0
    <3>3. n = [q EXCEPT !.blocks = blocks]
      BY <2>1
    <3> HIDE DEF blocks, n
    <3> QED  BY <3>2, <3>3 DEF Queue
  <2>3. ASSUME NEW c \in Nat, NEW f \in Member
        PROVE  InRing(n, c, f) <=> InRing(q, c, f) \/ <<c, f>> = <<cycle, e>>
    <3>0. /\ Block(c) \in Nat /\ Block(c) % B \in Slots /\ c % W \in Offsets
          /\ c = Block(c) * W + (c % W)
      BY CyclePlace
    <3>1. f \in n.blocks[Block(c) % B][c % W] <=>
            \/ f \in q.blocks[Block(c) % B][c % W]
            \/ Block(c) % B = Block(cycle) % B /\ c % W = cycle % W /\ f = e
      BY <2>1, <1>0, <3>0 DEF Queue
    <3>2. Block(cycle) \in q.curBlock .. q.curBlock + B - 1
      BY <1>0, <1>1 DEF MayEnqueue
    <3>3. ASSUME Block(c) \in q.curBlock .. q.curBlock + B - 1,
                 Block(c) % B = Block(cycle) % B, c % W = cycle % W
          PROVE  c = cycle
      <4>1. Block(c) = Block(cycle)
        BY <1>0, <3>2, <3>3, SlotUnique
      <4> QED  BY <4>1, <3>0, <1>0, <3>3
    <3> QED  BY <2>2, <3>1, <3>2, <3>3 DEF InRing
  <2>4. ASSUME NEW p
        PROVE  p \in Entries(n) <=> p \in Entries(q) \cup {<<cycle, e>>}
    <3>1. p = <<p[1], p[2]>> /\ p[1] \in Nat /\ p[2] \in Member =>
            (InRing(n, p[1], p[2]) <=> InRing(q, p[1], p[2]) \/ p = <<cycle, e>>)
      BY <2>3
    <3> QED  BY <3>1, <2>2, InEntries
  <2>5. Entries(n) = Entries(q) \cup {<<cycle, e>>}
    BY <2>4
  <2> QED  BY <2>2, <2>5 DEF MapIsLater
<1>2. CASE ~(Block(cycle) < q.curBlock + B)
  <2>1. n = [q EXCEPT !.feMap = @ \cup {<<cycle, e>>}]
    BY <1>2 DEF Enqueue
  <2>2. /\ n \in Queue /\ n.feMap = q.feMap \cup {<<cycle, e>>}
        /\ n.curBlock = q.curBlock /\ n.blocks = q.blocks
    BY <2>1 DEF Queue
  <2>3. ASSUME NEW p
        PROVE  p \in Entries(n) <=> p \in Entries(q) \cup {<<cycle, e>>}
    BY <2>2, InEntries DEF InRing
  <2>4. Entries(n) = Entries(q) \cup {<<cycle, e>>}
    BY <2>3
  <2>5. MapIsLater(q) => MapIsLater(n)
    <3>1. Mark(q.curBlock) <= q.curBlock /\ Mark(q.curBlock) \in Nat
      BY <1>0, MarkNear
    <3>2. Block(cycle) >= Mark(q.curBlock) + B
      BY <1>2, <1>0, <3>1
    <3> QED  BY <2>2, <3>2 DEF MapIsLater, Mark
  <2> QED  BY <2>2, <2>4, <2>5
<1> QED  BY <1>1, <1>2

-----------------------------------------------------------------------------
(* A round of the loop of dequeue                                          *)

\* The events that come are in the window of the new block.
LEMMA ComingPlace ==
  ASSUME NEW q \in Queue, MapIsLater(q), NEW r \in Coming(q, q.curBlock + 1)
  PROVE  /\ r \in q.feMap /\ r = <<r[1], r[2]>> /\ r[1] \in Nat /\ r[2] \in Member
         /\ Block(r[1]) \in q.curBlock + 1 .. q.curBlock + B
<1>1. q.curBlock \in Nat /\ B \in Nat \ {0} /\ W \in Nat \ {0}
  BY PQAssumption DEF Queue
<1>2. r \in q.feMap /\ r[1] < (q.curBlock + 1 + B) * W
  BY DEF Coming
<1>3. r = <<r[1], r[2]>> /\ r[1] \in Nat /\ r[2] \in Member
  BY <1>2 DEF Queue
<1>4. Block(r[1]) < q.curBlock + 1 + B
  BY <1>1, <1>2, <1>3, DivLess DEF Block
<1>5. Block(r[1]) >= Mark(q.curBlock) + B
  BY <1>2 DEF MapIsLater, Mark
<1>6. q.curBlock < Mark(q.curBlock) + Half /\ Mark(q.curBlock) \in Nat
  BY <1>1, MarkNear
<1>7. Block(r[1]) \in Nat
  BY <1>3, CyclePlace
<1> QED  BY <1>1, <1>2, <1>3, <1>4, <1>5, <1>6, <1>7, Halves

\* One round in plain terms
LEMMA OneRound ==
  ASSUME NEW q \in Queue
  PROVE  LET n == Advanced(q, 1)  coming == Coming(q, q.curBlock + 1) IN
         /\ n \in Queue
         /\ n.curBlock = q.curBlock + 1 /\ n.feMap = q.feMap \ coming
         /\ \A i \in Slots, o \in Offsets, e \in Member :
              e \in n.blocks[i][o] <=>
                \/ e \in q.blocks[i][o]
                \/ \E r \in coming : r[2] = e /\ Block(r[1]) % B = i /\ r[1] % W = o
<1> DEFINE n == Advanced(q, 1)
           coming == Coming(q, q.curBlock + 1)
           blocks == [i \in Slots |-> [o \in Offsets |->
                        q.blocks[i][o] \cup
                        {p[2] : p \in {r \in coming : Block(r[1]) % B = i /\ r[1] % W = o}}]]
<1>1. q.curBlock \in Nat
  BY DEF Queue
<1>2. UNION {Coming(q, b) : b \in q.curBlock + 1 .. q.curBlock + 1} = coming
  <2>1. q.curBlock + 1 .. q.curBlock + 1 = {q.curBlock + 1}
    BY <1>1
  <2> QED  BY <2>1
<1>3. n = [blocks |-> blocks, feMap |-> q.feMap \ coming, curBlock |-> q.curBlock + 1]
  BY <1>2 DEF Advanced
<1>4. coming \subseteq q.feMap
  BY DEF Coming
<1>5. \A r \in coming : r[2] \in Member
  BY <1>4 DEF Queue
<1> HIDE DEF coming
<1>6. blocks \in [Slots -> [Offsets -> SUBSET Member]]
  <2> SUFFICES ASSUME NEW i \in Slots, NEW o \in Offsets PROVE blocks[i][o] \in SUBSET Member
    OBVIOUS
  <2> QED  BY <1>5 DEF Queue
<1>7. n \in Queue
  <2>1. q.feMap \ coming \in SUBSET (Nat \X Member) /\ q.curBlock + 1 \in Nat
    BY <1>1 DEF Queue
  <2> HIDE DEF blocks
  <2> QED  BY <2>1, <1>3, <1>6 DEF Queue
<1>8. ASSUME NEW i \in Slots, NEW o \in Offsets, NEW e \in Member
      PROVE  e \in n.blocks[i][o] <=>
               \/ e \in q.blocks[i][o]
               \/ \E r \in coming : r[2] = e /\ Block(r[1]) % B = i /\ r[1] % W = o
  BY <1>3
<1> QED  BY <1>3, <1>7, <1>8 DEF coming

\* When the loop leaves an empty block, every event keeps its cycle.
LEMMA RoundKeeps ==
  ASSUME NEW q \in Queue, MapIsLater(q), ~Occupied(q)
  PROVE  LET n == Advanced(q, 1) IN
         n \in Queue /\ Entries(n) = Entries(q) /\ MapIsLater(n)
<1> DEFINE n == Advanced(q, 1)
           coming == Coming(q, q.curBlock + 1)
<1>1. /\ n \in Queue
      /\ n.curBlock = q.curBlock + 1 /\ n.feMap = q.feMap \ coming
      /\ \A i \in Slots, o \in Offsets, e \in Member :
           e \in n.blocks[i][o] <=>
             \/ e \in q.blocks[i][o]
             \/ \E r \in coming : r[2] = e /\ Block(r[1]) % B = i /\ r[1] % W = o
  BY OneRound
<1>2. q.curBlock \in Nat /\ B \in Nat \ {0}
  BY PQAssumption DEF Queue
<1>3. \A r \in coming : /\ r \in q.feMap /\ r = <<r[1], r[2]>> /\ r[1] \in Nat
                        /\ r[2] \in Member
                        /\ Block(r[1]) \in q.curBlock + 1 .. q.curBlock + B
  BY ComingPlace
<1> HIDE DEF n, coming
<1>4. ASSUME NEW o \in Offsets
      PROVE  q.blocks[q.curBlock % B][o] = {}
  BY DEF Occupied, SlotOccupied
<1>5. ASSUME NEW c \in Nat, NEW e \in Member
      PROVE  InRing(n, c, e) <=> InRing(q, c, e) \/ <<c, e>> \in coming
  <2>0. /\ Block(c) \in Nat /\ Block(c) % B \in Slots /\ c % W \in Offsets
        /\ c = Block(c) * W + (c % W)
    BY CyclePlace
  <2>1. e \in n.blocks[Block(c) % B][c % W] <=>
          \/ e \in q.blocks[Block(c) % B][c % W]
          \/ \E r \in coming : r[2] = e /\ Block(r[1]) % B = Block(c) % B /\ r[1] % W = c % W
    BY <1>1, <2>0
  <2>2. ASSUME Block(c) \in q.curBlock + 1 .. q.curBlock + B, NEW r \in coming,
               r[2] = e, Block(r[1]) % B = Block(c) % B, r[1] % W = c % W
        PROVE  r = <<c, e>>
    <3>1. r = <<r[1], r[2]>> /\ r[1] \in Nat
          /\ Block(r[1]) \in q.curBlock + 1 .. q.curBlock + B
      BY <1>3
    <3>2. q.curBlock + 1 \in Nat /\ q.curBlock + B = (q.curBlock + 1) + B - 1
      BY <1>2
    <3>3. Block(r[1]) = Block(c)
      BY <3>1, <3>2, <2>2, <1>2, SlotUnique
    <3>4. r[1] = Block(r[1]) * W + (r[1] % W)
      BY <3>1, CyclePlace
    <3>5. r[1] = c
      BY <3>3, <3>4, <2>0, <2>2
    <3> QED  BY <3>1, <3>5, <2>2
  <2>3. ASSUME <<c, e>> \in coming
        PROVE  /\ Block(c) \in q.curBlock + 1 .. q.curBlock + B
               /\ \E r \in coming : r[2] = e /\ Block(r[1]) % B = Block(c) % B
                                     /\ r[1] % W = c % W
    <3> DEFINE r == <<c, e>>
    <3>1. r \in coming /\ r[1] = c /\ r[2] = e
      BY <2>3
    <3>2. Block(r[1]) \in q.curBlock + 1 .. q.curBlock + B
      BY <1>3, <3>1
    <3> QED  BY <3>1, <3>2
  <2>4. InRing(n, c, e) <=>
          /\ Block(c) \in q.curBlock + 1 .. q.curBlock + B
          /\ e \in q.blocks[Block(c) % B][c % W] \/ <<c, e>> \in coming
    <3>1. InRing(n, c, e) <=> /\ Block(c) \in q.curBlock + 1 .. q.curBlock + B
                              /\ e \in n.blocks[Block(c) % B][c % W]
      BY <1>1, <1>2 DEF InRing
    <3> QED  BY <3>1, <2>1, <2>2, <2>3
  <2>5. ASSUME e \in q.blocks[Block(c) % B][c % W]
        PROVE  Block(c) # q.curBlock /\ Block(c) # q.curBlock + B
    <3>1. Block(c) % B # q.curBlock % B
      BY <1>4, <2>0, <2>5
    <3>2. (q.curBlock + B) % B = q.curBlock % B
      BY <1>2, SlotReused
    <3> QED  BY <3>1, <3>2
  <2>6. Block(c) \in q.curBlock + 1 .. q.curBlock + B <=>
          \/ Block(c) \in q.curBlock .. q.curBlock + B - 1 /\ Block(c) # q.curBlock
          \/ Block(c) = q.curBlock + B
    BY <1>2, <2>0
  <2> QED  BY <2>3, <2>4, <2>5, <2>6 DEF InRing
<1>6. Entries(n) = Entries(q)
  <2> SUFFICES ASSUME NEW p PROVE p \in Entries(n) <=> p \in Entries(q)
    OBVIOUS
  <2>1. p = <<p[1], p[2]>> /\ p[1] \in Nat /\ p[2] \in Member =>
          (InRing(n, p[1], p[2]) <=> InRing(q, p[1], p[2]) \/ p \in coming)
    BY <1>5
  <2>2. p \in coming => p \in q.feMap
    BY <1>3
  <2> QED  BY <1>1, <2>1, <2>2, InEntries
<1>7. MapIsLater(n)
  <2> SUFFICES ASSUME NEW p \in n.feMap PROVE Block(p[1]) >= Mark(q.curBlock + 1) + B
    BY <1>1 DEF MapIsLater, Mark
  <2>1. p \in q.feMap /\ p \notin coming /\ p[1] \in Nat
    BY <1>1 DEF Queue
  <2>2. CASE (q.curBlock + 1) % Half = 0
    <3>1. ~(p[1] < (q.curBlock + 1 + B) * W)
      BY <2>1, <2>2 DEF coming, Coming
    <3>2. q.curBlock + 1 + B \in Nat /\ W \in Nat \ {0}
      BY <1>2, PQAssumption
    <3>3. ~(Block(p[1]) < q.curBlock + 1 + B)
      BY <2>1, <3>1, <3>2, DivLess DEF Block
    <3>4. Block(p[1]) \in Nat
      BY <2>1, CyclePlace
    <3>5. Mark(q.curBlock + 1) = q.curBlock + 1
      BY <1>2, <2>2, MarkStep
    <3> QED  BY <1>2, <3>3, <3>4, <3>5
  <2>3. CASE (q.curBlock + 1) % Half # 0
    <3>1. Mark(q.curBlock + 1) = Mark(q.curBlock)
      BY <1>2, <2>3, MarkStep
    <3> QED  BY <2>1, <3>1 DEF MapIsLater, Mark
  <2> QED  BY <2>2, <2>3
<1> QED  BY <1>1, <1>6, <1>7 DEF n

-----------------------------------------------------------------------------
(* The rest of dequeue, and firstCycle                                     *)

\* Cycles are in the order of their blocks.
LEMMA BlockOrder ==
  ASSUME NEW c \in Nat, NEW d \in Nat, Block(c) < Block(d)
  PROVE  c < d
<1>1. Block(c) \in Nat /\ c = Block(c) * W + (c % W) /\ c % W \in Offsets
  BY CyclePlace
<1>2. Block(d) \in Nat /\ d = Block(d) * W + (d % W) /\ d % W \in Offsets
  BY CyclePlace
<1>3. W \in Nat \ {0}
  BY PQAssumption
<1>4. Block(c) * W + W <= Block(d) * W
  BY <1>1, <1>2, <1>3, OneApart
<1>5. Block(c) * W \in Nat /\ Block(d) * W \in Nat
  BY <1>1, <1>2, <1>3
<1> QED  BY <1>1, <1>2, <1>3, <1>4, <1>5 DEF Offsets

\* The first cycle of an occupied block has events, and no event of the block
\* is before it.
LEMMA FirstOfIs ==
  ASSUME NEW q \in Queue, NEW b \in q.curBlock .. q.curBlock + B - 1, SlotOccupied(q, b % B)
  PROVE  LET f == FirstOf(q, b) IN
         /\ f \in Nat /\ Block(f) = b /\ f % W \in Offsets
         /\ q.blocks[b % B][f % W] # {}
         /\ \A c \in Nat, e \in Member : Block(c) = b /\ InRing(q, c, e) => f <= c
<1> DEFINE offsets == {o \in Offsets : q.blocks[b % B][o] # {}}
           least == Least(offsets)
           f == FirstOf(q, b)
<1>0. b \in Nat /\ W \in Nat \ {0}
  BY PQAssumption DEF Queue
<1>1. offsets \in SUBSET Nat /\ offsets # {}
  BY DEF Offsets, SlotOccupied
<1>2. least \in offsets /\ \A o \in offsets : least <= o
  <2> HIDE DEF offsets
  <2> QED  BY <1>1, LeastIs
<1>3. f = b * W + least
  BY DEF FirstOf
<1>4. least \in Offsets /\ least \in Nat /\ b * W \in Nat
  <2>1. least \in Offsets
    BY <1>2
  <2> HIDE DEF least
  <2> QED  BY <1>0, <2>1 DEF Offsets
<1>5. f \div W = b /\ f % W = least /\ f \in Nat
  <2> HIDE DEF least, f
  <2>1. (b * W + least) \div W = b /\ (b * W + least) % W = least
    BY <1>0, <1>4, DivUnique DEF Offsets
  <2> QED  BY <1>3, <1>4, <2>1
<1>6. ASSUME NEW c \in Nat, NEW e \in Member, Block(c) = b, InRing(q, c, e)
      PROVE  f <= c
  <2>1. c = b * W + (c % W) /\ c % W \in Offsets
    BY <1>6, CyclePlace
  <2>2. c % W \in offsets
    BY <1>6, <2>1 DEF InRing
  <2>3. least <= c % W
    BY <1>2, <2>2
  <2> HIDE DEF least, f
  <2> QED  BY <1>3, <1>4, <2>1, <2>3 DEF Offsets
<1> QED  BY <1>2, <1>4, <1>5, <1>6 DEF Block

\* The map's events are beyond the first half of the ring.
LEMMA MapBeyond ==
  ASSUME NEW q \in Queue, MapIsLater(q), NEW p \in q.feMap
  PROVE  p[1] \in Nat /\ Block(p[1]) >= q.curBlock + Half
<1>1. q.curBlock \in Nat
  BY DEF Queue
<1>2. Block(p[1]) >= Mark(q.curBlock) + B
  BY DEF MapIsLater, Mark
<1>3. p[1] \in Nat
  BY DEF Queue
<1>4. Block(p[1]) \in Nat
  BY <1>3, CyclePlace
<1>5. Mark(q.curBlock) \in Nat /\ q.curBlock < Mark(q.curBlock) + Half
  BY <1>1, MarkNear
<1> QED  BY <1>1, <1>2, <1>3, <1>4, <1>5, Halves

\* The event that dequeue takes is one of the earliest, and leaves alone.
LEMMA TakeTakes ==
  ASSUME NEW q \in Queue, MapIsLater(q), Occupied(q), NEW e \in Firsts(q)
  PROVE  LET n == Removed(q, e)  p == <<DequeueCycle(q), e>> IN
         /\ n \in Queue /\ MapIsLater(n)
         /\ p \in Entries(q) /\ Entries(n) = Entries(q) \ {p}
         /\ \A r \in Entries(q) : p[1] <= r[1]
<1> DEFINE n == Removed(q, e)
           f == DequeueCycle(q)
           b == q.curBlock
<1>0. b \in Nat /\ b \in b .. b + B - 1 /\ SlotOccupied(q, b % B) /\ b % B \in Slots
  <2>1. b \in Nat /\ B \in Nat \ {0}
    BY PQAssumption DEF Queue
  <2>2. b % B \in 0 .. B - 1
    BY <2>1, DivMod
  <2> QED  BY <2>1, <2>2 DEF Occupied, Slots
<1>1. /\ f \in Nat /\ Block(f) = b /\ f % W \in Offsets
      /\ \A c \in Nat, d \in Member : Block(c) = b /\ InRing(q, c, d) => f <= c
  BY <1>0, FirstOfIs DEF DequeueCycle
<1>2. e \in q.blocks[b % B][f % W] /\ e \in Member
  BY <1>0, <1>1 DEF Firsts, Queue
<1>3. n = [q EXCEPT !.blocks[b % B][f % W] = @ \ {e}]
  BY DEF Removed
<1> HIDE DEF n, f
<1>4. n \in Queue /\ n.feMap = q.feMap /\ n.curBlock = b
  <2> DEFINE blocks == [q.blocks EXCEPT ![b % B][f % W] = @ \ {e}]
  <2>1. q.blocks \in [Slots -> [Offsets -> SUBSET Member]]
    BY DEF Queue
  <2>2. blocks \in [Slots -> [Offsets -> SUBSET Member]]
    BY <2>1, <1>0, <1>1
  <2>3. n = [q EXCEPT !.blocks = blocks]
    BY <1>3
  <2> HIDE DEF blocks
  <2> QED  BY <2>2, <2>3 DEF Queue
<1>5. MapIsLater(n)
  BY <1>4 DEF MapIsLater
<1>6. InRing(q, f, e)
  BY <1>0, <1>1, <1>2 DEF InRing
<1>7. <<f, e>> \in Entries(q)
  BY <1>1, <1>2, <1>6, InEntries
<1>8. ASSUME NEW c \in Nat, NEW d \in Member
      PROVE  InRing(n, c, d) <=> InRing(q, c, d) /\ <<c, d>> # <<f, e>>
  <2>0. /\ Block(c) \in Nat /\ Block(c) % B \in Slots /\ c % W \in Offsets
        /\ c = Block(c) * W + (c % W)
    BY CyclePlace
  <2>1. d \in n.blocks[Block(c) % B][c % W] <=>
          /\ d \in q.blocks[Block(c) % B][c % W]
          /\ ~(Block(c) % B = b % B /\ c % W = f % W /\ d = e)
    BY <1>0, <1>1, <1>3, <2>0 DEF Queue
  <2>2. ASSUME Block(c) \in b .. b + B - 1, Block(c) % B = b % B, c % W = f % W
        PROVE  c = f
    <3>1. Block(c) = b
      BY <1>0, <2>2, SlotUnique, PQAssumption
    <3>2. f = Block(f) * W + (f % W)
      BY <1>1, CyclePlace
    <3> QED  BY <3>1, <3>2, <2>0, <2>2, <1>1
  <2> QED  BY <1>1, <1>4, <2>1, <2>2 DEF InRing
<1>9. <<f, e>> \notin q.feMap
  <2> SUFFICES ASSUME <<f, e>> \in q.feMap PROVE FALSE
    OBVIOUS
  <2> DEFINE p == <<f, e>>
  <2>1. p \in q.feMap /\ p[1] = f
    OBVIOUS
  <2>2. Block(p[1]) >= b + Half
    BY <2>1, MapBeyond
  <2> QED  BY <2>1, <2>2, <1>0, <1>1, Halves
<1>10. Entries(n) = Entries(q) \ {<<f, e>>}
  <2> SUFFICES ASSUME NEW p PROVE p \in Entries(n) <=> p \in Entries(q) /\ p # <<f, e>>
    OBVIOUS
  <2>1. p = <<p[1], p[2]>> /\ p[1] \in Nat /\ p[2] \in Member =>
          (InRing(n, p[1], p[2]) <=> InRing(q, p[1], p[2]) /\ p # <<f, e>>)
    BY <1>8
  <2> QED  BY <1>4, <1>9, <2>1, InEntries
<1>11. ASSUME NEW r \in Entries(q) PROVE f <= r[1]
  <2>1. r[1] \in Nat /\ r[2] \in Member /\ (r \in q.feMap \/ InRing(q, r[1], r[2]))
    BY InEntries
  <2>2. Block(r[1]) \in Nat
    BY <2>1, CyclePlace
  <2>3. CASE Block(r[1]) > b
    <3>1. f < r[1]
      BY <1>1, <2>1, <2>3, <2>2, <1>0, BlockOrder
    <3> QED  BY <3>1, <1>1, <2>1
  <2>4. CASE r \in q.feMap
    <3>1. Block(r[1]) > b
      BY <2>4, <2>2, <1>0, MapBeyond, Halves
    <3> QED  BY <3>1, <2>3
  <2>5. CASE InRing(q, r[1], r[2]) /\ ~(Block(r[1]) > b)
    <3>1. Block(r[1]) = b
      BY <2>5, <2>2, <1>0 DEF InRing
    <3> QED  BY <3>1, <2>1, <2>5, <1>1
  <2> QED  BY <2>1, <2>3, <2>4, <2>5
<1> QED  BY <1>4, <1>5, <1>7, <1>10, <1>11 DEF n, f

\* The first cycle of the first occupied block is the least of the ring.
LEMMA RingFirst ==
  ASSUME NEW q \in Queue, NEW b \in q.curBlock .. q.curBlock + B - 1, SlotOccupied(q, b % B),
         \A d \in q.curBlock .. q.curBlock + B - 1 : SlotOccupied(q, d % B) => b <= d
  PROVE  LET f == FirstOf(q, b) IN
         /\ f \in Nat /\ \E p \in Entries(q) : p[1] = f
         /\ \A c \in Nat, e \in Member : InRing(q, c, e) => f <= c
<1> DEFINE f == FirstOf(q, b)
<1>0. b \in Nat
  BY DEF Queue
<1>1. /\ f \in Nat /\ Block(f) = b /\ f % W \in Offsets
      /\ q.blocks[b % B][f % W] # {}
      /\ \A c \in Nat, e \in Member : Block(c) = b /\ InRing(q, c, e) => f <= c
  BY FirstOfIs
<1> HIDE DEF f
<1>2. \E p \in Entries(q) : p[1] = f
  <2>1. PICK e : e \in q.blocks[b % B][f % W]
    BY <1>1
  <2>2. b % B \in Slots
    BY <1>1, CyclePlace
  <2>3. e \in Member
    BY <2>1, <2>2, <1>1 DEF Queue
  <2>4. InRing(q, f, e)
    BY <1>1, <2>1 DEF InRing
  <2> DEFINE p == <<f, e>>
  <2>5. p[1] = f /\ p[2] = e
    OBVIOUS
  <2>6. p \in Entries(q)
    BY <1>1, <2>3, <2>4, <2>5, InEntries
  <2> QED  BY <2>5, <2>6
<1>3. ASSUME NEW c \in Nat, NEW e \in Member, InRing(q, c, e)
      PROVE  f <= c
  <2>1. Block(c) \in q.curBlock .. q.curBlock + B - 1 /\ SlotOccupied(q, Block(c) % B)
    BY <1>3, CyclePlace DEF InRing, SlotOccupied
  <2>2. b <= Block(c) /\ Block(c) \in Nat
    BY <2>1, CyclePlace
  <2>3. CASE Block(c) = b
    BY <2>3, <1>1, <1>3
  <2>4. CASE b < Block(c)
    <3>1. f < c
      BY <2>4, <1>1, BlockOrder
    <3> QED  BY <3>1, <1>1
  <2> QED  BY <2>2, <2>3, <2>4, <1>0
<1> QED  BY <1>1, <1>2, <1>3 DEF f

\* firstCycle is the least cycle of all events (prio_queue.h:131), whether they
\* are in the first or the second half of the ring or in the map.
LEMMA FirstCycleIsLeast ==
  ASSUME NEW q \in Queue, MapIsLater(q)
  PROVE  FirstIsLeast(q)
<1> DEFINE cycles == {p[1] : p \in Entries(q)}
           close == OccupiedFrom(q, 0, Half)
           far == OccupiedFrom(q, Half, B)
           inMap == {p[1] : p \in q.feMap}
<1> SUFFICES ASSUME Entries(q) # {} PROVE FirstCycle(q) = Least(cycles)
  BY DEF FirstIsLeast
<1>0. q.curBlock \in Nat /\ B = 2 * Half /\ Half \in Nat \ {0}
  BY Halves DEF Queue
<1>1. \A p \in Entries(q) : /\ p[1] \in Nat /\ p[2] \in Member
                            /\ p \in q.feMap \/ InRing(q, p[1], p[2])
  BY InEntries
<1>2. cycles \in SUBSET Nat /\ cycles # {}
  <2>1. \A x \in cycles : x \in Nat
    BY <1>1
  <2> QED  BY <2>1
<1>3. inMap \in SUBSET Nat /\ inMap \subseteq cycles
  <2>1. q.feMap \subseteq Entries(q)
    BY DEF Entries
  <2> QED  BY <2>1, <1>2
<1>4. /\ \A d \in close : d \in q.curBlock .. q.curBlock + B - 1 /\ SlotOccupied(q, d % B)
      /\ \A d \in far : d \in q.curBlock .. q.curBlock + B - 1 /\ SlotOccupied(q, d % B)
      /\ \A d \in q.curBlock .. q.curBlock + B - 1 :
           SlotOccupied(q, d % B) => d \in close \/ d \in far
      /\ \A d \in close, e \in far : d < e
      /\ close \in SUBSET Nat /\ far \in SUBSET Nat
  BY <1>0 DEF OccupiedFrom
<1>5. \A x \in cycles : (\A p \in Entries(q) : x <= p[1]) => Least(cycles) = x
  BY <1>2, LeastUnique
<1>6. FirstCycle(q) = IF close # {} THEN FirstOf(q, Least(close))
                      ELSE IF far # {} THEN Least({FirstOf(q, Least(far))} \cup inMap)
                      ELSE Least(inMap)
  BY DEF FirstCycle
<1> HIDE DEF close, far
<1>7. CASE close # {}
  <2> DEFINE b == Least(close)  f == FirstOf(q, b)
  <2>1. b \in close /\ \A d \in close : b <= d
    BY <1>4, <1>7, LeastIs
  <2> HIDE DEF b
  <2>2. \A d \in q.curBlock .. q.curBlock + B - 1 : SlotOccupied(q, d % B) => b <= d
    BY <1>4, <2>1
  <2>3. /\ f \in Nat /\ \E p \in Entries(q) : p[1] = f
        /\ \A c \in Nat, e \in Member : InRing(q, c, e) => f <= c
    BY <1>4, <2>1, <2>2, RingFirst
  <2>4. Block(f) = b
    BY <1>4, <2>1, FirstOfIs
  <2> HIDE DEF f
  <2>5. ASSUME NEW p \in q.feMap PROVE f <= p[1]
    <3>1. p[1] \in Nat /\ Block(p[1]) >= q.curBlock + Half
      BY MapBeyond
    <3>2. b < q.curBlock + Half
      BY <1>0, <2>1 DEF close, OccupiedFrom
    <3>3. Block(p[1]) \in Nat
      BY <3>1, CyclePlace
    <3>4. b \in Nat /\ b < Block(p[1])
      <4>1. b \in Nat
        BY <1>4, <2>1
      <4> QED  BY <4>1, <3>1, <3>2, <3>3, <1>0
    <3>5. f < p[1]
      BY <2>3, <2>4, <3>1, <3>4, BlockOrder
    <3> QED  BY <3>1, <3>5, <2>3
  <2>6. f \in cycles /\ \A p \in Entries(q) : f <= p[1]
    <3>1. f \in cycles
      BY <2>3
    <3>2. ASSUME NEW p \in Entries(q) PROVE f <= p[1]
      BY <1>1, <2>3, <2>5
    <3> QED  BY <3>1, <3>2
  <2> QED  BY <1>5, <1>6, <1>7, <2>6 DEF f, b
<1>8. CASE close = {} /\ far # {}
  <2> DEFINE b == Least(far)  f == FirstOf(q, b)  S == {f} \cup inMap
  <2>1. b \in far /\ \A d \in far : b <= d
    BY <1>4, <1>8, LeastIs
  <2> HIDE DEF b
  <2>2. \A d \in q.curBlock .. q.curBlock + B - 1 : SlotOccupied(q, d % B) => b <= d
    BY <1>4, <1>8, <2>1
  <2>3. /\ f \in Nat /\ \E p \in Entries(q) : p[1] = f
        /\ \A c \in Nat, e \in Member : InRing(q, c, e) => f <= c
    BY <1>4, <2>1, <2>2, RingFirst
  <2> HIDE DEF f
  <2>4. S \in SUBSET Nat /\ S # {} /\ S \subseteq cycles
    BY <1>3, <2>3
  <2>5. Least(S) \in S /\ \A x \in S : Least(S) <= x
    <3> HIDE DEF S
    <3> QED  BY <2>4, LeastIs
  <2>6. Least(S) \in cycles /\ Least(S) \in Nat
    BY <2>4, <2>5
  <2>7. ASSUME NEW p \in Entries(q) PROVE Least(S) <= p[1]
    <3>1. CASE p \in q.feMap
      BY <3>1, <2>5
    <3>2. CASE InRing(q, p[1], p[2])
      <4>1. f <= p[1] /\ p[1] \in Nat
        <5>1. p[1] \in Nat /\ p[2] \in Member
          BY <1>1
        <5> QED  BY <5>1, <3>2, <2>3
      <4>2. Least(S) <= f
        BY <2>5
      <4> HIDE DEF S
      <4> QED  BY <4>1, <4>2, <2>3, <2>6
    <3> QED  BY <3>1, <3>2, <1>1
  <2> QED  BY <1>5, <1>6, <1>8, <2>6, <2>7 DEF f, b
<1>9. CASE close = {} /\ far = {}
  <2>1. \A p \in Entries(q) : p \in q.feMap
    <3> SUFFICES ASSUME NEW p \in Entries(q), InRing(q, p[1], p[2]) PROVE FALSE
      BY <1>1
    <3>1. p[1] \in Nat
      BY <1>1
    <3>2. p[1] % W \in Offsets
      BY <3>1, CyclePlace
    <3>3. /\ Block(p[1]) \in q.curBlock .. q.curBlock + B - 1
          /\ SlotOccupied(q, Block(p[1]) % B)
      BY <3>2 DEF InRing, SlotOccupied
    <3> QED  BY <3>3, <1>4, <1>9
  <2>2. inMap # {}
    BY <1>2, <2>1
  <2>3. Least(inMap) \in inMap /\ \A x \in inMap : Least(inMap) <= x
    <3> HIDE DEF inMap
    <3> QED  BY <1>3, <2>2, LeastIs
  <2>4. \A p \in Entries(q) : Least(inMap) <= p[1]
    BY <2>1, <2>3
  <2> QED  BY <1>3, <1>5, <1>6, <1>9, <2>3, <2>4
<1> QED  BY <1>7, <1>8, <1>9

-----------------------------------------------------------------------------
(* The whole of dequeue                                                    *)

\* A slot of the ring is that of a block of the window.
LEMMA SlotInWindow ==
  ASSUME NEW c \in Nat, NEW i \in Slots
  PROVE  \E b \in c .. c + B - 1 : b % B = i
<1>1. B \in Nat \ {0} /\ i \in 0 .. B - 1 /\ i \in Nat
  BY PQAssumption DEF Slots
<1>2. c \div B \in Nat /\ c % B \in 0 .. B - 1 /\ c = (c \div B) * B + (c % B)
  BY <1>1, DivMod
<1>3. (c \div B) * B \in Nat
  BY <1>1, <1>2
<1>4. CASE i >= c % B
  <2> DEFINE b == (c \div B) * B + i
  <2>1. b % B = i
    BY <1>1, <1>2, DivUnique
  <2>2. b \in c .. c + B - 1
    BY <1>1, <1>2, <1>3, <1>4
  <2> QED  BY <2>1, <2>2
<1>5. CASE i < c % B
  <2> DEFINE b == (c \div B + 1) * B + i
  <2>1. c \div B + 1 \in Nat
    BY <1>2
  <2>2. b % B = i
    BY <1>1, <2>1, DivUnique
  <2>3. (c \div B + 1) * B = (c \div B) * B + B
    BY <1>1, <1>2
  <2>4. b \in c .. c + B - 1
    BY <1>1, <1>2, <1>3, <1>5, <2>3
  <2> QED  BY <2>2, <2>4
<1> QED  BY <1>1, <1>2, <1>4, <1>5

\* size is 0 when there is no event.
LEMMA EmptyIs ==
  ASSUME NEW q \in Queue
  PROVE  QueueEmpty(q) <=> Entries(q) = {}
<1>0. q.curBlock \in Nat
  BY DEF Queue
<1>1. ASSUME NEW p \in Entries(q) PROVE ~QueueEmpty(q)
  <2>1. p[1] \in Nat /\ (p \in q.feMap \/ InRing(q, p[1], p[2]))
    BY InEntries
  <2>2. Block(p[1]) % B \in Slots /\ p[1] % W \in Offsets
    BY <2>1, CyclePlace
  <2> QED  BY <2>1, <2>2 DEF QueueEmpty, SlotOccupied, InRing
<1>2. ASSUME ~QueueEmpty(q) PROVE Entries(q) # {}
  <2>1. CASE q.feMap # {}
    BY <2>1 DEF Entries
  <2>2. ASSUME NEW i \in Slots, SlotOccupied(q, i) PROVE Entries(q) # {}
    <3>1. PICK b \in q.curBlock .. q.curBlock + B - 1 : b % B = i
      BY <1>0, SlotInWindow
    <3>2. PICK o \in Offsets : q.blocks[b % B][o] # {}
      BY <2>2, <3>1 DEF SlotOccupied
    <3>3. RingEntries(q, b) # {}
      <4>1. PICK e : e \in q.blocks[b % B][o]
        BY <3>2
      <4>2. <<b * W + o, e>> \in RingEntries(q, b)
        BY <4>1 DEF RingEntries
      <4> QED  BY <4>2
    <3> QED  BY <3>1, <3>3 DEF Entries
  <2> QED  BY <1>2, <2>1, <2>2 DEF QueueEmpty
<1> QED  BY <1>1, <1>2

\* A finite set of numbers has a bound.
LEMMA FiniteBound ==
  ASSUME NEW S \in SUBSET Nat, IsFiniteSet(S)
  PROVE  \E u \in Nat : \A x \in S : x <= u
<1> DEFINE Bounded(s) == \E u \in Nat : \A x \in s : x <= u
           Bad == {s \in SUBSET S : ~Bounded(s)}
           N == {Cardinality(s) : s \in Bad}
<1>1. \A s \in SUBSET S : IsFiniteSet(s) /\ Cardinality(s) \in Nat
  BY FS_Subset, FS_CardinalityType
<1>2. SUFFICES ASSUME Bad # {} PROVE FALSE
  OBVIOUS
<1>3. N \in SUBSET Nat /\ N # {}
  BY <1>1, <1>2
<1>4. Least(N) \in N /\ \A n \in N : Least(N) <= n
  <2> HIDE DEF N
  <2> QED  BY <1>3, LeastIs
<1>5. PICK s \in Bad : Cardinality(s) = Least(N)
  BY <1>4
<1>6. PICK x : x \in s
  BY DEF Bounded
<1>7. s \in SUBSET S /\ ~Bounded(s) /\ x \in Nat
  BY <1>6
<1>8. CASE s \ {x} \in Bad
  <2>1. Cardinality(s \ {x}) = Cardinality(s) - 1 /\ Cardinality(s) \in Nat
    BY <1>1, <1>6, <1>7, FS_RemoveElement
  <2>2. Cardinality(s \ {x}) \in N
    BY <1>8
  <2> HIDE DEF N
  <2> QED  BY <1>4, <1>5, <2>1, <2>2
<1>9. CASE s \ {x} \notin Bad
  <2>1. Bounded(s \ {x})
    BY <1>7, <1>9
  <2>2. PICK u \in Nat : \A y \in s \ {x} : y <= u
    BY <2>1
  <2> DEFINE v == IF u <= x THEN x ELSE u
  <2>3. v \in Nat /\ \A y \in s : y <= v
    BY <1>7, <2>2
  <2> QED  BY <1>7, <2>3
<1> QED  BY <1>8, <1>9

\* No round does nothing,
LEMMA NoRound ==
  ASSUME NEW q \in Queue
  PROVE  Advanced(q, 0) = q
<1>1. q.curBlock \in Nat /\ q.curBlock + 1 .. q.curBlock + 0 = {}
  BY DEF Queue
<1> DEFINE coming == UNION {Coming(q, b) : b \in q.curBlock + 1 .. q.curBlock + 0}
           blocks == [i \in Slots |-> [o \in Offsets |->
                        q.blocks[i][o] \cup
                        {p[2] : p \in {r \in coming : Block(r[1]) % B = i /\ r[1] % W = o}}]]
<1>2. coming = {}
  BY <1>1
<1>3. Advanced(q, 0) = [blocks |-> blocks, feMap |-> q.feMap \ coming, curBlock |-> q.curBlock + 0]
  BY DEF Advanced
<1> HIDE DEF coming
<1>4. blocks = q.blocks
  <2>1. \A i \in Slots : [o \in Offsets |->
                        q.blocks[i][o] \cup
                        {p[2] : p \in {r \in coming : Block(r[1]) % B = i /\ r[1] % W = o}}] = q.blocks[i]
    BY <1>2 DEF Queue
  <2>2. blocks = [i \in Slots |-> q.blocks[i]]
    BY <2>1
  <2> QED  BY <2>2 DEF Queue
<1> HIDE DEF blocks
<1> QED  BY <1>1, <1>2, <1>3, <1>4 DEF Queue

\* and one more is one after those before.
LEMMA RoundMore ==
  ASSUME NEW q \in Queue, NEW n \in Nat, Advanced(q, n) \in Queue
  PROVE  Advanced(q, n + 1) = Advanced(Advanced(q, n), 1)
<1> DEFINE c == q.curBlock
           come(m) == UNION {Coming(q, b) : b \in c + 1 .. c + m}
           Blocks(m) == [i \in Slots |-> [o \in Offsets |->
                        q.blocks[i][o] \cup
                        {p[2] : p \in {r \in come(m) : Block(r[1]) % B = i /\ r[1] % W = o}}]]
           a == Advanced(q, n)
           more == UNION {Coming(a, b) : b \in a.curBlock + 1 .. a.curBlock + 1}
           after == [i \in Slots |-> [o \in Offsets |->
                        a.blocks[i][o] \cup
                        {p[2] : p \in {r \in more : Block(r[1]) % B = i /\ r[1] % W = o}}]]
<1>0. c \in Nat
  BY DEF Queue
<1>1. a = [blocks |-> Blocks(n), feMap |-> q.feMap \ come(n), curBlock |-> c + n]
  BY DEF Advanced
<1>2. Advanced(q, n + 1) =
        [blocks |-> Blocks(n + 1), feMap |-> q.feMap \ come(n + 1), curBlock |-> c + (n + 1)]
  BY DEF Advanced
<1>3. Advanced(a, 1) = [blocks |-> after, feMap |-> a.feMap \ more, curBlock |-> a.curBlock + 1]
  BY DEF Advanced
<1>4. a.blocks = Blocks(n) /\ a.feMap = q.feMap \ come(n) /\ a.curBlock = c + n
  BY <1>1
<1> HIDE DEF a
<1>5. more = Coming(q, c + n + 1) \ come(n)
  <2>1. a.curBlock + 1 .. a.curBlock + 1 = {c + n + 1}
    BY <1>0, <1>4
  <2>2. more = Coming(a, c + n + 1)
    BY <2>1
  <2>3. Coming(a, c + n + 1) = Coming(q, c + n + 1) \ come(n)
    <3> HIDE DEF come
    <3> QED  BY <1>4 DEF Coming
  <2> QED  BY <2>2, <2>3
<1>6. come(n + 1) = come(n) \cup more
  <2>1. c + 1 .. c + (n + 1) = (c + 1 .. c + n) \cup {c + n + 1}
    BY <1>0
  <2>2. come(n + 1) = come(n) \cup Coming(q, c + n + 1)
    BY <2>1
  <2> HIDE DEF come, more
  <2> QED  BY <1>5, <2>2
<1> HIDE DEF come, more, c
<1>7. Blocks(n + 1) = after
  <2>1. ASSUME NEW i \in Slots
        PROVE  [o \in Offsets |-> q.blocks[i][o] \cup
                  {p[2] : p \in {r \in come(n + 1) : Block(r[1]) % B = i /\ r[1] % W = o}}]
               = [o \in Offsets |-> a.blocks[i][o] \cup
                  {p[2] : p \in {r \in more : Block(r[1]) % B = i /\ r[1] % W = o}}]
    <3>1. ASSUME NEW o \in Offsets
          PROVE  q.blocks[i][o] \cup
                   {p[2] : p \in {r \in come(n + 1) : Block(r[1]) % B = i /\ r[1] % W = o}}
                 = a.blocks[i][o] \cup
                   {p[2] : p \in {r \in more : Block(r[1]) % B = i /\ r[1] % W = o}}
      <4>1. a.blocks[i][o] = q.blocks[i][o] \cup
              {p[2] : p \in {r \in come(n) : Block(r[1]) % B = i /\ r[1] % W = o}}
        BY <1>4
      <4> QED  BY <4>1, <1>6
    <3> QED  BY <3>1
  <2> QED  BY <2>1
<1>8. q.feMap \ come(n + 1) = a.feMap \ more
  BY <1>4, <1>6
<1>9. c + (n + 1) = a.curBlock + 1
  BY <1>0, <1>4
<1> HIDE DEF after
<1> QED  BY <1>2, <1>3, <1>7, <1>8, <1>9 DEF a

\* As long as the blocks passed are empty, every event keeps its cycle.
LEMMA RoundsKeep ==
  ASSUME NEW q \in Queue, MapIsLater(q), NEW n \in Nat,
         \A m \in 0 .. n - 1 : ~Occupied(Advanced(q, m))
  PROVE  LET a == Advanced(q, n) IN
         a \in Queue /\ MapIsLater(a) /\ Entries(a) = Entries(q) /\ a.curBlock = q.curBlock + n
<1> DEFINE Kept(m) == LET a == Advanced(q, m) IN
             a \in Queue /\ MapIsLater(a) /\ Entries(a) = Entries(q) /\ a.curBlock = q.curBlock + m
           Bad == {m \in 0 .. n : ~Kept(m)}
<1>1. SUFFICES ASSUME Bad # {} PROVE FALSE
  <2>1. Bad = {} => Kept(n)
    OBVIOUS
  <2> QED  BY <2>1
<1>2. Bad \in SUBSET Nat
  OBVIOUS
<1>3. Least(Bad) \in Bad /\ \A m \in Bad : Least(Bad) <= m
  <2> HIDE DEF Bad
  <2> QED  BY <1>1, <1>2, LeastIs
<1> DEFINE m == Least(Bad)
<1>4. m \in 0 .. n /\ ~Kept(m)
  <2>1. \A x \in Bad : x \in 0 .. n /\ ~Kept(x)
    OBVIOUS
  <2> HIDE DEF Bad, Kept
  <2> QED  BY <1>3, <2>1
<1>5. m # 0
  <2>1. Kept(0)
    <3>1. q.curBlock + 0 = q.curBlock
      BY DEF Queue
    <3> QED  BY <3>1, NoRound
  <2> HIDE DEF Kept, Bad
  <2> QED  BY <1>4, <2>1
<1>6. Kept(m - 1)
  <2>1. m - 1 \in 0 .. n /\ ~(m <= m - 1)
    <3> HIDE DEF m, Kept
    <3> QED  BY <1>4, <1>5
  <2>2. m - 1 \notin Bad
    <3> HIDE DEF Bad
    <3> QED  BY <1>3, <2>1
  <2> HIDE DEF Kept, m
  <2> QED  BY <2>1, <2>2
<1> DEFINE k == m - 1
<1>7. k \in Nat /\ m = k + 1 /\ k \in 0 .. n - 1
  <2> HIDE DEF m, Kept
  <2> QED  BY <1>4, <1>5
<1> HIDE DEF m, k, Bad
<1> DEFINE a == Advanced(q, k)
<1>8. /\ a \in Queue /\ MapIsLater(a) /\ Entries(a) = Entries(q) /\ a.curBlock = q.curBlock + k
      /\ ~Occupied(a)
  BY <1>6, <1>7 DEF k
<1>9. Advanced(q, m) = Advanced(a, 1)
  BY <1>7, <1>8, RoundMore
<1>10. /\ Advanced(a, 1) \in Queue /\ Entries(Advanced(a, 1)) = Entries(a)
       /\ MapIsLater(Advanced(a, 1)) /\ Advanced(a, 1).curBlock = a.curBlock + 1
  <2> HIDE DEF a
  <2> QED  BY <1>8, RoundKeeps, OneRound
<1>11. q.curBlock \in Nat
  BY DEF Queue
<1> HIDE DEF a
<1> QED  BY <1>4, <1>7, <1>8, <1>9, <1>10, <1>11

\* The rounds lead to the first block with events, and lose none of them.
LEMMA RoundsAre ==
  ASSUME NEW q \in Queue, MapIsLater(q), IsFiniteSet(Entries(q)), Entries(q) # {}
  PROVE  LET n == Rounds(q)  a == Advanced(q, n) IN
         /\ n \in Nat /\ a \in Queue /\ MapIsLater(a) /\ Entries(a) = Entries(q)
         /\ a.curBlock = q.curBlock + n /\ Occupied(a)
<1> DEFINE blocks == {Block(p[1]) : p \in Entries(q)}
           last == CHOOSE b \in blocks : \A p \in Entries(q) : Block(p[1]) <= b
           most == last - q.curBlock
           found == {n \in 0 .. most : Occupied(Advanced(q, n))}
           n == Least({most} \cup found)
<1>0. q.curBlock \in Nat /\ B \in Nat \ {0} /\ Half \in Nat \ {0} /\ B = 2 * Half
  BY Halves, PQAssumption DEF Queue
<1>1. \A p \in Entries(q) : p[1] \in Nat /\ Block(p[1]) \in Nat
  BY InEntries, CyclePlace
<1>2. last \in blocks /\ \A p \in Entries(q) : Block(p[1]) <= last
  <2>1. blocks \in SUBSET Nat /\ blocks # {} /\ IsFiniteSet(blocks)
    <3>1. IsFiniteSet(blocks)
      <4> DEFINE f == [p \in Entries(q) |-> Block(p[1])]
      <4>1. f \in Surjection(Entries(q), blocks)
        BY DEF Surjection
      <4> QED  BY <4>1, FS_Surjection
    <3> QED  BY <1>1, <3>1
  <2>2. \E b \in blocks : \A x \in blocks : x <= b
    <3> DEFINE U == {u \in Nat : \A x \in blocks : x <= u}
    <3>1. U \in SUBSET Nat /\ U # {}
      <4> HIDE DEF blocks
      <4> QED  BY <2>1, FiniteBound
    <3>2. Least(U) \in U /\ \A u \in U : Least(U) <= u
      <4> HIDE DEF U
      <4> QED  BY <3>1, LeastIs
    <3> DEFINE u == Least(U)
    <3>3. u \in Nat /\ \A x \in blocks : x <= u
      <4>1. \A v \in U : v \in Nat /\ \A x \in blocks : x <= v
        OBVIOUS
      <4> HIDE DEF U, blocks
      <4> QED  BY <3>2, <4>1
    <3> HIDE DEF u, blocks
    <3>4. CASE u \in blocks
      BY <3>3, <3>4
    <3>5. CASE u \notin blocks
      <4>1. PICK x \in blocks : TRUE
        BY <2>1
      <4>2. u - 1 \in Nat /\ \A y \in blocks : y <= u - 1
        BY <2>1, <3>3, <3>5, <4>1
      <4>3. u - 1 \in U
        BY <4>2
      <4>4. u <= u - 1
        <5> HIDE DEF U
        <5> QED  BY <3>2, <4>3 DEF u
      <4> QED  BY <3>3, <4>4
    <3> QED  BY <3>4, <3>5
  <2>3. \E b \in blocks : \A p \in Entries(q) : Block(p[1]) <= b
    BY <2>2
  <2> HIDE DEF blocks
  <2> QED  BY <2>3
<1>3. last \in Nat /\ q.curBlock <= last
  <2>1. PICK p \in Entries(q) : Block(p[1]) = last
    BY <1>2
  <2>2. p[1] \in Nat /\ (p \in q.feMap \/ InRing(q, p[1], p[2]))
    BY InEntries
  <2>3. CASE p \in q.feMap
    <3>1. Block(p[1]) >= q.curBlock + Half
      BY <2>3, MapBeyond
    <3>2. Block(p[1]) \in Nat
      BY <1>1
    <3> QED  BY <1>0, <2>1, <3>1, <3>2
  <2>4. CASE InRing(q, p[1], p[2])
    BY <1>0, <1>1, <2>1, <2>4 DEF InRing
  <2> QED  BY <2>2, <2>3, <2>4
<1> HIDE DEF last
<1>4. most \in Nat
  BY <1>0, <1>3
<1>5. Rounds(q) = n
  BY DEF Rounds, last
<1> DEFINE S == {most} \cup found
<1>6. S \in SUBSET Nat /\ S # {}
  BY <1>4
<1>7. n \in S /\ \A m \in S : n <= m
  <2> HIDE DEF S
  <2>1. Least(S) \in S /\ \A m \in S : Least(S) <= m
    BY <1>6, LeastIs
  <2> QED  BY <2>1 DEF S
<1> HIDE DEF n
<1>8. n \in Nat /\ n <= most
  <2> HIDE DEF S, most
  <2>1. most \in S
    BY DEF S
  <2> QED  BY <1>4, <1>6, <1>7, <2>1
<1>9. \A m \in 0 .. n - 1 : ~Occupied(Advanced(q, m))
  <2> SUFFICES ASSUME NEW m \in 0 .. n - 1, Occupied(Advanced(q, m)) PROVE FALSE
    OBVIOUS
  <2>1. m \in 0 .. most
    <3> HIDE DEF most
    <3> QED  BY <1>4, <1>8
  <2>2. n <= m
    BY <1>7, <2>1
  <2> QED  BY <1>8, <2>2
<1> DEFINE a == Advanced(q, n)
<1>10. a \in Queue /\ MapIsLater(a) /\ Entries(a) = Entries(q) /\ a.curBlock = q.curBlock + n
  BY <1>8, <1>9, RoundsKeep
<1>11. Occupied(a)
  <2>1. CASE n \in found
    BY <2>1
  <2>2. CASE n = most
    <3>1. a.curBlock = last
      BY <1>0, <1>3, <1>10, <2>2
    <3>2. PICK p \in Entries(q) : TRUE
      OBVIOUS
    <3> HIDE DEF a
    <3>3. p \in Entries(a) /\ p[1] \in Nat /\ Block(p[1]) \in Nat /\ Block(p[1]) <= last
      BY <1>1, <1>2, <1>10
    <3>4. p \in a.feMap \/ InRing(a, p[1], p[2])
      BY <1>10, <3>3, InEntries
    <3>5. p \notin a.feMap
      <4> SUFFICES ASSUME p \in a.feMap PROVE FALSE
        OBVIOUS
      <4>1. Block(p[1]) >= a.curBlock + Half
        BY <1>10, MapBeyond
      <4> QED  BY <1>0, <1>3, <3>1, <3>3, <4>1
    <3>6. InRing(a, p[1], p[2])
      BY <3>4, <3>5
    <3>7. Block(p[1]) = last
      BY <1>0, <1>3, <3>1, <3>3, <3>6 DEF InRing
    <3>8. p[1] % W \in Offsets
      BY <3>3, CyclePlace
    <3> QED  BY <3>1, <3>6, <3>7, <3>8 DEF InRing, Occupied, SlotOccupied
  <2> QED  BY <1>7, <2>1, <2>2
<1> QED  BY <1>5, <1>8, <1>10, <1>11 DEF a

\* dequeue gives one of the earliest events, and leaves the current block at it.
LEMMA DequeueTakes ==
  ASSUME NEW q \in Queue, MapIsLater(q), IsFiniteSet(Entries(q)), Entries(q) # {},
         NEW e \in Firsts(Advanced(q, Rounds(q)))
  PROVE  LET a == Advanced(q, Rounds(q))  c == DequeueCycle(a)  n == Removed(a, e) IN
         /\ e \in Member /\ c \in Nat /\ n \in Queue /\ MapIsLater(n)
         /\ <<c, e>> \in Entries(q) /\ Entries(n) = Entries(q) \ {<<c, e>>}
         /\ \A p \in Entries(q) : c <= p[1]
         /\ n.curBlock = Block(c)
<1> DEFINE a == Advanced(q, Rounds(q))
           c == DequeueCycle(a)
           n == Removed(a, e)
<1>1. a \in Queue /\ MapIsLater(a) /\ Entries(a) = Entries(q) /\ Occupied(a)
  BY RoundsAre
<1> HIDE DEF a
<1>2. /\ n \in Queue /\ MapIsLater(n)
      /\ <<c, e>> \in Entries(a) /\ Entries(n) = Entries(a) \ {<<c, e>>}
      /\ \A p \in Entries(a) : c <= p[1]
  <2> DEFINE r == <<c, e>>
  <2>1. e \in Firsts(a)
    BY DEF a
  <2>2. /\ n \in Queue /\ MapIsLater(n)
        /\ r \in Entries(a) /\ Entries(n) = Entries(a) \ {r}
        /\ \A p \in Entries(a) : r[1] <= p[1]
    BY <1>1, <2>1, TakeTakes
  <2> QED  BY <2>2
<1>3. e \in Member /\ c \in Nat
  <2> DEFINE r == <<c, e>>
  <2>1. r[1] \in Nat /\ r[2] \in Member
    <3> HIDE DEF r
    <3> QED  BY <1>1, <1>2, InEntries DEF r
  <2> QED  BY <2>1
<1>4. n.curBlock = a.curBlock
  BY <1>1 DEF Removed, Queue
<1>5. Block(c) = a.curBlock
  <2>1. a.curBlock \in Nat /\ B \in Nat \ {0}
    BY <1>1, PQAssumption DEF Queue
  <2>2. a.curBlock \in a.curBlock .. a.curBlock + B - 1 /\ SlotOccupied(a, a.curBlock % B)
    BY <1>1, <2>1 DEF Occupied
  <2> QED  BY <1>1, <2>2, FirstOfIs DEF DequeueCycle
<1> QED  BY <1>1, <1>2, <1>3, <1>4, <1>5 DEF a

\* Events that are put in the queue together are in it, each at its cycle.
LEMMA PutAllAdds ==
  ASSUME NEW q \in Queue, NEW S \in SUBSET Member, NEW at \in [S -> Nat],
         \A e \in S : MayEnqueue(q, at[e])
  PROVE  LET n == EnqueueEach(q, at) IN
         /\ n \in Queue /\ n.curBlock = q.curBlock
         /\ Entries(n) = Entries(q) \cup {<<at[e], e>> : e \in S}
         /\ MapIsLater(q) => MapIsLater(n)
<1> DEFINE n == EnqueueEach(q, at)
           near == {e \in S : Block(at[e]) < q.curBlock + B}
           blocks == [i \in Slots |-> [o \in Offsets |-> q.blocks[i][o] \cup
                        {e \in near : Block(at[e]) % B = i /\ at[e] % W = o}]]
           far == {<<at[e], e>> : e \in S \ near}
<1>0. /\ q.curBlock \in Nat /\ B \in Nat \ {0}
      /\ \A e \in S : /\ at[e] \in Nat /\ Block(at[e]) \in Nat /\ e \in Member
                      /\ Block(at[e]) >= q.curBlock
  BY CyclePlace, PQAssumption DEF Queue, MayEnqueue
<1>1. n = [q EXCEPT !.blocks = blocks, !.feMap = q.feMap \cup far]
  BY DEF EnqueueEach
<1>2. /\ n \in Queue /\ n.curBlock = q.curBlock
      /\ n.feMap = q.feMap \cup far /\ n.blocks = blocks
  <2>1. blocks \in [Slots -> [Offsets -> SUBSET Member]]
    <3> SUFFICES ASSUME NEW i \in Slots, NEW o \in Offsets PROVE blocks[i][o] \in SUBSET Member
      OBVIOUS
    <3> QED  BY <1>0 DEF Queue
  <2>2. far \subseteq Nat \X Member
    BY <1>0
  <2> HIDE DEF n, blocks, far
  <2> QED  BY <1>1, <2>1, <2>2 DEF Queue
<1>3. ASSUME NEW c \in Nat, NEW f \in Member
      PROVE  InRing(n, c, f) <=> InRing(q, c, f) \/ (f \in near /\ c = at[f])
  <2>0. /\ Block(c) \in Nat /\ Block(c) % B \in Slots /\ c % W \in Offsets
        /\ c = Block(c) * W + (c % W)
    BY CyclePlace
  <2>1. f \in n.blocks[Block(c) % B][c % W] <=>
          \/ f \in q.blocks[Block(c) % B][c % W]
          \/ f \in near /\ Block(at[f]) % B = Block(c) % B /\ at[f] % W = c % W
    BY <1>2, <2>0
  <2>2. ASSUME f \in near
        PROVE  Block(at[f]) \in q.curBlock .. q.curBlock + B - 1
    BY <1>0, <2>2
  <2>3. ASSUME Block(c) \in q.curBlock .. q.curBlock + B - 1, f \in near,
               Block(at[f]) % B = Block(c) % B, at[f] % W = c % W
        PROVE  c = at[f]
    <3>1. Block(c) = Block(at[f])
      BY <1>0, <2>2, <2>3, SlotUnique
    <3>2. at[f] = Block(at[f]) * W + (at[f] % W)
      BY <1>0, <2>3, CyclePlace
    <3> QED  BY <3>1, <3>2, <2>0, <2>3
  <2> HIDE DEF n, near
  <2> QED  BY <1>2, <2>1, <2>2, <2>3 DEF InRing
<1>4. ASSUME NEW p
      PROVE  p \in Entries(n) <=> p \in Entries(q) \/ p \in {<<at[e], e>> : e \in S}
  <2>1. p \in {<<at[e], e>> : e \in S} =>
          p = <<p[1], p[2]>> /\ p[1] \in Nat /\ p[2] \in Member /\ p[2] \in S /\ p[1] = at[p[2]]
    BY <1>0
  <2>2. p = <<p[1], p[2]>> /\ p[2] \in S /\ p[1] = at[p[2]] => p \in {<<at[e], e>> : e \in S}
    OBVIOUS
  <2>3. p \in far <=> p = <<p[1], p[2]>> /\ p[2] \in S \ near /\ p[1] = at[p[2]]
    OBVIOUS
  <2>4. p = <<p[1], p[2]>> /\ p[1] \in Nat /\ p[2] \in Member =>
          (InRing(n, p[1], p[2]) <=> InRing(q, p[1], p[2]) \/ (p[2] \in near /\ p[1] = at[p[2]]))
    BY <1>3
  <2>5. near \subseteq S
    OBVIOUS
  <2>6. p \in n.feMap <=> p \in q.feMap \/ p \in far
    BY <1>2
  <2> HIDE DEF n, near, far
  <2> QED  BY <1>2, <2>1, <2>2, <2>3, <2>4, <2>5, <2>6, InEntries
<1>5. MapIsLater(q) => MapIsLater(n)
  <2> SUFFICES ASSUME MapIsLater(q), NEW p \in n.feMap
               PROVE  Block(p[1]) >= Mark(q.curBlock) + B
    BY <1>2 DEF MapIsLater, Mark
  <2>1. CASE p \in q.feMap
    BY <2>1 DEF MapIsLater, Mark
  <2>2. CASE p \in far
    <3>1. PICK e \in S \ near : p = <<at[e], e>>
      BY <2>2
    <3>2. Mark(q.curBlock) <= q.curBlock /\ Mark(q.curBlock) \in Nat
      BY <1>0, MarkNear
    <3>3. ~(Block(at[e]) < q.curBlock + B) /\ p[1] = at[e]
      BY <3>1
    <3> QED  BY <1>0, <3>2, <3>3
  <2> QED  BY <1>2, <2>1, <2>2
<1>6. Entries(n) = Entries(q) \cup {<<at[e], e>> : e \in S}
  BY <1>4
<1> QED  BY <1>2, <1>5, <1>6

\* Blocks are in the order of their cycles.
LEMMA BlockMono ==
  ASSUME NEW c \in Nat, NEW d \in Nat, c <= d
  PROVE  Block(c) <= Block(d)
<1>1. Block(c) \in Nat /\ Block(d) \in Nat
  BY CyclePlace
<1>2. ~(Block(d) < Block(c))
  BY BlockOrder
<1> QED  BY <1>1, <1>2

\* What firstCycle says of a queue with events
LEMMA FirstCycleIs ==
  ASSUME NEW q \in Queue, MapIsLater(q), Entries(q) # {}
  PROVE  /\ FirstCycle(q) \in Nat
         /\ \A p \in Entries(q) : FirstCycle(q) <= p[1]
         /\ \E p \in Entries(q) : p[1] = FirstCycle(q)
<1> DEFINE cycles == {p[1] : p \in Entries(q)}
<1>1. FirstCycle(q) = Least(cycles)
  BY FirstCycleIsLeast DEF FirstIsLeast
<1>2. cycles \in SUBSET Nat /\ cycles # {}
  BY InEntries
<1>3. Least(cycles) \in cycles /\ \A x \in cycles : Least(cycles) <= x
  <2> HIDE DEF cycles
  <2> QED  BY <1>2, LeastIs
<1>4. FirstCycle(q) \in cycles /\ \A x \in cycles : FirstCycle(q) <= x
  BY <1>1, <1>3
<1> QED  BY <1>2, <1>4

-----------------------------------------------------------------------------
(* Theorems                                                                *)

\* The empty queue is one.
LEMMA InitQInv == queue = EmptyQueue => QInv /\ Entries(queue) = {}
<1> SUFFICES ASSUME queue = EmptyQueue PROVE QInv /\ Entries(queue) = {}
  OBVIOUS
<1>1. queue \in Queue /\ MapIsLater(queue)
  BY DEF EmptyQueue, Queue, MapIsLater
<1>2. \A i \in Slots, o \in Offsets : queue.blocks[i][o] = {}
  BY DEF EmptyQueue
<1>3. \A p : p \notin Entries(queue)
  <2> SUFFICES ASSUME NEW p \in Entries(queue) PROVE FALSE
    OBVIOUS
  <2>1. p[1] \in Nat /\ (p \in queue.feMap \/ InRing(queue, p[1], p[2]))
    BY <1>1, InEntries
  <2>2. queue.feMap = {}
    BY DEF EmptyQueue
  <2> QED  BY <2>1, <2>2, <1>2, CyclePlace DEF InRing
<1> QED  BY <1>1, <1>3 DEF QInv

\* What each step does to the queue and to what is in it
LEMMA NextQInv ==
  ASSUME QInv, [PutEvent \/ GoOn \/ TakeEvent]_queue
  PROVE  QInv' /\ [Sorted!Next]_(Entries(queue))
<1>0. queue \in Queue /\ MapIsLater(queue)
  BY DEF QInv
<1>1. CASE PutEvent
  <2>1. PICK e \in Member, cycle \in Nat :
          MayEnqueue(queue, cycle) /\ queue' = Enqueue(queue, e, cycle)
    BY <1>1 DEF PutEvent
  <2>2. /\ queue' \in Queue /\ MapIsLater(queue')
        /\ Entries(queue') = Entries(queue) \cup {<<cycle, e>>}
    BY <1>0, <2>1, PutAdds
  <2>3. Sorted!Put
    BY <2>2 DEF Sorted!Put
  <2> QED  BY <2>2, <2>3 DEF QInv, Sorted!Next
<1>2. CASE GoOn
  <2>1. /\ queue' \in Queue /\ MapIsLater(queue')
        /\ Entries(queue') = Entries(queue)
    BY <1>0, <1>2, RoundKeeps DEF GoOn
  <2> QED  BY <2>1 DEF QInv
<1>3. CASE TakeEvent
  <2>1. PICK e \in Firsts(queue) : queue' = Removed(queue, e)
    BY <1>3 DEF TakeEvent
  <2> DEFINE p == <<DequeueCycle(queue), e>>
  <2>2. /\ queue' \in Queue /\ MapIsLater(queue')
        /\ p \in Entries(queue) /\ Entries(queue') = Entries(queue) \ {p}
        /\ \A r \in Entries(queue) : p[1] <= r[1]
    BY <1>0, <1>3, <2>1, TakeTakes DEF TakeEvent
  <2>3. Sorted!TakeEarliest
    BY <2>2 DEF Sorted!TakeEarliest
  <2> QED  BY <2>2, <2>3 DEF QInv, Sorted!Next
<1>4. CASE UNCHANGED queue
  BY <1>0, <1>4 DEF QInv
<1> QED  BY <1>1, <1>2, <1>3, <1>4

\* Whatever is put in and taken out, the map only has events that are later
\* than the first half of the ring (the coming of prio_queue.h:98-116 is in
\* time), and firstCycle is the least cycle.
THEOREM QueueInOrder == QueueSpec => [](MapIsLater(queue) /\ FirstIsLeast(queue))
<1>1. queue = EmptyQueue => QInv
  BY InitQInv
<1>2. QInv /\ [PutEvent \/ GoOn \/ TakeEvent]_queue => QInv'
  BY NextQInv
<1>3. QInv => MapIsLater(queue) /\ FirstIsLeast(queue)
  BY FirstCycleIsLeast DEF QInv
<1> QED  BY <1>1, <1>2, <1>3, PTL DEF QueueSpec

\* The ring and its map are a queue that gives the earliest events first: no
\* event is lost, doubled or run at another cycle than it was queued for.
THEOREM QueueIsSorted == QueueSpec => Sorted!Spec
<1>1. queue = EmptyQueue => QInv /\ Sorted!Init
  BY InitQInv DEF Sorted!Init
<1>2. QInv /\ [PutEvent \/ GoOn \/ TakeEvent]_queue
        => QInv' /\ [Sorted!Next]_(Entries(queue))
  BY NextQInv
<1> QED  BY <1>1, <1>2, PTL DEF QueueSpec, Sorted!Spec
=============================================================================
