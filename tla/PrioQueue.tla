----------------------------- MODULE PrioQueue ------------------------------
(***************************************************************************)
(* The priority queue of a weave domain (PrioQueue, prio_queue.h): a ring  *)
(* of B blocks, each of W cycles, holds the events of the next B * W       *)
(* cycles, a map the later ones.  Events move from the map to the ring     *)
(* only when the current block is a multiple of B / 2.                     *)
(*                                                                         *)
(* A queue is a record.  The code keeps the events of one cycle in a list  *)
(* and takes the last one first; here they are a set, and any of them may  *)
(* be first.                                                               *)
(***************************************************************************)
EXTENDS Integers

CONSTANTS
  B,   \* blocks in the ring (PQ_BLOCKS)
  W    \* cycles in a block

ASSUME PQAssumption ==
  /\ B \in Nat \ {0} /\ W \in Nat \ {0}
  /\ B % 2 = 0

Half == B \div 2
Slots == 0 .. B - 1
Offsets == 0 .. W - 1
Block(cycle) == cycle \div W

\* The smallest member of a set of numbers
Least(S) == CHOOSE x \in S : \A y \in S : x <= y

EmptyQueue ==
  [blocks |-> [i \in Slots |-> [o \in Offsets |-> {}]], feMap |-> {}, curBlock |-> 0]

\* enqueue asserts this
MayEnqueue(q, cycle) == Block(cycle) >= q.curBlock

Enqueue(q, e, cycle) ==
  IF Block(cycle) < q.curBlock + B
  THEN [q EXCEPT !.blocks[Block(cycle) % B][cycle % W] = @ \cup {e}]
  ELSE [q EXCEPT !.feMap = @ \cup {<<cycle, e>>}]

\* enqueue of each of these events, at its cycle, in any order
EnqueueEach(q, at) ==
  LET near == {e \in DOMAIN at : Block(at[e]) < q.curBlock + B} IN
  [q EXCEPT
     !.blocks = [i \in Slots |-> [o \in Offsets |->
                   @[i][o] \cup {e \in near : Block(at[e]) % B = i /\ at[e] % W = o}]],
     !.feMap = @ \cup {<<at[e], e>> : e \in DOMAIN at \ near}]

SlotOccupied(q, i) == \E o \in Offsets : q.blocks[i][o] # {}
Occupied(q) == SlotOccupied(q, q.curBlock % B)

\* The events of a queue with their cycles
RingEntries(q, b) == UNION {{<<b * W + o, e>> : e \in q.blocks[b % B][o]} : o \in Offsets}
Entries(q) == q.feMap \cup UNION {RingEntries(q, b) : b \in q.curBlock .. q.curBlock + B - 1}

\* Faulty: one block of the map's events is left behind.
ComingShort(q, block) ==
  IF block % Half = 0 THEN {p \in q.feMap : Block(p[1]) < block + Half} ELSE {}
\* The events of the map that move to the ring when it reaches a block
Coming(q, block) ==
  IF block % Half = 0 THEN {p \in q.feMap : p[1] < (block + B) * W} ELSE {}

\* n rounds of the loop of dequeue, each of which goes on to the next block
Advanced(q, n) ==
  LET coming == UNION {Coming(q, b) : b \in q.curBlock + 1 .. q.curBlock + n} IN
  [blocks |-> [i \in Slots |-> [o \in Offsets |->
                 q.blocks[i][o] \cup
                 {p[2] : p \in {r \in coming : Block(r[1]) % B = i /\ r[1] % W = o}}]],
   feMap |-> q.feMap \ coming,
   curBlock |-> q.curBlock + n]

\* The rounds that the loop makes, up to the first occupied block of a queue
\* that is not empty
Rounds(q) ==
  LET last == CHOOSE b \in {Block(p[1]) : p \in Entries(q)} :
                \A p \in Entries(q) : Block(p[1]) <= b
      most == last - q.curBlock
  IN Least({most} \cup {n \in 0 .. most : Occupied(Advanced(q, n))})

\* The first cycle of a block that is in the ring
FirstOf(q, block) ==
  block * W + Least({o \in Offsets : q.blocks[block % B][o] # {}})

\* When the loop is over: the cycle that dequeue returns, the events it may
\* return, and the queue without one of them.
DequeueCycle(q) == FirstOf(q, q.curBlock)
Firsts(q) == q.blocks[q.curBlock % B][DequeueCycle(q) % W]
Removed(q, e) ==
  [q EXCEPT !.blocks[q.curBlock % B][DequeueCycle(q) % W] = @ \ {e}]

QueueEmpty(q) == (\A i \in Slots : ~SlotOccupied(q, i)) /\ q.feMap = {}

\* The blocks of the ring, from the current one, that are occupied
OccupiedFrom(q, n, m) ==
  {b \in q.curBlock + n .. q.curBlock + m - 1 : SlotOccupied(q, b % B)}

\* In the second half of the ring an event of the map may come earlier.
FirstCycle(q) ==
  LET close == OccupiedFrom(q, 0, Half)
      far   == OccupiedFrom(q, Half, B)
      inMap == {p[1] : p \in q.feMap}
  IN
  IF close # {} THEN FirstOf(q, Least(close))
  ELSE IF far # {} THEN Least({FirstOf(q, Least(far))} \cup inMap)
  ELSE Least(inMap)
-----------------------------------------------------------------------------
(* What the queue promises                                                 *)

\* The map only has events that do not fit in the ring, and did not when it
\* last was at a multiple of half its size.
MapIsLater(q) ==
  \A p \in q.feMap : Block(p[1]) >= (q.curBlock \div Half) * Half + B

\* firstCycle is the least cycle of all events.
FirstIsLeast(q) ==
  Entries(q) # {} => FirstCycle(q) = Least({p[1] : p \in Entries(q)})
=============================================================================
