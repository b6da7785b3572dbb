----------------------------- MODULE CycleQueue -----------------------------
(***************************************************************************)
(* What a weave domain expects of its queue of events (prio_queue.h):      *)
(* events are put in it with a cycle, and the one taken is always one of   *)
(* the earliest.                                                           *)
(***************************************************************************)
EXTENDS Naturals

CONSTANT Event

VARIABLE entries   \* pairs of a cycle and an event

Init == entries = {}

Put == \E e \in Event, cycle \in Nat : entries' = entries \cup {<<cycle, e>>}

TakeEarliest ==
  \E p \in entries :
    /\ \A r \in entries : p[1] <= r[1]
    /\ entries' = entries \ {p}

Next == Put \/ TakeEarliest

Spec == Init /\ [][Next]_entries
=============================================================================
