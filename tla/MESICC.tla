------------------------------- MODULE MESICC -------------------------------
(***************************************************************************)
(* The MESI coherence controllers, zsim/src/coherence_ctrls.{h,cpp}, of a  *)
(* tree of inclusive caches over a memory (mem_ctrls.cpp).                 *)
(*                                                                         *)
(* Every cache has a bottom controller (bcc): the MESI state of its lines  *)
(* towards its parent, and a lock.  A cache with children also has a top   *)
(* controller (tcc): the sharers of each line among the children, and a    *)
(* lock that lets one access from below in at a time.  An access goes up   *)
(* with hand-over-hand locking that is broken on purpose: the parent       *)
(* unlocks the child's bcc before it takes its own locks, so that an       *)
(* invalidation coming down (which takes bcc locks only) can overtake the  *)
(* request.  CheckForMESIRace then patches the request.                    *)
(*                                                                         *)
(* A step of the model is what happens under one tenure of a bcc lock up   *)
(* to the next call to another cache.  Arrays of tags are abstracted: an   *)
(* access that misses may evict any line, or none.                         *)
(*                                                                         *)
(* The caches next to the cores are filter caches (filter_cache.h): for    *)
(* each set of lines they remember the line accessed last, and whether it  *)
(* was written; the core's accesses to it hit without any lock.  The lines *)
(* here are those of one set, and one process runs.                        *)
(***************************************************************************)
EXTENDS Naturals, FiniteSets

CONSTANTS
  Node,     \* the caches
  Root,     \* the cache below the memory (the LLC)
  Parent,   \* the parent of every other cache
  ICache,   \* leaf caches for instructions: they read only, with NOEXCL
  Filters,  \* bound: the leaf caches whose filters remember anything
  Switched, \* bound: the filters whose cores switch contexts
  Direct,   \* bound: the caches of one way, where a line evicts the other
  Line      \* line addresses

NoLine == "no line"
NoNode == "no node"

Children(n) == {c \in Node \ {Root} : Parent[c] = n}
Leaf == {n \in Node : Children(n) = {}}
Inner == Node \ Leaf

\* The caches form a tree, every one below the root, with the cores at its leaves.
ASSUME TreeAssumption ==
  /\ Root \in Node
  /\ Parent \in [Node \ {Root} -> Node]
  /\ \A S \in (SUBSET Node) \ {{}} : \E n \in S : n = Root \/ Parent[n] \notin S
  /\ ICache \subseteq Leaf
  /\ Filters \subseteq Leaf
  /\ Switched \subseteq Filters
  /\ Direct \subseteq Node

ASSUME NameAssumption == NoLine \notin Line /\ NoNode \notin Node

VARIABLES
  state,    \* MESIBottomCC::array: the state of every line in every cache
  dir,      \* MESITopCC::array: the sharers of every line of an inner cache
  acc,      \* the access each cache is working on (it holds its tcc lock)
  inv,      \* the invalidation each cache is working on
  filter,   \* FilterCache::filterArray: rdAddr and wrAddr of every leaf cache
  unsaved,  \* lines a core wrote since the memory last received them
  fault     \* an assertion or panic of the code was hit

vars == <<state, dir, acc, inv, filter, unsaved, fault>>

MESI   == {"M", "E", "S", "I"}
Gets   == {"GETS", "GETX"}
Puts   == {"PUTS", "PUTX"}

\* pc of an access:
\*   evict  invalidating the victim in the children, bcc held
\*   put    the victim's PUT is with the parent, bcc released
\*   ready  about to do bcc->processAccess, bcc held
\*   fetch  a GET for the line is with the parent, bcc released
\*   filled bcc->processAccess is done, bcc held
\*   serve  in tcc->processAccess, invalidating other children, bcc held
NoAccess == [pc |-> "idle", type |-> "GETS", line |-> NoLine, child |-> NoNode,
             noexcl |-> FALSE, victim |-> NoLine, wb |-> FALSE,
             req |-> "GETS", initial |-> "I"]
NoFilter == [rd |-> NoLine, wr |-> NoLine]
NoInv    == [pc |-> "idle", type |-> "INV", line |-> NoLine, wb |-> FALSE]

Init ==
  /\ state = [n \in Node |-> [l \in Line |-> "I"]]
  /\ dir = [n \in Inner |-> [l \in Line |-> [sharers |-> {}, exclusive |-> FALSE]]]
  /\ acc = [n \in Node |-> NoAccess]
  /\ inv = [n \in Node |-> NoInv]
  /\ filter = [n \in Leaf |-> NoFilter]
  /\ unsaved = {}
  /\ fault = FALSE

-----------------------------------------------------------------------------
\* An access holds its cache's bcc lock except while it is with the parent.
BccFree(n) == acc[n].pc \in {"idle", "put", "fetch"} /\ inv[n].pc = "idle"

\* Entry::isExclusive
IsExclusive(e) == Cardinality(e.sharers) = 1 /\ e.exclusive

Exclusive(s) == s \in {"E", "M"}

\* An access of a type to a line, for a child unless it is a core's
NewAccess(type, l, child, noexcl) ==
  [NoAccess EXCEPT !.type = type, !.line = l, !.child = child, !.noexcl = noexcl]

\* The line and type of the request a cache has with its parent
ReqLine(n) == IF acc[n].pc = "put" THEN acc[n].victim ELSE acc[n].line

\* An access turns to the parent with a request, for a line in state s,
Ask(a, pc, req, s) == [a EXCEPT !.pc = pc, !.req = req, !.initial = s]

\* and goes on after the parent's part in it.
Resume(a, pc) ==
  [a EXCEPT !.pc = pc, !.victim = NoLine, !.req = "GETS", !.initial = "I"]

\* What an access looks like after the lookup in the array: a miss allocates
\* a line, which may evict another, and must if there is one way.
AfterLookup(n, a) ==
  LET victims == IF state[n][a.line] # "I" THEN {}
                 ELSE {u \in Line \ {a.line} : state[n][u] # "I"}
  IN
  {[a EXCEPT !.pc = "evict", !.victim = v] : v \in victims} \cup
  IF n \in Direct /\ victims # {} THEN {} ELSE {[a EXCEPT !.pc = "ready"]}

-----------------------------------------------------------------------------
(* The cores                                                               *)

CoreTypes(n) == IF n \in ICache THEN {"GETS"} ELSE Gets

\* load and store: hits in the filter, without a lock
FilterHit(n, type, l) == IF type = "GETS" THEN filter[n].rd = l ELSE filter[n].wr = l
\* what replace leaves in it
Filtered(n, type, l) ==
  IF n \in Filters THEN [rd |-> l, wr |-> IF type = "GETX" THEN l ELSE NoLine] ELSE NoFilter

\* A store that hits in the filter; a load that does changes nothing.
FilterStore(n, l) ==
  /\ n \in Filters
  /\ acc[n].pc = "idle"
  /\ FilterHit(n, "GETX", l)
  /\ unsaved' = unsaved \cup {l}
  /\ UNCHANGED <<state, dir, acc, inv, filter, fault>>

\* contextSwitch
ContextSwitch(n) ==
  /\ n \in Switched
  /\ acc[n].pc = "idle"
  /\ filter' = [filter EXCEPT ![n] = NoFilter]
  /\ UNCHANGED <<state, dir, acc, inv, unsaved, fault>>

\* A hit in a leaf cache, all under its bcc lock
CoreHit(n, type, l) ==
  /\ n \in Leaf /\ type \in CoreTypes(n)
  /\ acc[n].pc = "idle"
  /\ ~FilterHit(n, type, l)
  /\ IF type = "GETS" THEN state[n][l] # "I" ELSE Exclusive(state[n][l])
  /\ IF type = "GETX"
       THEN /\ state' = [state EXCEPT ![n][l] = "M"]
            /\ unsaved' = unsaved \cup {l}
       ELSE UNCHANGED <<state, unsaved>>
  /\ filter' = [filter EXCEPT ![n] = Filtered(n, type, l)]
  /\ UNCHANGED <<dir, acc, inv, fault>>

\* A miss in a leaf cache: startAccess, lookup, preinsert
CoreMiss(n, type, l) ==
  /\ n \in Leaf /\ type \in CoreTypes(n)
  /\ acc[n].pc = "idle"
  /\ ~FilterHit(n, type, l)
  /\ IF type = "GETS" THEN state[n][l] = "I" ELSE ~Exclusive(state[n][l])
  /\ \E a \in AfterLookup(n, NewAccess(type, l, NoNode, n \in ICache)) :
       acc' = [acc EXCEPT ![n] = a]
  /\ UNCHANGED <<state, dir, inv, filter, unsaved, fault>>

\* The core's access is over: replace fills the filter before an invalidation
\* can come, which waits for filterLock.
CoreDone(n) ==
  /\ n \in Leaf
  /\ acc[n].pc = "filled"
  /\ unsaved' = IF acc[n].type = "GETX" THEN unsaved \cup {acc[n].line} ELSE unsaved
  /\ acc' = [acc EXCEPT ![n] = NoAccess]
  /\ filter' = [filter EXCEPT ![n] = Filtered(n, acc[n].type, acc[n].line)]
  /\ UNCHANGED <<state, dir, inv, fault>>

-----------------------------------------------------------------------------
(* The bottom controller                                                   *)

\* tcc->processEviction has invalidated the victim in the children.
ChildrenGone(n) == n \in Inner => dir[n][acc[n].victim].sharers = {}

\* bcc->processEviction, once no child has the victim: a PUT.  The root's goes
\* to the memory, which takes it at once.
EvictLine(n) ==
  LET a == acc[n]
      s == IF a.wb THEN "M" ELSE state[n][a.victim]
  IN
  /\ a.pc = "evict"
  /\ ChildrenGone(n)
  /\ fault' = (a.wb /\ ~Exclusive(state[n][a.victim]))
  /\ IF n = Root
       THEN /\ state' = [state EXCEPT ![n][a.victim] = "I"]
            /\ unsaved' = IF s = "M" THEN unsaved \ {a.victim} ELSE unsaved
            /\ acc' = [acc EXCEPT ![n] = Resume([a EXCEPT !.wb = FALSE], "ready")]
       ELSE /\ state' = [state EXCEPT ![n][a.victim] = s]
            /\ acc' = [acc EXCEPT ![n] = Ask([a EXCEPT !.wb = FALSE], "put",
                                             IF s = "M" THEN "PUTX" ELSE "PUTS", s)]
            /\ UNCHANGED unsaved
  /\ UNCHANGED <<dir, inv, filter>>

\* bcc->processAccess with the permissions it needs
BottomHit(n) ==
  LET a == acc[n]  s == state[n][a.line] IN
  /\ a.pc = "ready"
  /\ \/ a.type \in Puts
     \/ a.type = "GETS" /\ s # "I"
     \/ a.type = "GETX" /\ Exclusive(s)
  /\ fault' = \/ a.type = "PUTX" /\ ~Exclusive(s)
              \/ a.type = "PUTS" /\ s = "I"
  /\ state' = IF a.type \in {"GETX", "PUTX"} /\ s = "E"
                THEN [state EXCEPT ![n][a.line] = "M"] ELSE state
  /\ acc' = [acc EXCEPT ![n].pc = "filled"]
  /\ UNCHANGED <<dir, inv, filter, unsaved>>

\* bcc->processAccess without: a GET, which the memory serves at once.
BottomMiss(n) ==
  LET a == acc[n]  s == state[n][a.line] IN
  /\ a.pc = "ready"
  /\ \/ a.type = "GETS" /\ s = "I"
     \/ a.type = "GETX" /\ ~Exclusive(s)
  /\ IF n = Root
       THEN /\ state' = [state EXCEPT ![n][a.line] =
                            IF a.type = "GETX" THEN "M"
                            ELSE IF a.noexcl THEN "S" ELSE "E"]
            /\ acc' = [acc EXCEPT ![n].pc = "filled"]
       ELSE /\ acc' = [acc EXCEPT ![n] = Ask(a, "fetch", a.type, s)]
            /\ UNCHANGED state
  /\ UNCHANGED <<dir, inv, filter, unsaved, fault>>

-----------------------------------------------------------------------------
(* Requests from below                                                     *)

\* CheckForMESIRace: a PUTX of a line downgraded since is a PUTS; a PUT of a
\* line invalidated since is skipped.  s is the line's state now.
PatchedType(a, s) == IF a.req = "PUTX" /\ s = "S" THEN "PUTS" ELSE a.req
SkippedNever(a, s) == FALSE        \* faulty
SkippedIfInvalid(a, s) == s = "I"  \* faulty: GETs too
Skipped(a, s) == a.req \in Puts /\ s # a.initial /\ s = "I"

\* startAccess at the parent p of n, which has no other access under way and
\* no invalidation: CheckForMESIRace, and lookup unless the access is skipped.
StartAccess(n) ==
  LET p == Parent[n]
      l == ReqLine(n)
      a == acc[n]
      s == state[n][l]
      skip == Skipped(a, s)
  IN
  /\ n # Root
  /\ a.pc \in {"put", "fetch"}
  /\ acc[p].pc = "idle" /\ inv[p].pc = "idle"
  /\ fault' = \/ s # a.initial /\ a.req \in Puts /\ s \notin {"I", "S"}
              \/ s # a.initial /\ a.req = "GETX" /\ ~(a.initial = "S" /\ s = "I")
              \/ s # a.initial /\ a.req = "GETS"
              \/ ~skip /\ a.req \in Puts /\ state[p][l] = "I"
  /\ IF skip
       THEN acc' = [acc EXCEPT ![n] = Resume(a, "ready")]
       ELSE \E b \in AfterLookup(p, NewAccess(PatchedType(a, s), l, n, a.noexcl)) :
              acc' = [acc EXCEPT ![p] = b]
  /\ UNCHANGED <<state, dir, inv, filter, unsaved>>

\* tcc->processAccess begins: an upgrade miss takes the child off the list.
Serve(p) ==
  LET a == acc[p]  e == dir[p][a.line] IN
  /\ p \in Inner
  /\ a.pc = "filled"
  /\ IF a.type = "GETX"
       THEN dir' = [dir EXCEPT ![p][a.line].sharers = @ \ {a.child}]
       ELSE UNCHANGED dir
  /\ fault' = \/ a.type = "PUTX" /\ ~IsExclusive(e)
              \/ a.type \in Puts /\ a.child \notin e.sharers
              \/ a.type = "GETS" /\ a.child \in e.sharers
              \/ /\ a.type = "GETX"
                 /\ ~Exclusive(state[p][a.line]) \/ (a.child \in e.sharers /\ IsExclusive(e))
  /\ acc' = [acc EXCEPT ![p].pc = "serve"]
  /\ UNCHANGED <<state, inv, filter, unsaved>>

\* What cache p is invalidating in its children, if anything
SendTypeSoft(p) ==    \* faulty: a GETX only downgrades
  IF inv[p].pc = "send" THEN inv[p].type
  ELSE IF acc[p].pc = "serve" THEN "INVX" ELSE "INV"
SendType(p) ==
  IF inv[p].pc = "send" THEN inv[p].type
  ELSE IF acc[p].pc = "serve" /\ acc[p].type = "GETS" THEN "INVX" ELSE "INV"
SendLine(p) ==
  IF inv[p].pc = "send" THEN inv[p].line
  ELSE IF acc[p].pc = "evict" THEN acc[p].victim ELSE acc[p].line

\* The children sendInvalidates still has to call
SendTo(p) ==
  IF ~(p \in Inner /\ (\/ inv[p].pc = "send"
                       \/ acc[p].pc = "evict"
                       \/ acc[p].pc = "serve" /\ acc[p].type \in Gets))
    THEN {}
  ELSE LET e == dir[p][SendLine(p)] IN
       IF SendType(p) = "INVX" /\ ~IsExclusive(e) THEN {} ELSE e.sharers

\* The state tcc->processAccess gives the child of access a, when the line's
\* entry is e and the cache has it in state st
GrantedAnyway(a, e, st) ==    \* faulty: the other sharers are overlooked
  CASE a.type \in Puts -> "I"
    [] a.type = "GETX" -> "M"
    [] a.type = "GETS" -> IF Exclusive(st) /\ ~a.noexcl THEN "E" ELSE "S"
Granted(a, e, st) ==
  CASE a.type \in Puts -> "I"
    [] a.type = "GETX" -> "M"
    [] a.type = "GETS" ->
         IF e.sharers = {} /\ Exclusive(st) /\ ~a.noexcl THEN "E" ELSE "S"

\* The line's entry after it
NewEntryKept(a, e, st) ==     \* faulty: a PUT leaves the child on the list
  [sharers |-> e.sharers \cup {a.child}, exclusive |-> Granted(a, e, st) \in {"E", "M"}]
NewEntry(a, e, st) ==
  IF a.type \in Puts THEN [e EXCEPT !.sharers = @ \ {a.child}]
  ELSE [sharers |-> e.sharers \cup {a.child}, exclusive |-> Granted(a, e, st) # "S"]

\* tcc->processAccess ends: the child gets its state, p notes the writeback it
\* induced, and endAccess returns to the child with its bcc locked again.
EndAccess(p) ==
  LET a == acc[p]
      c == a.child
      l == a.line
      st == state[p][l]
  IN
  /\ a.pc = "serve"
  /\ SendTo(p) = {}
  /\ dir' = [dir EXCEPT ![p][l] = NewEntry(a, @, st)]
  /\ fault' = (a.wb /\ ~Exclusive(st))
  /\ state' = [state EXCEPT ![c][l] = Granted(a, dir[p][l], st),
                            ![p][l] = IF a.wb THEN "M" ELSE st]
  /\ acc' = [acc EXCEPT ![p] = NoAccess,
                        ![c] = Resume(acc[c], IF a.type \in Puts THEN "ready" ELSE "filled")]
  /\ UNCHANGED <<inv, filter, unsaved>>

-----------------------------------------------------------------------------
(* Invalidations                                                           *)

\* processInval tells the cache below of a dirty line.
WritesBack(s) == s = "M"

\* bcc->processInval at c, and what sendInvalidates at p does on the return
Invalidated(p, c, wb) ==
  LET type == SendType(p)  l == SendLine(p)  s == state[c][l]
      w == wb \/ WritesBack(s)
  IN
  /\ fault' = IF type = "INV" THEN s = "I" ELSE ~Exclusive(s)
  /\ state' = [state EXCEPT ![c][l] = IF type = "INV" THEN "I" ELSE "S"]
  /\ dir' = IF type = "INV" THEN [dir EXCEPT ![p][l].sharers = @ \ {c}]
                            ELSE [dir EXCEPT ![p][l].exclusive = FALSE]
  /\ IF inv[p].pc = "send"
       THEN /\ inv' = [inv EXCEPT ![p].wb = @ \/ w, ![c] = NoInv]
            /\ UNCHANGED acc
       ELSE /\ acc' = [acc EXCEPT ![p].wb = @ \/ w]
            /\ inv' = [inv EXCEPT ![c] = NoInv]
  /\ UNCHANGED unsaved

\* Faulty: a downgrade leaves the filter as it is.
FilterClearedForINV(f, type, l) == IF f.rd = l /\ type = "INV" THEN NoFilter ELSE f
\* What an invalidation leaves in the filter
FilterCleared(f, type, l) == IF f.rd = l THEN NoFilter ELSE f

\* A leaf is invalidated, or downgraded, under its bcc lock and its filter's.
InvalidateLeaf(p, c) ==
  /\ c \in SendTo(p) /\ c \in Leaf
  /\ BccFree(c)
  /\ filter' = [filter EXCEPT ![c] = FilterCleared(@, SendType(p), SendLine(p))]
  /\ Invalidated(p, c, FALSE)

\* An inner cache takes its bcc lock and goes on to its own children ...
StartInvalidate(p, c) ==
  /\ c \in SendTo(p) /\ c \in Inner
  /\ BccFree(c)
  /\ inv' = [inv EXCEPT ![c] = [pc |-> "send", type |-> SendType(p),
                                line |-> SendLine(p), wb |-> FALSE]]
  /\ UNCHANGED <<state, dir, acc, filter, unsaved, fault>>

\* ... and when they are done changes its own state and returns.
FinishInvalidateClean(p, c) ==    \* faulty: their writebacks are dropped
  /\ c \in Children(p)
  /\ inv[c].pc = "send" /\ SendTo(c) = {}
  /\ Invalidated(p, c, FALSE)
  /\ UNCHANGED filter
FinishInvalidate(p, c) ==
  /\ c \in Children(p)
  /\ inv[c].pc = "send" /\ SendTo(c) = {}
  /\ Invalidated(p, c, inv[c].wb)
  /\ UNCHANGED filter

-----------------------------------------------------------------------------
\* A step of an access or invalidation that is under way
Continue ==
  \/ \E n \in Node :
       \/ CoreDone(n) \/ EvictLine(n) \/ BottomHit(n) \/ BottomMiss(n)
       \/ StartAccess(n) \/ Serve(n) \/ EndAccess(n)
  \/ \E p, c \in Node :
       InvalidateLeaf(p, c) \/ StartInvalidate(p, c) \/ FinishInvalidate(p, c)

CoreStart ==
  \E n \in Node :
    \E l \in Line : FilterStore(n, l)
                   \/ \E type \in Gets : CoreHit(n, type, l) \/ CoreMiss(n, type, l)

\* A failed assertion ends the program.
Next == ~fault /\ (CoreStart \/ (\E n \in Node : ContextSwitch(n)) \/ Continue)

\* Every thread runs: as long as some step of the work under way is possible,
\* one is taken.  No thread is promised a lock that others keep taking.
Fairness == WF_vars(~fault /\ Continue)

Spec == Init /\ [][Next]_vars
FairSpec == Spec /\ Fairness
-----------------------------------------------------------------------------
(* Properties                                                              *)

Access == [pc: {"idle", "evict", "put", "ready", "fetch", "filled", "serve"},
           type: Gets \cup Puts, line: Line \cup {NoLine}, child: Node \cup {NoNode},
           noexcl: BOOLEAN, victim: Line \cup {NoLine}, wb: BOOLEAN,
           req: Gets \cup Puts, initial: MESI]
Invalidation == [pc: {"idle", "send"}, type: {"INV", "INVX"},
                 line: Line \cup {NoLine}, wb: BOOLEAN]

\* The types of the variables, and what an access is about in each phase.
TypeOK ==
  /\ state \in [Node -> [Line -> MESI]]
  /\ dir \in [Inner -> [Line -> [sharers: SUBSET Node, exclusive: BOOLEAN]]]
  /\ acc \in [Node -> Access]
  /\ inv \in [Node -> Invalidation]
  /\ filter \in [Leaf -> [rd: Line \cup {NoLine}, wr: Line \cup {NoLine}]]
  /\ unsaved \in SUBSET Line
  /\ fault \in BOOLEAN
  /\ \A n \in Node :
       /\ acc[n].pc = "idle" <=> acc[n].line = NoLine
       /\ acc[n].pc \in {"evict", "put"} <=> acc[n].victim # NoLine
       /\ acc[n].child # NoNode <=> n \in Inner /\ acc[n].pc # "idle"
       /\ acc[n].child # NoNode => acc[n].child \in Children(n)

\* No assertion or panic is hit: CheckForMESIRace covers every race there is,
\* and beyond it the controllers "should be written as if they were race-free".
AssertionsHold == ~fault

\* The caches above each one: those in every set that has it and the parents of
\* its members
Above ==
  [n \in Node |-> {a \in Node \ {n} :
     \A S \in SUBSET Node : n \in S /\ (\A x \in S \ {Root} : Parent[x] \in S) => a \in S}]

\* Single writer or many readers: a cache with an exclusive copy shares the
\* line only with the caches above and below it.
SingleWriter ==
  \A m, n \in Node, l \in Line :
    /\ m # n /\ m \notin Above[n] /\ n \notin Above[m]
    /\ Exclusive(state[m][l])
    => state[n][l] = "I"

\* Inclusion, of permissions too: what a cache may do, its parent may.
Inclusion ==
  \A n \in Node \ {Root}, l \in Line :
    /\ state[n][l] # "I" => state[Parent[n]][l] # "I"
    /\ Exclusive(state[n][l]) => Exclusive(state[Parent[n]][l])

\* The directory lists exactly the children with a copy, whichever requests
\* and invalidations crossed on the way; but a child in the middle of an
\* upgrade may be off the list with its copy.
DirectoryExact ==
  \A n \in Node \ {Root}, l \in Line :
    LET p == Parent[n] IN
    \/ n \in dir[p][l].sharers <=> state[n][l] # "I"
    \/ acc[p].pc = "serve" /\ acc[p].type = "GETX" /\ acc[p].child = n
       /\ acc[p].line = l /\ n \notin dir[p][l].sharers

\* The three together: what a controller relies on when it locks a line.
HierarchyExact == TypeOK /\ Inclusion /\ DirectoryExact

\* No write is lost: until the memory has it, a line a core wrote is in state
\* M somewhere, or the writeback flag of the access or invalidation that took
\* it away is on its way up to a cache that will be.
NoLostWrite ==
  \A l \in unsaved :
    \/ \E n \in Node : state[n][l] = "M"
    \/ \E n \in Node : acc[n].wb /\ SendLine(n) = l
    \/ \E n \in Node : inv[n].wb /\ inv[n].line = l

\* What hits in a filter without a lock would hit in its cache: a line that may
\* be read is there, one that may be written is in state M; but while an access
\* replaces the entry, its victim may be the line of the old one.
FilterIncluded ==
  \A n \in Leaf : \A l \in Line :
    /\ filter[n].rd = l => state[n][l] # "I" \/ acc[n].pc # "idle"
    /\ filter[n].wr = l => filter[n].rd = l /\ (state[n][l] = "M" \/ acc[n].pc # "idle")

\* What the cores see is coherent: the leaf caches implement Copies.
Coherent == INSTANCE Copies
              WITH Cache <- Leaf, copy <- [n \in Leaf |-> state[n]]
ImplementsCopies == Coherent!Spec

\* Breaking the lock chain on the way up is what avoids deadlock: unless the
\* cores keep starting accesses, every access and invalidation finishes.
Quiet == \A n \in Node : acc[n].pc = "idle" /\ inv[n].pc = "idle"
AllFinish == ([]<>Quiet) \/ ([]<><<CoreStart>>_vars)
=============================================================================
