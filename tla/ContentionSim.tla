--------------------------- MODULE ContentionSim ----------------------------
(***************************************************************************)
(* The weave phase (ContentionSim, TimingEvent, CrossingEvent) with what   *)
(* makes its events: the recorder of each core (CoreRecorder) and, in each *)
(* domain, a TimingCache over a memory.                                    *)
(*                                                                         *)
(* In the bound phase cores run ahead and record their accesses as events  *)
(* that follow one another.  An event whose predecessor is in another      *)
(* domain follows a crossing instead.  In the weave phase the simulation   *)
(* threads run the events of their domains up to the limit of the phase,   *)
(* in order of cycles; what delays them delays the cores.  A crossing that *)
(* comes up before its source is done reads the clock of the source's      *)
(* domain, without a lock, and queues itself again.                        *)
(*                                                                         *)
(* The events of a core are numbered; a number is free again when its      *)
(* event is done, as the code frees an event in done().                    *)
(*                                                                         *)
(* What a thread does in its own domain, out of sight of other threads, is *)
(* one step with what they may see: a thread takes an event and runs it in *)
(* one step, and in another it publishes that it has.                      *)
(***************************************************************************)
EXTENDS PrioQueue, TLC, FiniteSets, FiniteSetsExt, SequencesExt

CONSTANTS
  Core,
  numDomains,
  Configs,       \* numbers of simulation threads (numSimThreads) and of MSHRs
                 \* of each cache (numMSHRs)
  coreDomain,    \* the domain of a core that joins
  accLat,        \* latency of a hit
  memPre,        \* preDelay and
  memPost,       \* postDelay of a memory access
  phaseLength,
  Accesses,      \* what each core may do: see Record
  MaxAccesses,   \* bounds: accesses of each core,
  MaxLeaves,     \*   times it leaves,
  MaxPhases,     \*   phases,
  MaxEvents      \*   its events at a time

ASSUME CSimAssumption ==
  /\ IsFiniteSet(Core) /\ Core # {}
  /\ numDomains \in Nat \ {0}
  /\ \A f \in Configs : f.numSimThreads \in Nat \ {0} /\ numDomains % f.numSimThreads = 0
                         /\ f.numMSHRs \in Nat \ {0}
  /\ coreDomain \in [Core -> 0 .. numDomains - 1]
  /\ {phaseLength, accLat} \subseteq Nat \ {0}
  /\ {memPre, memPost} \subseteq Nat
  /\ \A c \in Core : Accesses[c] \subseteq
       [type: {"hit", "miss"}, think: Nat, bank: 0 .. numDomains - 1,
        mem: 0 .. numDomains - 1, lat: Nat]
  /\ MaxEvents \in Nat

VARIABLES
  ev,            \* the events
  pq,            \* the queue of each domain,
  curCycle,      \*   its clock,
  prio,          \*   how its last crossing fared, and
  queuePrio,     \*   its place among the domains of a thread
  cache,         \* the TimingCache of each domain
  rec,           \* the recorder of each core
  lastCrossing,  \* the last crossing of a core between two domains
  sim,           \* the state of the whole simulation
  th,            \* the simulation threads
  live,          \* liveElems of the slab of each core
  slab,          \* what has become of it: see Collected
  halves,        \* (history) source halves of crossings freed so far, of each core
  fault          \* an assertion or panic other than that of freeElem was hit

graphVars == <<ev, pq, live, slab, halves>>
vars == <<graphVars, curCycle, prio, queuePrio, cache, rec, lastCrossing, sim, th, fault>>

Domain == 0 .. numDomains - 1
Ids == Core \X (1 .. MaxEvents)
NoId == <<>>

-----------------------------------------------------------------------------
(* Building the graph.  g is the graph under construction: events, queues, *)
(* slab counts, crossings and their stack, the path made so far, and       *)
(* whether all assertions held.                                            *)

NoEvent ==
  [kind |-> "none", state |-> "none", owner |-> NoId, dom |-> 0, pre |-> 0, post |-> 0,
   minStart |-> 0, cycle |-> 0, parents |-> 0, kids |-> {}, xing |-> NoId,
   orig |-> 0, lat |-> 0, src |-> 0, parentEv |-> NoId, preSlack |-> 0, postSlack |-> 0,
   called |-> FALSE, doneCycle |-> 0]

\* orig (origStartCycle) is (history) kept for every event: the cycle that it
\* had in the bound phase, without the delays found so far.
Event(kind, c, d, post, minStart) ==
  [NoEvent EXCEPT !.kind = kind, !.owner = c, !.dom = d, !.post = post,
                  !.minStart = minStart, !.orig = minStart - rec[c].gapCycles]

Graph(c) ==
  [ev |-> ev, pq |-> pq, live |-> live, last |-> lastCrossing, stack |-> <<>>,
   path |-> <<rec[c].prevRespEvent>>, prev |-> [b \in Core |-> rec[b].prevRespEvent],
   ok |-> TRUE]

Free(c, events) == {n \in 1 .. MaxEvents : events[<<c, n>>].kind = "none"}

\* Children, one of which may be the source half of a crossing
Links(e) == Cardinality(e.kids) + IF e.xing # NoId THEN 1 ELSE 0
\* The second child needs a TimingEventBlock of its own from the slab.
Block2(e) == IF Links(e) = 1 THEN 1 ELSE 0

\* alloc: the new event goes to the end of the path.  What a slab that was
\* collected too early makes of it is in HandedOut.
Create(g, e) ==
  LET i == <<e.owner, Least(Free(e.owner, g.ev))>> IN
  [g EXCEPT !.ev[i] = e, !.live[e.owner] = @ + 1, !.path = Append(@, i)]

AddChild(g, p, k) ==
  [g EXCEPT !.ev[p].kids = @ \cup {k},
            !.ev[k].parents = @ + 1,
            !.live[g.ev[p].owner] = @ + Block2(g.ev[p]),
            !.ok = @ /\ g.ev[p].kind # "none" /\ g.ev[p].state \in {"none", "queued"}
                     /\ g.ev[k].state = "none"]

EnqueueSynced(g, i, cycle) ==
  LET d == g.ev[i].dom IN
  [g EXCEPT !.pq[d] = Enqueue(@, i, cycle),
            !.ok = @ /\ ~sim.inCSim /\ cycle >= sim.lastLimit /\ g.ev[i].parents = 0
                     /\ MayEnqueue(g.pq[d], cycle)]

\* enqueueCrossing of a new crossing x
EnqueueCrossing(g, x, cycle) ==
  LET e == g.ev[x]
      top == IF g.stack = <<>> THEN NoEvent ELSE g.ev[Last(g.stack)]
      isResp == g.stack # <<>> /\ top.src = e.dom /\ top.dom = e.src
      last == g.last[e.owner][e.src][e.dom]
      pushed == [g EXCEPT !.stack = Append(@, x),
                          !.last[e.owner][e.src][e.dom] = [cycle |-> cycle, ev |-> x]]
  IN
  IF isResp THEN AddChild([g EXCEPT !.stack = Front(@)], top.parentEv, x)
  ELSE IF last.cycle > curCycle[e.src] /\ last.cycle <= cycle
  THEN AddChild([pushed EXCEPT !.ok = @ /\ g.ev[last.ev].kind = "cross"], last.ev, x)
  ELSE EnqueueSynced([pushed EXCEPT !.ok = @ /\ cycle >= curCycle[e.src]], x, cycle)

PreSlackNone(post) == post    \* faulty: two domains may wait for each other
\* With no delay to take over, a crossing still has a slack of one cycle.
PreSlackOf(post) == IF post = 0 THEN 1 ELSE post

\* handleCrossing: k, in another domain, follows p by a crossing.
Cross(g, p, k) ==
  LET parent == g.ev[p]
      c == parent.owner
      preSlack == PreSlackOf(parent.post)
      minStart == parent.minStart + preSlack
      x == [Event("cross", c, g.ev[k].dom, 0, minStart) EXCEPT
              !.src = parent.dom, !.parentEv = p, !.preSlack = preSlack, !.postSlack = g.ev[k].pre]
      made == Create(g, x)
      id == Last(made.path)
      linked == AddChild([made EXCEPT !.path = g.path,
                                      !.ev[p].xing = id,
                                      !.live[c] = @ + Block2(parent)], id, k)
  IN EnqueueCrossing(linked, id, Max({sim.lastLimit, minStart}))

\* The next event of a path follows the one before it.
Follow(g, e) ==
  LET made == Create(g, e)  p == Last(g.path)  k == Last(made.path) IN
  IF g.ev[p].dom = e.dom THEN AddChild(made, p, k) ELSE Cross(made, p, k)

\* A TimingCoreEvent; it inherits the domain of the event it follows.
CoreEvent(c, d, delay, cycle) == Event("core", c, d, delay, cycle)
FollowCore(g, c, delay, cycle) ==
  Follow(g, CoreEvent(c, g.ev[Last(g.path)].dom, delay, cycle))

\* A slab that was collected (usedBytes is 0) is used again from its beginning,
\* where events may be alive if it was collected too early.
HandedOut(c, g) ==
  IF slab[c] = "early" /\ g.live[c] > live[c] THEN "reused" ELSE slab[c]

Built(g) ==
  /\ ev' = g.ev /\ pq' = g.pq /\ live' = g.live /\ lastCrossing' = g.last
  /\ slab' = [c \in Core |-> HandedOut(c, g)]
  /\ fault' = ~g.ok

-----------------------------------------------------------------------------
(* The bound phase                                                         *)

Asleep == [pc |-> "asleep", dom |-> 0, ev |-> NoId, cyc |-> 0, next |-> 0,
           domPq |-> {}, stalled |-> <<>>, nextStalled |-> <<>>, fromStalled |-> FALSE]

PhaseEnd == sim.lastLimit + phaseLength
InBound(c) == ~sim.inCSim /\ sim.lastLimit < MaxPhases * phaseLength /\ ~fault

Init ==
  /\ ev = [i \in Ids |-> NoEvent]
  /\ pq = [d \in Domain |-> EmptyQueue]
  /\ curCycle = [d \in Domain |-> 0]
  /\ prio = [d \in Domain |-> 0]
  /\ queuePrio = [d \in Domain |-> 0]
  /\ rec = [c \in Core |-> [state |-> "HALTED", prevRespEvent |-> NoId, prevRespCycle |-> 0,
                            curCycle |-> 0, gapCycles |-> 0, lastStart |-> 0, lastOrig |-> 0,
                            startSlack |-> 0, accesses |-> 0, leaves |-> 0]]
  /\ lastCrossing = [c \in Core |-> [s \in Domain |-> [d \in Domain |->
                                      [cycle |-> 0, ev |-> NoId]]]]
  /\ \E f \in Configs :
       /\ sim = [inCSim |-> FALSE, limit |-> 0, lastLimit |-> 0, threadsDone |-> 0,
                 numSimThreads |-> f.numSimThreads, woken |-> {}, waitOpen |-> FALSE]
       /\ th = [t \in 0 .. f.numSimThreads - 1 |-> Asleep]
       /\ cache = [d \in Domain |-> [activeMisses |-> 0, numMSHRs |-> f.numMSHRs,
                                     lastAccCycle |-> 0, lastFreeCycle |-> 0,
                                     pendingQueue |-> {}]]
  /\ live = [c \in Core |-> 0]
  /\ slab = [c \in Core |-> "ok"]
  /\ halves = [c \in Core |-> 0]
  /\ fault = FALSE

\* notifyJoin
Join(c) ==
  /\ InBound(c) /\ rec[c].state \in {"HALTED", "DRAINING"}
  /\ Cardinality(Free(c, ev)) >= 1
  /\ IF rec[c].state = "HALTED"
     THEN LET now == sim.lastLimit
              g == Create(Graph(c), [CoreEvent(c, coreDomain[c], 0, now) EXCEPT !.orig = now])
              i == Last(g.path)
          IN /\ Built(EnqueueSynced([g EXCEPT !.ev[i].state = "queued",
                                              !.ok = rec[c].prevRespEvent = NoId
                                                     /\ rec[c].lastStart <= now], i, now))
             /\ rec' = [rec EXCEPT ![c].state = "RUNNING", ![c].prevRespEvent = i,
                                   ![c].prevRespCycle = now, ![c].curCycle = now,
                                   ![c].gapCycles = 0, ![c].startSlack = 0]
     ELSE /\ rec' = [rec EXCEPT ![c].state = "RUNNING"]
          /\ Built([Graph(c) EXCEPT !.ok = rec[c].curCycle >= sim.lastLimit])
  /\ UNCHANGED <<curCycle, prio, queuePrio, cache, sim, th, halves>>

\* A running core that has not reached the end of the phase
CanRun(c) == InBound(c) /\ rec[c].state = "RUNNING" /\ rec[c].curCycle <= PhaseEnd

\* notifyLeave: an event up to the current cycle, and one that ends the sequence
Leave(c) ==
  LET r == rec[c]
      g == FollowCore(Graph(c), c, r.curCycle - r.prevRespCycle, r.prevRespCycle)
      h == FollowCore(g, c, 0, r.curCycle)
  IN
  /\ CanRun(c) /\ r.leaves < MaxLeaves[c]
  /\ Cardinality(Free(c, ev)) >= 6
  /\ Built(h)
  /\ rec' = [rec EXCEPT ![c].state = "DRAINING", ![c].prevRespEvent = Last(h.path),
                        ![c].prevRespCycle = r.curCycle, ![c].leaves = @ + 1]
  /\ UNCHANGED <<curCycle, prio, queuePrio, cache, sim, th, halves>>

\* recordAccess of a get that the cache of domain a.bank answers, or the
\* memory of domain a.mem behind it, a.think cycles after the last access.
\* The first instruction takes a cycle.
Record(c, a) ==
  LET r == rec[c]
      req == r.curCycle + a.think
      resp == req + accLat + IF a.type = "hit" THEN 0 ELSE memPre + memPost
      g == FollowCore(Graph(c), c, req - r.prevRespCycle, r.prevRespCycle)
      hit == Follow(g, Event("hit", c, a.bank, accLat, req))
      mse == Follow(g, Event("missStart", c, a.bank, accLat, req))
      mem == Follow(mse, [Event("mem", c, a.mem, memPost, req + accLat)
                            EXCEPT !.pre = memPre, !.lat = a.lat])
      mre == Follow(mem, Event("missResp", c, a.bank, 0, resp))
      mwe == Follow(mre, Event("missWb", c, a.bank, accLat, resp))
  IN
  /\ CanRun(c) /\ r.accesses < MaxAccesses[c] /\ req > 0
  /\ Cardinality(Free(c, ev)) >= 12
  /\ Built(IF a.type = "hit" THEN hit ELSE mwe)
  /\ rec' = [rec EXCEPT ![c].prevRespEvent = IF a.type = "hit" THEN Last(hit.path)
                                              ELSE Last(mre.path),
                        ![c].prevRespCycle = resp, ![c].curCycle = resp,
                        ![c].accesses = @ + 1]
  /\ UNCHANGED <<curCycle, prio, queuePrio, cache, sim, th, halves>>

\* cSimStart: a running core has run past the end of the phase; its last event
\* starts in the next one.
CSimStartAtLimit(c) ==    \* faulty: the last event may be due in this phase
  IF rec[c].state = "RUNNING" THEN Max({rec[c].curCycle, PhaseEnd}) ELSE rec[c].curCycle
CSimStartCycle(c) ==
  CASE rec[c].state = "HALTED"   -> rec[c].curCycle
    [] rec[c].state = "RUNNING"  -> Max({rec[c].curCycle, PhaseEnd + 1})
    [] rec[c].state = "DRAINING" -> Max({rec[c].curCycle, PhaseEnd})
CSimStart(g, c) ==
  LET r == rec[c]  now == CSimStartCycle(c)
      own == [g EXCEPT !.path = <<r.prevRespEvent>>]
      covered == IF r.prevRespCycle < now
                 THEN FollowCore(own, c, now - r.prevRespCycle, r.prevRespCycle) ELSE own
  IN IF r.state = "RUNNING"
     THEN LET h == FollowCore(covered, c, 0, now)
          IN  [h EXCEPT !.prev = [@ EXCEPT ![c] = Last(h.path)]]
     ELSE g

\* simulatePhase, up to waking the threads
StartWeave ==
  LET c0 == CHOOSE c \in Core : TRUE
      g == FoldSet(LAMBDA c, h : CSimStart(h, c), Graph(c0), Core)
  IN
  /\ \A c \in Core : InBound(c) /\ Cardinality(Free(c, ev)) >= 2
  /\ Built(g)
  /\ rec' = [c \in Core |-> [rec[c] EXCEPT
               !.curCycle = CSimStartCycle(c), !.prevRespEvent = g.prev[c],
               !.prevRespCycle = IF rec[c].state = "RUNNING" THEN CSimStartCycle(c) ELSE @]]
  /\ sim' = [sim EXCEPT !.inCSim = TRUE, !.limit = PhaseEnd, !.woken = DOMAIN th]
  /\ UNCHANGED <<curCycle, prio, queuePrio, cache, th, halves>>

\* cSimEnd: the delay that the weave phase found moves the core's clock.
SkewOf(c) == rec[c].lastStart - (rec[c].lastOrig + rec[c].gapCycles)
CSimEndFails(c) ==
  LET r == rec[c] IN
  /\ r.state # "HALTED"
  /\ \/ r.lastOrig + r.gapCycles > r.curCycle \/ r.lastStart > r.curCycle
     \/ SkewOf(c) < 0
     \/ r.prevRespEvent = NoId /\ r.state # "DRAINING"
CSimEndNoGap(c) ==    \* faulty: the gap to the cycles of the bound phase is kept
  LET r == rec[c] IN
  IF r.state = "HALTED" THEN r
  ELSE [r EXCEPT !.curCycle = @ + SkewOf(c), !.prevRespCycle = @ + SkewOf(c),
                 !.state = IF r.prevRespEvent = NoId THEN "HALTED" ELSE @]
CSimEnd(c) ==
  LET r == rec[c] IN
  IF r.state = "HALTED" THEN r
  ELSE [r EXCEPT !.curCycle = @ + SkewOf(c), !.gapCycles = @ + SkewOf(c),
                 !.prevRespCycle = @ + SkewOf(c),
                 !.state = IF r.prevRespEvent = NoId THEN "HALTED" ELSE @]

\* simulatePhase, once the last thread has opened waitLock
EndWeave ==
  /\ sim.inCSim /\ sim.waitOpen /\ ~fault
  /\ rec' = [c \in Core |-> CSimEnd(c)]
  /\ fault' = \E c \in Core : CSimEndFails(c)
  /\ sim' = [sim EXCEPT !.inCSim = FALSE, !.waitOpen = FALSE, !.lastLimit = sim.limit]
  /\ UNCHANGED <<graphVars, curCycle, prio, queuePrio, cache, lastCrossing, th>>

-----------------------------------------------------------------------------
(* The weave phase: running an event.  w is the part of the state that an  *)
(* event changes: events, queues, clocks, slab counts, the assertions.     *)

\* What lives in the slab of a core: events, and blocks of children of theirs
EventsOf(c, events) == {i \in {c} \X (1 .. MaxEvents) : events[i].kind # "none"}
BlocksOf(c, events) == {i \in {c} \X (1 .. MaxEvents) : Links(events[i]) > 1}

\* What the calls of freeElem in a step make of a core's slab: one that finds
\* liveElems 0 fails its assertion (the code's counter wraps, live is negative);
\* one that leaves 0 has the slab collected, too early if events of it are alive.
\* Of a slab that has failed or was used again after that, no more is said: the
\* model goes on as if its events were safe.
Collected(c, w) ==
  CASE slab[c] \in {"failed", "reused"} -> slab[c]
    [] slab[c] \in {"ok", "early"} /\ w.live[c] < 0 -> "failed"
    [] slab[c] = "ok" /\ w.live[c] = 0 /\ EventsOf(c, w.ev) # {} -> "early"
    [] OTHER -> slab[c]

World == [ev |-> ev, pq |-> pq, cur |-> curCycle, live |-> live,
          halves |-> halves, ok |-> TRUE]
Becomes(w) ==
  /\ ev' = w.ev /\ pq' = w.pq /\ curCycle' = w.cur /\ live' = w.live
  /\ slab' = [c \in Core |-> Collected(c, w)]
  /\ halves' = w.halves /\ fault' = ~w.ok

\* enqueue, of events of domain d, each at its cycle
EnqueueAll(w, d, at) ==
  [w EXCEPT !.pq[d] = EnqueueEach(@, at),
            !.ev = [i \in Ids |-> IF i \in DOMAIN at THEN [@[i] EXCEPT !.state = "queued"]
                                  ELSE @[i]],
            !.ok = @ /\ sim.inCSim /\ \A i \in DOMAIN at :
                     /\ at[i] >= sim.lastLimit /\ at[i] >= w.cur[d]
                     /\ MayEnqueue(w.pq[d], at[i])]

\* requeue
Requeue(w, d, events, cycle) ==
  EnqueueAll([w EXCEPT !.ok = @ /\ \A i \in events :
                         w.ev[i].parents = 0 /\ w.ev[i].state \in {"running", "held"}],
             d, [i \in events |-> cycle])

\* parentDone, for a crossing and for other events
Told(e, start) ==
  LET own == IF e.kind = "cross" THEN Max({start, e.minStart}) ELSE start IN
  [e EXCEPT !.cycle = Max({@, own}), !.parents = @ - 1,
            !.doneCycle = IF e.kind = "cross" /\ e.called THEN Max({@, own}) ELSE @]
\* parentDone of all of these events; those with no other parent are queued.
ParentDone(w, d, kids, start) ==
  LET told == [i \in Ids |-> IF i \in kids THEN Told(w.ev[i], start) ELSE w.ev[i]]
      ready == {k \in kids : w.ev[k].parents = 1}
  IN EnqueueAll([w EXCEPT !.ev = told,
                          !.ok = /\ @
                                 /\ \A k \in kids : w.ev[k].parents > 0
                                 /\ \A k \in ready : w.ev[k].state = "none"],
                d, [k \in ready |-> told[k].cycle + told[k].pre])

\* Faulty: the block of the children is kept.
FreeEventOnly(w, i) == [w EXCEPT !.ev[i] = NoEvent, !.live[w.ev[i].owner] = @ - 1]
\* freeEvent: freeElem of the block of the children, if any, and of the event;
\* see Collected
FreeEvent(w, i) ==
  [w EXCEPT !.ev[i] = NoEvent,
            !.live[w.ev[i].owner] = @ - IF Links(w.ev[i]) > 1 THEN 2 ELSE 1]

\* The first half of markSrcEventDone: doneCycle is set before called.
SourceDone(w, x, cycle) ==
  [w EXCEPT !.ev[x].doneCycle = cycle,
            !.ok = @ /\ ~w.ev[x].called /\ w.ev[x].kind = "cross"
                     /\ cycle >= w.cur[w.ev[x].src]]

\* done(): what follows event i goes on.  An event with a crossing is freed
\* once the source half of the crossing has been called (Publish).
Done(w, i, cycle) ==
  LET e == w.ev[i]
      start == cycle + e.post
      kidsDone == ParentDone(w, e.dom, e.kids, start)
  IN IF e.xing = NoId THEN FreeEvent(kidsDone, i) ELSE SourceDone(kidsDone, e.xing, start)

\* Thread t, with local state l, is done with its event.
HasRun(t, l, w) ==
  /\ \E done \in {Done(w, l.ev, l.cyc)} : Becomes(done)
  /\ th' = [th EXCEPT ![t] = [l EXCEPT !.pc = "after", !.cyc = 0, !.next = 0,
                                       !.ev = IF w.ev[@].xing = NoId THEN NoId ELSE @]]
\* It is not: the event runs again later.
HasNotRun(t, l, w) ==
  /\ Becomes(w)
  /\ th' = [th EXCEPT ![t] = [l EXCEPT !.pc = "after", !.cyc = 0, !.next = 0,
                                       !.ev = NoId]]

\* TimingCoreEvent: reportEventSimulated
RunCore(t, l, w) ==
  LET i == l.ev  e == w.ev[i]  c == e.owner
      last == i = rec[c].prevRespEvent
  IN
  /\ e.kind = "core"
  /\ rec' = [rec EXCEPT ![c].lastStart = l.cyc, ![c].lastOrig = e.orig,
                        ![c].prevRespEvent = IF last THEN NoId ELSE @,
                        ![c].startSlack = l.cyc - e.orig]
  /\ HasRun(t, l, [w EXCEPT !.ok = @ /\ (last => rec[c].state = "DRAINING")])
  /\ UNCHANGED <<prio, cache>>

\* An access to memory (its latency beyond the least one was found in the
\* bound phase), and the response of a miss
RunMemory(t, l, w) ==
  /\ w.ev[l.ev].kind \in {"mem", "missResp"}
  /\ HasRun(t, [l EXCEPT !.cyc = @ + w.ev[l.ev].lat], w)
  /\ UNCHANGED <<prio, cache, rec>>

\* TimingCache: highPrioAccess and tryLowPrioAccess
LookupCycle(d, cycle) == Max({cycle, cache[d].lastAccCycle + 1})
HighPrio(k, d, cycle) ==
  [k EXCEPT !.lastFreeCycle = IF k.lastAccCycle < cycle - 1 THEN cycle - 1 ELSE @,
            !.lastAccCycle = LookupCycle(d, cycle)]
LowPrioGranted(d, cycle) ==
  cache[d].lastAccCycle < cycle - 1 \/ cache[d].lastFreeCycle = cycle - 1
LowPrio(k, cycle) ==
  [k EXCEPT !.lastFreeCycle = 0, !.lastAccCycle = Max({cycle - 1, @})]

\* simulateHit, simulateMissStart
RunLookup(t, l, w) ==
  LET i == l.ev  d == l.dom
      miss == w.ev[i].kind = "missStart"
  IN
  /\ w.ev[i].kind \in {"hit", "missStart"}
  /\ IF cache[d].activeMisses < cache[d].numMSHRs
     THEN /\ HasRun(t, [l EXCEPT !.cyc = LookupCycle(d, @)],
                    [w EXCEPT !.ok = @ /\ l.cyc >= cache[d].lastFreeCycle])
          /\ cache' = [cache EXCEPT ![d] =
               [HighPrio(cache[d], d, l.cyc) EXCEPT !.activeMisses = IF miss THEN @ + 1 ELSE @]]
     ELSE /\ HasNotRun(t, l, [w EXCEPT !.ev[i].state = "held"])
          /\ cache' = [cache EXCEPT ![d].pendingQueue = @ \cup {i}]
  /\ UNCHANGED <<prio, rec>>

ReleasedNot(w, d, cycle) == w    \* faulty: those that wait are forgotten
\* All that wait for an MSHR try again.
Released(w, d, cycle) == Requeue(w, d, cache[d].pendingQueue, cycle)

\* simulateMissWriteback: release the MSHR when the cache has a free cycle.
RunWriteback(t, l, w) ==
  LET d == l.dom IN
  /\ w.ev[l.ev].kind = "missWb"
  /\ IF LowPrioGranted(d, l.cyc)
     THEN /\ cache' = [cache EXCEPT ![d] =
               [LowPrio(cache[d], l.cyc) EXCEPT !.activeMisses = @ - 1, !.pendingQueue = {}]]
          /\ HasRun(t, l, Released([w EXCEPT !.ok = @ /\ cache[d].activeMisses > 0], d, l.cyc + 1))
     ELSE /\ HasNotRun(t, l, Requeue(w, d, {l.ev}, l.cyc + 1))
          /\ UNCHANGED cache
  /\ UNCHANGED <<prio, rec>>

\* CrossingEvent::simulate.  Either the source is done,
FinishCrossing(t, l, w) ==
  LET e == w.ev[l.ev] IN
  /\ e.called
  /\ HasRun(t, [l EXCEPT !.cyc = Max({@, e.doneCycle})], w)
  /\ prio' = [prio EXCEPT ![l.dom] = 0]
RunCrossing(t, l, w) ==
  /\ w.ev[l.ev].kind = "cross"
  /\ \/ FinishCrossing(t, l, w)
     \/ /\ ~w.ev[l.ev].called
        /\ Becomes(w) /\ th' = [th EXCEPT ![t] = [l EXCEPT !.pc = "look"]]
        /\ UNCHANGED prio
  /\ UNCHANGED <<cache, rec>>

RestOfRun == UNCHANGED <<queuePrio, lastCrossing, sim>>

\* or the clock of the source's domain and the delay of the core say when to
\* look again,
Look(t) ==
  LET e == ev[th[t].ev] IN
  /\ th[t].pc = "look"
  /\ th' = [th EXCEPT ![t].pc = "recheck",
       ![t].next = Max({rec[e.owner].startSlack + e.orig + e.postSlack,
                        curCycle[e.src] + e.preSlack + e.postSlack, th[t].cyc})]
  /\ UNCHANGED <<graphVars, curCycle, prio, cache, rec, fault>> /\ RestOfRun

LookLater(t) ==
  LET l == th[t] IN
  /\ \E w \in {Requeue([World EXCEPT !.ev[l.ev].parents = 0], l.dom, {l.ev}, l.next)} :
       HasNotRun(t, l, w)
  /\ prio' = [prio EXCEPT ![l.dom] = IF l.next = l.cyc THEN 1 ELSE 2]
\* Faulty: the clocks have been read, and called is not read again.
RecheckNot(t) ==
  /\ th[t].pc = "recheck"
  /\ LookLater(t)
  /\ UNCHANGED <<cache, rec>> /\ RestOfRun
\* unless the source is done by now.
Recheck(t) ==
  /\ th[t].pc = "recheck"
  /\ FinishCrossing(t, th[t], World) \/ (~ev[th[t].ev].called /\ LookLater(t))
  /\ UNCHANGED <<cache, rec>> /\ RestOfRun

-----------------------------------------------------------------------------
(* The simulation threads: simThreadLoop, simulatePhaseThread              *)

DomainsOf(t) ==
  LET per == numDomains \div sim.numSimThreads IN t * per .. (t + 1) * per - 1
Alone(t) == sim.numSimThreads = numDomains
Phase == UNCHANGED <<cache, rec, lastCrossing>>

Wake(t) ==
  /\ th[t].pc = "asleep" /\ t \in sim.woken
  /\ sim' = [sim EXCEPT !.woken = @ \ {t}]
  /\ th' = [th EXCEPT ![t] = [Asleep EXCEPT !.pc = "loop",
                                            !.domPq = IF Alone(t) THEN {} ELSE DomainsOf(t)]]
  /\ UNCHANGED <<graphVars, curCycle, prio, queuePrio, fault>> /\ Phase

ClockOr(q) == IF QueueEmpty(q) THEN sim.limit ELSE FirstCycle(q)

\* A thread with one domain leaves what is due at the limit to the next phase;
\* a thread with several does not.
Due(t, d) ==
  /\ ~QueueEmpty(pq[d])
  /\ IF Alone(t) THEN FirstCycle(pq[d]) < sim.limit ELSE FirstCycle(pq[d]) <= sim.limit

\* Thread t takes the first event of domain d and runs it; its local state is
\* otherwise l.  For a stalled domain simulate is called without run, and what
\* run asserts is not asserted.  (A value used often is bound as the member of
\* a singleton, which TLC evaluates once.)
RunEvent(t, d, l) ==
  \E n \in {Rounds(pq[d])} : \E q \in {Advanced(pq[d], n)} : \E i \in Firsts(q) :
    LET cycle == DequeueCycle(q)
        here == [l EXCEPT !.dom = d, !.ev = i, !.cyc = cycle]
        taken == [World EXCEPT
          !.pq[d] = Removed(q, i), !.ev[i].state = "running", !.cur[d] = cycle,
          !.ok = /\ Alone(t) => cycle >= curCycle[d]
                 /\ \/ l.fromStalled
                    \/ ev[i].state \in {"none", "queued"} /\ cycle >= ev[i].minStart]
    IN \E w \in {taken} :
         /\ \/ RunCore(t, here, w) \/ RunMemory(t, here, w) \/ RunLookup(t, here, w)
            \/ RunWriteback(t, here, w) \/ RunCrossing(t, here, w)
         /\ RestOfRun

\* A domain that is finished for this phase
FinishDomain(t, d, l) ==
  /\ curCycle' = [curCycle EXCEPT ![d] = sim.limit]
  /\ th' = [th EXCEPT ![t] = l]
  /\ UNCHANGED <<graphVars, prio, queuePrio, sim, fault>> /\ Phase

\* The thread is done; the last one opens waitLock.
ThreadDone(t) ==
  LET last == sim.threadsDone + 1 = sim.numSimThreads IN
  /\ th' = [th EXCEPT ![t] = Asleep]
  /\ sim' = [sim EXCEPT !.threadsDone = IF last THEN 0 ELSE @ + 1,
                        !.waitOpen = IF last THEN TRUE ELSE @]
  /\ UNCHANGED <<graphVars, prio, queuePrio, fault>> /\ Phase

\* One domain: the loop, and its end
RunAlone(t) ==
  /\ th[t].pc = "loop" /\ Alone(t) /\ Due(t, t)
  /\ RunEvent(t, t, th[t])
EndAlone(t) ==
  /\ th[t].pc = "loop" /\ Alone(t) /\ ~Due(t, t)
  /\ curCycle' = [curCycle EXCEPT ![t] = sim.limit]
  /\ ThreadDone(t)

\* Several domains: first those that are not stalled, by queuePrio,
RunFirst(t) ==
  \E d \in th[t].domPq :
    LET l == [th[t] EXCEPT !.domPq = @ \ {d}, !.fromStalled = FALSE] IN
    /\ th[t].pc = "loop" /\ ~Alone(t)
    /\ \A b \in th[t].domPq : queuePrio[d] <= queuePrio[b]
    /\ IF Due(t, d) THEN RunEvent(t, d, l) ELSE FinishDomain(t, d, l)
\* then one that is, the last in its queue.
SwapStalled(l) ==
  IF l.stalled = <<>> THEN [l EXCEPT !.stalled = l.nextStalled, !.nextStalled = <<>>] ELSE l
RunStalled(t) ==
  LET d == Last(th[t].stalled)
      l == [th[t] EXCEPT !.stalled = Front(@), !.fromStalled = TRUE]
  IN
  /\ th[t].pc = "loop" /\ ~Alone(t)
  /\ th[t].domPq = {} /\ th[t].stalled # <<>>
  /\ IF Due(t, d) THEN RunEvent(t, d, l) ELSE FinishDomain(t, d, SwapStalled(l))
EndSeveral(t) ==
  /\ th[t].pc = "loop" /\ ~Alone(t)
  /\ th[t].domPq = {} /\ th[t].stalled = <<>>
  /\ ThreadDone(t)
  /\ UNCHANGED curCycle

\* The source half of a crossing is called (markSrcEventDone) and freed, and
\* so is its event.  The half is a member of the crossing and was not allocated
\* on its own: the slab, which counts one element for both, counts one too few
\* until it is collected, too early, with the crossing or another event alive.
Called(w, i) ==
  LET x == w.ev[i].xing  c == w.ev[x].owner IN
  FreeEvent([w EXCEPT !.ev[x].called = TRUE, !.live[c] = @ - 1, !.halves[c] = @ + 1], i)

\* Where a domain goes when its event has been run
Ranked(l, d) ==
  IF prio[d] = 0
  THEN IF l.fromStalled THEN SwapStalled([l EXCEPT !.domPq = @ \cup {d}])
       ELSE [l EXCEPT !.domPq = @ \cup {d}]
  ELSE IF l.fromStalled THEN SwapStalled([l EXCEPT !.nextStalled = Append(@, d)])
       ELSE [l EXCEPT !.stalled = Append(@, d)]

\* What an event has done is published: a crossing is called, and the domain's
\* clock goes on to the next event.
Publish(t) ==
  LET d == th[t].dom  now == ClockOr(pq[d])
      l == [th[t] EXCEPT !.pc = "loop", !.ev = NoId]
      w == [World EXCEPT !.cur[d] = now, !.ok = Alone(t) => now >= curCycle[d]]
  IN
  /\ th[t].pc = "after"
  /\ \E done \in {IF th[t].ev = NoId THEN w ELSE Called(w, th[t].ev)} : Becomes(done)
  /\ IF Alone(t) THEN th' = [th EXCEPT ![t] = l] /\ UNCHANGED queuePrio
     ELSE /\ queuePrio' = [queuePrio EXCEPT ![d] = now]
          /\ th' = [th EXCEPT ![t] = Ranked(l, d)]
  /\ UNCHANGED <<prio, sim>> /\ Phase

ThreadStep(t) ==
  /\ ~fault
  /\ \/ Wake(t) \/ RunAlone(t) \/ EndAlone(t) \/ RunFirst(t) \/ RunStalled(t) \/ EndSeveral(t)
     \/ Look(t) \/ Recheck(t) \/ Publish(t)

\* The bound on the phases is reached.
Stop ==
  /\ ~sim.inCSim /\ sim.lastLimit = MaxPhases * phaseLength
  /\ UNCHANGED vars

Next ==
  \/ \E c \in Core : Join(c) \/ Leave(c) \/ \E a \in Accesses[c] : Record(c, a)
  \/ StartWeave \/ EndWeave
  \/ \E t \in DOMAIN th : ThreadStep(t)
  \/ Stop

Spec == Init /\ [][Next]_vars
\* A thread that is awake always has a step, which changes its local state, and
\* the operating system runs it: this is WF_vars(ThreadStep(t)), with Awake for
\* ENABLED ThreadStep(t).
Awake(t) == t \in DOMAIN th /\ ~fault /\ (th[t].pc # "asleep" \/ t \in sim.woken)
KeepsRunning(t) == []<>~Awake(t) \/ []<><<th'[t] # th[t]>>_th
FairSpec ==
  /\ Spec
  /\ WF_vars(EndWeave)
  /\ \A t \in 0 .. numDomains - 1 : KeepsRunning(t)
-----------------------------------------------------------------------------
(* Properties                                                              *)

\* No assertion or panic of the weave phase or of the recorders fails.  The one
\* of the slabs (slab_alloc.h:156) is not among these: with crossings it does
\* fail, which is SlabsHold.
AssertionsHold == ~fault

\* "Slabs are garbage-collected once all their events are done", and freeElem
\* asserts that it takes an element off a slab that has one (slab_alloc.h:32,
\* 156).  The code does not keep this.
SlabsHold == \A c \in Core : slab[c] # "failed"

\* As long as no crossing of a core has been called, its slab counts what is
\* alive in it, events and blocks of children, and so is not collected before
\* all of it is done.
SlabsExact ==
  \A c \in Core : halves[c] = 0 =>
    /\ slab[c] = "ok"
    /\ live[c] = Cardinality(EventsOf(c, ev)) + Cardinality(BlocksOf(c, ev))

\* A crossing whose source is done is not queued for later than the source's
\* end and the delays it stands for (the assertion commented out in
\* CrossingEvent::simulate, from the moment the crossing is queued).
OnTime ==
  \A d \in Domain : \A p \in Entries(pq[d]) :
    LET x == ev[p[2]] IN
    x.kind = "cross" /\ x.called => p[1] <= x.doneCycle + x.preSlack + x.postSlack + 1

\* The delay of a core only grows while other domains rely on it.
SlackGrows ==
  [][sim.inCSim /\ sim'.inCSim => \A c \in Core : rec'[c].startSlack >= rec[c].startSlack]_vars

\* When a phase is over every event left is due later, or follows one that is,
\* and none waits for an MSHR while one is free.
NothingLeft ==
  ~sim.inCSim =>
    \A i \in Ids : ev[i].kind # "none" =>
      \/ \E p \in Entries(pq[ev[i].dom]) : p[2] = i /\ p[1] >= sim.lastLimit
      \/ ev[i].state = "none" /\ \E j \in Ids : i \in ev[j].kids
      \/ /\ i \in cache[ev[i].dom].pendingQueue
         /\ cache[ev[i].dom].activeMisses = cache[ev[i].dom].numMSHRs

\* The queues are in order.
QueuesOrdered == \A d \in Domain : MapIsLater(pq[d]) /\ FirstIsLeast(pq[d])

\* Every weave phase ends.
PhasesEnd == sim.inCSim ~> ~sim.inCSim
=============================================================================
