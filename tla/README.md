# A TLA+ development for zsim with a Doppelgänger cache

The repository is the zsim x86 simulator (`zsim/src/`) whose last-level cache (LLC) was changed
into a *Doppelgänger cache*: lines of program regions registered as *approximable* are hashed by
their contents (`get_map`), and lines with the same hash share one data block. The rest of the
repository (Pin, benchmarks, configurations, recorded outputs) is data or third-party code.

This directory specifies the parts of the program whose correctness is hard to see: the
Doppelgänger array, the LLC that combines it with an exact array behind one coherence controller,
the MESI coherence controllers of the whole hierarchy with the filter caches, the scheduler that
shares the simulated cores among threads, the barrier that paces them, the matching of futex
wake-ups, and the weave phase that simulates contention. Paths below are relative to `zsim/src/`.

## 1. Inventory

| Part | State | Operations | Interacts through |
|---|---|---|---|
| Doppelgänger array (`doppelganger_cache.cpp`) | tag array, data array, two LRU states | `lookup` (with remap), `preinsert`, `postinsert`, `evict_data`, `evict_tag` | calls `cc->processEviction` in the middle of an access; reads program memory in `get_map` |
| LLC (`cache.cpp`) | the two arrays, one controller | `access`, `invalidate` | children call `access` under their own locks released |
| Coherence controllers (`coherence_ctrls.*`) | MESI state per line, sharers per line, two locks | `startAccess`, `processEviction`, `processAccess`, `endAccess`, `processInv` | parents' `access`, children's `invalidate`, hand-over-hand locks |
| Filter cache (`filter_cache.h`) | per-core read/write tags | `load`, `store`, `replace`, `invalidate` | hits read without the lock |
| Approximate regions (`tree23.*`, `zsim.cpp`) | a 2-3 tree of address ranges | register, deregister, find | `approxLock` for changes, none for lookups |
| Replacement policies | ranks, ages, counters | `update`, `replaced`, `rankCands` | read sharers from the controller |
| Phase barrier (`barrier.h`) | run list, per-thread state, indices | `join`, `leave`, `sync`, wake-up | futexes; `schedLock`; callback at the end of a phase |
| Scheduler (`scheduler.*`) | thread states, contexts, run/out/sleep queues, fake leaves | `start`, `finish`, `join`, `leave`, `sync`, `syscallLeave`, watchdog | barrier, event queue, host `/proc` |
| Futex matching (`scheduler.cpp`) | allowed and unmatched wake-ups | wake start/end, wait woken, joins | syscall patches (`virt/timeout.cpp`) |
| Event queue (`event_queue.h`) | events by phase | `insert`, `tick` | callbacks at the end of a phase |
| Priority queue (`prio_queue.h`) | a ring of blocks of 64 cycles, a map of later events | `enqueue`, `dequeue`, `firstCycle` | one per domain of the weave phase |
| Contention simulation (`contention_sim.*`, `timing_event.*`) | domains with clocks, event graph | `simulatePhase`, `enqueue`, `parentDone`, crossings | one thread per group of domains; clocks read without locks |
| Timing cache (`timing_cache.*`), recorders (`core_recorder.*`, `event_recorder.h`), slabs (`slab_alloc.h`) | MSHRs in use, waiting events; gap and slack of a core, its last crossings; slabs with live counts, collected when these are back at 0 | hit/miss events; `recordAccess`, `cSimStart`, `cSimEnd`; alloc/free | weave threads free events concurrently |
| Cores, memory controllers, partitioning, prefetcher, network, process tree, syscall virtualization, statistics, heap, traces, decoder, configuration, harness, Pin front end | see `PROJECT.json` | | |

What is hard, and what would make each part correct:

* *Array.* List surgery on shared tags, an eviction loop over a list its own body changes, remaps
  after the program wrote a cached line, evictions in the middle of an insertion. Correct: lists
  stay complete and doubly linked, one block per hash, every address found, the access keeps its
  tag, the loop ends.
* *LLC.* A line must be in one array, under one line id, whose directory entry is exact, although
  the array is chosen before the lock, the hash changes under the cache's feet and one access may
  evict many lines. Correct: coherent copies, inclusion, exact directory.
* *Controllers.* Requests go up, invalidations down, with locks released in between. Correct: one
  writer, inclusion, exact directories, no dirty data lost, no failed assertion, no deadlock.
* *Barrier.* Threads join, leave and are killed at any moment. Correct: no lost wake-up, one turn
  per phase, no phase ends while somebody in it has not run, nobody starves.
* *Scheduler.* A thread may hold a context, wait in one of three queues, or be known only to the
  thread that will hand its context over; a system call leaves for real only if the watchdog says
  so, and locks are released in between. Correct: one thread per context and every queue exact, no
  waiting thread is forgotten, no context stands idle, the barrier waits for the running threads
  only, sleepers wake in their phase, everybody runs.
* *Futex matching.* Wake-ups are only counted, over all futexes together; calls fail, threads
  vanish, wakers give up, and the counter is read without the lock. Correct: the counters balance
  and every waker goes on.
* *Weave phase.* Domains run ahead of each other and learn of each other through crossings and
  unlocked clocks; events are freed while others may point to them; what delays an event must
  reach the core. Correct: nothing due is left over, no crossing is late, queues stay in order,
  counts of live events right, every phase ends.

The hazards are listed at their lines in `PROJECT.json`, with the properties that cover them.

## 2. Modules

| Module | Models | Composes |
|---|---|---|
| `DPGArray` | the Doppelgänger array | |
| `DoppelgangerLLC` | `Cache::access` of the LLC, both arrays, the controller, children, program writes, regions | extends `DPGArray` |
| `DoppelgangerLLCProofs` | theorems about the array; that the LLC drives it as `DPGArray` says; coherence, inclusion and the directory of the LLC when maps and regions stay; the directory of precise lines, whatever happens to the others | `DoppelgangerLLC` |
| `MESICC` | a tree of inclusive caches with the controllers' locks, and the filter caches of the cores | |
| `MESICCProofs` | theorems about every tree of caches, its refinement of `Copies` | `MESICC` |
| `Copies` | abstract coherence: what the children of a hierarchy may see | implemented by `DoppelgangerLLC` and `MESICC` |
| `Barrier` | the phase barrier | |
| `BarrierProofs` | theorems about it, and what each operation does to those in it | `Barrier` |
| `Scheduler` | threads, contexts, queues, hand-offs, sleeps, the watchdog | `Barrier`, whose threads are its contexts |
| `SchedulerProofs` | theorems about it | `Scheduler`, an instance of `BarrierProofs` |
| `FutexMatching` | the counters that match woken threads with their wakers | |
| `FutexMatchingProofs` | theorems about them | `FutexMatching` |
| `PrioQueue` | the ring of blocks with its map, as operators on a record | |
| `CycleQueue` | abstract queue: events leave in the order of their cycles | implemented by `PrioQueue` |
| `PrioQueueProofs` | theorems about the queue, its refinement of `CycleQueue` | both |
| `ContentionSim` | bound-phase recording and the weave phase: domains, threads, crossings, caches with MSHRs, slabs | `PrioQueue` |
| `ContentionGraphProofs` | what each operator does to the graph of events; the invariant; the bound phase, and the start and end of a weave phase | `ContentionSim`, an instance of `PrioQueueProofs` per queue |
| `ContentionSimProofs` | the steps of the weave phase, and the theorems | `ContentionGraphProofs` |
| `MCLLC` | the LLC under two kinds of programs: the instance it extends keeps maps and regions, `Mixed`, with variables of its own, does not | two instances of `DoppelgangerLLC`, of which one runs |
| `MCDPGArray`, `MCDoppelgangerLLC`, `MCMESICC`, `MCBarrier`, `MCScheduler`, `MCFutexMatching`, `MCContentionSim` | small instances for TLC | |

### How state and actions correspond to the code

**DPGArray.** `array_t`, `array_d` are the arrays, with their field names. The LRU policies keep a
timestamp per entry, 0 once replaced; only the order within a set matters, so `rp_dpg_t`,
`rp_dpg_d` record which entries have a timestamp and, for two of a set, which is newer. `map[a]`
is what `get_map` would return for line `a` now; `ProgramWrite` changes it at any time, because
the program runs natively and holds no lock of the cache. `op` is the access under way. One access
is split where it calls out: `LookupHit`/`LookupRemap` (`lookup`),
`PreinsertFreeTag`/`PreinsertEvictTag` (`get_free_tag`), `PreinsertData` (`get_free_data` and,
when it needs no eviction, everything up to `postinsert`), `EvictHead` (one round of
`evict_data`), `TakeEvicted` (the rest). Helpers that change both arrays come in two operators,
ending in `T` and `D`. An operator marked *faulty* is a plausible slip of the definition after it;
it is used to see that a property would notice.

**DoppelgangerLLC.** `child[c][a]` is the MESI state of a line in a child, `pending[c]` the
request it has under way with the array that `isApprox` chose for it (before any lock, as in
`cache.cpp`), `req` the request under both locks of the controller, `cc` the MESI state and
directory entry of each line id (exact ids `0..numLines-1`, Doppelgänger ids `numLines + tag`).
`fault` is set when an assertion or panic of the code is reached; nothing happens after it.
Invalidations to the children are one step here; `MESICC` has them in detail.

**MESICC.** Every access and invalidation is a process that moves through the controllers, holding
and releasing `bcc`/`tcc` locks as the code does: `StartAccess` (with `CheckForMESIRace`),
`EvictLine`, `BottomHit`/`BottomMiss`, `Serve`, `SendTo`, `EndAccess`, `StartInvalidate`,
`FinishInvalidate`. The victim of an insertion is any line the policy could choose. L1s are leaves
(terminal controllers), `ICache` those that only read. The filter cache of a core is `filter`: the
line, if any, that the core may read (`rd`) and the one it may write (`wr`) without asking the L1.
A hit takes no lock, so it may come at any moment of an invalidation or of another access;
`FilterCleared` is what `invalidate` does to it and `Filtered` what `replace` does.

**Barrier.** `runList`, `lastIdx`, thread states and counters as in the class; a futex wait is
`WakeUp` becoming enabled. The end of a phase (`checkEndPhase`) includes the clean-up of left
threads every `CleanupPeriod` phases and the shuffle. `LeaveKilled` is the scheduler's `finish` of
a thread whose process died, which calls `leave` for a thread that is waiting.

**Scheduler.** `s` has the fields of the scheduler, its threads and its contexts; `at[th]` is the
place a thread has reached between two critical sections, each action being one critical section
of `schedLock`, up to the wait that follows it. Calls of the barrier are the actions of `B`, an
instance of `Barrier` over the contexts; a step in which the barrier ends the phase also makes
`Callback`, as `checkEndPhase` does. `Join`, `SyscallLeave`, `MarkForSleep`, `Sync`, `Start`,
`Finish` (in three parts, for it unlocks to leave) are the calls of a thread; `Handoff` and
`ContextWake` are the ends of `sync` and `waitForContext`. The watchdog's loop over fake leaves is
`WatchdogStall`, `WatchdogLeave`, `WatchdogNext`; its time-outs may expire at any time. A context
with `curThread` is `USED`, one without is `IDLE`. `left` counts the phases to `wakeupPhase` down.
`schedTick` shuffles the contexts, and gives each queued thread in turn the first that its mask
allows: `Promises` are the outcomes over all shuffles. `WatchdogRaces` says whether a thread may
act in the window in which the watchdog has ended its fake leave and not yet left for it; the code
allows it, and the finding below is about it. The passing runs close that window to show that
nothing else goes wrong.

**FutexMatching.** `pc[t]` is where a thread is: running, waiting in the kernel, woken, told
(after `notifyFutexWaitWoken`), in `FUTEX_WAKE`, or in the loop of `futexWakeJoin`. The counters
have their names, modulo `Width`. The loop's look at the counter without the lock (`SeeEnough`,
`SeeTimeout`) and what it does with the lock (`Match`, `GiveUp`) are different steps. The kernel
is modelled by what zsim sees of it: it wakes as many as it is asked for (one, if it is asked for
none), or fails. `upset` remembers what happened that no counter can follow, so that properties
can say what holds without it.

**PrioQueue.** A queue is a record: `blocks`, the ring as a function from slots and offsets to
sets of events, `feMap`, the later ones, and `curBlock`. The rounds of `dequeue` are the operator
`Advanced`; of the events of one cycle any may be first, for the code's list of a cycle is last in
first out and nothing depends on it. `EnqueueEach` enqueues several events at once, as `ParentDone`
and `requeue` do in a loop whose order does not matter.

**ContentionSim.** `ev` are the events, numbered per core: a number is free again once its event
is done, as the code frees it. `Record` is `recordAccess` with `ContentionSim::enqueueCrossing`
for an event whose parent is in another domain; `CSimStart`/`CSimEnd` of each core are part of
`StartWeave` and `EndWeave`. A simulation thread takes an event, runs it and publishes its clock,
in steps of their own (`RunAlone`, `RunFirst`, `RunStalled`, `Publish`); a crossing that comes up
early looks at the clock of the source's domain (`Look`) and then again whether the source is done
(`Recheck`). `cache` has the MSHRs and the queue of those that wait for one. `Ids` has `MaxEvents`
numbers per core; an operation of the bound phase is taken only if there are as many free ones as
it may need (`Free`), so that running out of numbers, which the code's slabs do not, is no fault.
Each core has one slab that never fills up. `live` is its `liveElems`; `slab` says what has become
of it when the frees and allocations of a step are done (`Collected`, `HandedOut`): collected with
events alive, its memory used again after that, or the assertion of `freeElem` failed. The model
does not say what used memory does to the events in it: it goes on as if they were safe. So the
other properties are of the code up to that point, and of all of it where nothing crosses.
`halves` counts the source halves that were called; no guard reads it.
Each event keeps `orig`, the cycle it had in the bound phase, where the code needs it only for
some.

## 3. What TLC checks

| Run | Instance and bounds | Shows |
|---|---|---|
| `dpg_array` | 4 tags in 2 sets of 2 ways, 2 data entries, 3 lines, 3 hashes | linked and complete lists, one block per hash, addresses found, the access keeps its tag, one sharer evicted in each round of `evict_data` |
| `llc` | 2 tags per array; either 2 children, 2 approximable lines, regions and hashes of cached lines fixed, or 1 child, 1 approximable and 2 precise lines, everything changes | in the first no assertion, exact directory, coherent children; in the second the precise lines stay tracked exactly (`MixedTracked`) |
| `llc_write` *(violated)* | 2 children, writes to cached lines | inclusion is lost after a remap |
| `mesi_chain` | three levels, two cores with L1s of one way, two lines, one filter cache | assertions, single writer, inclusion and directories, what the filter allows, dirty data |
| `mesi_tree` | five caches, three cores, one an instruction cache, one line, three filters | the L1s implement `Copies`; every access finishes |
| `barrier` | 4 threads, 2 at a time, killed at will | wake-ups, one turn per phase, no early end; assertions fail only after a kill |
| `scheduler` | 3 threads, 2 contexts, one thread pinned to the first and sleeping up to 2 phases | assertions, exact contexts and queues, nobody forgotten, no idle context, agreement with the barrier |
| `scheduler_live` | 2 threads, 1 context, quantum of 2 phases, both sleep | whoever waits for a context runs, whoever sleeps is woken |
| `scheduler_race` *(violated)* | the same, a thread may return while the watchdog is about to leave for it | the assertion of `join` fails |
| `futex` | 3 threads, wakes of 0, of 1, of all as `INT_MAX` and as `UINT_MAX`, one upset | the counters balance, assertions fail only after certain upsets, wakers go on |
| `weave` | 2 cores, 2 domains, 2 phases, one thread for both domains or one each, 1 or 2 MSHRs | assertions, no late crossing, nothing left over, queues in order, exact slabs until a crossing on them is called, delays grow, phases end |
| `weave_slab` *(violated)* | the same | a slab is collected with events alive and the assertion of `freeElem` fails |

*Why these bounds are enough.* Two data entries under three hashes are the least that forces an
eviction of a block with several sharers while another access wants one of them; three lines in
two tag sets give a list with a first, a middle and a last tag and a set that overflows. For
coherence, the races of `CheckForMESIRace` need one line, two requesters and a level in between; a
second line is needed only for evictions, where the tree shrinks to a chain. `Filters` are the L1s
with a filter cache and `Switched` those whose core switches contexts; the chain gives one to the
core below two levels, the tree to all. `Direct` are the caches of one way, the L1s of the chain:
their lines replace each other, while the caches above may keep both or evict either. The barrier's order matters between the thread that runs,
one that waits, one that left and one that comes back: four threads. `MaxLeaves` bounds how often
a thread leaves per phase: a phase is a fixed number of cycles, so the code has such a bound too.
`CleanupPeriod` is 2 where the code has a larger constant, so that clean-ups happen. The scheduler
needs two contexts and a third thread for a free context, one whose thread is out, and a queued
thread to exist together; the pinned thread makes masks overlap in part. `MaxCalls` bounds the
system calls of a thread in a phase, as `MaxLeaves` does; `MaxSleep` is 2, so that two sleepers
can be due in different orders; `Backlog` (8 in the code) is 0, so that the watchdog's loop
repeats. Matching needs a waker, one that is woken and a third that may be either; `MaxUpsets` of
1 tells what each kind of upset does alone, and giving up comes on top. `MaxWakes` (2^24 in the
code) is 4 and `Width` (2^32) is 32: all that counts is that the first, times the threads, is less
than the second, with room for what a failed call and a vanished thread leave. In `weave` the
blocks of the queue have `B` = 4 blocks of `W` = 1 cycle, so that one phase goes round the ring and
into the map; the accesses are the fewest with a crossing in each direction, a miss, a hit that
waits for its MSHR, and an event beyond the phase. The second core's miss stays in its own domain,
so one slab may be without crossings while another has some. `MaxEvents` is larger than what ever
lives at once.

What the instances leave to the theorems: `OneBlockPerMap` for the hash -1 that free entries have
(`OneBlockAlways` is for any hash), evictions of blocks with more tags than the two of `llc`
(`StableNoPanic`, `StableDirectoryExact`), and, in `scheduler`, a sleep queue of two entries: only
one of its threads sleeps there (`ContextsStayExact`; in `scheduler_live` two do).

*Deadlock.* It is checked except in `barrier` and `futex`, where a failed assertion ends the
program: there the specification stops on purpose. In `llc` the second program stutters then.

*Fairness.* `MESICC`: an access or invalidation under way continues, for the host eventually runs
its thread; weak fairness of the steps that continue one. Cores are not obliged to start anything.
`Scheduler`: a running thread comes to its next system call or to the end of its phase, as the
simulated program makes progress in cycles, and waits that are over end; weak fairness per thread.
A thread may stay in a system call for ever. Weak fairness of the watchdog: it polls, and acts
when no phase has passed since it last looked. The code's watchdog acts only then, and this is
when it is needed: a context that has a fake leave holds the phase up, and with only sleepers left
no phase ends. `FutexMatching`: a thread in a call goes on, and the loop's time limit expires.
`ContentionSim`: a simulation thread that is awake takes steps. This is written out
(`KeepsRunning`) instead of with `WF`, whose ENABLED is slow to evaluate for steps that large;
`Awake` is when such a step is enabled, which the deadlock check and `PhasesEnd` would show if it
were not.

*Findings.* `llc_write`: `lookup` unlinks and relinks a tag whose line has a new hash, but
`remove_tag` also clears its address, so the line is lost while its children still have it.
`scheduler_race`: the watchdog unlocks between `finishFakeLeave` and `leave`, and a thread that
returns in between has neither a fake leave nor left. `weave_slab`: the source half of a crossing
is a member of the crossing (`cpe`, `timing_event.h:345`) and is freed on its own when called
(`timing_event.h:337`), so `liveElems` goes down twice for one allocation. The run has one access
of a core to a memory in the other domain: three crossings, 14 elements allocated. The count comes
to 0 while a write-back and two events of the core are alive, `freeSlab` clears the slab, against
"Slabs are garbage-collected once all their events are done" (`slab_alloc.h:32`), and when the next
of them is freed the assertion fails (`slab_alloc.h:156`). Had the core recorded another access
before, that would have used the memory of live events. It takes `sim.domains` > 1; the default is
1 (`init.cpp:953`). In all three an assertion or panic of the code itself is what fails. The
theorems show how far the first and the last go: with no such change of maps the cache is coherent,
and `MixedTracked` and `PreciseAlwaysTracked` show that even with them precise lines are
unaffected; `WeaveSlabsExact` says that a slab is exact until a crossing on it is called.

*Observations.* Facts met while modelling that no run is about, or only in passing:

* Regions may be registered and deregistered while their lines are cached, and nothing flushes
  them: `isApprox` (`cache.cpp:119`) then sends a child's eviction to the other array, and "We
  lost inclusion on this line!" is reached as in `llc_write`.
* `leave` of a waiting thread, which only `finish` of a killed one makes, leaves its `lastIdx`
  stale (`barrier.h:137`, `173`), and a later join may fail the assertion there. `OnlyKillsFault`
  says that nothing else does.
* `notifyFutexWakeStart` caps a value of `UINT_MAX` to 2^24, as its comment says
  (`scheduler.cpp:307`); but `PostPatchFutex` takes the minimum of the kernel's result and the
  value as an `int`, which is then -1, and the assertion `wokenUp <= maxWakes` fails.
  `OnlyUpsetsFault` counts that as an upset.
* A `FUTEX_WAKE` that asks for none makes the kernel wake one all the same, while `maxWakes` and
  `wokenUp` are 0: the woken thread joins and is counted as unmatched, though nobody takes it off,
  and the next waker goes on too early. The first attempt at the invariant of `FutexMatching`
  failed there; `CountsBalance` and `OnlyUpsetsFault` count it as an upset.
* "should panic..." (`scheduler.cpp:346`) may fail after a wake-up from outside or a waker that
  gave up, for a later call that did nothing wrong. And as all futexes are counted together, a
  waker may pass on other wakers' threads: the counters balance, but who waited for whom is not
  kept.
* The comment on the time limit of the matching says about two seconds; `2L<<31L` nanoseconds are
  4.3.
* An invalidation on behalf of another process does not match `procMask` and leaves the filter's
  entry (`filter_cache.h:155`, with a FIXME); `FilterEntry.clear` sets addresses to 0, which is a
  line address too (`filter_cache.h:51`).
* `getSyncedFastForward` depends on `numProcs > 1` (`process_tree.h:114`), which a fork changes: a
  process that entered fast-forward alone was not counted in `globalSyncedFFProcs` and is
  subtracted when it leaves; the counter wraps, and the end of the phase (`zsim.cpp:496`) waits
  for ever. `zsim.h:133` calls it the "count of processes that are in synced FF".
* `sync` has a branch that its comment calls an "untested code path" for "very weird cases (e.g.,
  partially overlapping process masks)" (`scheduler.h:406`): a thread that has handed its context
  over finds another at once. The model reaches it with equal masks too, with three threads on two
  contexts: while one thread is promised a context, another leaves and no queued thread takes its
  context. The properties of `scheduler` hold on that path.

## 4. What is proved

For every number of lines, associativity, set of lines and hashes, and every hash function
(assumptions `SizeAssumption`, `InputAssumption`: the data array has half the sets of the tag
array and at least one):

* `TypeCorrect`, `ListsAlwaysLinked`, `OneBlockAlways`, `TagsAlwaysFound`, `AccessKeepsItsTag`,
  `ListsAlwaysComplete`, `EvictsOnlySharers`, `EvictionsShrink`, from the inductive invariant
  `IInv` (the first part of `DoppelgangerLLCProofs`).
  The hash may be any value, also the -1 that free entries have. `EvictionsShrink` is the variant
  of the loop of `evict_data`: each round frees one sharer.
* `LLCTypeCorrect` and `LLCImplementsDPGArray` (the second part): every step of the LLC is
  a step of the array or leaves it unchanged, so the theorems above hold in the LLC, also after
  inclusion was lost.
* `StableNoPanic`, `StableDirectoryExact`, `StableImplementsCopies` (the rest of it), for
  any number of children too: as long as maps of cached lines and regions do not change
  (`Stable`), no assertion or panic of the LLC is reached, every line is under one line id whose
  sharers are exactly the children with a copy, and the children's copies are those `Copies`
  allows.
* `PreciseAlwaysTracked`, with no condition on the program: a line that no
  region ever covers is under one line id with exact sharers, also while writes and region changes
  make the cache lose inclusion of approximable lines.
* `QueueInOrder`, `QueueIsSorted` (`PrioQueueProofs`), for a ring of any even number of blocks of
  any width: the map has only events beyond the first half of the ring, `firstCycle` is the least
  cycle, and the queue implements `CycleQueue`.
* `WeaveQueuesOrdered` (`ContentionSimProofs`), for any number of cores, domains, simulation
  threads, MSHRs and events, any accesses and delays and every interleaving: the queues of all
  domains are in order, in every reachable state. `WeaveSlabsExact`, `WeaveNothingLeft` and
  `WeaveTypeOK`, as long as no assertion of the code other than that of `freeElem` has failed (a
  failed one ends the program): the slab of a core whose crossings were not called yet counts
  exactly what lives in it and is not collected before all of it is done, so without crossings the
  assertion of `freeElem` holds too; a weave phase leaves nothing behind that was due in it; and
  the variables have their types. Once a slab was collected too early (`weave_slab`) they say
  nothing of the code any more, as the model does not.
* `NoAssertionHit`, `HierarchyStaysExact`, `SingleWriterAlways`, `FiltersStayIncluded`,
  `NoWriteIsLost`, `LeavesImplementCopies` (`MESICCProofs`), for every tree of caches of any depth,
  any set of lines and any choice of filters and instruction caches: `CheckForMESIRace` covers
  every race there is, permissions are inclusive, directories exact, one writer or many readers, a
  filter never allows what its cache does not, no write is lost, and the L1s implement `Copies`.
* `NoFaultUnlessKilled`, `CountersRight`, `NobodyWaitsInVain`, `RunsOncePerPhase`,
  `JoinsEndNoPhase` (`BarrierProofs`), for any number of threads, any parallelism and any
  `CleanupPeriod`: the counters count, no wake-up is lost, a thread has one turn per phase, a join
  ends no phase, and only a thread killed in its wait can make an assertion fail. With that also
  "Wakeup race in barrier?!" and the assertions of the clean-up are never reached otherwise.
* `ContextsStayExact`, `NobodyIsForgotten`, `WorkIsConserved`, `NoAssertionFails`,
  `BarrierAndSchedulerAgree` (`SchedulerProofs`), for any number of threads and contexts, any
  masks, quantum, parallelism and length of sleeps, every outcome of the shuffles of `schedTick`
  and of the barrier: what the run `scheduler` checks. All have the hypothesis `~WatchdogRaces`,
  that no thread comes back in the window of `scheduler_race`, where the first of them to break is
  an assertion of the code. The last two also ask for a single process, since the watchdog's loop
  takes the pid of the wrong thread (`scheduler.cpp:164`) and then an assertion fails; the first
  three hold with any number of processes.
* `CountsRight`, `NoFaultUnlessUpset` (`FutexMatchingProofs`), for any number of threads and any
  values given to `FUTEX_WAKE`: the two counters balance and assertions hold, unless the upsets
  that each names happened.

Assumptions on constants. `TreeAssumption` (`MESICC`): `Parent` has no circles, stated of all sets
of nodes; `NameAssumption`: the names of no line and no node are no lines and nodes.
`BarrierAssumption`: finitely many threads, positive parameters. `SchedulerAssumption`: finitely
many threads and contexts, at least one thread, no mask empty, positive parameters, `CleanupPeriod`
above 1; it implies `BarrierAssumption` with the contexts as threads (`BarrierParameters`). `FutexAssumption`: `MaxWakes`
times the threads, and twice `MaxWakes` for what may be left behind, fit in a counter. With the
code's 2^24 and 2^32 that is 253 threads in calls that ask for all; the code's comment on its cap
has the same purpose. The model lets each kind of upset happen once, so two is what may be left.
`PQAssumption`: at least two blocks, an even number, of at least one cycle. `CSimAssumption`: at
least one core, finitely many; at least one domain; the domains divide evenly among the threads of
each configuration, as the constructor of `ContentionSim` requires; at least one MSHR; phases and
the latency of a cache of at least one cycle; and the accesses that cores may make are between
domains that exist. Nothing is assumed of how domains cross or of the memory's delays.

*The argument.* For the array, `IInv` is the conjunction of the types, the list structure, uniqueness of blocks
and of addresses, and `AccessInHand`. The last is what makes it inductive: an access reads a hash,
finds no block with it and chooses a tag, then evicts step by step, then installs. That
installation keeps blocks and addresses unique only because no step in between can create the hash
or the address, and keeps the lists linked only because the chosen tag is on none. Likewise
`Linked` alone is not enough to remove a head: that a circle of tags with no head cannot exist
(`Acyclic`, said of all sets of tags so that it needs no recursion) makes the tag before a head
the right new head. `RemoveTagOK`, `AddTagOK` and `OwnDataOK` say what each list operation does to
`Linked` and `Acyclic` for any arrays; each action then has one lemma. `ListsComplete` speaks of
walks: the tags met from the head of a list on, one by one, are the whole list. It follows from
the same invariant, by well-ordering (`LeastNumber`) instead of induction over an operator: the
walk stays on the list; no tag is met twice, for at the first that is its neighbour would be too;
so the walk ends within `numLines` steps; and of the tags it misses, `Acyclic` gives one whose
neighbour towards the head it does not miss, from which it would have come to it.

For the LLC the invariant is `Coherence`, on top of `IInv` and the types. `Directory` says that
the entry of each line id is exact for the line it holds; `Holding` maps line ids of both arrays
to lines, so that one lemma each for eviction, insertion and the three kinds of request serves
both arrays. `LinesInPlace` has what makes lookups find a line again: an approximable line is in a
tag, a precise one in the exact array, and the map of a line in a tag is that of its data entry,
so no remap happens. `RequestsInTime` is the argument behind `CheckForMESIRace`: since a child
asked for a line, the line can only have been taken away or downgraded, and from those the request
is dropped or patched into one that the child would make now (`StartedRight`). `WorkInHand` says
that what an access evicts on its way is never the line it works on.

These lemmas (the second part of `DoppelgangerLLCProofs`) take the set of lines as a parameter: all of them for
`Coherence`, those no region covers (`Precise`) for `PreciseAlwaysTracked`. Its invariant,
`PreciseCoherence`, says nothing of the other lines, whose entries may be wrong in every way:
it keeps them from mattering. Tags and array accesses are for registered lines only (`TagLines`),
since `isApprox` knew the line when a request was sent to that array, so an eviction or a request
of theirs reaches a precise line's entry only by evicting it from the exact array.

For the queue, the invariant ties the place of an event to its cycle: an event in slot `b` of the
ring belongs to the only block of cycles congruent to `b` within the ring from `curBlock` on, and
the map's events are beyond the first half. The second half of the ring is where the two may
overlap, and `firstCycle` has to look at both.

For the controllers, `Link` relates a cache, its parent and the directory entry the parent has of
it, for one line. It holds at every moment but for one child: the one whose upgrade its parent is
serving, which is off the list already and may still lose its copy (`OffList`). The rest says what
a step may count on although locks were released: `AccessOK` that the line has only been taken
away or downgraded since the cache asked its parent (`Since`), which are the cases of
`CheckForMESIRace`; `RequestOK` that the child waits while its request is served; `InvalOK` that an
invalidation is one that the parent waits for. Filters and writes come on top: a filter's line is
in its cache with at least that permission, and `Covered` says where the last write to a line is.
For `SingleWriter`, what `Link` says of neighbours is carried up the tree to the first common
cache; `Above`, the set of caches above one, is defined without recursion for that reason.

For the barrier, `BInv` holds between the parts of an operation too: the run list has each thread
once (`Listed`), counters count (`Counted`), from the current index on nobody has had a turn
(`Ahead`) and who waits sleeps (`Asleep`). Unless a thread was killed, the index that `join` looks
at is right (`Told`), through the removals of the clean-up (`CleanupStep`, one position of its
pass) and the shuffle, and those that wait behind the current index have run (`Behind`). `Awake`,
that nobody waits who could run, holds only at the ends of operations: `tryWakeNext` restores it in
one or two passes over the list.

For the scheduler, an operation changes several queues before it is over, so `SInv(x, L, k)`
says of a state `x` in the middle of one that all is well but for the threads `L`, which the
operation has taken out of one place and not yet put into the next, and for the context `k`, which
it is about to give away. Each helper has a lemma from one such state to the next (`ScheduleKeeps`
and so on), each operation strings them together, and between steps `L` and `k` are empty. Its
parts are `Owned`, `Listed`, `Ordered`, `Promised`, `Conserving`, `Words` (who waits has a word to
be woken by) and `Fakes`. `Conserving` is the subtle one: a context that is given up goes to a
queued thread if one may run on it, so what is left in the queue may have only contexts that run
others. `Placed` relates what the scheduler holds of a thread to where the thread is in its code
between two critical sections, and lets a step count on that after the lock was released; what
the steps of others may do to a thread is `Kept`. `Watched` and `Watching` are the watchdog's side
of that: a running thread in a system call has a fake leave or is the one whose leave is being
made real. `Agreed` connects the barrier: its live contexts are those on which threads run, who
waits in it is in `join` or `sync`, and who has run in this phase is in `sync` with nothing to hand
over. This last is needed in `schedTick`, which promises contexts away at the end of a phase: a
promise may be left only with a thread that will look for it when it wakes. The barrier itself is not opened
again: the last part of `BarrierProofs` says, in terms of who is live, waits and has run, what each
of its operations does and when the phase ends, and `SchedulerProofs` instantiates it with the
contexts. So no context is killed in its wait there, and the barrier's theorems hold too.

For the matching, the sums over all threads are what a step changes: `SumChange` says that a sum
changes by as much as the term of the one thread that takes the step. What is allowed is what the
calls may wake and what failed and vanished ones left (`Allowed`); the threads woken and not taken
off are those awaited, or fewer by what vanished wakers left allowed (`Balanced`). That an
allowance is at least what its waker waits for (`Calling`, `TermFits`) gives the woken thread that
joins its place below the allowance, and keeps the subtractions from wrapping.

For the contention simulation the invariant has two layers, `Inv`: the queues are in order
whatever happens, and while no assertion has failed the state is `Good`. The first rests on
`PrioQueueProofs` alone, instantiated for the queue of each domain. For the second, `Struct` says
where each live event is: in the queue of its domain, waiting for an MSHR, with the thread that
runs it, or waiting to be told by a parent (`Somewhere`); that what is in a queue waits for no
parent and is there once (`QueuesOK`); that a child that waits has one parent, in its own domain,
unless that parent has told it already (`KidsOK`); and what the three places mean for an event's
state (`PlacesOK`). It is stated with sets for those that are between places: `P` wait for an
MSHR, `X` are held by threads, `T` of them have told their children, `N` are made but not linked
yet. So one lemma per operation (`CreateStruct`, `LinkedStruct`, `TakeStruct`, ...) moves an event
from one place to the next, and serves the recorder, the crossings and the threads. `Counted`
says that the count of a slab is too low by exactly the halves called on it: a step that makes,
links or frees an event moves both sides alike. So where none was called the count is 0 only when
nothing lives, and no slab there is collected early (`SlabsOK`), which is `SlabsExact`. `LastOK` is
why `enqueueCrossing` may chain a crossing to the last one between its domains, which may have run
and been freed: a crossing for after the end of the phase has not. `PrevOK` says the same of the
event a core has recorded last, which the next one will be linked to. In the weave phase a thread
looks at an event, unlocks nothing but lets others go on, and acts on what it saw; `ThreadEventOK`
and `HeldOK` say what stays true meanwhile: an event is held by one thread, and one that told its
children and is not freed waits for its crossing to be called. `Running`, `Left` and `Beside`
(`ContentionSimProofs`) say what a step may change beside the event it works on. `DomainsOK` is
the argument for `NothingLeft`: in a weave phase each domain is over or some thread still has it
on its list, stalled or not (`WorkOf`), and by `CountOK` the phase only ends when all threads
sleep, when no lists are left. So when it ends all queues are empty up to its limit; then what is
not in a queue follows what is, or waits for an MSHR, of which none is free (`PendOK`).

In the bound phase `GraphOK` is the part of `Good` on the graph that an operation is building, and
`CSimStart` of all cores is a fold: its result is not defined by recursion in the proof but
characterized by the sets of cores done so far (`Started`).

*Only model-checked.*

* Liveness: `AllFinish`, `QueuedRun`, `SleepersWake`, `MatchingEnds`, `PhasesEnd`.
* `AssertionsHold` of `ContentionSim`, and so the hypothesis of three theorems on it. The
  assertions of the weave phase compare cycles: that no event is enqueued before the clock of its
  domain needs that every path of events is in the order of time, also through the chains of
  crossings; those of `cSimEnd` need that the delays a core found translate each of its events; the
  one on `activeMisses` that each miss has one response and one write-back to come. Each is an
  invariant of whole paths of the graph, on top of `Struct`, which says where events are and not
  when. `SlackGrows` needs the same order of a core's events.
* `OnTime`: a crossing is queued again for the clock it read of its source's domain, and the
  source may finish for an earlier cycle before it is looked at again. What bounds that is how far
  a domain's published clock may be ahead of what it still runs, which is again about time.

## 5. What is not modelled

* `get_map`'s arithmetic (its result is an input), including that it masks with `M`, an
  enumeration constant, where `Mbits` is meant; and the 2-3 tree of regions, with readers that
  take no lock.
* In the hierarchy: latencies and statistics, several banks per level, non-inclusive caches,
  prefetch and exclusive-writeback flags, and several processes in one filter cache.
* In the scheduler: `processCleanup` of dead processes (the module `Barrier` has its effect on the
  barrier), fast-forward, timed system calls made back to back, and the wait of `wakeup` for the
  woken thread, which only takes real time. The host's `/proc` and futexes are external; a futex
  wait is a flag. The matching is a module of its own: a `join` that waits in it looks to the
  scheduler like one that comes later.
* In the weave phase: records of write-backs (PUT), `DelayEvent`s, the eviction and replacement
  paths of `TimingCache`, the out-of-order core's recorder, slabs that fill up and the list of
  free ones, what becomes of events whose memory is used again, the network, and
  the timing of detailed memory controllers.
* The other components in the inventory; each has its reason in `PROJECT.json`.
