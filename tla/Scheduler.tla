----------------------------- MODULE Scheduler ------------------------------
(***************************************************************************)
(* The round-robin scheduler, zsim/src/scheduler.{h,cpp}: threads of the   *)
(* simulated processes share the contexts (simulated cores).  The contexts *)
(* are the members of the phase barrier.                                   *)
(*                                                                         *)
(* Every operation takes schedLock.  What happens between two of its       *)
(* critical sections is told by at[th], the place a thread has reached:    *)
(*   none     not started           new      started, about to join        *)
(*   app      in simulated code     marked   about to leave for a sleep    *)
(*   join     waits in bar.join     sync     waits in bar.sync             *)
(*   handoff  woken from sync, must give its context away                  *)
(*   ctx      waits for a context   syscall  in a system call              *)
(*   ending   has read that it is asleep, and will end its sleep           *)
(*   leaving, finishing             in finish, before and after its leave  *)
(*                                                                         *)
(* A system call does not leave at once: the scheduler pretends (a "fake   *)
(* leave"), and the watchdog makes the leave real when time stands still.  *)
(* Time-outs of the watchdog are steps it may take at any time.            *)
(***************************************************************************)
EXTENDS Integers, Sequences, FiniteSets, SequencesExt

CONSTANTS
  Thread, Context, None,
  Syscall,          \* where system calls are made: the pc of each
  mask,             \* the contexts a thread may run on
  proc,             \* the process of a thread
  parallelThreads, CleanupPeriod,  \* as in Barrier
  schedQuantum,     \* in phases
  Sleeper,          \* the threads that make timed system calls
  MaxSleep,         \* the longest sleep, in phases: a bound
  MaxCalls,         \* how many system calls a thread makes in a phase: a bound,
                    \* as a phase is a number of cycles
  Backlog,          \* how many fake leaves the watchdog leaves alone: 8
  WatchdogRaces     \* may a thread come back while the watchdog, between two
                    \* critical sections, is about to make its leave real?

ASSUME SchedulerAssumption ==
  /\ IsFiniteSet(Thread) /\ Thread # {} /\ IsFiniteSet(Context)
  /\ None \notin Thread \cup Context
  /\ mask \in [Thread -> (SUBSET Context) \ {{}}]
  /\ proc \in [Thread -> Nat]
  /\ parallelThreads \in Nat \ {0}
  /\ CleanupPeriod \in Nat \ {0, 1} /\ Sleeper \subseteq Thread
  /\ schedQuantum \in Nat \ {0} /\ MaxSleep \in Nat \ {0} /\ MaxCalls \in Nat \ {0}
  /\ Backlog \in Nat
  /\ WatchdogRaces \in BOOLEAN

VARIABLES
  b, inWait, fault, \* the barrier: see Barrier
  s,                \* the fields of the scheduler, its threads and contexts.
                    \* left counts down the phases to wakeupPhase, phase is
                    \* curPhase modulo the quantum.  Two are history:
                    \*   failed  an assertion was hit
                    \*   calls   how many system calls a thread has made
  at,               \* where each thread is
  wd                \* where the watchdog is in its loop over fake leaves

vars == <<b, inWait, fault, s, at, wd>>
bvars == <<b, inWait, fault>>

B == INSTANCE Barrier WITH
       Thread <- Context, MaxLeaves <- MaxCalls * Cardinality(Thread), Kills <- FALSE

Idle == [stage |-> "idle", th |-> None, cid |-> None, pid |-> 0, pc |-> None]

Init ==
  /\ B!Init
  /\ s = [state |-> [t \in Thread |-> "STARTED"],
          cid |-> [t \in Thread |-> CHOOSE c \in Context : TRUE],
          handoffThread |-> [t \in Thread |-> None],
          futexWord |-> [t \in Thread |-> 0],
          marked |-> [t \in Thread |-> FALSE],
          left |-> [t \in Thread |-> 0],
          curThread |-> [c \in Context |-> None],
          freeList |-> SetToSeq(Context),
          runQueue |-> <<>>, outQueue |-> <<>>, sleepQueue |-> <<>>,
          fakeLeaves |-> <<>>, blockingSyscalls |-> {},
          phase |-> 0, calls |-> [t \in Thread |-> 0], failed |-> FALSE]
  /\ at = [t \in Thread |-> "none"]
  /\ wd = Idle

-----------------------------------------------------------------------------
(* The private operations: each yields the scheduler after it              *)

\* assert: the program ends where p is false
Checked(x, p) == IF p THEN x ELSE [x EXCEPT !.failed = TRUE]

Schedule(x, th, c) ==
  Checked([x EXCEPT !.state[th] = "RUNNING", !.cid[th] = c, !.curThread[c] = th],
          x.state[th] \in {"STARTED", "BLOCKED", "QUEUED"} /\ x.curThread[c] = None)

Deschedule(x, th, target) ==
  Checked([x EXCEPT !.state[th] = target, !.curThread[x.cid[th]] = None],
          x.state[th] \in {"RUNNING", "OUT"} /\ x.curThread[x.cid[th]] = th)

\* wakeup: th must be in (or on its way into) its futex wait.
Wakeup(x, th) == Checked([x EXCEPT !.futexWord[th] = 0], x.futexWord[th] = 1)

\* faulty: the futex word is set after the lock is released
EnqueueUnset(x, th) == [x EXCEPT !.state[th] = "QUEUED", !.runQueue = Append(@, th)]

\* Into the run queue, to wait for a context
Enqueue(x, th) ==
  [x EXCEPT !.state[th] = "QUEUED", !.futexWord[th] = 1,
            !.runQueue = Append(@, th)]

\* The queue without the elements in gone
Without(q, gone) ==
  LET kept[n \in 0 .. Len(q)] ==
        IF n = 0 THEN <<>>
        ELSE IF q[n] \in gone THEN kept[n - 1] ELSE Append(kept[n - 1], q[n])
  IN kept[Len(q)]

\* The first element of q that passes the test, or None
First(q, Test(_)) == LET i == SelectInSeq(q, Test) IN IF i = 0 THEN None ELSE q[i]

\* faulty: threads that are OUT keep their context
ContextForFree(x, th) == First(x.freeList, LAMBDA c : c \in mask[th])

\* schedThread: the context for th.  Its last one if that is free, then one
\* from the free list, then one whose thread is OUT.
ContextFor(x, th) ==
  LET free == First(x.freeList, LAMBDA c : c \in mask[th])
      victim == First(x.outQueue, LAMBDA o : x.cid[o] \in mask[th])
  IN IF x.curThread[x.cid[th]] = None /\ x.cid[th] \in mask[th] THEN x.cid[th]
     ELSE IF free # None THEN free
     ELSE IF victim # None THEN x.cid[victim]
     ELSE None

\* faulty: a free context stays in the list
TakeUnlisted(x, c) ==
  IF x.curThread[c] = None THEN x
    ELSE Deschedule([x EXCEPT !.outQueue = Without(@, {x.curThread[c]})],
                    x.curThread[c], "BLOCKED")

\* Context c is taken from the free list, or from the thread that is OUT.
Take(x, c) ==
  IF x.curThread[c] = None
    THEN Checked([x EXCEPT !.freeList = Without(@, {c})], Contains(x.freeList, c))
    ELSE Deschedule([x EXCEPT !.outQueue = Without(@, {x.curThread[c]})],
                    x.curThread[c], "BLOCKED")

\* schedContext: the thread that context c goes to
ThreadFor(x, c) == First(x.runQueue, LAMBDA th : c \in mask[th])

\* schedTick: the queued threads, in order, are each promised a context at
\* random, of those still to be had; who has it will hand it off.
Promises(x) ==
  LET Pos(th) == SelectInSeq(x.runQueue, LAMBDA o : o = th)
      queued == ToSet(x.runQueue)
  IN {p \in [queued -> Context \cup {None}] :
        \A th \in queued :
          IF p[th] = None
            THEN \A c \in mask[th] : \E o \in queued : Pos(o) < Pos(th) /\ p[o] = c
            ELSE p[th] \in mask[th] /\ \A o \in queued \ {th} : p[o] # p[th]}
\* faulty: never, or the threads stay in the queue
SchedTickNever(x) == {x}
SchedTickQueued(x) ==
  {[x EXCEPT !.handoffThread =
      [v \in Thread |->
         IF \E th \in ToSet(x.runQueue) : p[th] # None /\ x.curThread[p[th]] = v
           THEN CHOOSE th \in ToSet(x.runQueue) : p[th] # None /\ x.curThread[p[th]] = v
           ELSE @[v]]] : p \in Promises(x)}
SchedTick(x) ==
  {LET promised == {th \in ToSet(x.runQueue) : p[th] # None}
       victims == {x.curThread[p[th]] : th \in promised}
   IN Checked([x EXCEPT
        !.handoffThread = [v \in Thread |->
           IF v \in victims THEN CHOOSE th \in promised : x.curThread[p[th]] = v
                            ELSE @[v]],
        !.runQueue = Without(@, promised)],
      None \notin victims) :
   p \in Promises(x)}

\* One more phase has passed.
Tick(x) ==
  [x EXCEPT !.phase = (@ + 1) % schedQuantum,
            !.left = [t \in Thread |->
               IF x.marked[t] \/ x.state[t] = "SLEEPING" THEN @[t] - 1 ELSE @[t]]]

\* callback, at the end of a phase: wake the sleepers that are due, and give
\* queued threads a turn at the end of a quantum.
Callback(x) ==
  LET ticked == Tick(x)
      later == SelectInSeq(x.sleepQueue, LAMBDA t : ticked.left[t] > 0)
      nDue == IF later = 0 THEN Len(x.sleepQueue) ELSE later - 1
      due == {x.sleepQueue[i] : i \in 1 .. nDue}
      woken == Checked([ticked EXCEPT
                 !.state = [t \in Thread |-> IF t \in due THEN "BLOCKED" ELSE @[t]],
                 !.futexWord = [t \in Thread |-> IF t \in due THEN 0 ELSE @[t]],
                 !.left = [t \in Thread |-> IF t \in due THEN 0 ELSE @[t]],
                 !.sleepQueue = SubSeq(@, nDue + 1, Len(@))],
                 \A t \in due : ticked.left[t] = 0 /\ x.futexWord[t] = 1)
  IN IF woken.runQueue # <<>> /\ woken.phase = 0 THEN SchedTick(woken) ELSE {woken}

\* After a step of the barrier that may have ended the phase
AfterPhase(x) ==
  IF b'.phaseCount = b.phaseCount THEN {x}
  ELSE Callback([x EXCEPT !.calls = [t \in Thread |-> 0]])

\* th goes to sleep; the sleep queue is ordered by the time to wake up.
Asleep(x, th) ==
  LET later == SelectInSeq(x.sleepQueue, LAMBDA o : x.left[o] > x.left[th]) IN
  Deschedule([x EXCEPT !.marked[th] = FALSE,
                       !.sleepQueue = IF later = 0 THEN Append(@, th)
                                      ELSE InsertAt(@, later, th)], th, "SLEEPING")

\* th sleeps no more.
Awake(x, th) ==
  [x EXCEPT !.state[th] = "BLOCKED", !.left[th] = 0, !.sleepQueue = Without(@, {th})]

\* finishFakeLeave
FinishFakeLeave(x, th) ==
  Checked([x EXCEPT !.fakeLeaves = Without(@, {f \in ToSet(@) : f.th = th})],
          x.state[th] = "RUNNING")
InFakeLeave(x, th) == \E i \in DOMAIN x.fakeLeaves : x.fakeLeaves[i].th = th

-----------------------------------------------------------------------------
(* The calls of the barrier.  An assertion of the barrier fails as one of  *)
(* the scheduler does.                                                     *)

BarJoin(th, x) ==
  LET c == x.cid[th] IN
  IF b.state[c] \in {"LEFT", "OFFLINE"} /\ (B!HadItsTurn(c) => b.runList[b.lastIdx[c]] = c)
    THEN /\ B!Join(c)
         /\ s' \in AfterPhase(x)
         /\ at' = [at EXCEPT ![th] = IF c \in inWait' THEN "join" ELSE "app"]
    ELSE /\ s' = Checked(x, FALSE)
         /\ UNCHANGED <<bvars, at>>

\* faulty: the barrier is not told
BarLeaveUntold(c, x) == s' = x /\ UNCHANGED bvars

BarLeave(c, x) ==
  IF b.state[c] = "RUNNING" /\ c \notin inWait
    THEN B!Leave(c) /\ s' \in AfterPhase(x)
    ELSE s' = Checked(x, FALSE) /\ UNCHANGED bvars

\* leave of th, from scheduler x, with the pid and cid it is called with
DoLeave(th, pid, c, x) ==
  LET next == ThreadFor(x, c)
      handed(y) == Wakeup(Schedule([y EXCEPT !.runQueue = Without(@, {next})], next, c), next)
  IN
  IF x.curThread[c] # th \/ pid # proc[th] \/ x.state[th] # "RUNNING"
    THEN s' = Checked(x, FALSE) /\ UNCHANGED bvars
  ELSE IF next # None
    THEN /\ s' = handed(IF x.marked[th] THEN Asleep(x, th) ELSE Deschedule(x, th, "BLOCKED"))
         /\ UNCHANGED bvars
  ELSE BarLeave(c, IF x.marked[th]
                     THEN [Asleep(x, th) EXCEPT !.freeList = Append(@, c)]
                     ELSE [x EXCEPT !.state[th] = "OUT", !.outQueue = Append(@, th)])

-----------------------------------------------------------------------------
(* The operations of a thread                                              *)

\* Only a race lets th act while the watchdog is about to call leave for it.
Unwatched(th) == WatchdogRaces \/ wd.stage # "leave" \/ wd.th # th

Start(th) ==
  /\ at[th] = "none"
  /\ at' = [at EXCEPT ![th] = "new"]
  /\ UNCHANGED <<bvars, s, wd>>

\* join, from a new thread or at the end of a system call.  (The matching of
\* futex wake-ups, which may delay it, is not part of this module.)
JoinRest(th, x) ==
  LET c == ContextFor(x, th) IN
  IF x.marked[th] THEN s' = Checked(x, FALSE) /\ UNCHANGED <<bvars, at>>
  ELSE IF x.state[th] = "OUT"
    THEN BarJoin(th, [x EXCEPT !.state[th] = "RUNNING", !.outQueue = Without(@, {th})])
  ELSE IF x.state[th] \notin {"BLOCKED", "STARTED"}
    THEN s' = Checked(x, FALSE) /\ UNCHANGED <<bvars, at>>
  ELSE IF c # None THEN BarJoin(th, Schedule(Take(x, c), th, c))
  ELSE /\ s' = Enqueue(x, th)
       /\ at' = [at EXCEPT ![th] = "ctx"]
       /\ UNCHANGED bvars
Join(th) ==
  /\ at[th] \in {"new", "syscall"}
  /\ Unwatched(th)
  /\ IF InFakeLeave(s, th)
       THEN /\ s' = FinishFakeLeave(s, th)
            /\ at' = [at EXCEPT ![th] = "app"]
            /\ UNCHANGED bvars
       ELSE JoinRest(th, IF s.state[th] = "SLEEPING" THEN Awake(s, th) ELSE s)
  /\ UNCHANGED wd

\* th may make a system call
MayCall(th) == at[th] = "app" /\ s.calls[th] < MaxCalls

\* A timed system call first says for how long.
MarkForSleep(th) ==
  /\ MayCall(th) /\ th \in Sleeper
  /\ \E n \in 1 .. MaxSleep :
       s' = Checked([s EXCEPT !.marked[th] = TRUE, !.left[th] = n, !.futexWord[th] = 1],
                    ~s.marked[th])
  /\ at' = [at EXCEPT ![th] = "marked"]
  /\ UNCHANGED <<bvars, wd>>

\* syscallLeave
SyscallLeave(th) ==
  /\ MayCall(th) \/ at[th] = "marked"
  /\ \E pc \in Syscall : LET x == [s EXCEPT !.calls[th] = @ + 1] IN
       IF s.marked[th] \/ <<proc[th], pc>> \in s.blockingSyscalls
         THEN DoLeave(th, proc[th], s.cid[th], x)
         ELSE /\ s' = Checked([x EXCEPT !.fakeLeaves = Append(@, [th |-> th, pc |-> pc])],
                              s.curThread[s.cid[th]] = th /\ s.state[th] = "RUNNING"
                                /\ ~InFakeLeave(s, th))
              /\ UNCHANGED bvars
  /\ at' = [at EXCEPT ![th] = "syscall"]
  /\ UNCHANGED wd

\* The system call of a sleeper returns before its time: it looks whether it is
\* asleep, and then ends its sleep, unless the scheduler has done so.
IsSleeping(th) ==
  /\ at[th] = "syscall" /\ s.state[th] = "SLEEPING"
  /\ at' = [at EXCEPT ![th] = "ending"]
  /\ UNCHANGED <<bvars, s, wd>>
NotifySleepEnd(th) ==
  /\ at[th] = "ending"
  /\ s' = Checked(IF s.state[th] = "SLEEPING" THEN Awake(s, th) ELSE s,
                  ~s.marked[th] /\ s.state[th] \in {"SLEEPING", "BLOCKED"})
  /\ at' = [at EXCEPT ![th] = "syscall"]
  /\ UNCHANGED <<bvars, wd>>

\* sync, up to the wait in the barrier
Sync(th) ==
  LET c == s.cid[th] IN
  /\ at[th] = "app"
  /\ IF b.state[c] = "RUNNING" /\ ~s.marked[th]
       THEN /\ B!Sync(c)
            /\ s' \in AfterPhase(s)
            /\ at' = [at EXCEPT ![th] =
                 IF c \in inWait' THEN "sync"
                 ELSE IF s'.handoffThread[th] # None THEN "handoff" ELSE "app"]
       ELSE s' = Checked(s, FALSE) /\ UNCHANGED <<bvars, at>>
  /\ UNCHANGED wd

\* The barrier lets th go on.
BarWake(th) ==
  /\ at[th] \in {"join", "sync"}
  /\ B!WakeUp(s.cid[th])
  /\ at' = [at EXCEPT ![th] =
       IF at[th] = "sync" /\ s.handoffThread[th] # None THEN "handoff" ELSE "app"]
  /\ UNCHANGED <<s, wd>>

\* The end of sync: th gives its context to the thread it is promised to, and
\* looks for another.
Handoff(th) ==
  LET dst == s.handoffThread[th]
      c == s.cid[th]
      x == Wakeup(Schedule(Deschedule([s EXCEPT !.handoffThread[th] = None], th, "QUEUED"),
                           dst, c), dst)
      other == ContextFor(x, th)
  IN
  /\ at[th] = "handoff"
  /\ IF other # None THEN BarJoin(th, Schedule(Take(x, other), th, other))
     ELSE /\ s' = Enqueue(x, th)
          /\ at' = [at EXCEPT ![th] = "ctx"]
          /\ UNCHANGED bvars
  /\ UNCHANGED wd

\* The end of waitForContext
ContextWake(th) ==
  /\ at[th] = "ctx" /\ s.futexWord[th] # 1
  /\ at' = [at EXCEPT ![th] = "app"]
  /\ UNCHANGED <<bvars, s, wd>>

\* The last critical section of finish: th is gone.
Finished(th, x) ==
  LET y == IF x.state[th] = "OUT"
             THEN [Deschedule([x EXCEPT !.outQueue = Without(@, {th})], th, "BLOCKED")
                     EXCEPT !.freeList = Append(@, x.cid[th])]
             ELSE [x EXCEPT !.runQueue = Without(@, {th})]
  IN
  /\ s' = Checked([y EXCEPT !.state[th] = "STARTED", !.futexWord[th] = 0,
                            !.cid[th] = CHOOSE c \in Context : TRUE],
                  x.state[th] \in {"STARTED", "OUT", "BLOCKED", "QUEUED"})
  /\ at' = [at EXCEPT ![th] = "none"]

\* finish, from the system call that ends a thread.  One that has not left, or
\* only faked it, leaves first.  (Threads that are ended from outside, in the
\* middle of their sleep or of a phase, are not part of this module.)
Finish(th) ==
  /\ at[th] \in {"new", "syscall"} /\ s.state[th] # "SLEEPING"
  /\ Unwatched(th)
  /\ IF s.state[th] = "RUNNING"
       THEN /\ s' = IF InFakeLeave(s, th) THEN FinishFakeLeave(s, th) ELSE s
            /\ at' = [at EXCEPT ![th] = "leaving"]
       ELSE Finished(th, s)
  /\ UNCHANGED <<bvars, wd>>
FinishLeave(th) ==
  /\ at[th] = "leaving"
  /\ DoLeave(th, proc[th], s.cid[th], s)
  /\ at' = [at EXCEPT ![th] = "finishing"]
  /\ UNCHANGED wd
FinishEnd(th) ==
  /\ at[th] = "finishing"
  /\ Finished(th, s)
  /\ UNCHANGED <<bvars, wd>>

-----------------------------------------------------------------------------
(* The watchdog                                                            *)

\* The thread of the oldest fake leave is made to leave.  Unlocked in between.
Unfake(pid, pc) ==
  LET f == Head(s.fakeLeaves) IN
  /\ s' = [FinishFakeLeave(s, f.th) EXCEPT
             !.blockingSyscalls = IF wd.stage = "idle" /\ Len(s.fakeLeaves) = 1
                                    THEN @ \cup {<<pid, pc>>} ELSE @]
  /\ wd' = [stage |-> "leave", th |-> f.th, cid |-> s.cid[f.th], pid |-> pid, pc |-> pc]

WatchdogStall ==
  /\ wd.stage = "idle"
  /\ s.fakeLeaves # <<>>
  /\ Unfake(proc[Head(s.fakeLeaves).th], Head(s.fakeLeaves).pc)
  /\ UNCHANGED <<bvars, at>>

WatchdogLeave ==
  /\ wd.stage = "leave"
  /\ DoLeave(wd.th, wd.pid, wd.cid, s)
  /\ wd' = [wd EXCEPT !.stage = "next"]
  /\ UNCHANGED at

\* The loop goes on with the next fake leave of the same system call.  (It
\* compares the process of the thread it has just dealt with, not the next.)
WatchdogNext ==
  /\ wd.stage = "next"
  /\ IF Len(s.fakeLeaves) > Backlog /\ Head(s.fakeLeaves).pc = wd.pc
       THEN Unfake(wd.pid, wd.pc)
       ELSE wd' = Idle /\ UNCHANGED s
  /\ UNCHANGED <<bvars, at>>

\* faulty: only when every context is free
WatchdogDriveTimeAlone ==
  /\ wd.stage = "idle"
  /\ s.sleepQueue # <<>>
  /\ \A c \in Context : s.curThread[c] = None
  /\ s' \in Callback(s)
  /\ UNCHANGED <<bvars, at, wd>>

\* With nobody scheduled but threads that are OUT, and one asleep, the watchdog
\* drives time.
WatchdogDriveTime ==
  /\ wd.stage = "idle"
  /\ s.sleepQueue # <<>>
  /\ Cardinality({c \in Context : s.curThread[c] # None}) = Len(s.outQueue)
  /\ s' \in Callback(s)
  /\ UNCHANGED <<bvars, at, wd>>

Next ==
  /\ ~fault /\ ~s.failed
  /\ \/ \E th \in Thread :
          \/ Start(th) \/ Join(th)
          \/ MarkForSleep(th) \/ SyscallLeave(th)
          \/ IsSleeping(th) \/ NotifySleepEnd(th)
          \/ Sync(th) \/ BarWake(th) \/ Handoff(th) \/ ContextWake(th)
          \/ Finish(th) \/ FinishLeave(th) \/ FinishEnd(th)
     \/ WatchdogStall \/ WatchdogLeave \/ WatchdogNext \/ WatchdogDriveTime

\* A running thread comes to its next call; waits that are over end; the
\* watchdog goes round.  A thread may stay in a system call for ever.
Fairness ==
  /\ \A th \in Thread :
       WF_vars(\/ SyscallLeave(th) \/ Sync(th)
               \/ BarWake(th) \/ Handoff(th) \/ ContextWake(th) \/ FinishLeave(th))
  /\ WF_vars(WatchdogStall \/ WatchdogLeave \/ WatchdogNext \/ WatchdogDriveTime)

Spec == Init /\ [][Next]_vars
FairSpec == Spec /\ Fairness
-----------------------------------------------------------------------------
(* Properties                                                              *)

ThreadStates == {"STARTED", "RUNNING", "OUT", "BLOCKED", "SLEEPING", "QUEUED"}
Places == {"none", "new", "app", "marked", "join", "sync", "handoff", "ctx",
           "syscall", "ending", "leaving", "finishing"}

\* The types of the variables
TypeOK ==
  /\ B!TypeOK
  /\ s.state \in [Thread -> ThreadStates]
  /\ s.cid \in [Thread -> Context]
  /\ s.handoffThread \in [Thread -> Thread \cup {None}]
  /\ s.futexWord \in [Thread -> {0, 1}]
  /\ s.marked \in [Thread -> BOOLEAN]
  /\ s.left \in [Thread -> 0 .. MaxSleep]
  /\ s.curThread \in [Context -> Thread \cup {None}]
  /\ ToSet(s.freeList) \subseteq Context
  /\ \A q \in {s.runQueue, s.outQueue, s.sleepQueue} : ToSet(q) \subseteq Thread
  /\ \A i \in DOMAIN s.fakeLeaves : s.fakeLeaves[i] \in [th : Thread, pc : Syscall]
  /\ s.phase \in 0 .. schedQuantum - 1
  /\ s.calls \in [Thread -> 0 .. MaxCalls]
  /\ at \in [Thread -> Places]
  /\ wd.stage \in {"idle", "leave", "next"}

Distinct(q) == \A i, j \in DOMAIN q : q[i] = q[j] => i = j
In(st) == {th \in Thread : s.state[th] = st}

\* No assertion or panic is hit, here or in the barrier: every wake-up finds its
\* thread waiting, sleepers wake in the very phase they asked for, no promise is
\* made on a free context, each call of the barrier finds the context in the
\* state it needs.
AssertionsHold == ~fault /\ ~s.failed

\* A context runs at most one thread, each thread that has one is allowed on it;
\* what has none is in the free list.  The queues hold the threads of their
\* state, the sleepers in order.
ContextsExact ==
  /\ TypeOK
  /\ \A th \in Thread : \A c \in Context :
       s.curThread[c] = th <=> s.state[th] \in {"RUNNING", "OUT"} /\ s.cid[th] = c
  /\ \A th \in In("RUNNING") \cup In("OUT") : s.cid[th] \in mask[th]
  /\ ToSet(s.freeList) = {c \in Context : s.curThread[c] = None}
  /\ ToSet(s.outQueue) = In("OUT")
  /\ ToSet(s.sleepQueue) = In("SLEEPING")
  /\ \A q \in {s.freeList, s.runQueue, s.outQueue, s.sleepQueue} : Distinct(q)
  /\ \A i, j \in DOMAIN s.sleepQueue :
       i < j => s.left[s.sleepQueue[i]] <= s.left[s.sleepQueue[j]]

\* A thread that waits for a context is in the run queue, or has been promised
\* one by exactly one thread, which is past the work of its phase, cannot leave
\* before it hands the context over, and has a context the other may run on.
NobodyForgotten ==
  \A th \in In("QUEUED") :
    LET promisers == {v \in Thread : s.handoffThread[v] = th} IN
    /\ s.futexWord[th] = 1
    /\ IF Contains(s.runQueue, th) THEN promisers = {}
       ELSE /\ Cardinality(promisers) = 1
            /\ \A v \in promisers :
                 s.state[v] = "RUNNING" /\ at[v] \in {"sync", "handoff"}
                   /\ s.cid[v] \in mask[th]

\* No thread queues while a context that it may run on is free or has a thread
\* that is OUT.
WorkConserving ==
  \A th \in ToSet(s.runQueue) : \A c \in mask[th] :
    s.curThread[c] # None /\ s.state[s.curThread[c]] = "RUNNING"

\* The barrier waits for a context exactly when a thread is running on it, and
\* for a thread in a system call only as long as that is a fake leave (or is
\* being made real).
BarrierAgrees ==
  \A c \in Context :
    /\ b.state[c] \in {"RUNNING", "WAITING"} <=>
         s.curThread[c] # None /\ s.state[s.curThread[c]] = "RUNNING"
    /\ b.state[c] = "RUNNING" /\ at[s.curThread[c]] = "syscall" =>
         InFakeLeave(s, s.curThread[c]) \/ (wd.stage = "leave" /\ wd.cid = c)

\* A thread that waits for a context gets one, whatever the others do.
QueuedRun == \A th \in Thread : (s.state[th] = "QUEUED") ~> (s.state[th] = "RUNNING")

\* A thread that sleeps is woken, even when nobody else runs.
SleepersWake == \A th \in Thread : (s.state[th] = "SLEEPING") ~> (s.state[th] # "SLEEPING")
=============================================================================
