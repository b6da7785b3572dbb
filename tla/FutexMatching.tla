--------------------------- MODULE FutexMatching ----------------------------
(***************************************************************************)
(* The matching of futex wake-ups (scheduler.cpp, virt/timeout.cpp).  When *)
(* a simulated thread wakes others by FUTEX_WAKE, its own join waits until *)
(* as many of them have joined as the kernel woke, so that simulated time  *)
(* does not run ahead of them.  The scheduler only counts:                 *)
(*   maxAllowedFutexWakeups  wake-ups that calls in progress may make,     *)
(*   unmatchedFutexWakeups   woken threads that have joined and that no    *)
(*                           waker has taken off yet.                      *)
(* A waker reads the second one without the lock, backs off, and gives up  *)
(* after a few seconds (2L << 31L nanoseconds).                            *)
(*                                                                         *)
(* Each action is one critical section of schedLock, one look without it,  *)
(* or one effect of the kernel, which is modelled by what zsim sees of it. *)
(***************************************************************************)
EXTENDS Integers, FiniteSets, FiniteSetsExt, Functions

CONSTANTS
  Thread,
  Values,    \* the values that threads give to FUTEX_WAKE, as ints
  MaxWakes,  \* what notifyFutexWakeStart caps them at: 1 << 24
  Width,     \* the number of values of a uint32_t
  MaxUpsets  \* bound: how many things that the counts cannot follow may happen,
             \* each at most once, other than that wakers give up

ASSUME FutexAssumption ==
  /\ IsFiniteSet(Thread)
  /\ MaxWakes \in Nat /\ Cardinality(Thread) <= MaxWakes
  \* The cap of the code avoids overflows of maxAllowedFutexWakeups: there is room
  \* for a call of each thread and for what two calls leave behind.
  /\ Width \in Nat /\ MaxWakes * Cardinality(Thread) + 2 * MaxWakes < Width
  /\ Values \subseteq -(Width \div 2) .. (Width \div 2) - 1
  /\ MaxUpsets \in Nat

VARIABLES
  pc,        \* where each thread is
  call,      \* the FUTEX_WAKE of each thread: val, and res of the kernel
  futexJoin, \* ThreadInfo::futexJoin
  maxAllowedFutexWakeups,
  unmatchedFutexWakeups,
  upset,     \* (history) what happened that the counts cannot follow
  fault      \* an assertion of the code was hit

counts == <<maxAllowedFutexWakeups, unmatchedFutexWakeups>>
vars == <<pc, call, futexJoin, counts, upset, fault>>

Actions == {"NONE", "WAKE", "WAIT"}
Unsigned(n) == n % Width

NoCall == [val |-> 0, res |-> 0]
NoJoin == [action |-> "NONE", maxWakes |-> 0, wokenUp |-> 0]

Init ==
  /\ pc = [t \in Thread |-> "running"]
  /\ call = [t \in Thread |-> NoCall]
  /\ futexJoin = [t \in Thread |-> NoJoin]
  /\ maxAllowedFutexWakeups = 0
  /\ unmatchedFutexWakeups = 0
  /\ upset = {}
  /\ fault = FALSE

Upset(kind) ==
  /\ kind \notin upset /\ Cardinality(upset \ {"gaveUp"}) < MaxUpsets
  /\ upset' = upset \cup {kind}

Go(t, from, to) == pc[t] = from /\ pc' = [pc EXCEPT ![t] = to]
In(places) == {t \in Thread : pc[t] \in places}

-----------------------------------------------------------------------------
(* The woken thread                                                        *)

\* The kernel puts it to sleep, and may wake it for other reasons: its time is
\* up, or a signal comes.
Wait(t) ==
  /\ Go(t, "running", "waiting")
  /\ UNCHANGED <<call, futexJoin, counts, upset, fault>>
Interrupted(t) ==
  /\ Go(t, "waiting", "running")
  /\ UNCHANGED <<call, futexJoin, counts, upset, fault>>

\* A process that is not simulated wakes it.
WokenOutside(t) ==
  /\ Go(t, "waiting", "woken")
  /\ Upset("outside")
  /\ UNCHANGED <<call, futexJoin, counts, fault>>

\* notifyFutexWaitWoken
NotifyWaitWoken(t) ==
  /\ Go(t, "woken", "told")
  /\ futexJoin' = [futexJoin EXCEPT ![t] = [NoJoin EXCEPT !.action = "WAIT"]]
  /\ UNCHANGED <<call, counts, upset, fault>>

\* futexWaitJoin, from join
WaitJoin(t) ==
  /\ Go(t, "told", "running")
  /\ unmatchedFutexWakeups' = IF unmatchedFutexWakeups >= maxAllowedFutexWakeups
                              THEN unmatchedFutexWakeups ELSE unmatchedFutexWakeups + 1
  /\ futexJoin' = [futexJoin EXCEPT ![t] = NoJoin]
  /\ UNCHANGED <<call, maxAllowedFutexWakeups, upset, fault>>

-----------------------------------------------------------------------------
(* The waker                                                               *)

\* notifyFutexWakeStart.  A value below 0 asks for all, as UINT_MAX does, and 0
\* for none.
WakeStart(t) ==
  \E val \in Values :
    LET maxWakes == Min({Unsigned(val), MaxWakes}) IN
    /\ Go(t, "running", "waking")
    /\ call' = [call EXCEPT ![t].val = val]
    /\ futexJoin' = [futexJoin EXCEPT ![t].maxWakes = maxWakes]
    /\ maxAllowedFutexWakeups' = Unsigned(maxAllowedFutexWakeups + maxWakes)
    /\ CASE val < 0 -> Upset("all")
         [] val = 0 -> Upset("none")
         [] OTHER   -> UNCHANGED upset
    /\ fault' = (futexJoin[t].action # "NONE")
    /\ UNCHANGED unmatchedFutexWakeups

\* The kernel wakes as many as it can of those that wait; with a value below 1,
\* one of them.
Wake(t) ==
  LET most == Max({call[t].val, 1}) IN
  \E woken \in SUBSET In({"waiting"}) :
    /\ pc[t] = "waking"
    /\ Cardinality(woken) = Min({most, Cardinality(In({"waiting"}))})
    /\ pc' = [u \in Thread |-> IF u = t THEN "wakeDone"
                               ELSE IF u \in woken THEN "woken" ELSE pc[u]]
    /\ call' = [call EXCEPT ![t].res = Cardinality(woken)]
    /\ UNCHANGED <<futexJoin, counts, upset, fault>>

\* The call fails: nothing is noted of it, and its allowance stays.
WakeFails(t) ==
  /\ Go(t, "waking", "running")
  /\ call' = [call EXCEPT ![t] = NoCall]
  /\ Upset("failed")
  /\ UNCHANGED <<futexJoin, counts, fault>>

\* PostPatchFutex of a waker, with notifyFutexWakeEnd
WakeEnd(t) ==
  /\ Go(t, "wakeDone", "toJoin")
  /\ futexJoin' = [futexJoin EXCEPT
       ![t].action = "WAKE",
       ![t].wokenUp = Unsigned(Min({call[t].res, call[t].val}))]
  /\ call' = [call EXCEPT ![t] = NoCall]
  /\ UNCHANGED <<counts, upset, fault>>

\* Faulty: the whole allowance of the call is given back.
AllGivenBack(t) == futexJoin[t].maxWakes
\* The part of its allowance that the call did not use
Unused(t) == futexJoin[t].maxWakes - futexJoin[t].wokenUp

\* futexWakeJoin, from join, up to the loop
WakeJoin(t) ==
  LET allowed == Unsigned(maxAllowedFutexWakeups - Unused(t)) IN
  /\ Go(t, "toJoin", "matching")
  /\ maxAllowedFutexWakeups' = allowed
  /\ fault' = ( \/ futexJoin[t].maxWakes > maxAllowedFutexWakeups
                \/ futexJoin[t].wokenUp > futexJoin[t].maxWakes
                \/ unmatchedFutexWakeups > allowed )
  /\ UNCHANGED <<call, futexJoin, unmatchedFutexWakeups, upset>>

Enough(t) == futexJoin[t].wokenUp <= unmatchedFutexWakeups

\* The end of join's part for futexes
Matched(t) ==
  /\ pc' = [pc EXCEPT ![t] = "running"]
  /\ futexJoin' = [futexJoin EXCEPT ![t] = NoJoin]
  /\ maxAllowedFutexWakeups' = Unsigned(maxAllowedFutexWakeups - futexJoin[t].wokenUp)
  /\ UNCHANGED <<call, fault>>

SeeTimeoutNever(t) == FALSE    \* faulty: the loop has no limit
\* The loop sees enough of them, or gives up, without the lock;
SeeEnough(t) ==
  /\ Enough(t)
  /\ Go(t, "matching", "sure")
  /\ UNCHANGED <<call, futexJoin, counts, upset, fault>>
SeeTimeout(t) ==
  /\ ~Enough(t)
  /\ Go(t, "matching", "givingUp")
  /\ UNCHANGED <<call, futexJoin, counts, upset, fault>>

\* Faulty: the counter is not read again under the lock.
EnoughBefore(t) == TRUE
EnoughStill(t) == Enough(t)

\* with the lock it takes them off, if there still are enough,
Match(t) ==
  /\ pc[t] = "sure"
  /\ IF EnoughStill(t)
     THEN /\ unmatchedFutexWakeups' = Unsigned(unmatchedFutexWakeups - futexJoin[t].wokenUp)
          /\ Matched(t)
     ELSE /\ pc' = [pc EXCEPT ![t] = "matching"]
          /\ UNCHANGED <<call, futexJoin, counts, fault>>
  /\ UNCHANGED upset

\* or takes off all there are, without looking again.
GiveUp(t) ==
  /\ pc[t] = "givingUp"
  /\ unmatchedFutexWakeups' = 0
  /\ Matched(t)
  /\ upset' = upset \cup {"gaveUp"}

-----------------------------------------------------------------------------
\* A thread ends at any time, or goes on where zsim does not follow it (when
\* its process is fast-forwarded); its place is free for a new one.
Vanish(t) ==
  /\ pc[t] \notin {"running", "waiting"}
  /\ pc' = [pc EXCEPT ![t] = "running"]
  /\ call' = [call EXCEPT ![t] = NoCall]
  /\ futexJoin' = [futexJoin EXCEPT ![t] = NoJoin]
  /\ Upset("vanished")
  /\ UNCHANGED <<counts, fault>>

\* What a thread does once it has entered a call, with nothing to wait for
Step(t) ==
  \/ NotifyWaitWoken(t) \/ WaitJoin(t)
  \/ Wake(t) \/ WakeEnd(t) \/ WakeJoin(t)
  \/ SeeEnough(t) \/ SeeTimeout(t) \/ Match(t) \/ GiveUp(t)

Next ==
  /\ ~fault
  /\ \E t \in Thread :
       \/ Step(t)
       \/ Wait(t) \/ Interrupted(t) \/ WokenOutside(t)
       \/ WakeStart(t) \/ WakeFails(t) \/ Vanish(t)

Spec == Init /\ [][Next]_vars
\* A thread in a call goes on: it runs on a processor of the host, schedLock is
\* free again after a few instructions, and the loop ends after a few seconds.
FairSpec == Spec /\ \A t \in Thread : WF_vars(~fault /\ Step(t))
-----------------------------------------------------------------------------
(* Properties                                                              *)

\* How many woken threads each waker waits for, or will
Awaited ==
  [t \in Thread |->
     CASE pc[t] = "wakeDone"                                   -> call[t].res
       [] pc[t] \in {"toJoin", "matching", "sure", "givingUp"} -> futexJoin[t].wokenUp
       [] OTHER                                                -> 0]
\* What each call may still wake
Allowance ==
  [t \in Thread |->
     CASE pc[t] \in {"waking", "wakeDone", "toJoin"} -> futexJoin[t].maxWakes
       [] pc[t] \in {"matching", "sure", "givingUp"} -> futexJoin[t].wokenUp
       [] OTHER                                      -> 0]

Without(kinds) == upset \cap kinds = {}

\* The two counters balance.  Unless a thread was woken from outside or by a call
\* that asked for none or for all as UINT_MAX does, vanished or gave up, the wakers
\* in progress wait for exactly the woken threads that are still to join and those
\* that have joined: no waker goes on before as many have joined as it woke, and
\* nothing is left over for the next one.  Unless a call failed or its thread
\* vanished, the allowance is that of the calls in progress.
CountsBalance ==
  /\ Without({"outside", "vanished", "gaveUp", "all", "none"}) =>
       SumFunction(Awaited) = unmatchedFutexWakeups + Cardinality(In({"woken", "told"}))
  /\ Without({"failed", "vanished", "all"}) =>
       maxAllowedFutexWakeups = SumFunction(Allowance)

\* No assertion of the matching fails, although calls fail and threads vanish,
\* until a thread is woken from outside, gives up, or asks for none or for all as
\* UINT_MAX does.
OnlyUpsetsFault == fault => ~Without({"outside", "gaveUp", "all", "none"})

\* Every waker gets through the loop, unless others do so before it for ever or
\* the program ends with an assertion.
InLoop(t) == pc[t] \in {"matching", "sure", "givingUp"}
MatchingEnds ==
  <>fault \/ \A t \in Thread :
    \/ []<>~InLoop(t)
    \/ []<><<\E u \in Thread \ {t} : InLoop(u) /\ ~InLoop(u)'>>_vars
=============================================================================
