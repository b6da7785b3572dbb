-------------------------- MODULE DoppelgangerLLC ---------------------------
(***************************************************************************)
(* The last-level cache of the modified zsim (Cache, cache.cpp): an exact  *)
(* set-associative array and a Doppelganger array behind one MESI          *)
(* coherence controller, with line ids 0 .. numLines-1 for the first and   *)
(* numLines + tag for the second.  Its children are private caches, its    *)
(* parent the memory, which never sends invalidations.                     *)
(*                                                                         *)
(* Cache::access asks isApprox, before it takes any lock, which array a    *)
(* request goes to.  A Doppelganger access runs as DPGArray describes;     *)
(* each evict_tag in it is also an eviction of the coherence controller.   *)
(*                                                                         *)
(* Compared to MESICC the tree is flat and what one sendInvalidates does   *)
(* to the children is one step; the requests the children have under way   *)
(* are there, with the races that CheckForMESIRace handles.                *)
(***************************************************************************)
EXTENDS DPGArray

CONSTANTS
  Child,             \* the caches above
  Registered,        \* the lines that regions cover, all of them at first
  WriteWhileCached,  \* may the program change the map of a line in the cache?
  RegionChanges      \* may regions be registered and deregistered any time?

ASSUME LLCAssumption ==
  /\ None \notin Child
  /\ Registered \subseteq Addr
  /\ {WriteWhileCached, RegionChanges} \subseteq BOOLEAN

VARIABLES
  child,    \* the state of every line in the children
  pending,  \* the request each child has with this cache
  array,    \* the exact array
  cc,       \* bcc state and tcc entry of every line id
  approx,   \* the lines in registered regions
  req,      \* the request being worked on, under both locks of the controller
  fault     \* an assertion or panic of the code was hit

ccVars == <<child, pending, array, cc, approx, req, fault>>
vars == <<dpgVars, ccVars>>

Gets == {"GETS", "GETX"}
Puts == {"PUTS", "PUTX"}
Exclusive(s) == s \in {"E", "M"}

LineIds == 0 .. 2 * numLines - 1
DpgIdNoOffset(t) == t    \* faulty: lands among the exact lines
DpgId(t) == numLines + t

NoRequest == [type |-> "none", addr |-> None, initial |-> "I", approx |-> FALSE]
NoReq == [pc |-> "idle", child |-> None, type |-> "none", addr |-> None, id |-> None]
NoEntry == [state |-> "I", sharers |-> {}, exclusive |-> FALSE]

LLCInit ==
  /\ Init
  /\ child = [c \in Child |-> [a \in Addr |-> "I"]]
  /\ pending = [c \in Child |-> NoRequest]
  /\ array = [i \in TagIds |-> None]
  /\ cc = [i \in LineIds |-> NoEntry]
  /\ approx = Registered
  /\ req = NoReq
  /\ fault = FALSE

-----------------------------------------------------------------------------
(* The world outside                                                       *)

\* The program writes a line.
Write(a, m) ==
  /\ a \in approx
  /\ WriteWhileCached \/ (op.addr # a /\ \A t \in TagIds : array_t[t].addr # a)
  /\ ProgramWrite(a, m)
  /\ UNCHANGED ccVars

\* RegisterApproxRegion, DeregisterApproxRegion, called by the program
ChangeRegion(a) ==
  /\ RegionChanges /\ a \in Registered
  /\ approx' = IF a \in approx THEN approx \ {a} ELSE approx \cup {a}
  /\ UNCHANGED <<dpgVars, child, pending, array, cc, req, fault>>

\* A write hits an exclusive line in a child.
ChildWrite(c, a) ==
  /\ pending[c] = NoRequest
  /\ child[c][a] = "E"
  /\ child' = [child EXCEPT ![c][a] = "M"]
  /\ UNCHANGED <<dpgVars, pending, array, cc, approx, req, fault>>

\* The requests a child makes for a line in state s: misses and evictions.
Requests(s) == CASE s = "M" -> {"PUTX"}
                 [] s = "E" -> {"PUTS"}
                 [] s = "S" -> {"PUTS", "GETX"}
                 [] s = "I" -> Gets

\* A child calls access, which asks isApprox and then unlocks the child.
ChildRequest(c, type, a) ==
  /\ pending[c] = NoRequest
  /\ type \in Requests(child[c][a])
  /\ pending' = [pending EXCEPT ![c] = [type |-> type, addr |-> a,
                                        initial |-> child[c][a], approx |-> a \in approx]]
  /\ UNCHANGED <<dpgVars, child, array, cc, approx, req, fault>>

-----------------------------------------------------------------------------
(* The coherence controller                                                *)

\* Children whose copy of line a is invalidated (INV) or downgraded (INVX);
\* a child that does not have it fails an assertion.
Lost(c, a, type) == child[c][a] = "I" \/ (type = "INVX" /\ ~Exclusive(child[c][a]))
InvalidatedINVOnly(cs, a, type) ==    \* faulty: INVX changes nothing
  [c \in Child |-> [b \in Addr |-> IF c \in cs /\ b = a /\ type = "INV"
                                     THEN "I" ELSE child[c][b]]]
Invalidated(cs, a, type) ==
  [c \in Child |-> [b \in Addr |-> IF c \in cs /\ b = a
                                     THEN IF type = "INV" THEN "I" ELSE "S"
                                     ELSE child[c][b]]]

\* Faulty: the sharers are forgotten without an invalidation.
EvictCCSilent(id, a) ==
  /\ cc' = [cc EXCEPT ![id].state = "I", ![id].sharers = {}]
  /\ UNCHANGED <<child, fault>>

\* cc->processEviction of line id, taken to hold address a: invalidate the
\* sharers and write back to memory.
EvictCC(id, a) ==
  LET e == cc[id]
      lost == \E c \in e.sharers : a = None \/ Lost(c, a, "INV")
      wb == ~lost /\ \E c \in e.sharers : child[c][a] = "M"
  IN
  /\ child' = IF lost THEN child ELSE Invalidated(e.sharers, a, "INV")
  /\ cc' = [cc EXCEPT ![id].state = "I", ![id].sharers = {}]
  /\ fault' = (lost \/ (wb /\ ~Exclusive(e.state)))

NoEvict == UNCHANGED <<child, cc, fault>>

\* cc->startAccess: CheckForMESIRace.
Racy(c) == child[c][pending[c].addr] # pending[c].initial
Skipped(c) == pending[c].type \in Puts /\ Racy(c) /\ child[c][pending[c].addr] = "I"
PatchedTypeNever(c) == pending[c].type    \* faulty
PatchedType(c) ==
  IF pending[c].type = "PUTX" /\ child[c][pending[c].addr] = "S" THEN "PUTS"
  ELSE pending[c].type

\* It finds a race that cannot happen; or the lookup misses, and the panic of
\* shouldAllocate is "We lost inclusion on this line!"
Impossible(c) ==
  LET r == pending[c]  s == child[c][r.addr] IN
  /\ Racy(c)
  /\ \/ r.type = "GETS"
     \/ r.type = "GETX" /\ ~(r.initial = "S" /\ s = "I")
     \/ r.type \in Puts /\ s \notin {"S", "I"}
ExactMatches(a) == {i \in TagCands(a) : array[i] = a}
LostInclusion(c) ==
  LET r == pending[c] IN
  /\ r.type \in Puts
  /\ (IF r.approx THEN Matches(r.addr) ELSE ExactMatches(r.addr)) = {}

\* The cache can start on the request of child c.
Ready(c) == req.pc = "idle" /\ pending[c] # NoRequest

\* The request it works on next
Working(c, pc, id) ==
  req' = [pc |-> pc, child |-> c, type |-> PatchedType(c),
          addr |-> pending[c].addr, id |-> id]

SkipAccess(c) ==
  /\ Ready(c) /\ Skipped(c)
  /\ pending' = [pending EXCEPT ![c] = NoRequest]
  /\ UNCHANGED <<dpgVars, child, array, cc, approx, req, fault>>

Panic(c) ==
  /\ Ready(c) /\ ~Skipped(c)
  /\ Impossible(c) \/ LostInclusion(c)
  /\ fault' = TRUE
  /\ UNCHANGED <<dpgVars, child, pending, array, cc, approx, req>>

\* An access to the Doppelganger array begins.
StartApprox(c) ==
  LET a == pending[c].addr  get == pending[c].type \in Gets IN
  /\ Ready(c) /\ pending[c].approx
  /\ ~Skipped(c) /\ ~Impossible(c) /\ ~LostInclusion(c)
  /\ \E t \in TagIds :
       /\ \/ (LookupHit(a, t, get) \/ LookupRemap(a, t, get)) /\ NoEvict
          \/ PreinsertFreeTag(a, t) /\ NoEvict
          \/ PreinsertEvictTag(a, t) /\ EvictCC(DpgId(t), array_t[t].addr)
       /\ Working(c, IF op'.pc = "idle" THEN "process" ELSE "array", DpgId(t))
  /\ UNCHANGED <<pending, array, approx>>

\* Faulty: the access does not go on to the coherence controller.
ContinueApproxOnly ==
  /\ req.pc = "array"
  /\ Continue /\ NoEvict
  /\ UNCHANGED <<req, pending, array, approx>>

\* It goes on, evicting and then inserting.
ContinueApprox ==
  /\ req.pc = "array"
  /\ \/ (PreinsertData \/ TakeEvicted) /\ NoEvict
     \/ EvictHead /\ LET t == array_d[op.data].tag_head_id
                     IN EvictCC(DpgId(t), array_t[t].addr)
  /\ req' = IF op'.pc = "idle" THEN [req EXCEPT !.pc = "process"] ELSE req
  /\ UNCHANGED <<pending, array, approx>>

\* An access to the exact array: lookup; preinsert, processEviction and
\* postinsert if it misses.  The victim is an invalid line if there is one.
StartExact(c) ==
  LET a == pending[c].addr IN
  /\ Ready(c) /\ ~pending[c].approx
  /\ ~Skipped(c) /\ ~Impossible(c) /\ ~LostInclusion(c)
  /\ \E i \in TagIds :
       /\ \/ IsFirst(i, ExactMatches(a)) /\ UNCHANGED array /\ NoEvict
          \/ /\ ExactMatches(a) = {} /\ i \in TagCands(a)
             /\ cc[i].state = "I" \/ \A k \in TagCands(a) : cc[k].state # "I"
             /\ EvictCC(i, array[i])
             /\ array' = [array EXCEPT ![i] = a]
       /\ Working(c, "process", i)
  /\ UNCHANGED <<dpgVars, pending, approx>>

\* endAccess; the request has been answered.
Answer ==
  /\ pending' = [pending EXCEPT ![req.child] = NoRequest]
  /\ req' = NoReq
  /\ UNCHANGED <<dpgVars, array, approx>>

\* cc->processAccess of a PUTS or PUTX
ProcessPut ==
  LET c == req.child  e == cc[req.id] IN
  /\ req.pc = "process" /\ req.type \in Puts
  /\ child' = [child EXCEPT ![c][req.addr] = "I"]
  /\ cc' = [cc EXCEPT ![req.id].state = IF req.type = "PUTX" THEN "M" ELSE @,
                      ![req.id].sharers = @ \ {c}]
  /\ fault' = \/ e.state = "I" \/ c \notin e.sharers
              \/ req.type = "PUTX" /\ ~(Exclusive(e.state) /\ e.exclusive
                                        /\ e.sharers = {c})
  /\ Answer

\* ... of a GETS: a line in no child is given in E, else the child that has
\* it in E or M is downgraded.
ProcessGETS ==
  LET c == req.child
      a == req.addr
      e == cc[req.id]
      s == IF e.state = "I" THEN "E" ELSE e.state
      owners == IF e.exclusive /\ Cardinality(e.sharers) = 1 THEN e.sharers ELSE {}
      wb == \E o \in owners : child[o][a] = "M"
      granted == IF e.sharers = {} /\ Exclusive(s) THEN "E" ELSE "S"
  IN
  /\ req.pc = "process" /\ req.type = "GETS"
  /\ child' = [Invalidated(owners, a, "INVX") EXCEPT ![c][a] = granted]
  /\ cc' = [cc EXCEPT ![req.id] = [state |-> IF wb THEN "M" ELSE s,
                                   sharers |-> e.sharers \cup {c},
                                   exclusive |-> granted = "E"]]
  /\ fault' = \/ c \in e.sharers
              \/ \E o \in owners : Lost(o, a, "INVX")
              \/ wb /\ ~Exclusive(s)
  /\ Answer

\* ... of a GETX: the other children's copies are invalidated.
ProcessGETX ==
  LET c == req.child
      a == req.addr
      e == cc[req.id]
      others == e.sharers \ {c}
  IN
  /\ req.pc = "process" /\ req.type = "GETX"
  /\ child' = [Invalidated(others, a, "INV") EXCEPT ![c][a] = "M"]
  /\ cc' = [cc EXCEPT ![req.id] = [state |-> "M", sharers |-> {c}, exclusive |-> TRUE]]
  /\ fault' = \/ e.exclusive /\ e.sharers = {c}
              \/ \E o \in others : Lost(o, a, "INV")
  /\ Answer

-----------------------------------------------------------------------------
\* The steps of the cache itself
Serve ==
  \/ \E c \in Child : SkipAccess(c) \/ Panic(c) \/ StartApprox(c) \/ StartExact(c)
  \/ ContinueApprox \/ ProcessPut \/ ProcessGETS \/ ProcessGETX

\* A failed assertion ends the program.
LLCNext ==
  /\ ~fault
  /\ \/ \E a \in Addr, m \in Map : Write(a, m)
     \/ \E a \in Addr : ChangeRegion(a)
     \/ \E c \in Child, a \in Addr :
          \/ ChildWrite(c, a)
          \/ \E type \in Gets \cup Puts : ChildRequest(c, type, a)
     \/ Serve

LLCSpec == LLCInit /\ [][LLCNext]_vars
-----------------------------------------------------------------------------
(* Properties                                                              *)

MESI == {"M", "E", "S", "I"}
Request == [type: Gets \cup Puts, addr: Addr, initial: MESI, approx: BOOLEAN]
Entry == [state: MESI, sharers: SUBSET Child, exclusive: BOOLEAN]
Work == [pc: {"array", "process"}, child: Child, type: Gets \cup Puts,
         addr: Addr, id: LineIds]

\* The types of the variables; the array has an access under way exactly when
\* the cache works on a request that is in it.
LLCTypeOK ==
  /\ child \in [Child -> [Addr -> MESI]]
  /\ pending \in [Child -> Request \cup {NoRequest}]
  /\ array \in [TagIds -> Addr \cup {None}]
  /\ cc \in [LineIds -> Entry]
  /\ approx \in SUBSET Addr
  /\ req \in Work \cup {NoReq}
  /\ fault \in BOOLEAN
  /\ req.pc = "array" <=> op.pc # "idle"

\* No assertion or panic is hit.
NoPanic == ~fault

\* The children's copies are coherent: the cache implements Copies.
Coherent == INSTANCE Copies WITH Cache <- Child, Line <- Addr, copy <- child
ImplementsCopies == Coherent!Spec

\* A child that evicts a line finds it in the cache: the panic of shouldAllocate,
\* "We lost inclusion on this line!", is never reached.
InclusionKept == \A c \in Child : Ready(c) /\ ~Skipped(c) => ~LostInclusion(c)

\* The line ids under which address a is in the cache
HoldersOf(a) ==
  {i \in TagIds : array[i] = a /\ cc[i].state # "I"}
    \cup {DpgId(t) : t \in {t \in TagIds : array_t[t].addr = a}}

\* An address is in the cache under one line id, whose directory entry lists
\* exactly the children that have a copy; an address that is not in the cache
\* is in no child.
Tracked(a) ==
  /\ Cardinality(HoldersOf(a)) <= 1
  /\ {c \in Child : child[c][a] # "I"} = UNION {cc[i].sharers : i \in HoldersOf(a)}

DirectoryExact == \A a \in Addr : Tracked(a)

\* The lines that no region ever covers are tracked, whatever happens to the
\* approximable lines that share the controller with them.
PreciseTracked == \A a \in Addr \ Registered : Tracked(a)
=============================================================================
