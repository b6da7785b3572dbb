------------------------------ MODULE DPGArray ------------------------------
(***************************************************************************)
(* The Doppelganger cache array, zsim/src/doppelganger_cache.cpp.          *)
(*                                                                         *)
(* A tag array of numLines entries and a data array half that size.  Each  *)
(* data entry holds one block and is identified by the map value of the    *)
(* block's contents; the tags of all the lines whose contents have that    *)
(* map value share it, threaded on a doubly linked list whose head (the    *)
(* tag added last) is kept in the data entry.                              *)
(*                                                                         *)
(* The array is only used under the locks of the cache's coherence         *)
(* controller, so one access runs at a time.  It is still not atomic:      *)
(* every evict_tag calls into the coherence controller, which talks to the *)
(* children, and the simulated program keeps writing its memory, from      *)
(* which get_map computes.  An access is therefore split at the points     *)
(* where it evicts.                                                        *)
(***************************************************************************)
EXTENDS Integers, FiniteSets

CONSTANTS
  numLines,   \* number of tags
  assoc,      \* ways of a set, the same in both arrays
  Addr,       \* line addresses in approximable regions
  Map,        \* the values get_map can return (-1 may be one)
  hash        \* hf->hash(0, x), for x a line address or a map value

DATA_SCALE == 2
None == -1    \* the "points nowhere" index, address and map value

numSets_t == numLines \div assoc
numSets_d == numSets_t \div DATA_SCALE

ASSUME SizeAssumption ==
  /\ assoc \in Nat \ {0}
  /\ numLines \in Nat
  /\ numSets_d \in Nat \ {0}
  /\ numLines = numSets_t * assoc
  /\ numSets_t = DATA_SCALE * numSets_d

ASSUME InputAssumption ==
  /\ None \notin Addr
  /\ hash \in [Addr \cup Map -> Nat]

TagIds  == 0 .. numLines - 1
DataIds == 0 .. (numSets_d * assoc) - 1

VARIABLES
  array_t,    \* tag array
  array_d,    \* data array
  rp_dpg_t,   \* LRU state of the tag array
  rp_dpg_d,   \* LRU state of the data array
  map,        \* map value of each line's current contents in program memory
  op          \* the access in progress

dpgVars == <<array_t, array_d, rp_dpg_t, rp_dpg_d, map, op>>

-----------------------------------------------------------------------------
(* Replacement state.  LRU keeps a timestamp per entry, 0 when the entry   *)
(* was replaced; rankCands compares the entries of one set.  So all that   *)
(* matters is which entries have a timestamp ("used") and which of two     *)
(* used entries of a set was touched later ("newer").                      *)

Fresh == [used |-> {}, newer |-> {}]

Drop(rp, x) ==
  [used  |-> rp.used \ {x},
   newer |-> {p \in rp.newer : p[1] # x /\ p[2] # x}]

SetMates(rp, x) == {y \in rp.used \ {x} : y \div assoc = x \div assoc}

Touch(rp, x) ==
  [used  |-> rp.used \cup {x},
   newer |-> Drop(rp, x).newer \cup ({x} \X SetMates(rp, x))]

\* x has a lower score than y; entries of equal score (0) go by position.
RanksBefore(rp, x, y) ==
  \/ x \notin rp.used /\ y \in rp.used
  \/ x \notin rp.used /\ y \notin rp.used /\ x < y
  \/ <<y, x>> \in rp.newer

IsVictimAnywhere(rp, x, cands) ==    \* faulty: not only among the candidates
  \A y \in cands \ {x} : RanksBefore(rp, x, y)
IsVictim(rp, x, cands) ==
  x \in cands /\ \A y \in cands \ {x} : RanksBefore(rp, x, y)

IsFirst(x, ids) == x \in ids /\ \A y \in ids : x <= y

-----------------------------------------------------------------------------
(* The two arrays                                                          *)

FreeTag  == [next |-> None, prev |-> None, addr |-> None, data_id |-> None]
FreeData == [map_value |-> None, tag_head_id |-> None]

\* The ids of the set an address, or a map value, is hashed to
TagCands(a) ==
  LET first == (hash[a] % numSets_t) * assoc IN first .. first + assoc - 1
DataCands(m) ==
  LET first == (hash[m] % numSets_d) * assoc IN first .. first + assoc - 1

\* remove_tag: unlink t from the list of its data entry, freeing the data
\* entry if t was alone on it, and clear t.
RemoveTagTClearsPrev(T, t) ==    \* faulty: the previous tag is cleared too
  [u \in TagIds |-> IF u \in {t, T[t].prev} THEN FreeTag ELSE T[u]]
RemoveTagT(T, t) ==
  LET p == T[t].prev  n == T[t].next IN
  [u \in TagIds |-> IF u = t THEN FreeTag
                    ELSE [T[u] EXCEPT !.next = IF u = p THEN n ELSE @,
                                      !.prev = IF u = n THEN p ELSE @]]
RemoveTagDKeepsHead(T, D, t) ==  \* faulty: the head is never moved or freed
  D
RemoveTagD(T, D, t) ==
  LET p == T[t].prev  n == T[t].next  d == T[t].data_id IN
  [D EXCEPT ![d] = IF n # None THEN D[d]
                   ELSE IF p # None THEN [D[d] EXCEPT !.tag_head_id = p]
                   ELSE FreeData]

\* The assignments that give t a data entry of its own
OwnDataT(T, t, d) == [T EXCEPT ![t].data_id = d]
OwnDataD(D, t, d, m) == [D EXCEPT ![d] = [map_value |-> m, tag_head_id |-> t]]

\* add_tag: make t the new head of d's list.
AddTagTUnlinked(T, D, t, d) ==    \* faulty: the old head is left behind
  OwnDataT(T, t, d)
AddTagT(T, D, t, d) ==
  LET h == D[d].tag_head_id IN
  [u \in TagIds |-> IF u = t THEN [T[t] EXCEPT !.prev = IF h = None THEN @ ELSE h,
                                               !.data_id = d]
                    ELSE IF u = h THEN [T[u] EXCEPT !.next = t]
                    ELSE T[u]]
AddTagD(D, t, d) == [D EXCEPT ![d].tag_head_id = t]

\* lookup: the tags that hold address a
MatchesInFirstWay(a) ==    \* faulty
  {t \in TagCands(a) : /\ array_t[t].addr = a /\ array_t[t].data_id # None
                       /\ t % assoc = 0}
Matches(a) ==
  {t \in TagCands(a) : array_t[t].addr = a /\ array_t[t].data_id # None}
\* lookup_data: the data entries that hold map value m
SharedDataInFirstWay(D, m) ==    \* faulty
  {d \in DataCands(m) : /\ D[d].map_value = m /\ D[d].tag_head_id # None
                        /\ d % assoc = 0}
SharedData(D, m) ==
  {d \in DataCands(m) : D[d].map_value = m /\ D[d].tag_head_id # None}
\* get_free_tag, get_free_data: the entries that need no eviction
FreeTags(a) == {t \in TagCands(a) : array_t[t].data_id = None}
FreeDatas(D, m) == {d \in DataCands(m) : D[d].tag_head_id = None}

Idle == [pc |-> "idle", addr |-> None, tag |-> None, map |-> None,
         data |-> None, update |-> FALSE, insert |-> FALSE]

Init ==
  /\ array_t = [t \in TagIds |-> FreeTag]
  /\ array_d = [d \in DataIds |-> FreeData]
  /\ rp_dpg_t = Fresh
  /\ rp_dpg_d = Fresh
  /\ map \in [Addr -> Map]
  /\ op = Idle

-----------------------------------------------------------------------------
(* Actions                                                                 *)

\* The program writes a line: it runs natively, so the contents (and what
\* get_map makes of them) change at any time, under no lock of the cache.
ProgramWrite(a, m) ==
  /\ map[a] # m
  /\ map' = [map EXCEPT ![a] = m]
  /\ UNCHANGED <<array_t, array_d, rp_dpg_t, rp_dpg_d, op>>

\* What lookup does last when it found the line, if updateReplacement
UpdateOnHit(update, t, d) ==
  IF update THEN /\ rp_dpg_t' = Touch(rp_dpg_t, t)
                 /\ rp_dpg_d' = Touch(rp_dpg_d, d)
            ELSE UNCHANGED <<rp_dpg_t, rp_dpg_d>>

\* postinsert
PostinsertByTag(T, t, d, a) ==    \* faulty: data recency goes by the tag
  /\ array_t' = [T EXCEPT ![t].addr = a]
  /\ rp_dpg_t' = Touch(Drop(rp_dpg_t, t), t)
  /\ rp_dpg_d' = Touch(Drop(rp_dpg_d, t), t)
Postinsert(T, t, d, a) ==
  /\ array_t' = [T EXCEPT ![t].addr = a]
  /\ rp_dpg_t' = Touch(Drop(rp_dpg_t, t), t)
  /\ rp_dpg_d' = Touch(Drop(rp_dpg_d, d), d)

\* lookup finds a, and its contents still have the map of its data entry.
LookupHit(a, t, update) ==
  /\ op.pc = "idle"
  /\ IsFirst(t, Matches(a))
  /\ map[a] = array_d[array_t[t].data_id].map_value
  /\ UpdateOnHit(update, t, array_t[t].data_id)
  /\ UNCHANGED <<array_t, array_d, map, op>>

\* lookup finds a, whose contents changed: the tag leaves its list and joins
\* the one of a data entry that already holds the new map, or takes a free
\* one, or starts evicting one.
LookupRemap(a, t, update) ==
  LET m == map[a]
      T == RemoveTagT(array_t, t)
      D == RemoveTagD(array_t, array_d, t)
  IN
  /\ op.pc = "idle"
  /\ IsFirst(t, Matches(a))
  /\ m # array_d[array_t[t].data_id].map_value
  /\ UNCHANGED map
  /\ \/ \E d \in DataIds :
          /\ IsFirst(d, SharedData(D, m))
          /\ array_t' = AddTagT(T, D, t, d)
          /\ array_d' = AddTagD(D, t, d)
          /\ UpdateOnHit(update, t, d)
          /\ UNCHANGED op
     \/ \E d \in DataIds :
          /\ SharedData(D, m) = {}
          /\ IsFirst(d, FreeDatas(D, m))
          /\ array_t' = OwnDataT(T, t, d)
          /\ array_d' = OwnDataD(D, t, d, m)
          /\ UpdateOnHit(update, t, d)
          /\ UNCHANGED op
     \/ \E d \in DataIds :
          /\ SharedData(D, m) = {}
          /\ FreeDatas(D, m) = {}
          /\ IsVictim(rp_dpg_d, d, DataCands(m))
          /\ array_t' = T
          /\ array_d' = D
          /\ op' = [pc |-> "evict", addr |-> a, tag |-> t, map |-> m,
                    data |-> d, update |-> update, insert |-> FALSE]
          /\ UNCHANGED <<rp_dpg_t, rp_dpg_d>>

\* lookup fails and preinsert takes a tag: get_free_tag, no eviction needed.
PreinsertFreeTag(a, t) ==
  /\ op.pc = "idle"
  /\ Matches(a) = {}
  /\ IsFirst(t, FreeTags(a))
  /\ op' = [Idle EXCEPT !.pc = "insert", !.addr = a, !.tag = t]
  /\ UNCHANGED <<array_t, array_d, rp_dpg_t, rp_dpg_d, map>>

\* ... or evicts the victim's tag (evict_tag) and takes it.
PreinsertEvictTag(a, t) ==
  /\ op.pc = "idle"
  /\ Matches(a) = {}
  /\ FreeTags(a) = {}
  /\ IsVictim(rp_dpg_t, t, TagCands(a))
  /\ array_t' = RemoveTagT(array_t, t)
  /\ array_d' = RemoveTagD(array_t, array_d, t)
  /\ rp_dpg_t' = Drop(rp_dpg_t, t)
  /\ op' = [Idle EXCEPT !.pc = "insert", !.addr = a, !.tag = t]
  /\ UNCHANGED <<rp_dpg_d, map>>

\* preinsert with its tag: get_map, then share, take or start to evict a
\* data entry.  Without an eviction the access goes through postinsert.
PreinsertData ==
  LET a == op.addr  t == op.tag  m == map[a] IN
  /\ op.pc = "insert"
  /\ UNCHANGED map
  /\ \/ \E d \in DataIds :
          /\ IsFirst(d, SharedData(array_d, m))
          /\ array_d' = AddTagD(array_d, t, d)
          /\ Postinsert(AddTagT(array_t, array_d, t, d), t, d, a)
          /\ op' = Idle
     \/ \E d \in DataIds :
          /\ SharedData(array_d, m) = {}
          /\ IsFirst(d, FreeDatas(array_d, m))
          /\ array_d' = OwnDataD(array_d, t, d, m)
          /\ Postinsert(OwnDataT(array_t, t, d), t, d, a)
          /\ op' = Idle
     \/ \E d \in DataIds :
          /\ SharedData(array_d, m) = {}
          /\ FreeDatas(array_d, m) = {}
          /\ IsVictim(rp_dpg_d, d, DataCands(m))
          /\ op' = [op EXCEPT !.pc = "evict", !.map = m, !.data = d, !.insert = TRUE]
          /\ UNCHANGED <<array_t, array_d, rp_dpg_t, rp_dpg_d>>

\* One round of evict_data's loop: evict the tag at the head of the list.
EvictHead ==
  LET d == op.data  t == array_d[d].tag_head_id IN
  /\ op.pc = "evict"
  /\ array_d[d].tag_head_id # None
  /\ array_t' = RemoveTagT(array_t, t)
  /\ array_d' = RemoveTagD(array_t, array_d, t)
  /\ rp_dpg_t' = Drop(rp_dpg_t, t)
  /\ UNCHANGED <<rp_dpg_d, map, op>>

\* The loop is over: the access gets the data entry, and ends as a lookup
\* or, through postinsert, as an insertion.
TakeEvicted ==
  LET t == op.tag  d == op.data IN
  /\ op.pc = "evict"
  /\ array_d[d].tag_head_id = None
  /\ array_d' = OwnDataD(array_d, t, d, op.map)
  /\ IF op.insert THEN Postinsert(OwnDataT(array_t, t, d), t, d, op.addr)
                  ELSE /\ array_t' = OwnDataT(array_t, t, d)
                       /\ UpdateOnHit(op.update, t, d)
  /\ op' = Idle
  /\ UNCHANGED map

Access(a) ==
  \E t \in TagIds :
    \/ \E update \in BOOLEAN : LookupHit(a, t, update) \/ LookupRemap(a, t, update)
    \/ PreinsertFreeTag(a, t)
    \/ PreinsertEvictTag(a, t)

Continue == PreinsertData \/ EvictHead \/ TakeEvicted

Next ==
  \/ \E a \in Addr, m \in Map : ProgramWrite(a, m)
  \/ \E a \in Addr : Access(a)
  \/ Continue

Spec == Init /\ [][Next]_dpgVars
-----------------------------------------------------------------------------
(* Properties                                                              *)

TagEntry  == [next: TagIds \cup {None}, prev: TagIds \cup {None},
              addr: Addr \cup {None}, data_id: DataIds \cup {None}]
DataEntry == [map_value: Map \cup {None}, tag_head_id: TagIds \cup {None}]
OpState   == [pc: {"idle", "insert", "evict"}, addr: Addr \cup {None},
              tag: TagIds \cup {None}, map: Map \cup {None},
              data: DataIds \cup {None}, update: BOOLEAN, insert: BOOLEAN]
Recency(ids) == [used: SUBSET ids, newer: SUBSET (ids \X ids)]

\* The types of the variables, and which fields of op are set at each pc.
TypeOK ==
  /\ array_t \in [TagIds -> TagEntry]
  /\ array_d \in [DataIds -> DataEntry]
  /\ rp_dpg_t \in Recency(TagIds)
  /\ rp_dpg_d \in Recency(DataIds)
  /\ map \in [Addr -> Map]
  /\ op \in OpState
  /\ op.pc # "idle" => op.addr \in Addr /\ op.tag \in TagIds
  /\ op.pc = "evict" => op.map \in Map /\ op.data \in DataCands(op.map)
  /\ op.insert => op.pc = "evict"

Occupied(t) == array_t[t].data_id # None

\* An unoccupied tag is linked to nothing; prev and next of occupied tags are
\* each other's inverse and stay within one data entry; a tag without a next
\* is exactly the head its data entry records.
Linked(T, D) ==
  /\ \A t \in TagIds :
       T[t].data_id = None => T[t].next = None /\ T[t].prev = None
  /\ \A t \in TagIds : T[t].data_id # None =>
       /\ T[t].prev # None => /\ T[T[t].prev].next = t
                              /\ T[T[t].prev].data_id = T[t].data_id
       /\ T[t].next # None => /\ T[T[t].next].prev = t
                              /\ T[T[t].next].data_id = T[t].data_id
       /\ T[t].next = None <=> D[T[t].data_id].tag_head_id = t
  /\ \A d \in DataIds :
       D[d].tag_head_id # None => T[D[d].tag_head_id].data_id = d

\* No occupied tags are linked in a circle: among any of them is one whose next
\* is another or none.
Acyclic(T) ==
  \A S \in SUBSET TagIds :
    S # {} /\ (\A t \in S : T[t].data_id # None) => \E t \in S : T[t].next \notin S

\* The tag lists are doubly linked lists without cycles, whatever the order in
\* which lookups, insertions and evictions call remove_tag and add_tag.
ListsLinked == Linked(array_t, array_d) /\ Acyclic(array_t)

\* No two data entries in use hold the same map value: every line with those
\* contents shares one block, which is what the cache saves area by.  get_map
\* may return -1, the value a free entry has too, and it makes no difference:
\* lookup_data goes by tag_head_id as well.
OneBlockPerMap ==
  /\ \A d \in DataIds : array_d[d].tag_head_id # None =>
       d \in DataCands(array_d[d].map_value)
  /\ \A c, d \in DataIds :
       /\ array_d[c].map_value = array_d[d].map_value
       /\ array_d[c].tag_head_id # None /\ array_d[d].tag_head_id # None
       => c = d

\* Following prev from a head leads, in at most numLines steps, through all
\* the tags of the data entry: no tag is stranded on a cycle that evict_data
\* would never reach.
ListsComplete ==
  \A d \in DataIds :
    LET walk[n \in 0 .. numLines] ==
          IF n = 0 THEN array_d[d].tag_head_id
          ELSE IF walk[n - 1] = None THEN None ELSE array_t[walk[n - 1]].prev
    IN {t \in TagIds : array_t[t].data_id = d}
         = {walk[n] : n \in 0 .. numLines} \ {None}

\* At most one tag holds an address, so lookup's answer does not depend on
\* the order of the ways.
OneTagPerAddr ==
  \A t, u \in TagIds :
    Occupied(t) /\ Occupied(u) /\ array_t[t].addr = array_t[u].addr /\ t # u
      => array_t[t].addr = None

\* A tag with an address is occupied and sits in the set its address is hashed
\* to, where lookup searches for it; no eviction leaves an address behind.
TagInItsSet ==
  \A t \in TagIds : array_t[t].addr # None
                      => Occupied(t) /\ t \in TagCands(array_t[t].addr)

\* Across remaps and evictions lookup finds every address the array holds, in
\* one tag and in the set it searches: the two parts above.
TagsFound == OneTagPerAddr /\ TagInItsSet

\* Across the evictions of an access, which call out to the coherence
\* controller, what the access decided on stays true: its tag is on no list,
\* so evicting cannot take it; no other tag has come to hold the address it
\* is inserting, and no data entry the map value it has read.
AccessInHand ==
  /\ op.pc # "idle" => ~Occupied(op.tag) /\ op.tag \in TagCands(op.addr)
  /\ op.pc = "insert" \/ op.insert => Matches(op.addr) = {}
  /\ op.pc = "evict" => SharedData(array_d, op.map) = {}

\* The inductive invariant
IInv ==
  /\ TypeOK
  /\ ListsLinked
  /\ OneBlockPerMap
  /\ TagInItsSet
  /\ OneTagPerAddr
  /\ AccessInHand

\* evict_data evicts the sharers of the chosen data entry and no other tag;
\* outside it an access frees at most the tag it takes or re-links.
EvictOnlySharers ==
  [][\A t \in TagIds :
       Occupied(t) /\ ~Occupied(t)'
         => IF op.pc = "evict" THEN array_t[t].data_id = op.data
                               ELSE op'.pc # "idle" /\ op'.tag = t]_dpgVars

\* evict_data's loop ends, and when it should: as long as a tag shares the data
\* entry a round frees one of them, and when none is left the access goes on.
EvictionShrinks ==
  [][op.pc = "evict" =>
       LET sharers == {t \in TagIds : array_t[t].data_id = op.data} IN
       IF op'.pc = "evict"
         THEN \E t \in sharers :
                sharers \ {t} = {u \in TagIds : array_t'[u].data_id = op.data}
         ELSE sharers = {}]_<<array_t, array_d, op>>
=============================================================================
