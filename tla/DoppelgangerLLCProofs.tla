----------------------- MODULE DoppelgangerLLCProofs ------------------------
(***************************************************************************)
(* Proofs about the Doppelganger array and the last-level cache it is in,  *)
(* for every size, associativity, hash function and set of map values, and *)
(* any number of children.                                                 *)
(*                                                                         *)
(* 1. DPGArray on its own: its inductive invariant IInv and its theorems.  *)
(*                                                                         *)
(* 2. The cache drives the array only in the ways DPGArray describes,      *)
(* whatever the children request, the program writes and the regions are:  *)
(* DoppelgangerLLC implements DPGArray.  So all that is proved of the      *)
(* array holds in the cache, before and after inclusion is lost.           *)
(*                                                                         *)
(* 3. The directory of the cache, for the lines in a set L: each step of   *)
(* the coherence controller leaves the entries of these lines exact if     *)
(* they were, whatever the entries of other lines are.                     *)
(*                                                                         *)
(* 4. The cache is coherent and inclusive as long as the program neither   *)
(* changes the map of a line that is in the cache nor the regions: Stable. *)
(* The runs llc_write and llc show what is lost without, and what is not.  *)
(* The lines that no region ever covers are safe in any case, whatever     *)
(* happens to the approximable lines that share its controller with them,  *)
(* in steps that fail an assertion too.  While inclusion of an             *)
(* approximable line is being lost, its directory entries are wrong, so    *)
(* nothing can be said of these; but no request or eviction of it reaches  *)
(* a line id that a precise line is in.                                    *)
(***************************************************************************)
EXTENDS DoppelgangerLLC, FiniteSetTheorems, FunctionTheorems, NaturalsInduction, TLAPS

-----------------------------------------------------------------------------
(* 1. The array                                                            *)

\* One set of a set-associative array lies within the array.
LEMMA SetBound ==
  ASSUME NEW n \in Nat \ {0}, NEW w \in Nat \ {0}, NEW h \in Nat
  PROVE  ((h % n) * w) .. ((h % n) * w) + w - 1 \subseteq 0 .. (n * w) - 1
<1>1. h % n \in 0 .. n - 1
  OBVIOUS
<1>2. \A k \in 0 .. n - 1 : k * w >= 0 /\ (n - 1 - k) * w >= 0
  OBVIOUS
<1>3. \A k \in 0 .. n - 1 : (n - 1 - k) * w = (n * w) - w - (k * w)
  OBVIOUS
<1> DEFINE k == h % n  kw == k * w  nw == n * w
<1>4. kw \in Int /\ nw \in Int /\ kw >= 0 /\ nw - w - kw >= 0
  BY <1>1, <1>2, <1>3
<1> HIDE DEF kw, nw
<1>5. kw .. kw + w - 1 \subseteq 0 .. nw - 1
  BY <1>4
<1> QED
  BY <1>5 DEF kw, nw

\* The candidates of a lookup are entries of the arrays.
LEMMA CandsInArray ==
  /\ \A a \in Addr : TagCands(a) \subseteq TagIds
  /\ \A m \in Map : DataCands(m) \subseteq DataIds
<1>1. \A a \in Addr : TagCands(a) \subseteq TagIds
  <2> TAKE a \in Addr
  <2>1. hash[a] \in Nat
    BY InputAssumption
  <2>2. numSets_t \in Nat \ {0}
    BY SizeAssumption DEF DATA_SCALE
  <2> QED
    BY <2>1, <2>2, SizeAssumption, SetBound DEF TagCands, TagIds
<1>2. \A m \in Map : DataCands(m) \subseteq DataIds
  <2> TAKE m \in Map
  <2>1. hash[m] \in Nat
    BY InputAssumption
  <2> QED
    BY <2>1, SizeAssumption, SetBound DEF DataCands, DataIds
<1> QED
  BY <1>1, <1>2

Tags  == [TagIds -> TagEntry]
Datas == [DataIds -> DataEntry]

\* -1 is not the id of an entry.
LEMMA NoneIsNoId == None \notin TagIds /\ None \notin DataIds
  BY DEF None, TagIds, DataIds

\* remove_tag keeps the types and the list structure, and leaves the tag on
\* no list.
LEMMA RemoveTagOK ==
  ASSUME NEW T \in Tags, NEW D \in Datas, NEW t \in TagIds,
         T[t].data_id # None, Linked(T, D), Acyclic(T)
  PROVE  /\ RemoveTagT(T, t) \in Tags
         /\ RemoveTagD(T, D, t) \in Datas
         /\ Linked(RemoveTagT(T, t), RemoveTagD(T, D, t))
         /\ Acyclic(RemoveTagT(T, t))
         /\ RemoveTagT(T, t)[t] = FreeTag
         /\ \A u \in TagIds \ {t} : /\ RemoveTagT(T, t)[u].addr = T[u].addr
                                    /\ RemoveTagT(T, t)[u].data_id = T[u].data_id
         /\ \A c \in DataIds : RemoveTagD(T, D, t)[c].tag_head_id # None =>
              /\ D[c].tag_head_id # None
              /\ RemoveTagD(T, D, t)[c].map_value = D[c].map_value
<1> DEFINE p == T[t].prev  n == T[t].next  d == T[t].data_id
           T1 == RemoveTagT(T, t)  D1 == RemoveTagD(T, D, t)
<1>1. /\ p \in TagIds \cup {None} /\ n \in TagIds \cup {None} /\ d \in DataIds
      /\ T \in [TagIds -> TagEntry] /\ D \in [DataIds -> DataEntry]
  BY DEF Tags, Datas, TagEntry
<1>2. /\ T1 \in Tags
      /\ T1[t] = FreeTag
      /\ \A u \in TagIds \ {t} :
           /\ T1[u].next = IF u = p THEN n ELSE T[u].next
           /\ T1[u].prev = IF u = n THEN p ELSE T[u].prev
           /\ T1[u].data_id = T[u].data_id
           /\ T1[u].addr = T[u].addr
  BY <1>1 DEF RemoveTagT, Tags, TagEntry, FreeTag, None
<1>3. /\ D1 \in Datas
      /\ D1[d].tag_head_id = IF n # None THEN D[d].tag_head_id ELSE p
      /\ D1[d].tag_head_id # None => D1[d].map_value = D[d].map_value
      /\ \A c \in DataIds \ {d} : D1[c] = D[c]
  BY <1>1 DEF RemoveTagD, Datas, DataEntry, FreeData, None
<1> HIDE DEF T1, D1
<1>4. Linked(T1, D1)
  <2>1. \A u \in TagIds :
          T1[u].data_id = None => T1[u].next = None /\ T1[u].prev = None
    BY <1>1, <1>2, NoneIsNoId DEF Linked, FreeTag
  <2>2. ASSUME NEW u \in TagIds, T1[u].data_id # None
        PROVE  /\ T1[u].prev # None => /\ T1[T1[u].prev].next = u
                                       /\ T1[T1[u].prev].data_id = T1[u].data_id
               /\ T1[u].next # None => /\ T1[T1[u].next].prev = u
                                       /\ T1[T1[u].next].data_id = T1[u].data_id
               /\ T1[u].next = None <=> D1[T1[u].data_id].tag_head_id = u
    <3>1. u # t /\ T[u].data_id # None
      BY <1>2, <2>2 DEF FreeTag
    <3>2. T[u] \in TagEntry
      BY <1>1
    <3>3. T1[u].prev # None => /\ T1[T1[u].prev].next = u
                               /\ T1[T1[u].prev].data_id = T1[u].data_id
      BY <1>1, <1>2, <3>1, <3>2, NoneIsNoId DEF Linked, TagEntry
    <3>4. T1[u].next # None => /\ T1[T1[u].next].prev = u
                               /\ T1[T1[u].next].data_id = T1[u].data_id
      BY <1>1, <1>2, <3>1, <3>2, NoneIsNoId DEF Linked, TagEntry
    <3>5. T1[u].next = None <=> D1[T1[u].data_id].tag_head_id = u
      BY <1>1, <1>2, <1>3, <3>1, <3>2, NoneIsNoId DEF Linked, TagEntry
    <3> QED
      BY <3>3, <3>4, <3>5
  <2>3. \A c \in DataIds :
          D1[c].tag_head_id # None => T1[D1[c].tag_head_id].data_id = c
    BY <1>1, <1>2, <1>3, NoneIsNoId DEF Linked, DataEntry
  <2> QED
    BY <2>1, <2>2, <2>3 DEF Linked
<1>5. Acyclic(T1)
  <2> SUFFICES ASSUME NEW S \in SUBSET TagIds, S # {},
                      \A u \in S : T1[u].data_id # None
               PROVE  \E u \in S : T1[u].next \notin S
    BY DEF Acyclic
  <2>1. t \notin S /\ \A u \in S : T[u].data_id # None
    BY <1>2 DEF FreeTag
  <2>2. PICK x \in S \cup {t} : T[x].next \notin S \cup {t}
    <3>1. S \cup {t} \in SUBSET TagIds /\ S \cup {t} # {}
      OBVIOUS
    <3> QED
      BY <3>1, <2>1 DEF Acyclic
  <2>3. PICK y \in S : T[y].next \notin S
    BY <2>1 DEF Acyclic
  <2>4. x # p
    BY <1>1, <2>2, NoneIsNoId DEF Linked
  <2>5. CASE x # t
    BY <1>2, <2>1, <2>2, <2>4, <2>5
  <2>6. CASE x = t /\ p \in S
    BY <1>2, <2>1, <2>2, <2>6
  <2>7. CASE x = t /\ p \notin S
    BY <1>2, <2>1, <2>3, <2>7
  <2> QED
    BY <2>5, <2>6, <2>7
<1> QED
  <2>1. \A c \in DataIds : D1[c].tag_head_id # None =>
          D[c].tag_head_id # None /\ D1[c].map_value = D[c].map_value
    BY <1>1, <1>3, NoneIsNoId DEF Linked
  <2> QED
    BY <1>2, <1>3, <1>4, <1>5, <2>1 DEF T1, D1

\* add_tag, on a tag that is on no list and a data entry in use
LEMMA AddTagOK ==
  ASSUME NEW T \in Tags, NEW D \in Datas, NEW t \in TagIds, NEW d \in DataIds,
         T[t].data_id = None, D[d].tag_head_id # None, Linked(T, D), Acyclic(T)
  PROVE  /\ AddTagT(T, D, t, d) \in Tags
         /\ AddTagD(D, t, d) \in Datas
         /\ Linked(AddTagT(T, D, t, d), AddTagD(D, t, d))
         /\ Acyclic(AddTagT(T, D, t, d))
         /\ \A u \in TagIds : /\ AddTagT(T, D, t, d)[u].addr = T[u].addr
                              /\ u # t => AddTagT(T, D, t, d)[u].data_id = T[u].data_id
         /\ AddTagT(T, D, t, d)[t].data_id = d
         /\ \A c \in DataIds : AddTagD(D, t, d)[c].tag_head_id # None =>
              /\ D[c].tag_head_id # None
              /\ AddTagD(D, t, d)[c].map_value = D[c].map_value
<1> DEFINE h == D[d].tag_head_id  T1 == AddTagT(T, D, t, d)  D1 == AddTagD(D, t, d)
<1>1. /\ h \in TagIds /\ h # t /\ T[h].data_id = d
      /\ T \in [TagIds -> TagEntry] /\ D \in [DataIds -> DataEntry]
  BY NoneIsNoId DEF Tags, Datas, DataEntry, Linked
<1>2. /\ T1 \in Tags
      /\ T1[t].next = None /\ T1[t].prev = h /\ T1[t].data_id = d
      /\ T1[t].addr = T[t].addr
      /\ \A u \in TagIds \ {t} :
           /\ T1[u].next = IF u = h THEN t ELSE T[u].next
           /\ T1[u].prev = T[u].prev
           /\ T1[u].addr = T[u].addr
           /\ T1[u].data_id = T[u].data_id
  <2>1. T[t].next = None /\ T[t].prev = None
    BY DEF Linked
  <2>2. h # None
    BY <1>1, NoneIsNoId
  <2> QED
    BY <1>1, <2>1, <2>2 DEF AddTagT, Tags, TagEntry
<1>3. /\ D1 \in Datas
      /\ D1[d].tag_head_id = t /\ D1[d].map_value = D[d].map_value
      /\ \A c \in DataIds \ {d} : D1[c] = D[c]
  BY <1>1 DEF AddTagD, Datas, DataEntry
<1> HIDE DEF T1, D1
<1>4. Linked(T1, D1)
  <2>1. \A u \in TagIds :
          T1[u].data_id = None => T1[u].next = None /\ T1[u].prev = None
    BY <1>1, <1>2, NoneIsNoId DEF Linked
  <2>2. ASSUME NEW u \in TagIds, T1[u].data_id # None
        PROVE  /\ T1[u].prev # None => /\ T1[T1[u].prev].next = u
                                       /\ T1[T1[u].prev].data_id = T1[u].data_id
               /\ T1[u].next # None => /\ T1[T1[u].next].prev = u
                                       /\ T1[T1[u].next].data_id = T1[u].data_id
               /\ T1[u].next = None <=> D1[T1[u].data_id].tag_head_id = u
    <3>1. T[u] \in TagEntry /\ T[t] \in TagEntry
      BY <1>1
    <3>2. CASE u = t
      BY <1>1, <1>2, <1>3, <3>1, <3>2, NoneIsNoId
    <3>3. CASE u # t
      <4>1. T1[u].prev # None => /\ T1[T1[u].prev].next = u
                                 /\ T1[T1[u].prev].data_id = T1[u].data_id
        BY <1>1, <1>2, <3>1, <3>3, <2>2, NoneIsNoId DEF Linked, TagEntry
      <4>2. T1[u].next # None => /\ T1[T1[u].next].prev = u
                                 /\ T1[T1[u].next].data_id = T1[u].data_id
        BY <1>1, <1>2, <3>1, <3>3, <2>2, NoneIsNoId DEF Linked, TagEntry
      <4>3. T1[u].next = None <=> D1[T1[u].data_id].tag_head_id = u
        BY <1>1, <1>2, <1>3, <3>1, <3>3, <2>2, NoneIsNoId DEF Linked, TagEntry
      <4> QED
        BY <4>1, <4>2, <4>3
    <3> QED
      BY <3>2, <3>3
  <2>3. \A c \in DataIds :
          D1[c].tag_head_id # None => T1[D1[c].tag_head_id].data_id = c
    BY <1>1, <1>2, <1>3, NoneIsNoId DEF Linked, DataEntry
  <2> QED
    BY <2>1, <2>2, <2>3 DEF Linked
<1>5. Acyclic(T1)
  <2> SUFFICES ASSUME NEW S \in SUBSET TagIds, S # {},
                      \A u \in S : T1[u].data_id # None
               PROVE  \E u \in S : T1[u].next \notin S
    BY DEF Acyclic
  <2>1. CASE t \in S
    BY <1>2, <2>1, NoneIsNoId
  <2>2. CASE t \notin S
    <3>1. \A u \in S : T[u].data_id # None
      BY <1>2, <2>2
    <3>2. PICK y \in S : T[y].next \notin S
      BY <3>1 DEF Acyclic
    <3> QED
      BY <1>2, <2>2, <3>2
  <2> QED
    BY <2>1, <2>2
<1> QED
  BY <1>2, <1>3, <1>4, <1>5 DEF T1, D1

\* Giving a tag that is on no list a data entry that is not in use
LEMMA OwnDataOK ==
  ASSUME NEW T \in Tags, NEW D \in Datas, NEW t \in TagIds, NEW d \in DataIds,
         NEW m \in Map,
         T[t].data_id = None, D[d].tag_head_id = None, Linked(T, D), Acyclic(T)
  PROVE  /\ OwnDataT(T, t, d) \in Tags
         /\ OwnDataD(D, t, d, m) \in Datas
         /\ Linked(OwnDataT(T, t, d), OwnDataD(D, t, d, m))
         /\ Acyclic(OwnDataT(T, t, d))
         /\ \A u \in TagIds : /\ OwnDataT(T, t, d)[u].addr = T[u].addr
                              /\ u # t => OwnDataT(T, t, d)[u].data_id = T[u].data_id
         /\ OwnDataT(T, t, d)[t].data_id = d
         /\ OwnDataD(D, t, d, m)[d].map_value = m
         /\ \A c \in DataIds \ {d} : OwnDataD(D, t, d, m)[c] = D[c]
<1> DEFINE T1 == OwnDataT(T, t, d)  D1 == OwnDataD(D, t, d, m)
<1>1. T \in [TagIds -> TagEntry] /\ D \in [DataIds -> DataEntry]
  BY DEF Tags, Datas
<1>2. /\ T1 \in Tags
      /\ T1[t].next = None /\ T1[t].prev = None /\ T1[t].data_id = d
      /\ T1[t].addr = T[t].addr
      /\ \A u \in TagIds \ {t} : T1[u] = T[u]
  BY <1>1 DEF OwnDataT, Tags, TagEntry, Linked
<1>3. /\ D1 \in Datas
      /\ D1[d].tag_head_id = t /\ D1[d].map_value = m
      /\ \A c \in DataIds \ {d} : D1[c] = D[c]
  BY <1>1 DEF OwnDataD, Datas, DataEntry
<1> HIDE DEF T1, D1
<1>4. Linked(T1, D1)
  <2>0. \A u \in TagIds : T[u].data_id # d
    <3> SUFFICES ASSUME NEW u \in TagIds, T[u].data_id = d PROVE FALSE
      OBVIOUS
    <3> DEFINE S == {v \in TagIds : T[v].data_id = d}
    <3>1. PICK y \in S : T[y].next \notin S
      BY NoneIsNoId DEF Acyclic
    <3> QED
      BY <1>1, <3>1, NoneIsNoId DEF Linked, TagEntry
  <2>1. \A u \in TagIds :
          T1[u].data_id = None => T1[u].next = None /\ T1[u].prev = None
    BY <1>1, <1>2, NoneIsNoId DEF Linked
  <2>2. \A u \in TagIds : T1[u].data_id # None =>
          /\ T1[u].prev # None => /\ T1[T1[u].prev].next = u
                                  /\ T1[T1[u].prev].data_id = T1[u].data_id
          /\ T1[u].next # None => /\ T1[T1[u].next].prev = u
                                  /\ T1[T1[u].next].data_id = T1[u].data_id
          /\ T1[u].next = None <=> D1[T1[u].data_id].tag_head_id = u
    BY <1>1, <1>2, <1>3, <2>0, NoneIsNoId DEF Linked, TagEntry
  <2>3. \A c \in DataIds :
          D1[c].tag_head_id # None => T1[D1[c].tag_head_id].data_id = c
    BY <1>1, <1>2, <1>3, NoneIsNoId DEF Linked, DataEntry
  <2> QED
    BY <2>1, <2>2, <2>3 DEF Linked
<1>5. Acyclic(T1)
  <2> SUFFICES ASSUME NEW S \in SUBSET TagIds, S # {},
                      \A u \in S : T1[u].data_id # None
               PROVE  \E u \in S : T1[u].next \notin S
    BY DEF Acyclic
  <2>1. CASE t \in S
    BY <1>2, <2>1, NoneIsNoId
  <2>2. CASE t \notin S
    <3>1. \A u \in S : T[u].data_id # None
      BY <1>2, <2>2
    <3>2. PICK y \in S : T[y].next \notin S
      BY <3>1 DEF Acyclic
    <3> QED
      BY <1>2, <2>2, <3>2
  <2> QED
    BY <2>1, <2>2
<1> QED
  BY <1>2, <1>3, <1>4, <1>5 DEF T1, D1

\* The LRU state stays a relation on the entries.
LEMMA RecencyOK ==
  ASSUME NEW ids, NEW rp \in Recency(ids), NEW x \in ids
  PROVE  /\ Drop(rp, x) \in Recency(ids)
         /\ Touch(rp, x) \in Recency(ids)
         /\ Touch(Drop(rp, x), x) \in Recency(ids)
<1>1. \A r \in Recency(ids) : Drop(r, x) \in Recency(ids)
  BY DEF Drop, Recency
<1>2. \A r \in Recency(ids) : Touch(r, x) \in Recency(ids)
  BY <1>1 DEF Touch, SetMates, Drop, Recency
<1> QED
  BY <1>1, <1>2

\* UpdateOnHit and Postinsert keep the LRU state well typed.
LEMMA UpdateOnHitOK ==
  ASSUME TypeOK, NEW t \in TagIds, NEW d \in DataIds, NEW update \in BOOLEAN,
         UpdateOnHit(update, t, d)
  PROVE  rp_dpg_t' \in Recency(TagIds) /\ rp_dpg_d' \in Recency(DataIds)
BY RecencyOK DEF TypeOK, UpdateOnHit

\* postinsert gives the tag its new address, and the lists stay as they were.
LEMMA PostinsertOK ==
  ASSUME TypeOK, NEW T \in Tags, NEW D \in Datas, NEW t \in TagIds, NEW d \in DataIds,
         NEW a \in Addr, Postinsert(T, t, d, a), Linked(T, D), Acyclic(T)
  PROVE  /\ rp_dpg_t' \in Recency(TagIds) /\ rp_dpg_d' \in Recency(DataIds)
         /\ array_t' \in Tags
         /\ Linked(array_t', D) /\ Acyclic(array_t')
         /\ \A u \in TagIds :
              /\ array_t'[u].data_id = T[u].data_id
              /\ array_t'[u].addr = IF u = t THEN a ELSE T[u].addr
<1>1. rp_dpg_t' \in Recency(TagIds) /\ rp_dpg_d' \in Recency(DataIds)
  BY RecencyOK DEF TypeOK, Postinsert
<1>2. /\ array_t' \in Tags
      /\ \A u \in TagIds :
           /\ array_t'[u].next = T[u].next
           /\ array_t'[u].prev = T[u].prev
           /\ array_t'[u].data_id = T[u].data_id
           /\ array_t'[u].addr = IF u = t THEN a ELSE T[u].addr
  BY DEF Postinsert, Tags, TagEntry
<1> DEFINE T1 == array_t'
<1>3. /\ T \in [TagIds -> TagEntry]
      /\ \A u \in TagIds : T1[u].next = T[u].next /\ T1[u].prev = T[u].prev
                           /\ T1[u].data_id = T[u].data_id
  BY <1>2 DEF Tags
<1> HIDE DEF T1
<1>4. Acyclic(T1)
  BY <1>3 DEF Acyclic
<1>5. Linked(T1, D)
  <2>1. \A u \in TagIds :
          T1[u].data_id = None => T1[u].next = None /\ T1[u].prev = None
    BY <1>3 DEF Linked
  <2>2. \A u \in TagIds : T1[u].data_id # None =>
          /\ T1[u].prev # None => /\ T1[T1[u].prev].next = u
                                  /\ T1[T1[u].prev].data_id = T1[u].data_id
          /\ T1[u].next # None => /\ T1[T1[u].next].prev = u
                                  /\ T1[T1[u].next].data_id = T1[u].data_id
          /\ T1[u].next = None <=> D[T1[u].data_id].tag_head_id = u
    BY <1>3 DEF Linked, TagEntry
  <2>3. \A c \in DataIds :
          D[c].tag_head_id # None => T1[D[c].tag_head_id].data_id = c
    <3> SUFFICES ASSUME NEW c \in DataIds, D[c].tag_head_id # None
                 PROVE  T1[D[c].tag_head_id].data_id = c
      OBVIOUS
    <3>1. T[D[c].tag_head_id].data_id = c
      BY DEF Linked
    <3> QED
      BY <1>3, <3>1 DEF Datas, DataEntry
  <2> QED
    BY <2>1, <2>2, <2>3 DEF Linked
<1> QED
  BY <1>1, <1>2, <1>4, <1>5 DEF T1

-----------------------------------------------------------------------------
(* The inductive invariant                                                 *)

\* An empty array
LEMMA InitInv == Init => IInv
<1> SUFFICES ASSUME Init PROVE IInv
  OBVIOUS
<1>1. TypeOK
  BY DEF Init, TypeOK, TagEntry, DataEntry, Recency, OpState, FreeTag, FreeData,
         Fresh, Idle
<1>2. ListsLinked
  <2>1. Linked(array_t, array_d)
    BY DEF Init, Linked, FreeTag, FreeData
  <2>2. Acyclic(array_t)
    BY DEF Init, Acyclic, FreeTag
  <2> QED
    BY <2>1, <2>2 DEF ListsLinked
<1>3. OneBlockPerMap /\ TagInItsSet /\ OneTagPerAddr
  BY DEF Init, OneBlockPerMap, TagInItsSet, OneTagPerAddr, Occupied, FreeTag, FreeData
<1>4. AccessInHand
  BY DEF Init, AccessInHand, Idle
<1> QED
  BY <1>1, <1>2, <1>3, <1>4 DEF IInv

\* A write of the program changes the map of a line (get_map).
LEMMA ProgramWriteInv ==
  ASSUME IInv, NEW a \in Addr, NEW m \in Map, ProgramWrite(a, m)
  PROVE  IInv'
<1>1. TypeOK'
  BY DEF IInv, TypeOK, ProgramWrite
<1>2. UNCHANGED <<array_t, array_d, op>>
  BY DEF ProgramWrite
<1>3. /\ ListsLinked' /\ OneBlockPerMap' /\ TagInItsSet' /\ OneTagPerAddr'
      /\ AccessInHand'
  BY <1>2 DEF IInv, ListsLinked, Linked, Acyclic, OneBlockPerMap, TagInItsSet,
              OneTagPerAddr, Occupied, AccessInHand, Matches, SharedData
<1> QED
  BY <1>1, <1>3 DEF IInv

\* lookup finds the line, with its hash as it was.
LEMMA LookupHitInv ==
  ASSUME IInv, NEW a \in Addr, NEW t \in TagIds, NEW update \in BOOLEAN,
         LookupHit(a, t, update)
  PROVE  IInv'
<1>1. UNCHANGED <<array_t, array_d, map, op>>
  BY DEF LookupHit
<1>2. array_t[t].data_id \in DataIds
  BY DEF IInv, TypeOK, TagEntry, LookupHit, IsFirst, Matches
<1>3. TypeOK'
  BY <1>1, <1>2, UpdateOnHitOK DEF IInv, TypeOK, LookupHit
<1>4. /\ ListsLinked' /\ OneBlockPerMap' /\ TagInItsSet' /\ OneTagPerAddr'
      /\ AccessInHand'
  BY <1>1 DEF IInv, ListsLinked, Linked, Acyclic, OneBlockPerMap, TagInItsSet,
              OneTagPerAddr, Occupied, AccessInHand, Matches, SharedData
<1> QED
  BY <1>3, <1>4 DEF IInv

\* The facts about the variables every proof below starts from
LEMMA TypeFacts ==
  ASSUME IInv
  PROVE  /\ array_t \in Tags /\ array_d \in Datas
         /\ array_t \in [TagIds -> TagEntry] /\ array_d \in [DataIds -> DataEntry]
         /\ Linked(array_t, array_d) /\ Acyclic(array_t)
BY DEF IInv, TypeOK, Tags, Datas, ListsLinked

\* An unlinked tag and a shrunk data array keep what the invariant says of
\* addresses and map values.
LEMMA TagFreed ==
  ASSUME IInv, NEW t \in TagIds, array_t[t].data_id # None,
         array_t' = RemoveTagT(array_t, t),
         array_d' = RemoveTagD(array_t, array_d, t)
  PROVE  /\ ListsLinked' /\ OneBlockPerMap' /\ TagInItsSet' /\ OneTagPerAddr'
         /\ array_t' \in Tags /\ array_d' \in Datas
         /\ array_t'[t] = FreeTag
         /\ \A u \in TagIds \ {t} : /\ array_t'[u].addr = array_t[u].addr
                                    /\ array_t'[u].data_id = array_t[u].data_id
         /\ \A c \in DataIds : array_d'[c].tag_head_id # None =>
              /\ array_d[c].tag_head_id # None
              /\ array_d'[c].map_value = array_d[c].map_value
<1>1. /\ array_t' \in Tags /\ array_d' \in Datas
      /\ Linked(array_t', array_d') /\ Acyclic(array_t')
      /\ array_t'[t] = FreeTag
      /\ \A u \in TagIds \ {t} : /\ array_t'[u].addr = array_t[u].addr
                                 /\ array_t'[u].data_id = array_t[u].data_id
      /\ \A c \in DataIds : array_d'[c].tag_head_id # None =>
           /\ array_d[c].tag_head_id # None
           /\ array_d'[c].map_value = array_d[c].map_value
  BY TypeFacts, RemoveTagOK
<1>2. ListsLinked'
  BY <1>1 DEF ListsLinked, Linked, Acyclic
<1>3. OneBlockPerMap'
  BY <1>1 DEF IInv, OneBlockPerMap
<1>4. TagInItsSet' /\ OneTagPerAddr'
  BY <1>1 DEF IInv, TagInItsSet, OneTagPerAddr, Occupied, FreeTag
<1> QED
  BY <1>1, <1>2, <1>3, <1>4

\* get_free_tag finds a free tag ...
LEMMA PreinsertFreeTagInv ==
  ASSUME IInv, NEW a \in Addr, NEW t \in TagIds, PreinsertFreeTag(a, t)
  PROVE  IInv'
<1>1. /\ UNCHANGED <<array_t, array_d, rp_dpg_t, rp_dpg_d, map>>
      /\ op' = [Idle EXCEPT !.pc = "insert", !.addr = a, !.tag = t]
      /\ t \in TagCands(a) /\ array_t[t].data_id = None
      /\ Matches(a) = {} /\ op.pc = "idle"
  BY DEF PreinsertFreeTag, IsFirst, FreeTags
<1>2. TypeOK'
  BY <1>1 DEF IInv, TypeOK, OpState, Idle
<1>3. ListsLinked' /\ OneBlockPerMap' /\ TagInItsSet' /\ OneTagPerAddr'
  BY <1>1 DEF IInv, ListsLinked, Linked, Acyclic, OneBlockPerMap, TagInItsSet,
              OneTagPerAddr, Occupied
<1>4. AccessInHand'
  BY <1>1 DEF AccessInHand, Occupied, Idle, Matches
<1> QED
  BY <1>2, <1>3, <1>4 DEF IInv

\* ... or evicts one.
LEMMA PreinsertEvictTagInv ==
  ASSUME IInv, NEW a \in Addr, NEW t \in TagIds, PreinsertEvictTag(a, t)
  PROVE  IInv'
<1>1. /\ array_t' = RemoveTagT(array_t, t)
      /\ array_d' = RemoveTagD(array_t, array_d, t)
      /\ rp_dpg_t' = Drop(rp_dpg_t, t)
      /\ op' = [Idle EXCEPT !.pc = "insert", !.addr = a, !.tag = t]
      /\ UNCHANGED <<rp_dpg_d, map>>
      /\ t \in TagCands(a) /\ array_t[t].data_id # None
      /\ Matches(a) = {} /\ op.pc = "idle"
  BY DEF PreinsertEvictTag, IsVictim, FreeTags
<1>2. /\ ListsLinked' /\ OneBlockPerMap' /\ TagInItsSet' /\ OneTagPerAddr'
      /\ array_t' \in Tags /\ array_d' \in Datas
      /\ array_t'[t] = FreeTag
      /\ \A u \in TagIds \ {t} : /\ array_t'[u].addr = array_t[u].addr
                                 /\ array_t'[u].data_id = array_t[u].data_id
  BY <1>1, TagFreed
<1>3. TypeOK'
  BY <1>1, <1>2, RecencyOK DEF IInv, TypeOK, OpState, Idle, Tags, Datas
<1>4. Matches(a)' = {}
  BY <1>1, <1>2, CandsInArray DEF Matches, FreeTag
<1>5. AccessInHand'
  BY <1>1, <1>2, <1>4 DEF AccessInHand, Occupied, Idle, FreeTag
<1> QED
  BY <1>2, <1>3, <1>5 DEF IInv

\* A round of the loop of evict_data
LEMMA EvictHeadInv ==
  ASSUME IInv, EvictHead
  PROVE  IInv'
<1> DEFINE d == op.data  t == array_d[d].tag_head_id
<1>1. /\ op.pc = "evict" /\ t # None
      /\ array_t' = RemoveTagT(array_t, t)
      /\ array_d' = RemoveTagD(array_t, array_d, t)
      /\ rp_dpg_t' = Drop(rp_dpg_t, t)
      /\ UNCHANGED <<rp_dpg_d, map, op>>
  BY DEF EvictHead
<1>2. /\ op.addr \in Addr /\ op.tag \in TagIds /\ op.map \in Map
      /\ d \in DataIds
  BY <1>1, CandsInArray DEF IInv, TypeOK
<1>3. t \in TagIds /\ array_t[t].data_id # None /\ t # op.tag
  BY <1>1, <1>2, TypeFacts, NoneIsNoId
     DEF Datas, DataEntry, Linked, IInv, AccessInHand, Occupied
<1> HIDE DEF t
<1>4. /\ ListsLinked' /\ OneBlockPerMap' /\ TagInItsSet' /\ OneTagPerAddr'
      /\ array_t' \in Tags /\ array_d' \in Datas
      /\ array_t'[t] = FreeTag
      /\ \A u \in TagIds \ {t} : /\ array_t'[u].addr = array_t[u].addr
                                 /\ array_t'[u].data_id = array_t[u].data_id
      /\ \A c \in DataIds : array_d'[c].tag_head_id # None =>
           /\ array_d[c].tag_head_id # None
           /\ array_d'[c].map_value = array_d[c].map_value
  BY <1>1, <1>3, TagFreed
<1>5. TypeOK'
  BY <1>1, <1>3, <1>4, RecencyOK DEF IInv, TypeOK, Tags, Datas
<1>6. array_t'[op.tag].data_id = None
  BY <1>1, <1>2, <1>3, <1>4 DEF IInv, AccessInHand, Occupied
<1>7. op.insert => Matches(op.addr)' = {}
  BY <1>1, <1>2, <1>4, CandsInArray DEF IInv, AccessInHand, Matches, FreeTag
<1>8. SharedData(array_d', op.map) = {}
  BY <1>1, <1>2, <1>4, CandsInArray DEF IInv, AccessInHand, SharedData
<1>9. AccessInHand'
  BY <1>1, <1>6, <1>7, <1>8 DEF IInv, AccessInHand, Occupied, SharedData, Matches
<1> QED
  BY <1>4, <1>5, <1>9 DEF IInv

\* What OneBlockPerMap says of a data array
Blocks(D) ==
  /\ \A c \in DataIds : D[c].tag_head_id # None => c \in DataCands(D[c].map_value)
  /\ \A b, c \in DataIds :
       /\ D[b].map_value = D[c].map_value
       /\ D[b].tag_head_id # None /\ D[c].tag_head_id # None
       => b = c

\* It survives giving map value m, which no entry holds, to an entry of m's set.
LEMMA BlocksOK ==
  ASSUME NEW D \in Datas, NEW D1 \in Datas, NEW m \in Map, NEW d \in DataCands(m),
         Blocks(D), SharedData(D, m) = {}, D1[d].map_value = m,
         \A c \in DataIds \ {d} : D1[c] = D[c]
  PROVE  Blocks(D1)
<1>1. \A c \in DataIds : D1[c].tag_head_id # None => c \in DataCands(D1[c].map_value)
  BY DEF Blocks
<1>2. \A c \in DataIds \ {d} : D1[c].tag_head_id # None => D1[c].map_value # m
  BY DEF Blocks, SharedData
<1>3. ASSUME NEW b \in DataIds, NEW c \in DataIds,
             D1[b].map_value = D1[c].map_value,
             D1[b].tag_head_id # None, D1[c].tag_head_id # None
      PROVE  b = c
  BY <1>2, <1>3 DEF Blocks
<1> QED
  BY <1>1, <1>3 DEF Blocks

\* evict_data is over: the entry is taken.
LEMMA TakeEvictedInv ==
  ASSUME IInv, TakeEvicted
  PROVE  IInv'
<1> DEFINE t == op.tag  d == op.data  m == op.map
           T == OwnDataT(array_t, t, d)  D == OwnDataD(array_d, t, d, m)
<1>1. /\ op.pc = "evict" /\ array_d[d].tag_head_id = None
      /\ array_d' = D /\ op' = Idle /\ map' = map
  BY DEF TakeEvicted
<1>2. /\ op.addr \in Addr /\ t \in TagIds /\ m \in Map /\ d \in DataCands(m)
      /\ d \in DataIds /\ op.insert \in BOOLEAN /\ op.update \in BOOLEAN
  BY <1>1, CandsInArray DEF IInv, TypeOK, OpState
<1>3. array_t[t].data_id = None /\ t \in TagCands(op.addr) /\ SharedData(array_d, m) = {}
  BY <1>1 DEF IInv, AccessInHand, Occupied
<1>4. /\ T \in Tags /\ D \in Datas /\ Linked(T, D) /\ Acyclic(T)
      /\ \A u \in TagIds : /\ T[u].addr = array_t[u].addr
                           /\ u # t => T[u].data_id = array_t[u].data_id
      /\ T[t].data_id = d /\ D[d].map_value = m
      /\ \A c \in DataIds \ {d} : D[c] = array_d[c]
  BY <1>1, <1>2, <1>3, TypeFacts, OwnDataOK
<1>5. AccessInHand'
  BY <1>1 DEF AccessInHand, Idle
<1>6. OneBlockPerMap'
  <2> HIDE DEF D
  <2>1. Blocks(array_d)
    BY DEF IInv, OneBlockPerMap, Blocks
  <2>2. Blocks(D)
    BY <1>2, <1>3, <1>4, <2>1, BlocksOK, TypeFacts
  <2> QED
    BY <1>1, <2>2 DEF OneBlockPerMap, Blocks
<1> HIDE DEF T, D
<1>7. CASE op.insert
  <2>1. Postinsert(T, t, d, op.addr)
    BY <1>7 DEF TakeEvicted, T
  <2>2. /\ rp_dpg_t' \in Recency(TagIds) /\ rp_dpg_d' \in Recency(DataIds)
        /\ array_t' \in Tags
        /\ Linked(array_t', D) /\ Acyclic(array_t')
        /\ \A u \in TagIds :
             /\ array_t'[u].data_id = T[u].data_id
             /\ array_t'[u].addr = IF u = t THEN op.addr ELSE T[u].addr
    BY <1>2, <1>4, <2>1, PostinsertOK DEF IInv
  <2>3. TypeOK'
    BY <1>1, <1>4, <2>2 DEF TypeOK, IInv, OpState, Idle, Tags, Datas
  <2>4. ListsLinked'
    BY <1>1, <2>2 DEF ListsLinked, Linked, Acyclic
  <2>5. Matches(op.addr) = {}
    BY <1>7 DEF IInv, AccessInHand
  <2>6. TagInItsSet'
    <3> SUFFICES ASSUME NEW u \in TagIds, array_t'[u].addr # None
                 PROVE  /\ array_t'[u].data_id # None
                        /\ u \in TagCands(array_t'[u].addr)
      BY DEF TagInItsSet, Occupied
    <3>1. CASE u = t
      BY <1>2, <1>3, <1>4, <2>2, <3>1, NoneIsNoId
    <3>2. CASE u # t
      BY <1>4, <2>2, <3>2 DEF IInv, TagInItsSet, Occupied
    <3> QED
      BY <3>1, <3>2
  <2>7. OneTagPerAddr'
    <3>1. \A u \in TagIds \ {t} :
            array_t[u].data_id # None => array_t[u].addr # op.addr
      BY <1>2, <2>5, InputAssumption DEF IInv, TagInItsSet, Matches
    <3>2. \A u \in TagIds \ {t} : /\ array_t'[u].addr = array_t[u].addr
                                  /\ array_t'[u].data_id = array_t[u].data_id
      BY <1>4, <2>2
    <3>3. array_t'[t].addr = op.addr
      BY <1>2, <2>2
    <3> QED
      BY <3>1, <3>2, <3>3 DEF IInv, OneTagPerAddr, Occupied
  <2> QED
    BY <1>5, <1>6, <2>3, <2>4, <2>6, <2>7 DEF IInv
<1>8. CASE ~op.insert
  <2>1. array_t' = T /\ UpdateOnHit(op.update, t, d)
    BY <1>8 DEF TakeEvicted, T
  <2>2. rp_dpg_t' \in Recency(TagIds) /\ rp_dpg_d' \in Recency(DataIds)
    BY <1>2, <2>1, UpdateOnHitOK DEF IInv
  <2>3. TypeOK'
    BY <1>1, <1>4, <2>1, <2>2 DEF TypeOK, IInv, OpState, Idle, Tags, Datas
  <2>4. ListsLinked'
    BY <1>1, <1>4, <2>1 DEF ListsLinked, Linked, Acyclic
  <2>5. TagInItsSet' /\ OneTagPerAddr'
    <3>1. array_t[t].addr = None
      BY <1>2, <1>3 DEF IInv, TagInItsSet, Occupied
    <3>2. \A u \in TagIds : array_t'[u].addr = array_t[u].addr
      BY <1>4, <2>1
    <3>3. \A u \in TagIds \ {t} : array_t'[u].data_id = array_t[u].data_id
      BY <1>4, <2>1
    <3>4. TagInItsSet'
      <4> SUFFICES ASSUME NEW u \in TagIds, array_t'[u].addr # None
                   PROVE  /\ array_t'[u].data_id # None
                          /\ u \in TagCands(array_t'[u].addr)
        BY DEF TagInItsSet, Occupied
      <4> QED
        BY <3>1, <3>2, <3>3 DEF IInv, TagInItsSet, Occupied
    <3>5. OneTagPerAddr'
      <4> SUFFICES ASSUME NEW u \in TagIds, NEW v \in TagIds, u # v,
                          array_t'[u].data_id # None, array_t'[v].data_id # None,
                          array_t'[u].addr = array_t'[v].addr
                   PROVE  array_t'[u].addr = None
        BY DEF OneTagPerAddr, Occupied
      <4> QED
        BY <3>1, <3>2, <3>3 DEF IInv, OneTagPerAddr, Occupied
    <3> QED
      BY <3>4, <3>5
  <2> QED
    BY <1>5, <1>6, <2>3, <2>4, <2>5 DEF IInv
<1> QED
  BY <1>2, <1>7, <1>8

\* lookup's remap, in its three ways
LEMMA LookupRemapInv ==
  ASSUME IInv, NEW a \in Addr, NEW t \in TagIds, NEW update \in BOOLEAN,
         LookupRemap(a, t, update)
  PROVE  IInv'
<1> DEFINE m == map[a]
           T == RemoveTagT(array_t, t)  D == RemoveTagD(array_t, array_d, t)
<1>1. /\ op.pc = "idle" /\ map' = map /\ m \in Map
      /\ array_t[t].data_id # None /\ array_t[t].addr = a /\ t \in TagCands(a)
  BY DEF LookupRemap, IsFirst, Matches, IInv, TypeOK
<1>2. /\ T \in Tags /\ D \in Datas /\ Linked(T, D) /\ Acyclic(T) /\ T[t] = FreeTag
      /\ \A u \in TagIds \ {t} : /\ T[u].addr = array_t[u].addr
                                 /\ T[u].data_id = array_t[u].data_id
      /\ \A c \in DataIds : D[c].tag_head_id # None =>
           /\ array_d[c].tag_head_id # None
           /\ D[c].map_value = array_d[c].map_value
  BY <1>1, TypeFacts, RemoveTagOK
<1>3. op.insert = FALSE
  BY <1>1 DEF IInv, TypeOK, OpState
<1>4. T[t].data_id = None /\ T[t].addr = None
  BY <1>2 DEF FreeTag
<1> HIDE DEF T, D
<1>5. ASSUME NEW d \in DataIds, IsFirst(d, SharedData(D, m)),
             array_t' = AddTagT(T, D, t, d), array_d' = AddTagD(D, t, d),
             UpdateOnHit(update, t, d), UNCHANGED op
      PROVE  IInv'
  <2>1. D[d].tag_head_id # None
    BY <1>5 DEF IsFirst, SharedData
  <2>2. /\ array_t' \in Tags /\ array_d' \in Datas
        /\ Linked(array_t', array_d') /\ Acyclic(array_t')
        /\ \A u \in TagIds : /\ array_t'[u].addr = T[u].addr
                             /\ u # t => array_t'[u].data_id = T[u].data_id
        /\ array_t'[t].data_id = d
        /\ \A c \in DataIds : array_d'[c].tag_head_id # None =>
             /\ D[c].tag_head_id # None
             /\ array_d'[c].map_value = D[c].map_value
    BY <1>2, <1>4, <1>5, <2>1, AddTagOK
  <2>3. TypeOK'
    BY <1>1, <1>5, <2>2, UpdateOnHitOK DEF IInv, TypeOK, Tags, Datas
  <2>4. ListsLinked'
    BY <2>2 DEF ListsLinked, Linked, Acyclic
  <2>5. OneBlockPerMap'
    BY <1>2, <2>2 DEF IInv, OneBlockPerMap
  <2>6. TagInItsSet' /\ OneTagPerAddr'
    BY <1>2, <1>4, <2>2 DEF IInv, TagInItsSet, OneTagPerAddr, Occupied
  <2>7. AccessInHand'
    BY <1>1, <1>3, <1>5 DEF AccessInHand
  <2> QED
    BY <2>3, <2>4, <2>5, <2>6, <2>7 DEF IInv
<1>6. ASSUME NEW d \in DataIds, SharedData(D, m) = {}, IsFirst(d, FreeDatas(D, m)),
             array_t' = OwnDataT(T, t, d), array_d' = OwnDataD(D, t, d, m),
             UpdateOnHit(update, t, d), UNCHANGED op
      PROVE  IInv'
  <2>1. D[d].tag_head_id = None /\ d \in DataCands(m)
    BY <1>6 DEF IsFirst, FreeDatas
  <2>2. /\ array_t' \in Tags /\ array_d' \in Datas
        /\ Linked(array_t', array_d') /\ Acyclic(array_t')
        /\ \A u \in TagIds : /\ array_t'[u].addr = T[u].addr
                             /\ u # t => array_t'[u].data_id = T[u].data_id
        /\ array_t'[t].data_id = d
        /\ array_d'[d].map_value = m
        /\ \A c \in DataIds \ {d} : array_d'[c] = D[c]
    BY <1>1, <1>2, <1>4, <1>6, <2>1, OwnDataOK
  <2>3. TypeOK'
    BY <1>1, <1>6, <2>2, UpdateOnHitOK DEF IInv, TypeOK, Tags, Datas
  <2>4. ListsLinked'
    BY <2>2 DEF ListsLinked, Linked, Acyclic
  <2>5. Blocks(D)
    BY <1>2 DEF IInv, OneBlockPerMap, Blocks
  <2>6. OneBlockPerMap'
    <3>1. Blocks(array_d')
      BY <1>1, <1>2, <1>6, <2>1, <2>2, <2>5, BlocksOK
    <3> QED
      BY <3>1 DEF OneBlockPerMap, Blocks
  <2>7. TagInItsSet' /\ OneTagPerAddr'
    BY <1>2, <1>4, <2>2 DEF IInv, TagInItsSet, OneTagPerAddr, Occupied
  <2>8. AccessInHand'
    BY <1>1, <1>3, <1>6 DEF AccessInHand
  <2> QED
    BY <2>3, <2>4, <2>6, <2>7, <2>8 DEF IInv
<1>7. ASSUME NEW d \in DataIds, SharedData(D, m) = {},
             IsVictim(rp_dpg_d, d, DataCands(m)),
             array_t' = T, array_d' = D,
             op' = [pc |-> "evict", addr |-> a, tag |-> t, map |-> m,
                    data |-> d, update |-> update, insert |-> FALSE],
             UNCHANGED <<rp_dpg_t, rp_dpg_d>>
      PROVE  IInv'
  <2>1. d \in DataCands(m)
    BY <1>7 DEF IsVictim
  <2>2. TypeOK'
    BY <1>1, <1>2, <1>7, <2>1 DEF IInv, TypeOK, OpState, Tags, Datas
  <2>3. ListsLinked' /\ OneBlockPerMap' /\ TagInItsSet' /\ OneTagPerAddr'
    BY <1>1, <1>7, TagFreed DEF T, D
  <2>4. AccessInHand'
    BY <1>1, <1>4, <1>7 DEF AccessInHand, Occupied, SharedData
  <2> QED
    BY <2>2, <2>3, <2>4 DEF IInv
<1> QED
  BY <1>5, <1>6, <1>7 DEF LookupRemap, T, D

\* preinsert's data entry, in its three ways
LEMMA PreinsertDataInv ==
  ASSUME IInv, PreinsertData
  PROVE  IInv'
<1> DEFINE a == op.addr  t == op.tag  m == map[op.addr]
<1>1. /\ op.pc = "insert" /\ map' = map
      /\ a \in Addr /\ t \in TagIds /\ m \in Map
      /\ op \in OpState /\ op.insert = FALSE
  BY DEF PreinsertData, IInv, TypeOK, OpState
<1>2. /\ array_t[t].data_id = None /\ t \in TagCands(a) /\ Matches(a) = {}
      /\ array_t[t].addr = None
  BY <1>1 DEF IInv, AccessInHand, TagInItsSet, Occupied
<1>3. \A u \in TagIds \ {t} : array_t[u].data_id # None => array_t[u].addr # a
  BY <1>1, <1>2, InputAssumption DEF IInv, TagInItsSet, Matches
\* What an insertion that ends with tag t on data entry d makes of the tags
<1>4. ASSUME NEW d \in DataIds, NEW T \in Tags, NEW D \in Datas,
             array_d' = D, op' = Idle, Postinsert(T, t, d, a),
             Linked(T, D), Acyclic(T),
             \A u \in TagIds : /\ T[u].addr = array_t[u].addr
                               /\ u # t => T[u].data_id = array_t[u].data_id,
             T[t].data_id = d, OneBlockPerMap'
      PROVE  IInv'
  <2>1. /\ rp_dpg_t' \in Recency(TagIds) /\ rp_dpg_d' \in Recency(DataIds)
        /\ array_t' \in Tags
        /\ Linked(array_t', D) /\ Acyclic(array_t')
        /\ \A u \in TagIds :
             /\ array_t'[u].data_id = T[u].data_id
             /\ array_t'[u].addr = IF u = t THEN a ELSE T[u].addr
    BY <1>1, <1>4, PostinsertOK DEF IInv
  <2>2. TypeOK'
    BY <1>1, <1>4, <2>1 DEF IInv, TypeOK, OpState, Idle, Tags, Datas
  <2>3. ListsLinked'
    BY <1>4, <2>1 DEF ListsLinked, Linked, Acyclic
  <2>4. TagInItsSet'
    <3> SUFFICES ASSUME NEW u \in TagIds, array_t'[u].addr # None
                 PROVE  /\ array_t'[u].data_id # None
                        /\ u \in TagCands(array_t'[u].addr)
      BY DEF TagInItsSet, Occupied
    <3>1. CASE u = t
      BY <1>2, <1>4, <2>1, <3>1, NoneIsNoId
    <3>2. CASE u # t
      BY <1>4, <2>1, <3>2 DEF IInv, TagInItsSet, Occupied
    <3> QED
      BY <3>1, <3>2
  <2>5. OneTagPerAddr'
    BY <1>1, <1>3, <1>4, <2>1 DEF IInv, OneTagPerAddr, Occupied
  <2>6. AccessInHand'
    BY <1>4 DEF AccessInHand, Idle
  <2> QED
    BY <1>4, <2>2, <2>3, <2>4, <2>5, <2>6 DEF IInv
<1>5. ASSUME NEW d \in DataIds, IsFirst(d, SharedData(array_d, m)),
             array_d' = AddTagD(array_d, t, d),
             Postinsert(AddTagT(array_t, array_d, t, d), t, d, a), op' = Idle
      PROVE  IInv'
  <2> DEFINE T == AddTagT(array_t, array_d, t, d)  D == AddTagD(array_d, t, d)
  <2>1. array_d[d].tag_head_id # None
    BY <1>5 DEF IsFirst, SharedData
  <2>2. /\ T \in Tags /\ D \in Datas /\ Linked(T, D) /\ Acyclic(T)
        /\ \A u \in TagIds : /\ T[u].addr = array_t[u].addr
                             /\ u # t => T[u].data_id = array_t[u].data_id
        /\ T[t].data_id = d
        /\ \A c \in DataIds : D[c].tag_head_id # None =>
             /\ array_d[c].tag_head_id # None
             /\ D[c].map_value = array_d[c].map_value
    BY <1>1, <1>2, <2>1, TypeFacts, AddTagOK
  <2>3. OneBlockPerMap'
    BY <1>5, <2>2 DEF IInv, OneBlockPerMap
  <2> HIDE DEF T, D
  <2>4. array_d' = D /\ Postinsert(T, t, d, a)
    BY <1>5 DEF T, D
  <2> QED
    BY <1>4, <1>5, <2>2, <2>3, <2>4
<1>6. ASSUME NEW d \in DataIds, SharedData(array_d, m) = {},
             IsFirst(d, FreeDatas(array_d, m)),
             array_d' = OwnDataD(array_d, t, d, m),
             Postinsert(OwnDataT(array_t, t, d), t, d, a), op' = Idle
      PROVE  IInv'
  <2> DEFINE T == OwnDataT(array_t, t, d)  D == OwnDataD(array_d, t, d, m)
  <2>1. array_d[d].tag_head_id = None /\ d \in DataCands(m)
    BY <1>6 DEF IsFirst, FreeDatas
  <2>2. /\ T \in Tags /\ D \in Datas /\ Linked(T, D) /\ Acyclic(T)
        /\ \A u \in TagIds : /\ T[u].addr = array_t[u].addr
                             /\ u # t => T[u].data_id = array_t[u].data_id
        /\ T[t].data_id = d /\ D[d].map_value = m
        /\ \A c \in DataIds \ {d} : D[c] = array_d[c]
    BY <1>1, <1>2, <2>1, TypeFacts, OwnDataOK
  <2> HIDE DEF T, D
  <2>3. array_d' = D /\ Postinsert(T, t, d, a)
    BY <1>6 DEF T, D
  <2>4. OneBlockPerMap'
    <3>1. Blocks(array_d)
      BY DEF IInv, OneBlockPerMap, Blocks
    <3>2. Blocks(D)
      BY <1>1, <1>6, <2>1, <2>2, <3>1, BlocksOK, TypeFacts
    <3> QED
      BY <2>3, <3>2 DEF OneBlockPerMap, Blocks
  <2> QED
    BY <1>4, <1>6, <2>2, <2>3, <2>4
<1>7. ASSUME NEW d \in DataIds, SharedData(array_d, m) = {},
             IsVictim(rp_dpg_d, d, DataCands(m)),
             op' = [op EXCEPT !.pc = "evict", !.map = m, !.data = d, !.insert = TRUE],
             UNCHANGED <<array_t, array_d, rp_dpg_t, rp_dpg_d>>
      PROVE  IInv'
  <2>1. d \in DataCands(m)
    BY <1>7 DEF IsVictim
  <2>2. TypeOK'
    BY <1>1, <1>7, <2>1 DEF IInv, TypeOK, OpState
  <2>3. ListsLinked' /\ OneBlockPerMap' /\ TagInItsSet' /\ OneTagPerAddr'
    BY <1>7 DEF IInv, ListsLinked, Linked, Acyclic, OneBlockPerMap, TagInItsSet,
                OneTagPerAddr, Occupied
  <2>4. /\ op'.pc = "evict" /\ op'.tag = t /\ op'.addr = a /\ op'.map = m
    BY <1>1, <1>7 DEF OpState
  <2>5. AccessInHand'
    BY <1>2, <1>7, <2>4 DEF AccessInHand, Occupied, Matches, SharedData
  <2> QED
    BY <2>2, <2>3, <2>5 DEF IInv
<1> QED
  BY <1>5, <1>6, <1>7 DEF PreinsertData

\* Every step
LEMMA NextInv == IInv /\ [Next]_dpgVars => IInv'
<1> SUFFICES ASSUME IInv, [Next]_dpgVars PROVE IInv'
  OBVIOUS
<1>1. ASSUME NEW a \in Addr, NEW m \in Map, ProgramWrite(a, m) PROVE IInv'
  BY <1>1, ProgramWriteInv
<1>2. ASSUME NEW a \in Addr, Access(a) PROVE IInv'
  BY <1>2, LookupHitInv, LookupRemapInv, PreinsertFreeTagInv, PreinsertEvictTagInv
     DEF Access
<1>3. CASE PreinsertData
  BY <1>3, PreinsertDataInv
<1>4. CASE EvictHead
  BY <1>4, EvictHeadInv
<1>5. CASE TakeEvicted
  BY <1>5, TakeEvictedInv
<1>6. CASE UNCHANGED dpgVars
  BY <1>6 DEF dpgVars, IInv, TypeOK, ListsLinked, Linked, Acyclic, OneBlockPerMap,
              TagInItsSet, OneTagPerAddr, AccessInHand, Occupied, Matches, SharedData
<1> QED
  BY <1>1, <1>2, <1>3, <1>4, <1>5, <1>6 DEF Next, Continue

\* Whatever the program writes and whichever lines are accessed, the state of
\* the array is well formed between the steps of every access.
THEOREM Invariance == Spec => []IInv
<1> QED
  BY InitInv, NextInv, PTL DEF Spec

-----------------------------------------------------------------------------
(* Lists are complete                                                      *)

\* A set of numbers that is not empty has a least one: this stands for
\* induction over the length of a walk.
LEMMA LeastNumber ==
  ASSUME NEW S \in SUBSET Nat, S # {}
  PROVE  \E x \in S : \A y \in S : x <= y
<1> DEFINE R == {ss \in Nat \X Nat : ss[1] < ss[2]}
<1>1. IsWellFoundedOn(R, Nat)
  BY NatLessThanWellFounded, Zenon DEF OpToRel
<1>2. PICK x \in S : \A y \in S : ~(<<y, x>> \in R)
  <2> HIDE DEF R
  <2> QED  BY <1>1, WFMin
<1>3. \A y \in S : x <= y
  <2> SUFFICES ASSUME NEW y \in S PROVE x <= y
    OBVIOUS
  <2>1. ~(<<y, x>> \in R)
    BY <1>2
  <2> QED  BY <2>1
<1> QED  BY <1>3

\* One step of a walk, and what a walk of some steps is
Onwards(T, t) == IF t = None THEN None ELSE T[t].prev
IsWalk(f, T, h, m) ==
  f = [n \in 0 .. m |-> IF n = 0 THEN h ELSE IF f[n - 1] = None THEN None ELSE T[f[n - 1]].prev]

\* There is a walk of any number of steps.
LEMMA WalkExists ==
  ASSUME NEW T, NEW h, NEW m \in Nat
  PROVE  \E f : IsWalk(f, T, h, m)
<1> DEFINE NoWalk(n) == ~\E f : IsWalk(f, T, h, n)
           S == {n \in Nat : NoWalk(n)}
<1>1. SUFFICES ASSUME S # {} PROVE FALSE
  <2> QED  BY <1>1
<1>2. PICK n \in S : \A y \in S : n <= y
  BY <1>1, LeastNumber
<1>3. n \in Nat /\ NoWalk(n)
  BY <1>2
<1>4. CASE n = 0
  <2> DEFINE f == [i \in 0 .. 0 |-> h]
  <2>1. IsWalk(f, T, h, 0)
    BY DEF IsWalk
  <2> QED  BY <1>3, <1>4, <2>1
<1>5. CASE n # 0
  <2>1. n - 1 \in Nat /\ n - 1 \notin S
    BY <1>2, <1>3, <1>5
  <2>2. PICK g : IsWalk(g, T, h, n - 1)
    BY <2>1
  <2>3. \A i \in 0 .. n - 1 :
          g[i] = IF i = 0 THEN h ELSE IF g[i - 1] = None THEN None ELSE T[g[i - 1]].prev
    BY <2>2 DEF IsWalk
  <2> DEFINE f == [i \in 0 .. n |-> IF i = n THEN Onwards(T, g[n - 1]) ELSE g[i]]
             F == [i \in 0 .. n |-> IF i = 0 THEN h
                                    ELSE IF f[i - 1] = None THEN None ELSE T[f[i - 1]].prev]
  <2>4. \A i \in 0 .. n : f[i] = F[i]
    <3> SUFFICES ASSUME NEW i \in 0 .. n PROVE f[i] = F[i]
      OBVIOUS
    <3>1. CASE i = n
      <4>1. f[n - 1] = g[n - 1] /\ f[n] = Onwards(T, g[n - 1])
        BY <1>3, <1>5
      <4> HIDE DEF f
      <4> QED  BY <1>3, <1>5, <3>1, <4>1 DEF Onwards
    <3>2. CASE i # n /\ i # 0
      <4>1. f[i] = g[i] /\ f[i - 1] = g[i - 1] /\ i \in 0 .. n - 1
        BY <1>3, <3>2
      <4> HIDE DEF f
      <4> QED  BY <2>3, <3>2, <4>1
    <3>3. CASE i = 0 /\ i # n
      <4>1. f[i] = g[i] /\ i \in 0 .. n - 1
        BY <1>3, <3>3
      <4> HIDE DEF f
      <4> QED  BY <2>3, <3>3, <4>1
    <3> QED  BY <3>1, <3>2, <3>3
  <2>5. f = F
    BY <2>4
  <2>6. IsWalk(f, T, h, n)
    <3> HIDE DEF f
    <3> QED  BY <2>5 DEF IsWalk
  <2> QED  BY <1>3, <2>6
<1> QED  BY <1>4, <1>5

\* A walk that meets the tags of a data entry, and nothing else
Meets(w, T, d) == {t \in TagIds : T[t].data_id = d} = {w[n] : n \in 0 .. numLines} \ {None}

\* In linked lists without circles a walk from the head of a data entry meets
\* all its tags, and nothing else.
LEMMA WalkMeetsAll ==
  ASSUME NEW T \in Tags, NEW D \in Datas, Linked(T, D), Acyclic(T), NEW d \in DataIds,
         NEW h, h = D[d].tag_head_id, NEW w, IsWalk(w, T, h, numLines)
  PROVE  Meets(w, T, d)
<1> DEFINE N == numLines
           M == {t \in TagIds : T[t].data_id = d}
<1>0. N \in Nat /\ TagIds = 0 .. N - 1 /\ None \notin TagIds /\ None \notin DataIds
  BY SizeAssumption, NoneIsNoId DEF TagIds
<1>1. w[0] = h /\ \A n \in 1 .. N : w[n] = IF w[n - 1] = None THEN None ELSE T[w[n - 1]].prev
  <2>1. \A n \in 0 .. N : w[n] = IF n = 0 THEN h ELSE IF w[n - 1] = None THEN None ELSE T[w[n - 1]].prev
    BY DEF IsWalk
  <2> QED  BY <1>0, <2>1
<1>2. h \in M \cup {None}
  BY <1>0 DEF Linked, Datas, DataEntry
<1>3. \A t \in M : T[t].prev \in M \cup {None} /\ T[t].next \in M \cup {None}
  <2> SUFFICES ASSUME NEW t \in M
               PROVE  T[t].prev \in M \cup {None} /\ T[t].next \in M \cup {None}
    OBVIOUS
  <2>1. T[t].prev \in TagIds \cup {None} /\ T[t].next \in TagIds \cup {None}
    BY DEF Tags, TagEntry
  <2>2. T[t].data_id # None
    BY <1>0
  <2> QED  BY <2>1, <2>2 DEF Linked
<1> HIDE DEF M
<1>4. \A n \in 0 .. N : w[n] \in M \cup {None}
  <2> DEFINE S == {n \in 0 .. N : w[n] \notin M \cup {None}}
  <2>1. SUFFICES ASSUME S # {} PROVE FALSE
    BY <2>1
  <2>2. PICK n \in S : \A y \in S : n <= y
    <3>1. S \in SUBSET Nat
      BY <1>0
    <3> HIDE DEF S
    <3> QED  BY <2>1, <3>1, LeastNumber
  <2>3. CASE n = 0
    BY <1>1, <1>2, <2>2, <2>3
  <2>4. CASE n # 0
    <3>1. n \in 1 .. N /\ n - 1 \in 0 .. N /\ n - 1 \notin S
      BY <1>0, <2>2, <2>4
    <3>2. w[n - 1] \in M \cup {None}
      BY <3>1
    <3> QED  BY <1>1, <1>3, <2>2, <3>1, <3>2
  <2> QED  BY <2>3, <2>4
<1>5. \A t \in M : t \in TagIds /\ T[t].data_id = d /\ t # None /\ T[t].data_id # None
  BY <1>0 DEF M
<1>6. \A n \in 1 .. N : w[n] # None => w[n - 1] # None /\ T[w[n]].next = w[n - 1]
  <2> SUFFICES ASSUME NEW n \in 1 .. N, w[n] # None
               PROVE  w[n - 1] # None /\ T[w[n]].next = w[n - 1]
    OBVIOUS
  <2>1. w[n - 1] # None /\ w[n] = T[w[n - 1]].prev
    BY <1>1
  <2>2. w[n - 1] \in M
    BY <1>0, <1>4, <2>1
  <2> QED  BY <1>5, <2>1, <2>2 DEF Linked
<1>7. h # None => T[h].next = None
  <2> SUFFICES ASSUME h # None PROVE T[h].next = None
    OBVIOUS
  <2>1. h \in TagIds /\ T[h].data_id = d /\ T[h].data_id # None
    BY <1>2, <1>5
  <2> QED  BY <2>1 DEF Linked
<1>8. \A i, j \in 0 .. N : i < j /\ w[i] = w[j] => w[j] = None
  <2> DEFINE S == {i \in 0 .. N : \E j \in 0 .. N : i < j /\ w[i] = w[j] /\ w[j] # None}
  <2>1. SUFFICES ASSUME S # {} PROVE FALSE
    BY <2>1
  <2>2. PICK i \in S : \A y \in S : i <= y
    <3>1. S \in SUBSET Nat
      BY <1>0
    <3> HIDE DEF S
    <3> QED  BY <2>1, <3>1, LeastNumber
  <2>3. PICK j \in 0 .. N : i < j /\ w[i] = w[j] /\ w[j] # None
    BY <2>2
  <2>4. j \in 1 .. N /\ j - 1 \in 0 .. N /\ w[j - 1] # None /\ T[w[j]].next = w[j - 1]
    BY <1>0, <1>6, <2>2, <2>3
  <2>5. CASE i = 0
    BY <1>1, <1>7, <2>3, <2>4, <2>5
  <2>6. CASE i # 0
    <3>1. i \in 1 .. N /\ i - 1 \in 0 .. N /\ i - 1 < j - 1 /\ i - 1 \notin S
      BY <1>0, <2>2, <2>3, <2>6
    <3>2. T[w[i]].next = w[i - 1]
      BY <1>6, <2>3, <3>1
    <3>3. w[i - 1] = w[j - 1]
      BY <2>3, <2>4, <3>2
    <3> QED  BY <2>4, <3>1, <3>3
  <2> QED  BY <2>5, <2>6
<1>9. w[N] = None
  <2>1. SUFFICES ASSUME w[N] # None PROVE FALSE
    BY <2>1
  <2>2. \A n \in 0 .. N : w[n] # None
    <3> DEFINE S == {k \in 0 .. N : w[N - k] = None}
    <3>1. SUFFICES ASSUME S # {} PROVE FALSE
      <4> SUFFICES ASSUME NEW n \in 0 .. N, w[n] = None PROVE FALSE
        OBVIOUS
      <4>1. N - n \in 0 .. N /\ N - (N - n) = n
        BY <1>0
      <4> QED  BY <3>1, <4>1
    <3>2. PICK k \in S : \A y \in S : k <= y
      <4>1. S \in SUBSET Nat
        BY <1>0
      <4> HIDE DEF S
      <4> QED  BY <3>1, <4>1, LeastNumber
    <3>3. k # 0
      BY <1>0, <2>1, <3>2
    <3>4. k - 1 \in 0 .. N /\ k - 1 \notin S /\ N - (k - 1) \in 1 .. N /\ (N - (k - 1)) - 1 = N - k
      <4>1. k \in 0 .. N
        BY <3>2
      <4>2. k - 1 \in 0 .. N /\ N - (k - 1) \in 1 .. N /\ (N - (k - 1)) - 1 = N - k /\ ~(k <= k - 1)
        BY <1>0, <3>3, <4>1
      <4> HIDE DEF S
      <4> QED  BY <3>2, <4>2
    <3>5. w[N - (k - 1)] # None
      BY <3>4
    <3>6. w[N - k] # None
      BY <1>6, <3>4, <3>5
    <3> QED  BY <3>2, <3>6
  <2>3. \A n \in 0 .. N : w[n] \in TagIds
    BY <1>4, <1>5, <2>2
  <2> DEFINE f == [n \in 0 .. N |-> w[n]]
  <2>4. f \in [0 .. N -> TagIds] /\ \A i, j \in 0 .. N : f[i] = f[j] => i = j
    <3>1. \A i, j \in 0 .. N : w[i] = w[j] => i = j
      <4> SUFFICES ASSUME NEW i \in 0 .. N, NEW j \in 0 .. N, w[i] = w[j] PROVE i = j
        OBVIOUS
      <4>1. ~(i < j) /\ ~(j < i)
        BY <1>8, <2>2
      <4> QED  BY <1>0, <4>1
    <3> QED  BY <2>3, <3>1
  <2> HIDE DEF f
  <2>5. f \in Injection(0 .. N, TagIds)
    BY <2>4 DEF Injection, IsInjective
  <2>6. IsFiniteSet(0 .. N) /\ Cardinality(0 .. N) = N + 1
    BY <1>0, FS_Interval
  <2>7. IsFiniteSet(TagIds) /\ Cardinality(TagIds) = N
    <3>1. IsFiniteSet(0 .. N - 1) /\ Cardinality(0 .. N - 1) = IF 0 > N - 1 THEN 0 ELSE (N - 1) - 0 + 1
      BY <1>0, FS_Interval
    <3> QED  BY <1>0, <3>1
  <2>8. N + 1 <= N
    BY <2>5, <2>6, <2>7, FS_Injection
  <2> QED  BY <1>0, <2>8
<1> DEFINE W == {w[n] : n \in 0 .. N} \ {None}
<1>10. W \subseteq M
  BY <1>4
<1>11. M \subseteq W
  <2> DEFINE S == M \ W
  <2>1. SUFFICES ASSUME S # {} PROVE FALSE
    BY <2>1
  <2>2. PICK t \in S : T[t].next \notin S
    <3>1. S \in SUBSET TagIds /\ \A t \in S : T[t].data_id # None
      BY <1>5
    <3> HIDE DEF S
    <3> QED  BY <2>1, <3>1 DEF Acyclic
  <2>3. t \in M /\ t \notin W /\ t # None
    BY <1>5, <2>2
  <2>4. CASE T[t].next = None
    <3>1. h = t
      BY <1>5, <2>3, <2>4 DEF Linked
    <3>2. w[0] = t /\ 0 \in 0 .. N
      BY <1>0, <1>1, <3>1
    <3> QED  BY <2>3, <3>2
  <2>5. CASE T[t].next # None
    <3> DEFINE u == T[t].next
    <3>1. u \in M /\ T[u].prev = t
      <4>1. u \in M
        BY <1>3, <2>3, <2>5
      <4> QED  BY <1>5, <2>3, <2>5, <4>1 DEF Linked
    <3>2. u \in W
      BY <2>2, <3>1
    <3> HIDE DEF u
    <3>3. PICK n \in 0 .. N : u = w[n] /\ w[n] # None
      BY <3>2
    <3>4. n # N
      BY <1>9, <3>3
    <3>5. n + 1 \in 1 .. N /\ n + 1 \in 0 .. N /\ (n + 1) - 1 = n
      BY <1>0, <3>3, <3>4
    <3>6. w[n + 1] = t
      BY <1>1, <3>1, <3>3, <3>5
    <3> QED  BY <2>3, <3>5, <3>6
  <2> QED  BY <2>4, <2>5
<1>12. M = W
  BY <1>10, <1>11
<1> QED  BY <1>12 DEF M, Meets

\* Lists that are linked without circles are complete.
LEMMA LinkedComplete == TypeOK /\ ListsLinked => ListsComplete
<1> SUFFICES ASSUME TypeOK, ListsLinked PROVE ListsComplete
  OBVIOUS
<1>1. /\ array_t \in Tags /\ array_d \in Datas /\ Linked(array_t, array_d) /\ Acyclic(array_t)
  BY DEF TypeOK, ListsLinked, Tags, Datas
<1>2. numLines \in Nat
  BY SizeAssumption
<1> DEFINE Walk(d) == CHOOSE f : f = [n \in 0 .. numLines |->
                        IF n = 0 THEN array_d[d].tag_head_id
                        ELSE IF f[n - 1] = None THEN None ELSE array_t[f[n - 1]].prev]
<1>3. ASSUME NEW d \in DataIds
      PROVE  {t \in TagIds : array_t[t].data_id = d} = {Walk(d)[n] : n \in 0 .. numLines} \ {None}
  <2> DEFINE w == Walk(d)
  <2>1. \E f : IsWalk(f, array_t, array_d[d].tag_head_id, numLines)
    BY <1>2, WalkExists
  <2>2. IsWalk(w, array_t, array_d[d].tag_head_id, numLines)
    BY <2>1 DEF IsWalk
  <2> DEFINE T == array_t
             D == array_d
             h == D[d].tag_head_id
  <2>4. T \in Tags /\ D \in Datas /\ Linked(T, D) /\ Acyclic(T) /\ h = D[d].tag_head_id /\ IsWalk(w, T, h, numLines)
    BY <1>1, <2>2
  <2> HIDE DEF w, T, D, h
  <2>5. Meets(w, T, d)
    BY <2>4, WalkMeetsAll
  <2> QED  BY <2>5 DEF w, T, Meets
<1> QED  BY <1>3 DEF ListsComplete

-----------------------------------------------------------------------------
(* The properties                                                          *)

\* The variables keep their types (every index stays within its array).
THEOREM TypeCorrect == Spec => []TypeOK
<1>1. IInv => TypeOK
  BY DEF IInv
<1> QED
  BY Invariance, <1>1, PTL

\* remove_tag and add_tag keep every tag list a doubly linked list without a
\* cycle, with its head in the data entry.
THEOREM ListsAlwaysLinked == Spec => []ListsLinked
<1>1. IInv => ListsLinked
  BY DEF IInv
<1> QED
  BY Invariance, <1>1, PTL

\* remove_tag and add_tag strand no tag: a walk from the head of a data entry,
\* as evict_data makes it, meets every tag of the entry.
THEOREM ListsAlwaysComplete == Spec => []ListsComplete
<1>1. IInv => ListsComplete
  BY LinkedComplete DEF IInv
<1> QED
  BY Invariance, <1>1, PTL

\* lookup_data, get_free_data and the evictions never leave one map value in
\* two data entries, nor a data entry in a set its map is not hashed to.
THEOREM OneBlockAlways == Spec => []OneBlockPerMap
<1>1. IInv => OneBlockPerMap
  BY DEF IInv
<1> QED
  BY Invariance, <1>1, PTL

\* No address is held by two tags, and each sits where lookup looks for it.
THEOREM TagsAlwaysFound == Spec => []TagsFound
<1>1. IInv => TagsFound
  BY DEF IInv, TagsFound
<1> QED
  BY Invariance, <1>1, PTL

\* The evictions of an access take neither its tag nor bring in its address or
\* its map value.
THEOREM AccessKeepsItsTag == Spec => []AccessInHand
<1>1. IInv => AccessInHand
  BY DEF IInv
<1> QED
  BY Invariance, <1>1, PTL

\* An access frees, of the tags in use, the one it takes or re-links, and in
\* evict_data's loop sharers of the data entry being evicted.
THEOREM EvictsOnlySharers == Spec => EvictOnlySharers
<1> DEFINE A == \A t \in TagIds :
                  Occupied(t) /\ ~Occupied(t)'
                    => IF op.pc = "evict" THEN array_t[t].data_id = op.data
                                          ELSE op'.pc # "idle" /\ op'.tag = t
<1>1. IInv /\ [Next]_dpgVars => [A]_dpgVars
  <2> SUFFICES ASSUME IInv, Next, NEW u \in TagIds,
                      array_t[u].data_id # None, array_t'[u].data_id = None
               PROVE  IF op.pc = "evict" THEN array_t[u].data_id = op.data
                                         ELSE op'.pc # "idle" /\ op'.tag = u
    BY DEF Occupied
  <2> USE NoneIsNoId
  <2>1. ASSUME NEW a \in Addr, NEW t \in TagIds, NEW update \in BOOLEAN,
               LookupRemap(a, t, update)
        PROVE  op.pc = "idle" /\ op'.pc # "idle" /\ op'.tag = u
    <3> DEFINE T == RemoveTagT(array_t, t)  D == RemoveTagD(array_t, array_d, t)
    <3>1. op.pc = "idle" /\ array_t[t].data_id # None
      BY <2>1 DEF LookupRemap, IsFirst, Matches
    <3>2. /\ T \in Tags /\ D \in Datas /\ Linked(T, D) /\ Acyclic(T)
          /\ T[t].data_id = None
          /\ \A v \in TagIds \ {t} : T[v].data_id = array_t[v].data_id
      BY <3>1, TypeFacts, RemoveTagOK DEF FreeTag
    <3>3. map[a] \in Map
      BY DEF IInv, TypeOK
    <3> HIDE DEF T, D
    <3>4. \A d \in DataIds :
            array_t' = AddTagT(T, D, t, d) /\ IsFirst(d, SharedData(D, map[a])) => FALSE
      BY <3>2, AddTagOK DEF IsFirst, SharedData
    <3>5. \A d \in DataIds :
            /\ array_t' = OwnDataT(T, t, d) /\ IsFirst(d, FreeDatas(D, map[a]))
            => FALSE
      BY <3>2, <3>3, OwnDataOK DEF IsFirst, FreeDatas
    <3>6. PICK d \in DataIds :
            /\ array_t' = T
            /\ op' = [pc |-> "evict", addr |-> a, tag |-> t, map |-> map[a],
                      data |-> d, update |-> update, insert |-> FALSE]
      BY <2>1, <3>4, <3>5 DEF LookupRemap, T, D
    <3>7. u = t
      BY <3>2, <3>6
    <3> QED
      BY <3>1, <3>6, <3>7
  <2>2. ASSUME NEW a \in Addr, NEW t \in TagIds, PreinsertEvictTag(a, t)
        PROVE  op.pc = "idle" /\ op'.pc # "idle" /\ op'.tag = u
    <3>1. /\ op.pc = "idle" /\ array_t[t].data_id # None
          /\ array_t' = RemoveTagT(array_t, t)
          /\ op'.pc = "insert" /\ op'.tag = t
      BY <2>2 DEF PreinsertEvictTag, IsVictim, FreeTags, Idle
    <3>2. \A v \in TagIds \ {t} : array_t'[v].data_id = array_t[v].data_id
      BY <3>1, TypeFacts, RemoveTagOK
    <3> QED
      BY <3>1, <3>2
  <2>3. CASE EvictHead
    <3> DEFINE h == array_d[op.data].tag_head_id
    <3>1. /\ op.pc = "evict" /\ h # None /\ array_t' = RemoveTagT(array_t, h)
          /\ op.data \in DataIds
      BY <2>3, CandsInArray DEF EvictHead, IInv, TypeOK
    <3>2. h \in TagIds /\ array_t[h].data_id = op.data
      BY <3>1, TypeFacts DEF Datas, DataEntry, Linked
    <3> HIDE DEF h
    <3>3. \A v \in TagIds \ {h} : array_t'[v].data_id = array_t[v].data_id
      BY <3>1, <3>2, TypeFacts, RemoveTagOK
    <3> QED
      BY <3>1, <3>2, <3>3
  <2>4. CASE PreinsertData
    <3>1. /\ op.tag \in TagIds /\ map[op.addr] \in Map /\ array_t[op.tag].data_id = None
      BY <2>4 DEF PreinsertData, IInv, TypeOK, AccessInHand, Occupied
    <3>2. u # op.tag
      BY <3>1
    <3>3. CASE array_t' = array_t
      BY <3>3
    <3>4. ASSUME NEW T \in Tags, NEW d \in DataIds, Postinsert(T, op.tag, d, op.addr),
                 T[u].data_id = array_t[u].data_id
          PROVE  array_t'[u].data_id = array_t[u].data_id
      BY <3>2, <3>4 DEF Postinsert, Tags, TagEntry
    <3>5. \A d \in DataIds :
            /\ array_d[d].tag_head_id # None
            /\ Postinsert(AddTagT(array_t, array_d, op.tag, d), op.tag, d, op.addr)
            => array_t'[u].data_id = array_t[u].data_id
      BY <3>1, <3>2, <3>4, TypeFacts, AddTagOK
    <3>6. \A d \in DataIds :
            /\ array_d[d].tag_head_id = None
            /\ Postinsert(OwnDataT(array_t, op.tag, d), op.tag, d, op.addr)
            => array_t'[u].data_id = array_t[u].data_id
      BY <3>1, <3>2, <3>4, TypeFacts, OwnDataOK
    <3> QED
      BY <2>4, <3>3, <3>5, <3>6 DEF PreinsertData, IsFirst, SharedData, FreeDatas
  <2>5. CASE TakeEvicted
    <3>1. /\ op.tag \in TagIds /\ op.map \in Map /\ op.data \in DataIds
          /\ array_t[op.tag].data_id = None /\ array_d[op.data].tag_head_id = None
      BY <2>5, CandsInArray DEF TakeEvicted, IInv, TypeOK, AccessInHand, Occupied
    <3>2. /\ OwnDataT(array_t, op.tag, op.data) \in Tags
          /\ OwnDataT(array_t, op.tag, op.data)[u].data_id = array_t[u].data_id
      BY <3>1, TypeFacts, OwnDataOK
    <3>3. ASSUME NEW T \in Tags, Postinsert(T, op.tag, op.data, op.addr)
          PROVE  array_t'[u].data_id = T[u].data_id
      BY <3>3 DEF Postinsert, Tags, TagEntry
    <3> QED
      BY <2>5, <3>2, <3>3 DEF TakeEvicted
  <2>6. ASSUME array_t' = array_t PROVE FALSE
    BY <2>6
  <2> QED
    BY <2>1, <2>2, <2>3, <2>4, <2>5, <2>6
       DEF Next, Access, Continue, ProgramWrite, LookupHit, PreinsertFreeTag
<1> QED
  BY <1>1, Invariance, PTL DEF Spec, EvictOnlySharers

(* A round of evict_data frees exactly one sharer of the data entry, and the *)
(* loop is left exactly when none remains.                                   *)
THEOREM EvictionsShrink == Spec => EvictionShrinks
<1> DEFINE sharers == {t \in TagIds : array_t[t].data_id = op.data}
           A == op.pc = "evict" =>
                  IF op'.pc = "evict"
                    THEN \E t \in sharers :
                           sharers \ {t} = {u \in TagIds : array_t'[u].data_id = op.data}
                    ELSE sharers = {}
<1>1. IInv /\ [Next]_dpgVars => [A]_<<array_t, array_d, op>>
  <2> SUFFICES ASSUME IInv, Next, op.pc = "evict", ~UNCHANGED <<array_t, array_d, op>>
               PROVE  A
    BY DEF dpgVars
  <2> USE NoneIsNoId
  <2>1. op.data \in DataIds
    BY CandsInArray DEF IInv, TypeOK
  <2>2. CASE EvictHead
    <3> DEFINE h == array_d[op.data].tag_head_id
    <3>1. h # None /\ array_t' = RemoveTagT(array_t, h) /\ op'.pc = "evict"
      BY <2>2 DEF EvictHead
    <3>2. h \in TagIds /\ array_t[h].data_id = op.data
      BY <2>1, <3>1, TypeFacts DEF Datas, DataEntry, Linked
    <3> HIDE DEF h, A, sharers
    <3>3. /\ \A u \in TagIds \ {h} :
               RemoveTagT(array_t, h)[u].data_id = array_t[u].data_id
          /\ RemoveTagT(array_t, h)[h].data_id # op.data
      BY <2>1, <3>2, TypeFacts, RemoveTagOK DEF FreeTag
    <3>4. \A u \in TagIds :
            array_t'[u].data_id = op.data <=> u # h /\ array_t[u].data_id = op.data
      BY <3>1, <3>3
    <3>5. sharers \ {h} = {u \in TagIds : array_t'[u].data_id = op.data}
      BY <3>4 DEF sharers
    <3> QED
      BY <3>1, <3>2, <3>5 DEF A, sharers
  <2>3. CASE TakeEvicted
    <3>1. array_d[op.data].tag_head_id = None /\ op'.pc = "idle"
      BY <2>3 DEF TakeEvicted, Idle
    <3>2. ASSUME sharers # {} PROVE FALSE
      <4>1. PICK u \in sharers : array_t[u].next \notin sharers
        BY <2>1, <3>2, TypeFacts DEF Acyclic
      <4>2. array_t[u].next \in TagIds \cup {None}
        BY <4>1, TypeFacts DEF Tags, TagEntry
      <4> QED
        BY <2>1, <3>1, <4>1, <4>2, TypeFacts DEF Linked
    <3> QED
      BY <3>1, <3>2
  <2> QED
    BY <2>2, <2>3 DEF Next, Access, Continue, ProgramWrite, LookupHit, LookupRemap,
                      PreinsertFreeTag, PreinsertEvictTag, PreinsertData
<1> QED
  BY <1>1, Invariance, PTL DEF Spec, EvictionShrinks

-----------------------------------------------------------------------------
(* 2. The cache drives the array as DPGArray says                          *)

\* An access to the Doppelganger array starts as one of Access's.
LEMMA StartIsAccess ==
  ASSUME LLCTypeOK, NEW c \in Child, StartApprox(c)
  PROVE  Next
<1> DEFINE a == pending[c].addr
<1>1. a \in Addr
  BY DEF LLCTypeOK, StartApprox, Ready, Request
<1>2. (pending[c].type \in Gets) \in BOOLEAN
  OBVIOUS
<1>3. Access(a)
  BY <1>2 DEF StartApprox, Access
<1> QED  BY <1>1, <1>3 DEF Next

\* Every step of the cache is a step of the array or leaves it alone.
LEMMA StepIsArrayStep ==
  ASSUME LLCTypeOK, [LLCNext]_vars
  PROVE  [Next]_dpgVars
<1>1. CASE UNCHANGED vars
  BY <1>1 DEF vars
<1>2. CASE LLCNext
  <2>1. ASSUME NEW a \in Addr, NEW m \in Map, Write(a, m)
        PROVE  Next
    BY <2>1 DEF Write, Next
  <2>2. ASSUME NEW a \in Addr, ChangeRegion(a)
        PROVE  UNCHANGED dpgVars
    BY <2>2 DEF ChangeRegion
  <2>3. ASSUME NEW c \in Child, NEW a \in Addr,
               ChildWrite(c, a) \/ \E type \in Gets \cup Puts : ChildRequest(c, type, a)
        PROVE  UNCHANGED dpgVars
    BY <2>3 DEF ChildWrite, ChildRequest
  <2>4. ASSUME NEW c \in Child, SkipAccess(c) \/ Panic(c) \/ StartExact(c)
        PROVE  UNCHANGED dpgVars
    BY <2>4 DEF SkipAccess, Panic, StartExact
  <2>5. ASSUME NEW c \in Child, StartApprox(c)
        PROVE  Next
    BY <2>5, StartIsAccess
  <2>6. CASE ContinueApprox
    BY <2>6 DEF ContinueApprox, Continue, Next
  <2>7. CASE ProcessPut \/ ProcessGETS \/ ProcessGETX
    BY <2>7 DEF ProcessPut, ProcessGETS, ProcessGETX, Answer
  <2> QED  BY <1>2, <2>1, <2>2, <2>3, <2>4, <2>5, <2>6, <2>7 DEF LLCNext, Serve
<1> QED  BY <1>1, <1>2

-----------------------------------------------------------------------------
(* Types                                                                   *)

\* Line ids of tags ...
LEMMA DpgIdInRange == ASSUME NEW t \in TagIds PROVE DpgId(t) \in LineIds
  BY SizeAssumption DEF DpgId, TagIds, LineIds

\* ... and those of the exact array
LEMMA ExactIdInRange == TagIds \subseteq LineIds
  BY SizeAssumption DEF TagIds, LineIds

\* sendInvalidates leaves every line of every child in a MESI state.
LEMMA InvalidatedType ==
  ASSUME LLCTypeOK, NEW cs, NEW a, NEW type
  PROVE  Invalidated(cs, a, type) \in [Child -> [Addr -> MESI]]
  BY DEF LLCTypeOK, Invalidated, MESI

\* processEviction keeps the types.
LEMMA EvictCCType ==
  ASSUME LLCTypeOK, NEW id \in LineIds, NEW a, EvictCC(id, a)
  PROVE  /\ child' \in [Child -> [Addr -> MESI]]
         /\ cc' \in [LineIds -> Entry]
         /\ fault' \in BOOLEAN
<1>1. child' \in [Child -> [Addr -> MESI]]
  BY InvalidatedType DEF EvictCC, LLCTypeOK
<1>2. cc' \in [LineIds -> Entry]
  BY DEF EvictCC, LLCTypeOK, Entry, MESI
<1>3. fault' \in BOOLEAN
  BY DEF EvictCC
<1> QED  BY <1>1, <1>2, <1>3

\* Types, when nothing is evicted ...
LEMMA NoEvictType ==
  ASSUME LLCTypeOK, NoEvict
  PROVE  /\ child' \in [Child -> [Addr -> MESI]]
         /\ cc' \in [LineIds -> Entry]
         /\ fault' \in BOOLEAN
  BY DEF LLCTypeOK, NoEvict

\* A request that has been started is one of a child, on one of its lines.
LEMMA WorkingType ==
  ASSUME LLCTypeOK, NEW c \in Child, Ready(c), NEW pc \in {"array", "process"},
         NEW id \in LineIds, Working(c, pc, id)
  PROVE  /\ req' \in Work
         /\ req'.pc = pc
<1>1. pending[c] \in Request
  BY DEF LLCTypeOK, Ready
<1>2. PatchedType(c) \in Gets \cup Puts
  BY <1>1 DEF PatchedType, Request, Puts
<1> QED  BY <1>1, <1>2 DEF Working, Work, Request

\* ... when an approximable request starts ...
LEMMA StartApproxType ==
  ASSUME LLCTypeOK, NEW c \in Child, StartApprox(c)
  PROVE  LLCTypeOK'
<1> DEFINE a == pending[c].addr
           get == pending[c].type \in Gets
           pc == IF op'.pc = "idle" THEN "process" ELSE "array"
<1>1. PICK t \in TagIds :
        /\ \/ (LookupHit(a, t, get) \/ LookupRemap(a, t, get)) /\ NoEvict
           \/ PreinsertFreeTag(a, t) /\ NoEvict
           \/ PreinsertEvictTag(a, t) /\ EvictCC(DpgId(t), array_t[t].addr)
        /\ Working(c, pc, DpgId(t))
  BY DEF StartApprox
<1>2. DpgId(t) \in LineIds
  BY DpgIdInRange
<1>3. /\ child' \in [Child -> [Addr -> MESI]]
      /\ cc' \in [LineIds -> Entry]
      /\ fault' \in BOOLEAN
  BY <1>1, <1>2, EvictCCType, NoEvictType
<1>4. req' \in Work /\ req'.pc = pc
  BY <1>1, <1>2, WorkingType DEF StartApprox
<1> QED  BY <1>3, <1>4 DEF LLCTypeOK, StartApprox

\* ... an exact one ...
LEMMA StartExactType ==
  ASSUME LLCTypeOK, NEW c \in Child, StartExact(c)
  PROVE  LLCTypeOK'
<1> DEFINE a == pending[c].addr
<1>1. PICK i \in TagIds :
        /\ \/ UNCHANGED array /\ NoEvict
           \/ EvictCC(i, array[i]) /\ array' = [array EXCEPT ![i] = a]
        /\ Working(c, "process", i)
  BY DEF StartExact
<1>2. i \in LineIds
  BY ExactIdInRange
<1>3. /\ child' \in [Child -> [Addr -> MESI]]
      /\ cc' \in [LineIds -> Entry]
      /\ fault' \in BOOLEAN
  BY <1>1, <1>2, EvictCCType, NoEvictType
<1>4. req' \in Work /\ req'.pc = "process"
  BY <1>1, <1>2, WorkingType DEF StartExact
<1>5. array' \in [TagIds -> Addr \cup {None}]
  <2>1. a \in Addr
    BY DEF LLCTypeOK, StartExact, Ready, Request
  <2> QED  BY <1>1, <2>1 DEF LLCTypeOK
<1>6. op.pc = "idle" /\ op' = op
  BY DEF LLCTypeOK, StartExact, Ready, dpgVars
<1> QED  BY <1>3, <1>4, <1>5, <1>6 DEF LLCTypeOK, StartExact

\* ... one goes on after a call-out ...
LEMMA ContinueApproxType ==
  ASSUME LLCTypeOK, IInv, ContinueApprox
  PROVE  LLCTypeOK'
<1>1. req \in Work
  BY DEF ContinueApprox, LLCTypeOK, NoReq
<1>2. req' \in Work /\ (req'.pc = "array" <=> op'.pc # "idle")
  BY <1>1 DEF ContinueApprox, Work
<1>3. /\ child' \in [Child -> [Addr -> MESI]]
      /\ cc' \in [LineIds -> Entry]
      /\ fault' \in BOOLEAN
  <2>1. CASE NoEvict
    BY <2>1, NoEvictType
  <2>2. CASE EvictHead /\ EvictCC(DpgId(array_d[op.data].tag_head_id),
                                  array_t[array_d[op.data].tag_head_id].addr)
    <3>1. op.data \in DataIds
      BY <2>2, CandsInArray DEF EvictHead, IInv, TypeOK
    <3>2. array_d[op.data].tag_head_id \in TagIds
      BY <2>2, <3>1 DEF EvictHead, IInv, TypeOK, DataEntry
    <3> QED  BY <2>2, <3>2, DpgIdInRange, EvictCCType
  <2> QED  BY <2>1, <2>2 DEF ContinueApprox
<1> QED  BY <1>2, <1>3 DEF LLCTypeOK, ContinueApprox

\* ... and when the controller serves it (processAccess).
LEMMA ProcessType ==
  ASSUME LLCTypeOK, ProcessPut \/ ProcessGETS \/ ProcessGETX
  PROVE  LLCTypeOK'
<1>1. req \in Work /\ req.pc = "process"
  <2>1. req.pc = "process"
    BY DEF ProcessPut, ProcessGETS, ProcessGETX
  <2> QED  BY <2>1 DEF LLCTypeOK, NoReq
<1>2. Answer /\ op.pc = "idle" /\ op' = op
  BY <1>1 DEF ProcessPut, ProcessGETS, ProcessGETX, Answer, LLCTypeOK, dpgVars
<1>3. pending' \in [Child -> Request \cup {NoRequest}]
  BY <1>1, <1>2 DEF Answer, LLCTypeOK, Work
<1>4. child' \in [Child -> [Addr -> MESI]]
  <2>1. CASE ProcessPut
    BY <1>1, <2>1 DEF ProcessPut, LLCTypeOK, Work, MESI
  <2>2. CASE ProcessGETS
    <3> DEFINE owners == IF cc[req.id].exclusive /\ Cardinality(cc[req.id].sharers) = 1
                           THEN cc[req.id].sharers ELSE {}
    <3>1. Invalidated(owners, req.addr, "INVX") \in [Child -> [Addr -> MESI]]
      BY InvalidatedType
    <3>2. PICK s \in MESI : child' = [Invalidated(owners, req.addr, "INVX")
                                        EXCEPT ![req.child][req.addr] = s]
      BY <2>2 DEF ProcessGETS, MESI
    <3> QED  BY <1>1, <3>1, <3>2 DEF Work
  <2>3. CASE ProcessGETX
    <3> DEFINE others == cc[req.id].sharers \ {req.child}
    <3>1. Invalidated(others, req.addr, "INV") \in [Child -> [Addr -> MESI]]
      BY InvalidatedType
    <3>2. child' = [Invalidated(others, req.addr, "INV")
                      EXCEPT ![req.child][req.addr] = "M"]
      BY <2>3 DEF ProcessGETX
    <3> QED  BY <1>1, <3>1, <3>2 DEF Work, MESI
  <2> QED  BY <2>1, <2>2, <2>3
<1>5. cc' \in [LineIds -> Entry]
  <2>1. cc \in [LineIds -> Entry] /\ req.id \in LineIds /\ req.child \in Child
    BY <1>1 DEF LLCTypeOK, Work
  <2>2. CASE ProcessPut
    BY <2>1, <2>2 DEF ProcessPut, Entry, MESI
  <2>3. CASE ProcessGETS
    <3>1. PICK e \in Entry : cc' = [cc EXCEPT ![req.id] = e]
      BY <2>1, <2>3 DEF ProcessGETS, Entry, MESI
    <3> QED  BY <2>1, <3>1
  <2>4. CASE ProcessGETX
    BY <2>1, <2>4 DEF ProcessGETX, Entry, MESI
  <2> QED  BY <2>2, <2>3, <2>4
<1>6. fault' \in BOOLEAN
  BY DEF ProcessPut, ProcessGETS, ProcessGETX
<1> QED  BY <1>2, <1>3, <1>4, <1>5, <1>6 DEF LLCTypeOK, Answer, NoReq, dpgVars

-----------------------------------------------------------------------------
(* The theorems                                                            *)

LLCInv == LLCTypeOK /\ IInv

\* The initial states
LEMMA LLCInitInv == LLCInit => LLCInv
<1> SUFFICES ASSUME LLCInit PROVE LLCInv
  OBVIOUS
<1>1. IInv
  BY InitInv DEF LLCInit
<1>2. op.pc = "idle"
  BY DEF LLCInit, Init, Idle
<1>3. LLCTypeOK
  BY <1>2, LLCAssumption
     DEF LLCInit, LLCTypeOK, MESI, Entry, NoEntry, NoReq, NoRequest
<1> QED  BY <1>1, <1>3 DEF LLCInv

\* Every step of the cache
LEMMA LLCNextInv == LLCInv /\ [LLCNext]_vars => LLCInv'
<1> SUFFICES ASSUME LLCInv, [LLCNext]_vars PROVE LLCInv'
  OBVIOUS
<1>1. LLCTypeOK /\ IInv
  BY DEF LLCInv
<1>2. IInv'
  BY <1>1, StepIsArrayStep, NextInv
<1>3. LLCTypeOK'
  <2>1. CASE UNCHANGED vars
    BY <1>1, <2>1 DEF vars, ccVars, dpgVars, LLCTypeOK
  <2>2. CASE LLCNext
    <3>1. ASSUME NEW a \in Addr, NEW m \in Map, Write(a, m) PROVE LLCTypeOK'
      BY <1>1, <3>1 DEF Write, ProgramWrite, ccVars, LLCTypeOK
    <3>2. ASSUME NEW a \in Addr, ChangeRegion(a) PROVE LLCTypeOK'
      BY <1>1, <3>2 DEF ChangeRegion, dpgVars, LLCTypeOK
    <3>3. ASSUME NEW c \in Child, NEW a \in Addr, ChildWrite(c, a) PROVE LLCTypeOK'
      BY <1>1, <3>3 DEF ChildWrite, dpgVars, LLCTypeOK, MESI
    <3>4. ASSUME NEW c \in Child, NEW a \in Addr, NEW type \in Gets \cup Puts,
                 ChildRequest(c, type, a)
          PROVE  LLCTypeOK'
      BY <1>1, <3>4 DEF ChildRequest, dpgVars, LLCTypeOK, Request
    <3>5. ASSUME NEW c \in Child, SkipAccess(c) \/ Panic(c) PROVE LLCTypeOK'
      BY <1>1, <3>5 DEF SkipAccess, Panic, dpgVars, LLCTypeOK
    <3>6. ASSUME NEW c \in Child, StartApprox(c) \/ StartExact(c) PROVE LLCTypeOK'
      BY <1>1, <3>6, StartApproxType, StartExactType
    <3>7. CASE ContinueApprox \/ ProcessPut \/ ProcessGETS \/ ProcessGETX
      BY <1>1, <3>7, ContinueApproxType, ProcessType
    <3> QED  BY <2>2, <3>1, <3>2, <3>3, <3>4, <3>5, <3>6, <3>7 DEF LLCNext, Serve
  <2> QED  BY <2>1, <2>2
<1> QED  BY <1>2, <1>3 DEF LLCInv

\* The cache keeps its types and the array's invariant, whatever the program does.
THEOREM LLCInvariance == LLCSpec => []LLCInv
<1> QED  BY LLCInitInv, LLCNextInv, PTL DEF LLCSpec

\* The controller, the children and the directory only ever hold values of
\* their types, and the array is in an access exactly when the cache is.
THEOREM LLCTypeCorrect == LLCSpec => []LLCTypeOK
<1>1. LLCInv => LLCTypeOK
  BY DEF LLCInv
<1> QED  BY LLCInvariance, <1>1, PTL

\* Cache::access uses the Doppelganger array as DPGArray says.
THEOREM LLCImplementsDPGArray == LLCSpec => Spec
<1>1. LLCInit => Init
  BY DEF LLCInit
<1>2. LLCInv /\ [LLCNext]_vars => [Next]_dpgVars
  BY StepIsArrayStep DEF LLCInv
<1> QED  BY <1>1, <1>2, LLCInvariance, PTL DEF LLCSpec, Spec

-----------------------------------------------------------------------------
(* 3. The directory                                                        *)

\* The address of every line id, in the exact array or in a tag
Holding ==
  [i \in LineIds |-> IF i \in TagIds THEN array[i] ELSE array_t[i - numLines].addr]

\* The directory entry of a line is exact, and tells who may have it in E or M.
EntryExact(h, e, copies) ==
  /\ h = None => e.state = "I"
  /\ e.state = "I" => e.sharers = {}
  /\ \A c \in e.sharers :
       /\ h # None /\ copies[c][h] # "I"
       /\ Exclusive(copies[c][h]) <=> e.exclusive
       /\ e.exclusive => e.sharers = {c} /\ Exclusive(e.state)

\* The entry of every line in L is exact, and has every copy of a child.
Directory(L, H, C, copies) ==
  /\ \A i \in LineIds : H[i] \in L => EntryExact(H[i], C[i], copies)
  /\ \A c \in Child, a \in Addr : a \in L /\ copies[c][a] # "I" =>
       \E i \in LineIds : H[i] = a /\ c \in C[i].sharers

\* No address in L is under two line ids.
Once(L, H) == \A i, k \in LineIds : H[i] = H[k] /\ H[i] # None /\ H[i] \in L => i = k

Held == [LineIds -> Addr \cup {None}]
AllCopies == [Child -> [Addr -> MESI]]
Entries == [LineIds -> Entry]

-----------------------------------------------------------------------------
(* Line ids and what they hold                                             *)

\* The ids of the tags follow those of the exact array.
LEMMA IdsApart ==
  /\ \A t \in TagIds : DpgId(t) \in LineIds \ TagIds /\ DpgId(t) - numLines = t
  /\ \A i \in LineIds \ TagIds : i - numLines \in TagIds /\ i = DpgId(i - numLines)
  /\ TagIds \subseteq LineIds
BY SizeAssumption DEF DpgId, TagIds, LineIds

\* Which line each line id of both arrays holds
LEMMA HoldingIs ==
  ASSUME LLCInv
  PROVE  /\ Holding \in Held
         /\ \A i \in TagIds : Holding[i] = array[i]
         /\ \A t \in TagIds : Holding[DpgId(t)] = array_t[t].addr
<1>1. /\ array \in [TagIds -> Addr \cup {None}]
      /\ \A t \in TagIds : array_t[t].addr \in Addr \cup {None}
  BY DEF LLCInv, LLCTypeOK, IInv, TypeOK, TagEntry
<1>2. ASSUME NEW i \in LineIds
      PROVE  (IF i \in TagIds THEN array[i] ELSE array_t[i - numLines].addr) \in Addr \cup {None}
  BY <1>1, IdsApart
<1>3. Holding \in Held
  BY <1>2 DEF Holding, Held
<1>4. \A i \in TagIds : Holding[i] = array[i]
  BY IdsApart DEF Holding
<1>5. \A t \in TagIds : Holding[DpgId(t)] = array_t[t].addr
  BY IdsApart DEF Holding
<1> QED  BY <1>3, <1>4, <1>5

-----------------------------------------------------------------------------
(* Evictions and requests                                                  *)

\* processEviction: the line's copies are gone and its id is free for any other;
\* if the entry was right, no assertion fails.
LEMMA EvictKeeps ==
  ASSUME LLCTypeOK, NEW L, NEW H \in Held, Once(L, H), Directory(L, H, cc, child),
         NEW id \in LineIds, EvictCC(id, H[id]), NEW x
  PROVE  /\ Directory(L, [H EXCEPT ![id] = x], cc', child')
         /\ H[id] \in L => fault' = FALSE
         /\ \A c \in Child, b \in Addr :
              child'[c][b] = child[c][b] \/ (b = H[id] /\ child'[c][b] = "I")
<1> DEFINE a == H[id]  e == cc[id]  H1 == [H EXCEPT ![id] = x]
           lost == \E c \in e.sharers : a = None \/ Lost(c, a, "INV")
<1>1. /\ cc \in Entries /\ child \in AllCopies /\ a \in Addr \cup {None} /\ e \in Entry
      /\ None \notin Addr /\ (a \in L => EntryExact(a, e, child))
  BY InputAssumption DEF LLCTypeOK, Entries, AllCopies, Held, Directory
<1>2. a \in L => ~lost
  BY <1>1 DEF EntryExact, Lost
<1>3. /\ child' = IF lost THEN child ELSE Invalidated(e.sharers, a, "INV")
      /\ cc' = [cc EXCEPT ![id].state = "I", ![id].sharers = {}]
      /\ ~lost => fault' = ((\E c \in e.sharers : child[c][a] = "M") /\ ~Exclusive(e.state))
  BY DEF EvictCC
<1> HIDE DEF lost
<1>4. a \in L => fault' = FALSE
  BY <1>1, <1>2, <1>3 DEF EntryExact, Exclusive
<1>5. \A c \in Child, b \in Addr :
        child'[c][b] = IF ~lost /\ c \in e.sharers /\ b = a THEN "I" ELSE child[c][b]
  BY <1>3 DEF Invalidated
<1>6. /\ cc'[id].state = "I" /\ cc'[id].sharers = {}
      /\ \A i \in LineIds \ {id} : cc'[i] = cc[i]
  BY <1>1, <1>3 DEF Entries, Entry
<1>7. H1[id] = x /\ \A i \in LineIds \ {id} : H1[i] = H[i]
  BY DEF Held
<1> HIDE DEF H1
<1>8. ASSUME NEW i \in LineIds, H1[i] \in L PROVE EntryExact(H1[i], cc'[i], child')
  <2>1. CASE i = id
    BY <2>1, <1>6 DEF EntryExact
  <2>2. CASE i # id
    <3>1. EntryExact(H[i], cc[i], child) /\ cc[i] \in Entry /\ H[i] \in L
      BY <1>1, <1>7, <1>8, <2>2 DEF Directory, Entries
    <3>2. ASSUME NEW c \in cc[i].sharers PROVE child'[c][H[i]] = child[c][H[i]]
      <4>1. c \in Child /\ H[i] \in Addr
        BY <3>1 DEF EntryExact, Entry, Held
      <4>2. H[i] # a
        BY <4>1, <2>2, <3>1, <1>1 DEF Once
      <4> QED  BY <4>1, <4>2, <1>5
    <3> QED  BY <2>2, <3>1, <3>2, <1>6, <1>7 DEF EntryExact
  <2> QED  BY <2>1, <2>2
<1>9. ASSUME NEW c \in Child, NEW b \in Addr, b \in L, child'[c][b] # "I"
      PROVE  \E i \in LineIds : H1[i] = b /\ c \in cc'[i].sharers
  <2>1. child[c][b] # "I" /\ ~(c \in e.sharers /\ b = a)
    BY <1>2, <1>5, <1>9
  <2>2. PICK i \in LineIds : H[i] = b /\ c \in cc[i].sharers
    BY <1>9, <2>1 DEF Directory
  <2>3. i # id
    BY <2>1, <2>2
  <2> QED  BY <2>2, <2>3, <1>6, <1>7
<1>10. Directory(L, H1, cc', child')
  BY <1>8, <1>9 DEF Directory
<1> QED  BY <1>4, <1>5, <1>10 DEF H1

\* A free line id may come to hold a line that no child has.
LEMMA FillKeeps ==
  ASSUME NEW L, None \in L, NEW H \in Held, NEW C \in Entries, NEW copies,
         Directory(L, H, C, copies), NEW id \in LineIds, H[id] = None, NEW x
  PROVE  Directory(L, [H EXCEPT ![id] = x], C, copies)
<1> DEFINE H1 == [H EXCEPT ![id] = x]
<1>1. C[id].state = "I" /\ C[id].sharers = {}
  BY DEF Directory, EntryExact
<1>2. H1[id] = x /\ \A i \in LineIds \ {id} : H1[i] = H[i]
  BY DEF Held
<1> HIDE DEF H1
<1>3. ASSUME NEW i \in LineIds, H1[i] \in L PROVE EntryExact(H1[i], C[i], copies)
  BY <1>1, <1>2, <1>3 DEF Directory, EntryExact
<1>4. ASSUME NEW c \in Child, NEW b \in Addr, b \in L, copies[c][b] # "I"
      PROVE  \E i \in LineIds : H1[i] = b /\ c \in C[i].sharers
  BY <1>1, <1>2, <1>4 DEF Directory
<1>5. Directory(L, H1, C, copies)
  BY <1>3, <1>4 DEF Directory
<1> QED  BY <1>5 DEF H1

\* The children that have a line are the sharers of its line id.
LEMMA SharersHave ==
  ASSUME NEW L, NEW H \in Held, NEW C \in Entries, NEW copies,
         Once(L, H), Directory(L, H, C, copies),
         NEW id \in LineIds, H[id] \in Addr, H[id] \in L
  PROVE  \A c \in Child : copies[c][H[id]] # "I" <=> c \in C[id].sharers
<1>1. None \notin Addr
  BY InputAssumption
<1>2. ASSUME NEW c \in Child, copies[c][H[id]] # "I" PROVE c \in C[id].sharers
  BY <1>1, <1>2 DEF Directory, Once
<1>3. ASSUME NEW c \in C[id].sharers PROVE copies[c][H[id]] # "I"
  BY DEF Directory, EntryExact
<1> QED  BY <1>2, <1>3

\* When only one line and its line id change, only they need be looked at.
LEMMA LineChange ==
  ASSUME NEW L, NEW H \in Held, NEW C \in Entries, NEW copies,
         Once(L, H), Directory(L, H, C, copies),
         NEW id \in LineIds, H[id] \in Addr, NEW C1, NEW copies1,
         \A i \in LineIds \ {id} : C1[i] = C[i],
         \A c \in Child, b \in Addr : b # H[id] => copies1[c][b] = copies[c][b],
         H[id] \in L =>
           /\ EntryExact(H[id], C1[id], copies1)
           /\ \A c \in Child : copies1[c][H[id]] # "I" => c \in C1[id].sharers
  PROVE  Directory(L, H, C1, copies1)
<1>1. None \notin Addr
  BY InputAssumption
<1>2. ASSUME NEW i \in LineIds \ {id}, H[i] \in L PROVE EntryExact(H[i], C1[i], copies1)
  <2>1. EntryExact(H[i], C[i], copies) /\ C[i] \in Entry /\ C1[i] = C[i]
    BY <1>2 DEF Directory, Entries
  <2>2. ASSUME NEW c \in C[i].sharers PROVE copies1[c][H[i]] = copies[c][H[i]]
    <3>1. c \in Child /\ H[i] \in Addr
      BY <2>1 DEF EntryExact, Entry, Held
    <3>2. H[i] # H[id]
      BY <1>2, <3>1, <1>1 DEF Once
    <3> QED  BY <3>1, <3>2
  <2> QED  BY <2>1, <2>2 DEF EntryExact
<1>3. ASSUME NEW c \in Child, NEW b \in Addr, b \in L, copies1[c][b] # "I"
      PROVE  \E i \in LineIds : H[i] = b /\ c \in C1[i].sharers
  <2>1. CASE b = H[id]
    BY <2>1, <1>3
  <2>2. CASE b # H[id]
    <3>1. PICK i \in LineIds : H[i] = b /\ c \in C[i].sharers
      BY <1>3, <2>2 DEF Directory
    <3>2. i # id
      BY <2>2, <3>1
    <3> QED  BY <3>1, <3>2
  <2> QED  BY <2>1, <2>2
<1> QED  BY <1>2, <1>3 DEF Directory

\* The cache works on a request for a line that is under the request's id.
AtWork(L, H) ==
  /\ LLCTypeOK /\ H \in Held /\ Once(L, H) /\ Directory(L, H, cc, child)
  /\ req \in Work /\ H[req.id] = req.addr /\ req.addr \in L
  /\ req.type \in Requests(child[req.child][req.addr])

\* The entry that is worked on
LEMMA AtWorkFacts ==
  ASSUME NEW L, NEW H, AtWork(L, H)
  PROVE  /\ H \in Held /\ Once(L, H) /\ Directory(L, H, cc, child)
         /\ cc \in Entries /\ child \in AllCopies
         /\ req.child \in Child /\ req.addr \in Addr /\ req.id \in LineIds
         /\ H[req.id] = req.addr /\ req.addr \in L
         /\ EntryExact(req.addr, cc[req.id], child) /\ cc[req.id] \in Entry
         /\ \A c \in Child : child[c][req.addr] # "I" <=> c \in cc[req.id].sharers
<1>1. /\ H \in Held /\ Once(L, H) /\ Directory(L, H, cc, child)
      /\ cc \in Entries /\ child \in AllCopies
      /\ req.child \in Child /\ req.addr \in Addr /\ req.id \in LineIds
      /\ H[req.id] = req.addr /\ req.addr \in L
  BY DEF AtWork, LLCTypeOK, Work, Entries, AllCopies
<1>2. EntryExact(req.addr, cc[req.id], child) /\ cc[req.id] \in Entry
  BY <1>1 DEF Directory, Entries
<1>3. \A c \in Child : child[c][req.addr] # "I" <=> c \in cc[req.id].sharers
  BY <1>1, SharersHave
<1> QED  BY <1>1, <1>2, <1>3

\* A line that a child gives up leaves its directory entry exact.
LEMMA PutKeeps ==
  ASSUME NEW L, NEW H, AtWork(L, H), ProcessPut
  PROVE  /\ Directory(L, H, cc', child') /\ fault' = FALSE
         /\ child' = [child EXCEPT ![req.child][req.addr] = "I"]
<1> DEFINE c == req.child  a == req.addr  id == req.id  e == cc[id]
           e1 == [e EXCEPT !.state = IF req.type = "PUTX" THEN "M" ELSE @,
                           !.sharers = @ \ {c}]
<1>1. /\ H \in Held /\ Once(L, H) /\ Directory(L, H, cc, child)
      /\ cc \in Entries /\ child \in AllCopies
      /\ c \in Child /\ a \in Addr /\ id \in LineIds /\ H[id] = a /\ a \in L
      /\ EntryExact(a, e, child) /\ e \in Entry
      /\ \A d \in Child : child[d][a] # "I" <=> d \in e.sharers
  BY AtWorkFacts
<1>2. /\ req.type \in Puts /\ child' = [child EXCEPT ![c][a] = "I"]
      /\ cc' = [cc EXCEPT ![id].state = IF req.type = "PUTX" THEN "M" ELSE @,
                          ![id].sharers = @ \ {c}]
      /\ fault' = (\/ e.state = "I" \/ c \notin e.sharers
                   \/ req.type = "PUTX" /\ ~(Exclusive(e.state) /\ e.exclusive
                                             /\ e.sharers = {c}))
  BY DEF ProcessPut
<1>3. child[c][a] \in MESI
  BY <1>1 DEF AllCopies
<1>4. child[c][a] # "I" /\ (req.type = "PUTX" => child[c][a] = "M")
  BY <1>2, <1>3 DEF AtWork, Requests, Puts, Gets, MESI
<1>5. c \in e.sharers /\ e.state # "I"
  BY <1>1, <1>4 DEF EntryExact
<1>6. req.type = "PUTX" => Exclusive(e.state) /\ e.exclusive /\ e.sharers = {c}
  BY <1>1, <1>4, <1>5 DEF EntryExact, Exclusive
<1>7. fault' = FALSE
  BY <1>2, <1>5, <1>6
<1>8. /\ cc' = [cc EXCEPT ![id] = e1]
      /\ e1.sharers = e.sharers \ {c} /\ e1.exclusive = e.exclusive
      /\ e1.state = IF req.type = "PUTX" THEN "M" ELSE e.state
  BY <1>1, <1>2 DEF Entries, Entry
<1> HIDE DEF e1
<1>9. cc'[id] = e1 /\ \A i \in LineIds \ {id} : cc'[i] = cc[i]
  BY <1>1, <1>8 DEF Entries
<1>10. \A d \in Child, b \in Addr :
         child'[d][b] = IF d = c /\ b = a THEN "I" ELSE child[d][b]
  BY <1>1, <1>2 DEF AllCopies
<1>11. EntryExact(a, e1, child')
  <2>1. a # None
    BY <1>1, InputAssumption
  <2>2. e1.state # "I"
    BY <1>5, <1>8
  <2>3. ASSUME NEW d \in e1.sharers
        PROVE  /\ child'[d][a] # "I" /\ (Exclusive(child'[d][a]) <=> e1.exclusive)
               /\ e1.exclusive => e1.sharers = {d} /\ Exclusive(e1.state)
    <3>1. d \in e.sharers /\ d # c /\ d \in Child
      BY <1>1, <1>8 DEF Entry
    <3>2. child'[d][a] = child[d][a]
      BY <1>1, <1>10, <3>1
    <3>3. e.sharers # {c} /\ ~e.exclusive
      BY <1>1, <1>5, <3>1 DEF EntryExact
    <3> QED  BY <1>1, <1>8, <3>1, <3>2, <3>3 DEF EntryExact
  <2> QED  BY <2>1, <2>2, <2>3 DEF EntryExact
<1>12. \A d \in Child : child'[d][a] # "I" => d \in e1.sharers
  BY <1>1, <1>8, <1>10
<1>13. Directory(L, H, cc', child')
  BY <1>1, <1>9, <1>10, <1>11, <1>12, LineChange
<1> QED  BY <1>2, <1>7, <1>13

\* A child that reads a line: the directory lists it, and the child that had the
\* line in E or M, if any, keeps it in S.
LEMMA GETSKeeps ==
  ASSUME NEW L, NEW H, AtWork(L, H), ProcessGETS
  PROVE  LET c == req.child  a == req.addr IN
         /\ Directory(L, H, cc', child') /\ fault' = FALSE
         /\ child[c][a] = "I" /\ child'[c][a] \in {"S", "E"}
         /\ child'[c][a] = "E" => \A d \in Child \ {c} : child'[d][a] = "I"
         /\ \A d \in Child \ {c} :
              /\ child'[d][a] \in {"S", "I"}
              /\ child'[d][a] = child[d][a] \/ (Exclusive(child[d][a]) /\ child'[d][a] = "S")
         /\ \A d \in Child, b \in Addr : b # a => child'[d][b] = child[d][b]
<1> DEFINE c == req.child  a == req.addr  id == req.id  e == cc[id]
           s == IF e.state = "I" THEN "E" ELSE e.state
           owners == IF e.exclusive /\ Cardinality(e.sharers) = 1 THEN e.sharers ELSE {}
           wb == \E o \in owners : child[o][a] = "M"
           granted == IF e.sharers = {} /\ Exclusive(s) THEN "E" ELSE "S"
           e1 == [state |-> IF wb THEN "M" ELSE s, sharers |-> e.sharers \cup {c},
                  exclusive |-> granted = "E"]
<1>1. /\ H \in Held /\ Once(L, H) /\ Directory(L, H, cc, child)
      /\ cc \in Entries /\ child \in AllCopies
      /\ c \in Child /\ a \in Addr /\ id \in LineIds /\ H[id] = a /\ a \in L
      /\ EntryExact(a, e, child) /\ e \in Entry
      /\ \A d \in Child : child[d][a] # "I" <=> d \in e.sharers
  BY AtWorkFacts
<1>2. /\ req.type = "GETS"
      /\ child' = [Invalidated(owners, a, "INVX") EXCEPT ![c][a] = granted]
      /\ cc' = [cc EXCEPT ![id] = e1]
      /\ fault' = (\/ c \in e.sharers
                   \/ \E o \in owners : Lost(o, a, "INVX")
                   \/ wb /\ ~Exclusive(s))
  BY DEF ProcessGETS
<1>3. child[c][a] = "I"
  <2>1. child[c][a] \in MESI
    BY <1>1 DEF AllCopies
  <2> QED  BY <1>2, <2>1 DEF AtWork, Requests, Puts, Gets, MESI
<1>4. c \notin e.sharers
  BY <1>1, <1>3
<1>5. owners = IF e.exclusive THEN e.sharers ELSE {}
  <2>1. ASSUME e.exclusive, e.sharers # {} PROVE Cardinality(e.sharers) = 1
    <3>1. PICK o : o \in e.sharers
      BY <2>1
    <3>2. e.sharers = {o}
      BY <1>1, <2>1, <3>1 DEF EntryExact
    <3> QED  BY <3>2, FS_Singleton
  <2> QED  BY <2>1
<1>6. \A d \in e.sharers : (Exclusive(child[d][a]) <=> e.exclusive) /\ child[d][a] # "I"
  BY <1>1 DEF EntryExact
<1>7. /\ e.sharers # {} => e.state # "I"
      /\ e.exclusive /\ e.sharers # {} => Exclusive(e.state)
      /\ s # "I"
  BY <1>1 DEF EntryExact
<1> HIDE DEF owners
<1>8. fault' = FALSE
  <2>1. ~(\E o \in owners : Lost(o, a, "INVX"))
    BY <1>5, <1>6 DEF Lost
  <2>2. ~(wb /\ ~Exclusive(s))
    BY <1>5, <1>7
  <2> QED  BY <1>2, <1>4, <2>1, <2>2
<1>9. \A d \in Child, b \in Addr :
        child'[d][b] = IF d = c /\ b = a THEN granted
                       ELSE IF d \in owners /\ b = a THEN "S" ELSE child[d][b]
  <2> DEFINE inv == Invalidated(owners, a, "INVX")
  <2>1. \A d \in Child, b \in Addr :
          inv[d][b] = IF d \in owners /\ b = a THEN "S" ELSE child[d][b]
    BY DEF Invalidated
  <2>2. inv \in AllCopies
    BY InvalidatedType DEF AtWork, AllCopies
  <2> HIDE DEF inv, granted
  <2> QED  BY <1>1, <1>2, <2>1, <2>2 DEF inv, AllCopies
<1>10. cc'[id] = e1 /\ \A i \in LineIds \ {id} : cc'[i] = cc[i]
  BY <1>1, <1>2 DEF Entries
<1>11. /\ e1.sharers = e.sharers \cup {c} /\ (e1.exclusive <=> granted = "E")
       /\ e1.state # "I"
       /\ granted = "E" => e.sharers = {} /\ Exclusive(s) /\ ~wb /\ e1.state = s
  BY <1>5, <1>7
<1>12. \A d \in Child \ {c} :
         /\ child'[d][a] \in {"S", "I"}
         /\ child'[d][a] = child[d][a] \/ (Exclusive(child[d][a]) /\ child'[d][a] = "S")
         /\ child'[d][a] # "I" <=> d \in e.sharers
  <2> SUFFICES ASSUME NEW d \in Child \ {c}
               PROVE  /\ child'[d][a] \in {"S", "I"}
                      /\ \/ child'[d][a] = child[d][a]
                         \/ Exclusive(child[d][a]) /\ child'[d][a] = "S"
                      /\ child'[d][a] # "I" <=> d \in e.sharers
    OBVIOUS
  <2>1. child'[d][a] = IF d \in owners THEN "S" ELSE child[d][a]
    BY <1>1, <1>9
  <2>2. child[d][a] \in MESI /\ (child[d][a] # "I" <=> d \in e.sharers)
    BY <1>1 DEF AllCopies
  <2>3. CASE d \in e.sharers /\ e.exclusive
    BY <1>5, <1>6, <2>1, <2>2, <2>3
  <2>4. CASE d \in e.sharers /\ ~e.exclusive
    BY <1>5, <1>6, <2>1, <2>2, <2>4 DEF Exclusive, MESI
  <2>5. CASE d \notin e.sharers
    BY <1>5, <2>1, <2>2, <2>5
  <2> QED  BY <2>3, <2>4, <2>5
<1>13. child'[c][a] = granted
  BY <1>1, <1>9
<1>14. EntryExact(a, e1, child')
  <2>1. a # None
    BY <1>1, InputAssumption
  <2>2. ASSUME NEW d \in e1.sharers
        PROVE  /\ child'[d][a] # "I" /\ (Exclusive(child'[d][a]) <=> e1.exclusive)
               /\ e1.exclusive => e1.sharers = {d} /\ Exclusive(e1.state)
    <3> HIDE DEF e1
    <3>1. CASE d = c
      BY <3>1, <1>11, <1>13 DEF Exclusive
    <3>2. CASE d # c
      <4>1. d \in e.sharers /\ d \in Child
        BY <1>1, <1>11, <3>2 DEF Entry
      <4>2. child'[d][a] = "S"
        BY <4>1, <3>2, <1>12
      <4> QED  BY <4>1, <4>2, <1>11 DEF Exclusive
    <3> QED  BY <3>1, <3>2
  <2> QED  BY <2>1, <2>2, <1>11 DEF EntryExact
<1>15. \A d \in Child : child'[d][a] # "I" => d \in e1.sharers
  BY <1>11, <1>12
<1>16. \A d \in Child, b \in Addr : b # a => child'[d][b] = child[d][b]
  BY <1>9
<1> HIDE DEF e1
<1>17. Directory(L, H, cc', child')
  BY <1>1, <1>10, <1>14, <1>15, <1>16, LineChange
<1>18. granted = "E" => \A d \in Child \ {c} : child'[d][a] = "I"
  BY <1>11, <1>12
<1> QED  BY <1>3, <1>8, <1>12, <1>13, <1>16, <1>17, <1>18

\* A child that writes a line: it alone has it.
LEMMA GETXKeeps ==
  ASSUME NEW L, NEW H, AtWork(L, H), ProcessGETX
  PROVE  LET c == req.child  a == req.addr IN
         /\ Directory(L, H, cc', child') /\ fault' = FALSE
         /\ child'[c][a] = "M" /\ \A d \in Child \ {c} : child'[d][a] = "I"
         /\ \A d \in Child, b \in Addr : b # a => child'[d][b] = child[d][b]
<1> DEFINE c == req.child  a == req.addr  id == req.id  e == cc[id]
           others == e.sharers \ {c}
           e1 == [state |-> "M", sharers |-> {c}, exclusive |-> TRUE]
<1>1. /\ H \in Held /\ Once(L, H) /\ Directory(L, H, cc, child)
      /\ cc \in Entries /\ child \in AllCopies
      /\ c \in Child /\ a \in Addr /\ id \in LineIds /\ H[id] = a /\ a \in L
      /\ EntryExact(a, e, child) /\ e \in Entry
      /\ \A d \in Child : child[d][a] # "I" <=> d \in e.sharers
  BY AtWorkFacts
<1>2. /\ req.type = "GETX"
      /\ child' = [Invalidated(others, a, "INV") EXCEPT ![c][a] = "M"]
      /\ cc' = [cc EXCEPT ![id] = e1]
      /\ fault' = (\/ e.exclusive /\ e.sharers = {c}
                   \/ \E o \in others : Lost(o, a, "INV"))
  BY DEF ProcessGETX
<1>3. child[c][a] \in {"S", "I"}
  <2>1. child[c][a] \in MESI
    BY <1>1 DEF AllCopies
  <2> QED  BY <1>2, <2>1 DEF AtWork, Requests, Puts, Gets, MESI
<1>4. ~(e.exclusive /\ e.sharers = {c})
  BY <1>1, <1>3 DEF EntryExact, Exclusive
<1>5. \A o \in others : child[o][a] # "I"
  BY <1>1 DEF EntryExact
<1>6. fault' = FALSE
  BY <1>2, <1>4, <1>5 DEF Lost
<1>7. \A d \in Child, b \in Addr :
        child'[d][b] = IF d = c /\ b = a THEN "M"
                       ELSE IF d \in others /\ b = a THEN "I" ELSE child[d][b]
  <2> DEFINE inv == Invalidated(others, a, "INV")
  <2>1. \A d \in Child, b \in Addr :
          inv[d][b] = IF d \in others /\ b = a THEN "I" ELSE child[d][b]
    BY DEF Invalidated
  <2>2. inv \in AllCopies
    BY InvalidatedType DEF AtWork, AllCopies
  <2> HIDE DEF inv, others
  <2> QED  BY <1>1, <1>2, <2>1, <2>2 DEF inv, AllCopies
<1>8. cc'[id] = e1 /\ \A i \in LineIds \ {id} : cc'[i] = cc[i]
  BY <1>1, <1>2 DEF Entries
<1>9. \A d \in Child \ {c} : child'[d][a] = "I"
  BY <1>1, <1>7
<1>10. child'[c][a] = "M"
  BY <1>1, <1>7
<1>11. EntryExact(a, e1, child')
  <2>1. a # None
    BY <1>1, InputAssumption
  <2> QED  BY <2>1, <1>10 DEF EntryExact, Exclusive
<1>12. \A d \in Child : child'[d][a] # "I" => d \in e1.sharers
  BY <1>9
<1>13. \A d \in Child, b \in Addr : b # a => child'[d][b] = child[d][b]
  BY <1>7
<1> HIDE DEF e1
<1>14. Directory(L, H, cc', child')
  BY <1>1, <1>8, <1>11, <1>12, <1>13, LineChange
<1> QED  BY <1>6, <1>9, <1>10, <1>13, <1>14

\* When nothing changes about the lines in L, nothing changes in their directory.
LEMMA OthersChange ==
  ASSUME NEW L, L \subseteq Addr, NEW H, NEW C \in Entries, NEW copies,
         Directory(L, H, C, copies), NEW H1, NEW C1, NEW copies1,
         \A i \in LineIds : H[i] \in L \/ H1[i] \in L => H1[i] = H[i] /\ C1[i] = C[i],
         \A c \in Child, b \in L : copies1[c][b] = copies[c][b]
  PROVE  Directory(L, H1, C1, copies1)
<1>1. ASSUME NEW i \in LineIds, H1[i] \in L PROVE EntryExact(H1[i], C1[i], copies1)
  <2>1. H1[i] = H[i] /\ C1[i] = C[i] /\ C[i] \in Entry /\ EntryExact(H[i], C[i], copies)
    BY <1>1 DEF Directory, Entries
  <2>2. \A c \in C[i].sharers : copies1[c][H[i]] = copies[c][H[i]]
    BY <1>1, <2>1 DEF Entry
  <2> QED  BY <2>1, <2>2 DEF EntryExact
<1>2. ASSUME NEW c \in Child, NEW b \in Addr, b \in L, copies1[c][b] # "I"
      PROVE  \E i \in LineIds : H1[i] = b /\ c \in C1[i].sharers
  <2>1. PICK i \in LineIds : H[i] = b /\ c \in C[i].sharers
    BY <1>2 DEF Directory
  <2> QED  BY <1>2, <2>1
<1> QED  BY <1>1, <1>2 DEF Directory

\* A line in the cache has one line id, whose sharers are the children with a copy.
LEMMA LineTracked ==
  ASSUME LLCInv, NEW L, Once(L, Holding), Directory(L, Holding, cc, child),
         NEW a \in Addr, a \in L
  PROVE  Tracked(a)
<1>1. a # None /\ \A i \in LineIds : cc[i] \in Entry
  BY InputAssumption DEF LLCInv, LLCTypeOK
<1>2. \A i \in HoldersOf(a) : i \in LineIds /\ Holding[i] = a
  BY HoldingIs, IdsApart DEF HoldersOf
<1>3. Cardinality(HoldersOf(a)) <= 1
  <2>1. CASE HoldersOf(a) = {}
    BY <2>1, FS_EmptySet
  <2>2. CASE HoldersOf(a) # {}
    <3>1. PICK i : i \in HoldersOf(a)
      BY <2>2
    <3>2. \A k \in HoldersOf(a) : k = i
      BY <1>1, <1>2, <3>1 DEF Once
    <3>3. HoldersOf(a) = {i}
      BY <3>1, <3>2
    <3>4. Cardinality({i}) = 1
      BY FS_Singleton
    <3> QED  BY <3>3, <3>4
  <2> QED  BY <2>1, <2>2
<1>4. ASSUME NEW c \in Child, child[c][a] # "I"
      PROVE  \E i \in HoldersOf(a) : c \in cc[i].sharers
  <2>1. PICK i \in LineIds : Holding[i] = a /\ c \in cc[i].sharers
    BY <1>1, <1>4 DEF Directory
  <2>2. cc[i].state # "I"
    BY <1>1, <2>1 DEF Directory, EntryExact
  <2>3. CASE i \in TagIds
    BY <2>1, <2>2, <2>3, HoldingIs DEF HoldersOf
  <2>4. CASE i \notin TagIds
    <3>1. PICK t \in TagIds : i = DpgId(t)
      BY <2>4, IdsApart
    <3> QED  BY <2>1, <3>1, HoldingIs DEF HoldersOf
  <2> QED  BY <2>3, <2>4
<1>5. ASSUME NEW i \in HoldersOf(a), NEW c \in cc[i].sharers
      PROVE  c \in Child /\ child[c][a] # "I"
  BY <1>1, <1>2 DEF Directory, EntryExact, Entry
<1> QED  BY <1>3, <1>4, <1>5 DEF Tracked

-----------------------------------------------------------------------------
(* Requests                                                                *)

\* What may have become of a line since its child asked for it
SinceRequest(initial, s) ==
  \/ s = initial \/ s = "I"
  \/ s = "S" /\ Exclusive(initial)

\* A request that the child made when it had the line in its initial state, and
\* has it in s now
Timely(r, s) == r.type \in Requests(r.initial) /\ SinceRequest(r.initial, s)

\* A child keeps what it has of a line, or gives up (part of) it.
Kept(d, b) ==
  \/ child'[d][b] = child[d][b]
  \/ child'[d][b] = "I"
  \/ Exclusive(child[d][b]) /\ child'[d][b] = "S"

\* A request stays up to date while its child keeps what it has.
LEMMA TimelyStays ==
  ASSUME NEW r, NEW c, Timely(r, child[c][r.addr]), Kept(c, r.addr)
  PROVE  Timely(r, child'[c][r.addr])
BY DEF Timely, Kept, SinceRequest, Exclusive

\* A request that CheckForMESIRace lets through is one the child would make now.
LEMMA StartedRight ==
  ASSUME LLCTypeOK, NEW c \in Child, Ready(c), ~Skipped(c),
         Timely(pending[c], child[c][pending[c].addr])
  PROVE  /\ PatchedType(c) \in Requests(child[c][pending[c].addr])
         /\ ~Impossible(c)
         /\ pending[c].type \in Puts => child[c][pending[c].addr] # "I"
<1> DEFINE r == pending[c]  s == child[c][r.addr]
<1>1. r \in Request
  BY DEF LLCTypeOK, Ready
<1>2. r.type \in Requests(r.initial) /\ SinceRequest(r.initial, s)
  BY DEF Timely
<1>3. r.initial \in MESI /\ s \in MESI
  BY <1>1 DEF LLCTypeOK, Request
<1>4. ~(r.type \in Puts /\ s # r.initial /\ s = "I")
  BY DEF Skipped, Racy
<1> HIDE DEF r, s
<1>5. /\ (IF r.type = "PUTX" /\ s = "S" THEN "PUTS" ELSE r.type) \in Requests(s)
      /\ r.type \in Puts => s # "I"
      /\ s # r.initial => /\ r.type # "GETS"
                          /\ r.type = "GETX" => r.initial = "S" /\ s = "I"
                          /\ r.type \in Puts => s \in {"S", "I"}
  <2>1. CASE s = r.initial
    BY <2>1, <1>2, <1>3 DEF Requests, Puts, Gets, MESI
  <2>2. CASE s = "I" /\ s # r.initial
    BY <2>2, <1>2, <1>3, <1>4 DEF Requests, Puts, Gets, MESI
  <2>3. CASE s = "S" /\ s # r.initial
    BY <2>3, <1>2, <1>3 DEF SinceRequest, Exclusive, Requests, Puts, Gets, MESI
  <2> QED  BY <2>1, <2>2, <2>3, <1>2 DEF SinceRequest
<1> QED  BY <1>5 DEF r, s, PatchedType, Impossible, Racy

-----------------------------------------------------------------------------
(* 4. Coherence of the whole cache                                         *)

Stable == WriteWhileCached = FALSE /\ RegionChanges = FALSE

\* Every line id's entry is looked at, of those too that hold no line.
AllLines == Addr \cup {None}

\* Approximable lines are in tags and the others in the exact array, each once
\* and where lookup searches; and the map of a line in a tag is the one its
\* data entry was chosen by.
LinesInPlace ==
  /\ approx = Registered
  /\ \A i \in TagIds : array[i] # None =>
       array[i] \notin Registered /\ i \in TagCands(array[i])
  /\ \A i, k \in TagIds : array[i] = array[k] /\ array[i] # None => i = k
  /\ \A t \in TagIds : array_t[t].addr # None =>
       /\ array_t[t].addr \in Registered
       /\ map[array_t[t].addr] = array_d[array_t[t].data_id].map_value

\* A request is for the array that its line belongs to, and up to date.
RequestsInTime ==
  \A c \in Child : pending[c] # NoRequest =>
    LET r == pending[c] IN
    r.approx = (r.addr \in Registered) /\ Timely(r, child[c][r.addr])

\* The request the cache works on is one a child waits for, in its line id; in
\* the middle of an access to the array it evicts for an insertion.
WorkInHand ==
  req.pc # "idle" =>
    /\ pending[req.child] # NoRequest /\ pending[req.child].addr = req.addr
    /\ req.type \in Requests(child[req.child][req.addr])
    /\ req.pc = "process" => Holding[req.id] = req.addr
    /\ req.pc = "array" =>
         /\ req.addr \in Registered /\ op.addr = req.addr /\ req.id = DpgId(op.tag)
         /\ op.pc = "evict" => op.insert /\ op.map = map[op.addr]

Coherence ==
  /\ ~fault
  /\ LinesInPlace
  /\ Directory(AllLines, Holding, cc, child)
  /\ RequestsInTime
  /\ WorkInHand

-----------------------------------------------------------------------------
(* Line ids and what they hold                                             *)

\* A line is in the cache once.
LEMMA HoldsOnce == LLCInv /\ LinesInPlace => Once(AllLines, Holding)
<1> SUFFICES ASSUME LLCInv, LinesInPlace, NEW i \in LineIds, NEW k \in LineIds,
                    Holding[i] = Holding[k], Holding[i] # None
             PROVE  i = k
  BY DEF Once, AllLines
<1>1. \A n \in LineIds : Holding[n] = IF n \in TagIds THEN array[n]
                                     ELSE array_t[n - numLines].addr
  BY DEF Holding
<1>2. CASE i \in TagIds /\ k \in TagIds
  BY <1>1, <1>2 DEF LinesInPlace
<1>3. CASE i \in TagIds /\ k \notin TagIds
  BY <1>1, <1>3, IdsApart DEF LinesInPlace
<1>4. CASE i \notin TagIds /\ k \in TagIds
  BY <1>1, <1>4, IdsApart DEF LinesInPlace
<1>5. CASE i \notin TagIds /\ k \notin TagIds
  <2>1. /\ i - numLines \in TagIds /\ i = DpgId(i - numLines)
        /\ k - numLines \in TagIds /\ k = DpgId(k - numLines)
    BY <1>5, IdsApart
  <2>2. /\ array_t[i - numLines].addr = array_t[k - numLines].addr
        /\ array_t[i - numLines].addr # None
    BY <1>1, <1>5
  <2>3. i - numLines = k - numLines
    BY <2>1, <2>2 DEF LLCInv, IInv, OneTagPerAddr, TagInItsSet
  <2> QED  BY <2>1, <2>3
<1> QED  BY <1>2, <1>3, <1>4, <1>5

\* What LinesInPlace says of the tags
TagsInPlace(T, D) ==
  \A t \in TagIds : T[t].addr # None =>
    T[t].addr \in Registered /\ map[T[t].addr] = D[T[t].data_id].map_value

\* A data entry that a tag shares has a head.
LEMMA HeadExists ==
  ASSUME NEW T \in Tags, NEW D \in Datas, Linked(T, D), Acyclic(T),
         NEW u \in TagIds, T[u].data_id # None
  PROVE  D[T[u].data_id].tag_head_id # None
<1> DEFINE d == T[u].data_id  S == {v \in TagIds : T[v].data_id = d}
<1>1. PICK v \in S : T[v].next \notin S
  <2>1. S \in SUBSET TagIds /\ S # {} /\ \A w \in S : T[w].data_id # None
    OBVIOUS
  <2> HIDE DEF S
  <2> QED  BY <2>1 DEF Acyclic
<1>2. T[v].next \in TagIds \cup {None} /\ v \in TagIds /\ T[v].data_id = d
  BY <1>1 DEF Tags, TagEntry
<1>3. T[v].next = None
  <2> SUFFICES ASSUME T[v].next # None PROVE FALSE
    OBVIOUS
  <2>1. T[T[v].next].data_id = d
    BY <1>2 DEF Linked
  <2> QED  BY <1>1, <1>2, <2>1
<1>4. D[d].tag_head_id = v
  BY <1>2, <1>3 DEF Linked
<1> QED  BY <1>2, <1>4, NoneIsNoId

\* A tag is removed: the others keep their line, data entry and map.
LEMMA TagGone ==
  ASSUME LLCInv, LinesInPlace, NEW t \in TagIds, array_t[t].data_id # None,
         array_t' = RemoveTagT(array_t, t), array_d' = RemoveTagD(array_t, array_d, t),
         array' = array
  PROVE  /\ TagsInPlace(array_t', array_d')
         /\ Holding' = [Holding EXCEPT ![DpgId(t)] = None]
<1>1. /\ array_t' \in Tags /\ array_d' \in Datas
      /\ Linked(array_t', array_d') /\ Acyclic(array_t')
      /\ array_t'[t] = FreeTag
      /\ \A u \in TagIds \ {t} : /\ array_t'[u].addr = array_t[u].addr
                                 /\ array_t'[u].data_id = array_t[u].data_id
      /\ \A c \in DataIds : array_d'[c].tag_head_id # None =>
           /\ array_d[c].tag_head_id # None
           /\ array_d'[c].map_value = array_d[c].map_value
  BY TypeFacts, RemoveTagOK DEF LLCInv
<1>2. ASSUME NEW u \in TagIds, array_t'[u].addr # None
      PROVE  /\ array_t'[u].addr \in Registered
             /\ map[array_t'[u].addr] = array_d'[array_t'[u].data_id].map_value
  <2>1. u # t
    BY <1>1, <1>2 DEF FreeTag
  <2>2. array_t[u].addr # None /\ array_t[u].data_id # None
    BY <1>1, <1>2, <2>1 DEF LLCInv, IInv, TagInItsSet, Occupied
  <2>3. array_t'[u].data_id \in DataIds
    BY <1>1, <2>1, <2>2 DEF Tags, TagEntry
  <2>4. array_d'[array_t'[u].data_id].tag_head_id # None
    BY <1>1, <2>1, <2>2, HeadExists
  <2> QED  BY <1>1, <2>1, <2>2, <2>3, <2>4 DEF LinesInPlace
<1>3. Holding' = [Holding EXCEPT ![DpgId(t)] = None]
  <2>1. ASSUME NEW i \in LineIds
        PROVE  (IF i \in TagIds THEN array'[i] ELSE array_t'[i - numLines].addr)
                 = IF i = DpgId(t) THEN None ELSE Holding[i]
    BY <1>1, IdsApart DEF Holding, FreeTag
  <2> QED  BY <2>1 DEF Holding
<1> QED  BY <1>2, <1>3 DEF TagsInPlace

\* A tag that holds nothing gets a line, in a data entry of its map.
LEMMA TagFilled ==
  ASSUME LLCInv, LinesInPlace, NEW t \in TagIds, NEW a \in Registered, array' = array,
         \A u \in TagIds : array_t'[u].addr = IF u = t THEN a ELSE array_t[u].addr,
         array_d'[array_t'[t].data_id].map_value = map[a],
         \A u \in TagIds \ {t} : array_t[u].data_id # None =>
           /\ array_t'[u].data_id = array_t[u].data_id
           /\ array_d'[array_t[u].data_id].map_value = array_d[array_t[u].data_id].map_value
  PROVE  /\ TagsInPlace(array_t', array_d')
         /\ Holding' = [Holding EXCEPT ![DpgId(t)] = a]
<1>1. ASSUME NEW u \in TagIds, array_t'[u].addr # None
      PROVE  /\ array_t'[u].addr \in Registered
             /\ map[array_t'[u].addr] = array_d'[array_t'[u].data_id].map_value
  <2>1. CASE u = t
    BY <2>1
  <2>2. CASE u # t
    <3>1. array_t[u].addr # None /\ array_t[u].data_id # None
      BY <1>1, <2>2 DEF LLCInv, IInv, TagInItsSet, Occupied
    <3> QED  BY <2>2, <3>1 DEF LinesInPlace
  <2> QED  BY <2>1, <2>2
<1>2. Holding' = [Holding EXCEPT ![DpgId(t)] = a]
  <2>1. ASSUME NEW i \in LineIds
        PROVE  (IF i \in TagIds THEN array'[i] ELSE array_t'[i - numLines].addr)
                 = IF i = DpgId(t) THEN a ELSE Holding[i]
    BY IdsApart DEF Holding
  <2> QED  BY <2>1 DEF Holding
<1> QED  BY <1>1, <1>2 DEF TagsInPlace
-----------------------------------------------------------------------------
(* Requests                                                                *)

\* Requests stay in time when no child gets more than it has.
LEMMA RequestsStay ==
  ASSUME LLCTypeOK, RequestsInTime,
         \A d \in Child : pending'[d] # NoRequest =>
           pending'[d] = pending[d] /\ \A b \in Addr : Kept(d, b)
  PROVE  RequestsInTime'
<1> SUFFICES ASSUME NEW c \in Child, pending'[c] # NoRequest
             PROVE  /\ pending'[c].approx = (pending'[c].addr \in Registered)
                    /\ Timely(pending'[c], child'[c][pending'[c].addr])
  BY DEF RequestsInTime
<1>1. pending'[c] = pending[c] /\ pending[c] # NoRequest /\ pending[c] \in Request
  BY DEF LLCTypeOK
<1>2. Kept(c, pending[c].addr)
  BY <1>1 DEF Request
<1> QED  BY <1>1, <1>2, TimelyStays DEF RequestsInTime

\* A request that the cache starts on is one the child would make now.
LEMMA RightRequest ==
  ASSUME LLCTypeOK, RequestsInTime, NEW c \in Child, Ready(c), ~Skipped(c)
  PROVE  /\ PatchedType(c) \in Requests(child[c][pending[c].addr])
         /\ ~Impossible(c)
         /\ pending[c].type \in Puts => child[c][pending[c].addr] # "I"
         /\ pending[c] \in Request
         /\ pending[c].approx = (pending[c].addr \in Registered)
<1>1. pending[c] \in Request /\ pending[c] # NoRequest
  BY DEF LLCTypeOK, Ready
<1>2. /\ pending[c].approx = (pending[c].addr \in Registered)
      /\ Timely(pending[c], child[c][pending[c].addr])
  BY <1>1 DEF RequestsInTime
<1> QED  BY <1>1, <1>2, StartedRight

\* No panic: the line that a child gives up is in the array that isApprox says.
LEMMA FoundAgain ==
  ASSUME LLCInv, Coherence, NEW c \in Child, Ready(c), ~Skipped(c)
  PROVE  ~Impossible(c) /\ ~LostInclusion(c)
<1> DEFINE a == pending[c].addr
<1>1. /\ ~Impossible(c) /\ a \in Addr
      /\ pending[c].type \in Puts => child[c][a] # "I"
      /\ pending[c].approx = (a \in Registered)
  BY RightRequest DEF LLCInv, Coherence, Request
<1>2. ASSUME pending[c].type \in Puts
      PROVE  (IF a \in Registered THEN Matches(a) ELSE ExactMatches(a)) # {}
  <2>1. PICK i \in LineIds : Holding[i] = a
    BY <1>1, <1>2 DEF Coherence, Directory, AllLines
  <2>2. a # None
    BY <1>1, InputAssumption
  <2>3. CASE i \in TagIds
    <3>1. array[i] = a
      BY <2>1, <2>3, HoldingIs
    <3> QED  BY <2>2, <2>3, <3>1 DEF Coherence, LinesInPlace, ExactMatches
  <2>4. CASE i \notin TagIds
    <3>1. PICK t \in TagIds : i = DpgId(t)
      BY <2>4, IdsApart
    <3>2. array_t[t].addr = a
      BY <2>1, <3>1, HoldingIs
    <3>3. a \in Registered /\ t \in Matches(a)
      BY <2>2, <3>2
         DEF Coherence, LinesInPlace, LLCInv, IInv, TagInItsSet, Occupied, Matches
    <3> QED  BY <3>3
  <2> QED  BY <2>3, <2>4
<1> QED  BY <1>1, <1>2 DEF LostInclusion
-----------------------------------------------------------------------------
(* The steps of the children and of the program                            *)

\* What Copies says of a step
Allowed == [Coherent!Next]_child

\* Children that give up one line do what Copies allows.
LEMMA GivenUp ==
  ASSUME LLCInv, LLCInv', NEW c \in Child, NEW l,
         \A d \in Child, b \in Addr :
           child'[d][b] = child[d][b] \/ (b = l /\ child'[d][b] = "I")
  PROVE  Allowed
<1>1. child \in AllCopies /\ child' \in AllCopies
  BY DEF LLCInv, LLCTypeOK, AllCopies
<1>2. CASE l \in Addr
  <2>1. \A d \in Child : child'[d][l] \in Coherent!Demoted(child[d][l])
    <3> SUFFICES ASSUME NEW d \in Child
                 PROVE  child'[d][l] \in Coherent!Demoted(child[d][l])
      OBVIOUS
    <3>1. child[d][l] \in MESI /\ child'[d][l] \in {child[d][l], "I"}
      BY <1>1, <1>2 DEF AllCopies
    <3> QED  BY <3>1 DEF Coherent!Demoted, MESI
  <2>2. \A d \in Child, k \in Addr \ {l} : child'[d][k] = child[d][k]
    OBVIOUS
  <2>3. Coherent!Change(c, l)
    BY <1>1, <2>1, <2>2 DEF Coherent!Change, Coherent!Granted, AllCopies, MESI
  <2> QED  BY <1>2, <2>3 DEF Allowed, Coherent!Next
<1>3. CASE l \notin Addr
  <2>1. \A d \in Child, b \in Addr : child'[d][b] = child[d][b]
    BY <1>3
  <2>2. \A d \in Child : child'[d] = child[d]
    <3> TAKE d \in Child
    <3>1. child'[d] \in [Addr -> MESI] /\ child[d] \in [Addr -> MESI]
      BY <1>1 DEF AllCopies
    <3> QED  BY <2>1, <3>1
  <2>3. child' = child
    BY <1>1, <2>2 DEF AllCopies
  <2> QED  BY <2>3 DEF Allowed
<1> QED  BY <1>2, <1>3

\* The map of a line in the cache stays.
LEMMA WriteKeeps ==
  ASSUME Stable, LLCInv, Coherence, NEW a \in Addr, NEW m \in Map, Write(a, m)
  PROVE  Coherence' /\ Allowed
<1>1. /\ op.addr # a /\ \A t \in TagIds : array_t[t].addr # a
      /\ map' = [map EXCEPT ![a] = m]
      /\ UNCHANGED <<array_t, array_d, op, ccVars>>
  BY DEF Stable, Write, ProgramWrite
<1>2. UNCHANGED <<child, pending, array, cc, approx, req, fault>>
  BY <1>1 DEF ccVars
<1>3. \A b \in Addr \ {a} : map'[b] = map[b]
  BY <1>1 DEF LLCInv, IInv, TypeOK
<1>4. LinesInPlace'
  BY <1>1, <1>2, <1>3, LLCAssumption DEF Coherence, LinesInPlace, TagCands
<1>5. Holding' = Holding
  BY <1>1, <1>2 DEF Holding
<1>6. (op.pc = "evict" => op.map = map[op.addr]) =>
        (op'.pc = "evict" => op'.map = map'[op'.addr])
  BY <1>1, <1>3 DEF LLCInv, IInv, TypeOK
<1>7. WorkInHand'
  BY <1>1, <1>2, <1>5, <1>6 DEF Coherence, WorkInHand
<1>8. RequestsInTime' /\ Directory(AllLines, Holding', cc', child') /\ ~fault'
  BY <1>2, <1>5 DEF Coherence, RequestsInTime
<1> QED  BY <1>2, <1>4, <1>7, <1>8 DEF Coherence, Allowed

\* A child writes a line that it has in E, and so the directory too.
LEMMA ChildWriteKeeps ==
  ASSUME LLCInv, LLCInv', Coherence, NEW c \in Child, NEW a \in Addr, ChildWrite(c, a)
  PROVE  Coherence' /\ Allowed
<1>1. /\ pending[c] = NoRequest /\ child[c][a] = "E"
      /\ child' = [child EXCEPT ![c][a] = "M"]
      /\ UNCHANGED <<array_t, array_d, map, op, pending, array, cc, approx, req, fault>>
  BY DEF ChildWrite, dpgVars
<1>2. /\ child \in AllCopies /\ child' \in AllCopies /\ cc \in Entries
      /\ Holding \in Held /\ Once(AllLines, Holding) /\ Directory(AllLines, Holding, cc, child)
  BY HoldsOnce, HoldingIs DEF Coherence, LLCInv, LLCTypeOK, AllCopies, Entries
<1>3. \A d \in Child, b \in Addr :
        child'[d][b] = IF d = c /\ b = a THEN "M" ELSE child[d][b]
  BY <1>1, <1>2 DEF AllCopies
<1>4. PICK i \in LineIds : Holding[i] = a /\ c \in cc[i].sharers
  BY <1>1, <1>2 DEF Directory, AllLines
<1>5. EntryExact(a, cc[i], child) /\ cc[i].sharers = {c}
  BY <1>1, <1>2, <1>4 DEF Directory, AllLines, EntryExact, Exclusive
<1>6. EntryExact(a, cc[i], child')
  BY <1>1, <1>3, <1>5 DEF EntryExact, Exclusive
<1>7. \A d \in Child : child[d][a] # "I" <=> d \in cc[i].sharers
  BY <1>2, <1>4, SharersHave DEF AllLines
<1>8. Directory(AllLines, Holding, cc, child')
  <2>1. \A d \in Child : child'[d][a] # "I" => d \in cc[i].sharers
    BY <1>3, <1>5, <1>7
  <2>2. \A d \in Child, b \in Addr : b # a => child'[d][b] = child[d][b]
    BY <1>3
  <2> QED  BY <1>2, <1>4, <1>6, <2>1, <2>2, LineChange
<1>9. Holding' = Holding
  BY <1>1 DEF Holding
<1>10. LinesInPlace'
  BY <1>1 DEF Coherence, LinesInPlace, TagCands
<1>11. RequestsInTime'
  <2>1. ASSUME NEW d \in Child, pending'[d] # NoRequest
        PROVE  pending'[d] = pending[d] /\ \A b \in Addr : Kept(d, b)
    BY <1>1, <1>3, <2>1 DEF Kept
  <2> QED  BY <2>1, RequestsStay DEF LLCInv, Coherence
<1>12. WorkInHand'
  <2>1. req.pc # "idle" => req.child \in Child /\ req.addr \in Addr /\ req.child # c
    BY <1>1 DEF Coherence, WorkInHand, LLCInv, LLCTypeOK, Work, NoReq
  <2> QED  BY <1>1, <1>3, <1>9, <2>1 DEF Coherence, WorkInHand
<1>13. Allowed
  <2>1. \A d \in Child \ {c} : child'[d][a] = "I"
    BY <1>3, <1>5, <1>7
  <2>2. \A d \in Child \ {c} : child'[d][a] \in Coherent!Demoted(child[d][a])
    BY <1>3, <2>1 DEF Coherent!Demoted
  <2>3. child'[c][a] = "M" /\ \A d \in Child, k \in Addr \ {a} : child'[d][k] = child[d][k]
    BY <1>3
  <2>4. Coherent!Change(c, a)
    BY <1>2, <2>1, <2>2, <2>3 DEF Coherent!Change, Coherent!Granted, AllCopies, MESI
  <2> QED  BY <2>4 DEF Allowed, Coherent!Next
<1>14. ~fault'
  BY <1>1 DEF Coherence
<1> QED  BY <1>1, <1>8, <1>9, <1>10, <1>11, <1>12, <1>13, <1>14 DEF Coherence

\* A child asks: the request is for what it has now.
LEMMA ChildRequestKeeps ==
  ASSUME LLCInv, Coherence, NEW c \in Child, NEW a \in Addr, NEW type \in Gets \cup Puts,
         ChildRequest(c, type, a)
  PROVE  Coherence' /\ Allowed
<1> DEFINE r == [type |-> type, addr |-> a, initial |-> child[c][a], approx |-> a \in approx]
<1>1. /\ pending[c] = NoRequest /\ type \in Requests(child[c][a])
      /\ pending' = [pending EXCEPT ![c] = r]
      /\ UNCHANGED <<array_t, array_d, map, op, child, array, cc, approx, req, fault>>
  BY DEF ChildRequest, dpgVars
<1>2. pending'[c] = r /\ \A d \in Child \ {c} : pending'[d] = pending[d]
  BY <1>1 DEF LLCInv, LLCTypeOK
<1>3. approx = Registered
  BY DEF Coherence, LinesInPlace
<1>4. RequestsInTime'
  <2> SUFFICES ASSUME NEW d \in Child, pending'[d] # NoRequest
               PROVE  /\ pending'[d].approx = (pending'[d].addr \in Registered)
                      /\ Timely(pending'[d], child'[d][pending'[d].addr])
    BY DEF RequestsInTime
  <2>1. CASE d = c
    BY <1>1, <1>2, <1>3, <2>1 DEF Timely, SinceRequest
  <2>2. CASE d # c
    BY <1>1, <1>2, <2>2 DEF Coherence, RequestsInTime
  <2> QED  BY <2>1, <2>2
<1>5. Holding' = Holding
  BY <1>1 DEF Holding
<1>6. LinesInPlace'
  BY <1>1 DEF Coherence, LinesInPlace, TagCands
<1>7. WorkInHand'
  <2>1. req.pc # "idle" => req.child \in Child /\ req.child # c
    BY <1>1 DEF Coherence, WorkInHand, LLCInv, LLCTypeOK, Work, NoReq
  <2> QED  BY <1>1, <1>2, <1>5, <2>1 DEF Coherence, WorkInHand
<1>8. Directory(AllLines, Holding', cc', child') /\ ~fault'
  BY <1>1, <1>5 DEF Coherence
<1> QED  BY <1>1, <1>4, <1>6, <1>7, <1>8 DEF Coherence, Allowed

\* A request that was overtaken is dropped.
LEMMA SkipKeeps ==
  ASSUME LLCInv, Coherence, NEW c \in Child, SkipAccess(c)
  PROVE  Coherence' /\ Allowed
<1>1. /\ req.pc = "idle" /\ pending' = [pending EXCEPT ![c] = NoRequest]
      /\ UNCHANGED <<array_t, array_d, map, op, child, array, cc, approx, req, fault>>
  BY DEF SkipAccess, Ready, dpgVars
<1>2. Holding' = Holding
  BY <1>1 DEF Holding
<1>3. RequestsInTime'
  <2>1. ASSUME NEW d \in Child, pending'[d] # NoRequest
        PROVE  pending'[d] = pending[d] /\ \A b \in Addr : Kept(d, b)
    BY <1>1, <2>1 DEF Kept, LLCInv, LLCTypeOK
  <2> QED  BY <2>1, RequestsStay DEF LLCInv, Coherence
<1>4. LinesInPlace' /\ WorkInHand' /\ Directory(AllLines, Holding', cc', child') /\ ~fault'
  BY <1>1, <1>2 DEF Coherence, LinesInPlace, WorkInHand, TagCands
<1> QED  BY <1>1, <1>3, <1>4 DEF Coherence, Allowed
-----------------------------------------------------------------------------
(* The steps of the cache                                                  *)

\* endAccess follows on a request that left the directory exact.
LEMMA AnswerKeeps ==
  ASSUME LLCInv, Coherence, req \in Work, Answer,
         Directory(AllLines, Holding, cc', child'), fault' = FALSE,
         \A d \in Child \ {req.child}, b \in Addr : Kept(d, b)
  PROVE  Coherence'
<1>1. /\ pending' = [pending EXCEPT ![req.child] = NoRequest] /\ req'.pc = "idle"
      /\ UNCHANGED <<array_t, array_d, map, op, array, approx>>
  BY DEF Answer, dpgVars, NoReq
<1>2. Holding' = Holding
  BY <1>1 DEF Holding
<1>3. RequestsInTime'
  <2>1. ASSUME NEW d \in Child, pending'[d] # NoRequest
        PROVE  pending'[d] = pending[d] /\ \A b \in Addr : Kept(d, b)
    BY <1>1, <2>1 DEF LLCInv, LLCTypeOK
  <2> QED  BY <2>1, RequestsStay DEF LLCInv, Coherence
<1>4. LinesInPlace' /\ WorkInHand' /\ Directory(AllLines, Holding', cc', child') /\ ~fault'
  BY <1>1, <1>2 DEF Coherence, LinesInPlace, WorkInHand, TagCands
<1> QED  BY <1>3, <1>4 DEF Coherence

\* The controller serves a request (processAccess).
LEMMA ProcessKeeps ==
  ASSUME LLCInv, LLCInv', Coherence, ProcessPut \/ ProcessGETS \/ ProcessGETX
  PROVE  Coherence' /\ Allowed
<1> DEFINE c == req.child  a == req.addr
<1>1. req.pc = "process" /\ Answer
  BY DEF ProcessPut, ProcessGETS, ProcessGETX
<1>2. req \in Work
  BY <1>1 DEF LLCInv, LLCTypeOK, NoReq
<1>3. AtWork(AllLines, Holding)
  BY <1>1, <1>2, HoldingIs, HoldsOnce DEF AtWork, AllLines, LLCInv, Coherence, WorkInHand, Work
<1>4. /\ c \in Child /\ a \in Addr /\ child \in AllCopies /\ child' \in AllCopies
  BY <1>2 DEF LLCInv, LLCTypeOK, Work, AllCopies
<1>5. CASE ProcessPut
  <2>1. /\ Directory(AllLines, Holding, cc', child') /\ fault' = FALSE
        /\ child' = [child EXCEPT ![c][a] = "I"]
    BY <1>3, <1>5, PutKeeps
  <2>2. \A d \in Child, b \in Addr :
          child'[d][b] = child[d][b] \/ (b = a /\ child'[d][b] = "I")
    BY <1>4, <2>1 DEF AllCopies
  <2>3. \A d \in Child \ {c}, b \in Addr : Kept(d, b)
    BY <2>2 DEF Kept
  <2>4. Coherence'
    BY <1>1, <1>2, <2>1, <2>3, AnswerKeeps
  <2>5. Allowed
    BY <1>4, <2>2, GivenUp
  <2> QED  BY <2>4, <2>5
<1>6. CASE ProcessGETS
  <2>1. /\ Directory(AllLines, Holding, cc', child') /\ fault' = FALSE
        /\ child[c][a] = "I" /\ child'[c][a] \in {"S", "E"}
        /\ child'[c][a] = "E" => \A d \in Child \ {c} : child'[d][a] = "I"
        /\ \A d \in Child \ {c} :
             /\ child'[d][a] \in {"S", "I"}
             /\ child'[d][a] = child[d][a] \/ (Exclusive(child[d][a]) /\ child'[d][a] = "S")
        /\ \A d \in Child, b \in Addr : b # a => child'[d][b] = child[d][b]
    BY <1>3, <1>6, GETSKeeps
  <2>2. \A d \in Child \ {c}, b \in Addr : Kept(d, b)
    BY <2>1 DEF Kept
  <2>3. \A d \in Child \ {c} : child'[d][a] \in Coherent!Demoted(child[d][a])
    BY <2>1 DEF Coherent!Demoted, Exclusive
  <2>4. Coherent!Change(c, a)
    BY <1>4, <2>1, <2>3 DEF Coherent!Change, Coherent!Granted, AllCopies, MESI
  <2> QED
    BY <1>1, <1>2, <1>4, <2>1, <2>2, <2>4, AnswerKeeps DEF Allowed, Coherent!Next
<1>7. CASE ProcessGETX
  <2>1. /\ Directory(AllLines, Holding, cc', child') /\ fault' = FALSE
        /\ child'[c][a] = "M" /\ \A d \in Child \ {c} : child'[d][a] = "I"
        /\ \A d \in Child, b \in Addr : b # a => child'[d][b] = child[d][b]
    BY <1>3, <1>7, GETXKeeps
  <2>2. \A d \in Child \ {c}, b \in Addr : Kept(d, b)
    BY <2>1 DEF Kept
  <2>3. \A d \in Child \ {c} : child'[d][a] \in Coherent!Demoted(child[d][a])
    <3> SUFFICES ASSUME NEW d \in Child \ {c}
                 PROVE  child'[d][a] \in Coherent!Demoted(child[d][a])
      OBVIOUS
    <3>1. child[d][a] \in MESI
      BY <1>4 DEF AllCopies
    <3> QED  BY <2>1, <3>1 DEF Coherent!Demoted, MESI
  <2>4. Coherent!Change(c, a)
    BY <1>4, <2>1, <2>3 DEF Coherent!Change, Coherent!Granted, AllCopies, MESI
  <2> QED
    BY <1>1, <1>2, <1>4, <2>1, <2>2, <2>4, AnswerKeeps DEF Allowed, Coherent!Next
<1> QED  BY <1>5, <1>6, <1>7

\* The children give up at most line l, another one than a.
Spared(a, l) ==
  /\ l # a
  /\ \A d \in Child, b \in Addr :
       child'[d][b] = child[d][b] \/ (b = l /\ child'[d][b] = "I")

\* The cache starts on the request of child c for line a, evicting line l.
LEMMA StartKeeps ==
  ASSUME LLCInv, LLCInv', Coherence, NEW c \in Child, Ready(c), ~Skipped(c),
         NEW pc \in {"array", "process"}, NEW id \in LineIds, Working(c, pc, id),
         UNCHANGED pending, fault' = FALSE, LinesInPlace',
         Directory(AllLines, Holding', cc', child'),
         NEW l, Spared(pending[c].addr, l),
         pc = "process" => Holding'[id] = pending[c].addr,
         pc = "array" => /\ pending[c].addr \in Registered
                         /\ op'.addr = pending[c].addr /\ id = DpgId(op'.tag)
                         /\ op'.pc # "evict"
  PROVE  Coherence' /\ Allowed
<1> DEFINE a == pending[c].addr
<1>1. /\ PatchedType(c) \in Requests(child[c][a]) /\ a \in Addr
      /\ pending[c] # NoRequest
  BY RightRequest DEF LLCInv, Coherence, Request, Ready
<1>2. /\ req'.pc = pc /\ req'.child = c /\ req'.type = PatchedType(c)
      /\ req'.addr = a /\ req'.id = id
  BY DEF Working
<1>3. child'[c][a] = child[c][a]
  BY <1>1 DEF Spared
<1>4. WorkInHand'
  BY <1>1, <1>2, <1>3 DEF WorkInHand
<1>5. RequestsInTime'
  <2>1. ASSUME NEW d \in Child, pending'[d] # NoRequest
        PROVE  pending'[d] = pending[d] /\ \A b \in Addr : Kept(d, b)
    BY DEF Spared, Kept
  <2> QED  BY <2>1, RequestsStay DEF LLCInv, Coherence
<1>6. Allowed
  BY GivenUp DEF Spared
<1> QED  BY <1>4, <1>5, <1>6 DEF Coherence

\* An exact request starts ...
LEMMA StartExactKeeps ==
  ASSUME LLCInv, LLCInv', Coherence, NEW c \in Child, StartExact(c)
  PROVE  Coherence' /\ Allowed
<1> DEFINE a == pending[c].addr
<1>1. /\ Ready(c) /\ ~Skipped(c) /\ a \in Addr /\ a \notin Registered /\ a # None
      /\ UNCHANGED <<array_t, array_d, map, op, pending, approx>>
  BY RightRequest, InputAssumption
     DEF StartExact, LLCInv, Coherence, Request, dpgVars
<1>2. PICK i \in TagIds :
        /\ \/ IsFirst(i, ExactMatches(a)) /\ UNCHANGED array /\ NoEvict
           \/ /\ ExactMatches(a) = {} /\ i \in TagCands(a)
              /\ EvictCC(i, array[i])
              /\ array' = [array EXCEPT ![i] = a]
        /\ Working(c, "process", i)
  BY DEF StartExact
<1>3. /\ i \in LineIds /\ Holding[i] = array[i] /\ Holding[i] \in AllLines
      /\ Holding \in Held
  BY HoldingIs, IdsApart DEF Held, AllLines
<1>4. CASE IsFirst(i, ExactMatches(a)) /\ UNCHANGED array /\ NoEvict
  <2>1. /\ UNCHANGED <<array, child, cc, fault>> /\ array[i] = a
    BY <1>4 DEF NoEvict, IsFirst, ExactMatches
  <2>2. Holding' = Holding
    BY <1>1, <2>1 DEF Holding
  <2>3. /\ LinesInPlace' /\ fault' = FALSE /\ Directory(AllLines, Holding', cc', child')
    BY <1>1, <2>1, <2>2 DEF Coherence, LinesInPlace, TagCands, LLCInv, LLCTypeOK
  <2>4. Spared(a, None)
    BY <1>1, <2>1 DEF Spared
  <2> QED  BY <1>1, <1>2, <1>3, <2>1, <2>2, <2>3, <2>4, StartKeeps
<1>5. CASE /\ ExactMatches(a) = {} /\ i \in TagCands(a)
           /\ EvictCC(i, array[i]) /\ array' = [array EXCEPT ![i] = a]
  <2>1. /\ array'[i] = a /\ \A k \in TagIds \ {i} : array'[k] = array[k]
    BY <1>5 DEF LLCInv, LLCTypeOK
  <2>2. \A k \in TagIds : array[k] # a
    BY <1>1, <1>5 DEF Coherence, LinesInPlace, ExactMatches
  <2>3. Holding' = [Holding EXCEPT ![i] = a]
    <3>1. ASSUME NEW k \in LineIds
          PROVE  (IF k \in TagIds THEN array'[k] ELSE array_t'[k - numLines].addr)
                   = IF k = i THEN a ELSE Holding[k]
      BY <1>1, <2>1 DEF Holding
    <3> QED  BY <3>1 DEF Holding
  <2>4. /\ Directory(AllLines, [Holding EXCEPT ![i] = a], cc', child') /\ fault' = FALSE
        /\ \A d \in Child, b \in Addr :
             child'[d][b] = child[d][b] \/ (b = Holding[i] /\ child'[d][b] = "I")
    <3>1. LLCTypeOK /\ Once(AllLines, Holding) /\ Directory(AllLines, Holding, cc, child)
      BY HoldsOnce DEF LLCInv, Coherence
    <3>2. EvictCC(i, Holding[i])
      BY <1>3, <1>5
    <3> QED  BY <1>3, <3>1, <3>2, EvictKeeps
  <2>5. LinesInPlace'
    <3>1. \A k \in TagIds : array'[k] # None =>
            array'[k] \notin Registered /\ k \in TagCands(array'[k])
      BY <1>1, <1>5, <2>1 DEF Coherence, LinesInPlace
    <3>2. \A k, n \in TagIds : array'[k] = array'[n] /\ array'[k] # None => k = n
      BY <2>1, <2>2 DEF Coherence, LinesInPlace
    <3> QED  BY <1>1, <3>1, <3>2 DEF Coherence, LinesInPlace, TagCands
  <2>6. Spared(a, array[i])
    BY <1>3, <2>2, <2>4 DEF Spared
  <2>7. Holding'[i] = a
    BY <1>3, <2>3 DEF Held
  <2> QED  BY <1>1, <1>2, <1>3, <2>3, <2>4, <2>5, <2>6, <2>7, StartKeeps
<1> QED  BY <1>2, <1>4, <1>5
\* As the program does not change the map of a line in the cache, lookup never
\* finds that it has to be linked to another data entry.
LEMMA NoRemap ==
  ASSUME LLCInv, Coherence, NEW a \in Addr, NEW t \in TagIds, NEW update
  PROVE  ~LookupRemap(a, t, update)
<1>1. a # None
  BY InputAssumption
<1> QED  BY <1>1 DEF LookupRemap, IsFirst, Matches, Coherence, LinesInPlace

\* ... an approximable one ...
LEMMA StartApproxKeeps ==
  ASSUME LLCInv, LLCInv', Coherence, NEW c \in Child, StartApprox(c)
  PROVE  Coherence' /\ Allowed
<1> DEFINE a == pending[c].addr
           get == pending[c].type \in Gets
           pc == IF op'.pc = "idle" THEN "process" ELSE "array"
<1>1. /\ Ready(c) /\ ~Skipped(c) /\ a \in Addr /\ a \in Registered /\ a # None
      /\ UNCHANGED <<pending, array, approx>>
  BY RightRequest, InputAssumption DEF StartApprox, LLCInv, Coherence, Request
<1>2. PICK t \in TagIds :
        /\ \/ (LookupHit(a, t, get) \/ LookupRemap(a, t, get)) /\ NoEvict
           \/ PreinsertFreeTag(a, t) /\ NoEvict
           \/ PreinsertEvictTag(a, t) /\ EvictCC(DpgId(t), array_t[t].addr)
        /\ Working(c, pc, DpgId(t))
  BY DEF StartApprox
<1>3. /\ DpgId(t) \in LineIds /\ DpgId(t) \notin TagIds
      /\ Holding[DpgId(t)] = array_t[t].addr /\ Holding[DpgId(t)] \in AllLines
      /\ Holding \in Held /\ pc \in {"array", "process"}
  BY HoldingIs, IdsApart DEF Held, AllLines
<1>4. ASSUME UNCHANGED <<array_t, array_d, map>>, NoEvict,
             op'.pc = "idle" => array_t[t].addr = a,
             op'.pc # "idle" => op'.addr = a /\ op'.tag = t /\ op'.pc # "evict"
      PROVE  Coherence' /\ Allowed
  <2>1. Holding' = Holding
    BY <1>1, <1>4 DEF Holding
  <2>2. /\ LinesInPlace' /\ fault' = FALSE /\ Directory(AllLines, Holding', cc', child')
    BY <1>1, <1>4, <2>1
       DEF NoEvict, Coherence, LinesInPlace, TagCands, LLCInv, LLCTypeOK
  <2>3. Spared(a, None)
    BY <1>1, <1>4 DEF Spared, NoEvict
  <2>4. pc = "process" => Holding'[DpgId(t)] = a
    BY <1>3, <1>4, <2>1
  <2>5. pc = "array" => op'.addr = a /\ DpgId(t) = DpgId(op'.tag) /\ op'.pc # "evict"
    BY <1>4
  <2> HIDE DEF pc
  <2> QED  BY <1>1, <1>2, <1>3, <2>2, <2>3, <2>4, <2>5, StartKeeps
<1>5. CASE LookupHit(a, t, get) /\ NoEvict
  <2>1. UNCHANGED <<array_t, array_d, map, op>> /\ op.pc = "idle" /\ array_t[t].addr = a
    BY <1>5 DEF LookupHit, IsFirst, Matches
  <2> QED  BY <1>4, <1>5, <2>1
<1>6. CASE PreinsertFreeTag(a, t) /\ NoEvict
  <2>1. /\ UNCHANGED <<array_t, array_d, map>>
        /\ op'.pc = "insert" /\ op'.addr = a /\ op'.tag = t
    BY <1>6 DEF PreinsertFreeTag, Idle
  <2> QED  BY <1>4, <1>6, <2>1
<1>7. CASE PreinsertEvictTag(a, t) /\ EvictCC(DpgId(t), array_t[t].addr)
  <2>1. /\ array_t' = RemoveTagT(array_t, t) /\ array_d' = RemoveTagD(array_t, array_d, t)
        /\ op'.pc = "insert" /\ op'.addr = a /\ op'.tag = t /\ map' = map
        /\ array_t[t].data_id # None /\ array_t[t].addr # a
    BY <1>7 DEF PreinsertEvictTag, IsVictim, FreeTags, Matches, Idle
  <2>2. /\ TagsInPlace(array_t', array_d')
        /\ Holding' = [Holding EXCEPT ![DpgId(t)] = None]
    BY <1>1, <2>1, TagGone DEF Coherence
  <2>3. /\ Directory(AllLines, [Holding EXCEPT ![DpgId(t)] = None], cc', child') /\ fault' = FALSE
        /\ \A d \in Child, b \in Addr :
             child'[d][b] = child[d][b] \/ (b = Holding[DpgId(t)] /\ child'[d][b] = "I")
    <3>1. LLCTypeOK /\ Once(AllLines, Holding) /\ Directory(AllLines, Holding, cc, child)
      BY HoldsOnce DEF LLCInv, Coherence
    <3> DEFINE k == DpgId(t)
               H == Holding
    <3>2. /\ k \in LineIds /\ H \in Held /\ H[k] \in AllLines /\ EvictCC(k, H[k])
          /\ Once(AllLines, H) /\ Directory(AllLines, H, cc, child)
      BY <1>3, <1>7, <3>1
    <3> HIDE DEF k, H
    <3>3. /\ Directory(AllLines, [H EXCEPT ![k] = None], cc', child') /\ fault' = FALSE
          /\ \A d \in Child, b \in Addr :
               child'[d][b] = child[d][b] \/ (b = H[k] /\ child'[d][b] = "I")
      BY <3>1, <3>2, EvictKeeps
    <3> QED  BY <3>3 DEF k, H
  <2>4. LinesInPlace'
    BY <1>1, <2>1, <2>2 DEF Coherence, LinesInPlace, TagsInPlace, TagCands
  <2>5. Spared(a, array_t[t].addr)
    BY <1>3, <2>1, <2>3 DEF Spared
  <2> QED  BY <1>1, <1>2, <1>3, <2>1, <2>2, <2>3, <2>4, <2>5, StartKeeps
<1>8. ~LookupRemap(a, t, get)
  BY <1>1, NoRemap
<1> QED  BY <1>2, <1>5, <1>6, <1>7, <1>8
\* The access has found a data entry: its line is in the tag, and no child has it.
LEMMA Inserted ==
  ASSUME LLCInv, LLCInv', Coherence, NEW t \in TagIds, req.pc = "array",
         t = op.tag, array_t[t].data_id = None, NoEvict,
         UNCHANGED <<pending, array, approx, map>>,
         req' = [req EXCEPT !.pc = "process"],
         \A u \in TagIds : array_t'[u].addr = IF u = t THEN op.addr ELSE array_t[u].addr,
         array_d'[array_t'[t].data_id].map_value = map[op.addr],
         \A u \in TagIds \ {t} : array_t[u].data_id # None =>
           /\ array_t'[u].data_id = array_t[u].data_id
           /\ array_d'[array_t[u].data_id].map_value = array_d[array_t[u].data_id].map_value
  PROVE  Coherence' /\ Allowed
<1> DEFINE a == req.addr  id == req.id
<1>1. /\ a \in Registered /\ op.addr = a /\ id = DpgId(t) /\ id \in LineIds
      /\ pending[req.child] # NoRequest /\ pending[req.child].addr = a
      /\ req.type \in Requests(child[req.child][a])
  BY IdsApart DEF Coherence, WorkInHand
<1>2. /\ req'.pc = "process" /\ req'.child = req.child /\ req'.type = req.type
      /\ req'.addr = a /\ req'.id = id
  BY DEF LLCInv, LLCTypeOK, Work, NoReq
<1>3. Holding \in Held /\ Holding[id] = None
  BY <1>1, HoldingIs DEF LLCInv, IInv, TagInItsSet, Occupied
<1>4. /\ TagsInPlace(array_t', array_d')
      /\ Holding' = [Holding EXCEPT ![DpgId(t)] = a]
  BY <1>1, TagFilled DEF Coherence
<1>5. Directory(AllLines, Holding', cc, child)
  BY <1>1, <1>3, <1>4, FillKeeps DEF LLCInv, LLCTypeOK, Coherence, Entries, AllLines
<1>6. UNCHANGED <<child, cc, fault>>
  BY DEF NoEvict
<1>7. LinesInPlace'
  BY <1>4 DEF Coherence, LinesInPlace, TagsInPlace, TagCands
<1>8. WorkInHand'
  BY <1>1, <1>2, <1>3, <1>4, <1>6 DEF WorkInHand, Held
<1> QED  BY <1>5, <1>6, <1>7, <1>8 DEF Coherence, RequestsInTime, Allowed

\* ... and one goes on, with an eviction or the insertion.
LEMMA ContinueKeeps ==
  ASSUME LLCInv, LLCInv', Coherence, ContinueApprox
  PROVE  Coherence' /\ Allowed
<1> DEFINE a == op.addr  t == op.tag  c == req.child
<1>1. /\ req.pc = "array" /\ req \in Work /\ UNCHANGED <<pending, array, approx>>
      /\ req' = IF op'.pc = "idle" THEN [req EXCEPT !.pc = "process"] ELSE req
  BY DEF ContinueApprox, LLCInv, LLCTypeOK, NoReq
<1>2. /\ op.pc # "idle" /\ a \in Addr /\ a # None /\ t \in TagIds
      /\ array_t[t].data_id = None
      /\ op.pc = "evict" => op.insert /\ op.map = map[a]
      /\ op.pc = "insert" \/ op.insert => Matches(a) = {}
      /\ c \in Child /\ req.addr = a
  BY <1>1, InputAssumption
     DEF LLCInv, LLCTypeOK, IInv, TypeOK, AccessInHand, Occupied, Coherence, WorkInHand, Work
<1>3. /\ array_t \in Tags /\ array_d \in Datas
      /\ Linked(array_t, array_d) /\ Acyclic(array_t) /\ TypeOK
      /\ map[a] \in Map
  BY <1>2, TypeFacts DEF LLCInv, IInv, TypeOK
<1>4. ASSUME NEW d \in DataIds, IsFirst(d, SharedData(array_d, map[a])), NoEvict,
             array_d' = AddTagD(array_d, t, d), op' = Idle, map' = map,
             Postinsert(AddTagT(array_t, array_d, t, d), t, d, a)
      PROVE  Coherence' /\ Allowed
  <2> DEFINE T == AddTagT(array_t, array_d, t, d)
  <2>1. array_d[d].tag_head_id # None /\ array_d[d].map_value = map[a]
    BY <1>4 DEF IsFirst, SharedData
  <2>2. /\ T \in Tags /\ array_d' \in Datas /\ Linked(T, array_d') /\ Acyclic(T)
        /\ \A u \in TagIds : /\ T[u].addr = array_t[u].addr
                             /\ u # t => T[u].data_id = array_t[u].data_id
        /\ T[t].data_id = d
    BY <1>2, <1>3, <1>4, <2>1, AddTagOK
  <2>3. \A e \in DataIds : array_d'[e].map_value = array_d[e].map_value
    BY <1>3, <1>4 DEF AddTagD, Datas, DataEntry
  <2> HIDE DEF T
  <2>4. \A u \in TagIds : /\ array_t'[u].data_id = T[u].data_id
                          /\ array_t'[u].addr = IF u = t THEN a ELSE T[u].addr
    BY <1>2, <1>3, <1>4, <2>2, PostinsertOK DEF T
  <2>5. /\ \A u \in TagIds : array_t'[u].addr = IF u = t THEN a ELSE array_t[u].addr
        /\ array_d'[array_t'[t].data_id].map_value = map[a]
    BY <1>2, <2>1, <2>2, <2>3, <2>4
  <2>6. \A u \in TagIds \ {t} : array_t[u].data_id # None =>
          /\ array_t'[u].data_id = array_t[u].data_id
          /\ array_d'[array_t[u].data_id].map_value = array_d[array_t[u].data_id].map_value
    BY <1>3, <2>2, <2>3, <2>4 DEF Tags, TagEntry
  <2>7. req' = [req EXCEPT !.pc = "process"]
    BY <1>1, <1>4 DEF Idle
  <2> QED  BY <1>1, <1>2, <1>4, <2>5, <2>6, <2>7, Inserted
<1>5. ASSUME NEW d \in DataIds, array_d[d].tag_head_id = None, NoEvict,
             array_d' = OwnDataD(array_d, t, d, map[a]), op' = Idle, map' = map,
             Postinsert(OwnDataT(array_t, t, d), t, d, a)
      PROVE  Coherence' /\ Allowed
  <2> DEFINE T == OwnDataT(array_t, t, d)
  <2>1. /\ T \in Tags /\ array_d' \in Datas /\ Linked(T, array_d') /\ Acyclic(T)
        /\ \A u \in TagIds : /\ T[u].addr = array_t[u].addr
                             /\ u # t => T[u].data_id = array_t[u].data_id
        /\ T[t].data_id = d /\ array_d'[d].map_value = map[a]
        /\ \A e \in DataIds \ {d} : array_d'[e] = array_d[e]
    BY <1>2, <1>3, <1>5, OwnDataOK
  <2> HIDE DEF T
  <2>2. \A u \in TagIds : /\ array_t'[u].data_id = T[u].data_id
                          /\ array_t'[u].addr = IF u = t THEN a ELSE T[u].addr
    BY <1>2, <1>3, <1>5, <2>1, PostinsertOK DEF T
  <2>3. /\ \A u \in TagIds : array_t'[u].addr = IF u = t THEN a ELSE array_t[u].addr
        /\ array_d'[array_t'[t].data_id].map_value = map[a]
    BY <1>2, <2>1, <2>2
  <2>4. ASSUME NEW u \in TagIds \ {t}, array_t[u].data_id # None
        PROVE  /\ array_t'[u].data_id = array_t[u].data_id
               /\ array_d'[array_t[u].data_id].map_value
                    = array_d[array_t[u].data_id].map_value
    <3>1. array_t[u].data_id \in DataIds /\ array_t[u].data_id # d
      BY <1>3, <1>5, <2>4, HeadExists DEF Tags, TagEntry
    <3> QED  BY <2>1, <2>2, <3>1
  <2>5. req' = [req EXCEPT !.pc = "process"]
    BY <1>1, <1>5 DEF Idle
  <2> QED  BY <1>1, <1>2, <1>5, <2>3, <2>4, <2>5, Inserted
<1>6. CASE PreinsertData /\ NoEvict
  <2>1. CASE /\ op' = [op EXCEPT !.pc = "evict", !.map = map[a], !.data = op'.data,
                                 !.insert = TRUE]
             /\ UNCHANGED <<array_t, array_d, map>>
    <3>1. /\ op'.pc = "evict" /\ op'.insert /\ op'.map = map[a]
          /\ op'.addr = a /\ op'.tag = t
      BY <1>3, <2>1 DEF TypeOK, OpState
    <3>2. UNCHANGED <<child, cc, fault, req, Holding>>
      BY <1>1, <1>6, <2>1, <3>1 DEF NoEvict, Holding
    <3>3. LinesInPlace' /\ RequestsInTime' /\ WorkInHand'
      BY <1>1, <1>2, <2>1, <3>1, <3>2
         DEF Coherence, LinesInPlace, RequestsInTime, WorkInHand, TagCands
    <3> QED  BY <3>2, <3>3 DEF Coherence, Allowed
  <2>2. CASE \E d \in DataIds :
               /\ IsFirst(d, SharedData(array_d, map[a]))
               /\ array_d' = AddTagD(array_d, t, d)
               /\ Postinsert(AddTagT(array_t, array_d, t, d), t, d, a)
               /\ op' = Idle
    BY <1>4, <1>6, <2>2 DEF PreinsertData
  <2>3. CASE \E d \in DataIds :
               /\ IsFirst(d, FreeDatas(array_d, map[a]))
               /\ array_d' = OwnDataD(array_d, t, d, map[a])
               /\ Postinsert(OwnDataT(array_t, t, d), t, d, a)
               /\ op' = Idle
    BY <1>5, <1>6, <2>3 DEF PreinsertData, IsFirst, FreeDatas
  <2>4. \A d \in DataIds : op' = [op EXCEPT !.pc = "evict", !.map = map[a], !.data = d,
                                            !.insert = TRUE] => op'.data = d
    BY <1>3 DEF TypeOK, OpState
  <2> QED  BY <1>6, <2>1, <2>2, <2>3, <2>4 DEF PreinsertData
<1>7. CASE TakeEvicted /\ NoEvict
  <2>1. op.data \in DataIds
    BY <1>7, CandsInArray DEF TakeEvicted, LLCInv, IInv, TypeOK
  <2>2. op.insert /\ op.map = map[a]
    BY <1>2, <1>7 DEF TakeEvicted
  <2> QED  BY <1>5, <1>7, <2>1, <2>2 DEF TakeEvicted
<1>8. CASE EvictHead /\ EvictCC(DpgId(array_d[op.data].tag_head_id),
                                array_t[array_d[op.data].tag_head_id].addr)
  <2> DEFINE h == array_d[op.data].tag_head_id
  <2>1. /\ array_t' = RemoveTagT(array_t, h) /\ array_d' = RemoveTagD(array_t, array_d, h)
        /\ map' = map /\ op' = op /\ op.pc = "evict" /\ h # None
    BY <1>8 DEF EvictHead
  <2>2. op.data \in DataIds
    BY <2>1, CandsInArray DEF LLCInv, IInv, TypeOK
  <2>3. h \in TagIds /\ array_t[h].data_id # None
    BY <1>3, <2>1, <2>2, NoneIsNoId DEF Datas, DataEntry, Linked
  <2>4. array_t[h].addr # a
    BY <1>2, <2>1, <2>3 DEF LLCInv, IInv, TagInItsSet, Matches
  <2> HIDE DEF h
  <2>5. /\ DpgId(h) \in LineIds /\ Holding[DpgId(h)] = array_t[h].addr /\ Holding \in Held
        /\ Holding[DpgId(h)] \in AllLines
    BY <2>3, HoldingIs, IdsApart DEF Held, AllLines
  <2>6. /\ TagsInPlace(array_t', array_d')
        /\ Holding' = [Holding EXCEPT ![DpgId(h)] = None]
    BY <1>1, <2>1, <2>3, TagGone DEF Coherence
  <2>7. /\ Directory(AllLines, [Holding EXCEPT ![DpgId(h)] = None], cc', child') /\ fault' = FALSE
        /\ \A d \in Child, b \in Addr :
             child'[d][b] = child[d][b] \/ (b = Holding[DpgId(h)] /\ child'[d][b] = "I")
    <3>1. LLCTypeOK /\ Once(AllLines, Holding) /\ Directory(AllLines, Holding, cc, child)
      BY HoldsOnce DEF LLCInv, Coherence
    <3>2. EvictCC(DpgId(h), Holding[DpgId(h)])
      BY <1>8, <2>5 DEF h
    <3> QED  BY <2>5, <3>1, <3>2, EvictKeeps
  <2>8. LinesInPlace'
    BY <1>1, <2>1, <2>6 DEF Coherence, LinesInPlace, TagsInPlace, TagCands
  <2>9. child'[c][a] = child[c][a] /\ req' = req
    BY <1>1, <1>2, <2>1, <2>4, <2>5, <2>7
  <2>10. WorkInHand'
    BY <1>1, <1>2, <2>1, <2>9 DEF Coherence, WorkInHand
  <2>11. RequestsInTime'
    <3>1. ASSUME NEW d \in Child, pending'[d] # NoRequest
          PROVE  pending'[d] = pending[d] /\ \A b \in Addr : Kept(d, b)
      BY <1>1, <2>7 DEF Kept
    <3> QED  BY <3>1, RequestsStay DEF LLCInv, Coherence
  <2>12. Allowed
    <3>1. PICK l : l = Holding[DpgId(h)]
      OBVIOUS
    <3>2. \A d \in Child, b \in Addr :
            child'[d][b] = child[d][b] \/ (b = l /\ child'[d][b] = "I")
      BY <2>7, <3>1
    <3>3. c \in Child
      BY <1>2
    <3> HIDE DEF c
    <3> QED  BY <3>2, <3>3, GivenUp
  <2> QED  BY <2>6, <2>7, <2>8, <2>10, <2>11, <2>12 DEF Coherence
<1> QED  BY <1>6, <1>7, <1>8 DEF ContinueApprox
-----------------------------------------------------------------------------
(* The theorems                                                            *)

\* The initial states
LEMMA CoherenceInit == LLCInit => Coherence /\ Coherent!Init
<1> SUFFICES ASSUME LLCInit PROVE Coherence /\ Coherent!Init
  OBVIOUS
<1>1. \A i \in LineIds : Holding[i] = None
  BY IdsApart DEF Holding, LLCInit, Init, FreeTag
<1>2. Directory(AllLines, Holding, cc, child)
  BY <1>1 DEF LLCInit, Directory, AllLines, EntryExact, NoEntry
<1>3. LinesInPlace
  BY DEF LLCInit, Init, FreeTag, LinesInPlace
<1>4. ~fault /\ RequestsInTime /\ WorkInHand
  BY DEF LLCInit, RequestsInTime, WorkInHand, NoReq
<1>5. Coherent!Init
  BY DEF LLCInit, Coherent!Init
<1> QED  BY <1>2, <1>3, <1>4, <1>5 DEF Coherence

\* Every step, and what it does to the copies of the children
LEMMA CoherenceNext ==
  ASSUME Stable, LLCInv, LLCInv', Coherence, [LLCNext]_vars
  PROVE  Coherence' /\ Allowed
<1>1. CASE UNCHANGED vars
  <2>1. /\ UNCHANGED <<array_t, array_d, map, op, child, pending, array, cc, approx,
                       req, fault, Holding>>
    BY <1>1 DEF vars, dpgVars, ccVars, Holding
  <2> QED
    BY <2>1 DEF Coherence, LinesInPlace, RequestsInTime, WorkInHand, TagCands, Allowed
<1>2. CASE LLCNext
  <2>1. ASSUME NEW a \in Addr, NEW m \in Map, Write(a, m)
        PROVE  Coherence' /\ Allowed
    BY <2>1, WriteKeeps
  <2>2. ASSUME NEW a \in Addr PROVE ~ChangeRegion(a)
    BY DEF ChangeRegion, Stable
  <2>3. ASSUME NEW c \in Child, NEW a \in Addr, ChildWrite(c, a)
        PROVE  Coherence' /\ Allowed
    BY <2>3, ChildWriteKeeps
  <2>4. ASSUME NEW c \in Child, NEW a \in Addr, NEW type \in Gets \cup Puts,
               ChildRequest(c, type, a)
        PROVE  Coherence' /\ Allowed
    BY <2>4, ChildRequestKeeps
  <2>5. ASSUME NEW c \in Child, SkipAccess(c) PROVE Coherence' /\ Allowed
    BY <2>5, SkipKeeps
  <2>6. ASSUME NEW c \in Child PROVE ~Panic(c)
    BY FoundAgain DEF Panic
  <2>7. ASSUME NEW c \in Child, StartApprox(c) PROVE Coherence' /\ Allowed
    BY <2>7, StartApproxKeeps
  <2>8. ASSUME NEW c \in Child, StartExact(c) PROVE Coherence' /\ Allowed
    BY <2>8, StartExactKeeps
  <2>9. CASE ContinueApprox
    BY <2>9, ContinueKeeps
  <2>10. CASE ProcessPut \/ ProcessGETS \/ ProcessGETX
    BY <2>10, ProcessKeeps
  <2> QED
    BY <1>2, <2>1, <2>2, <2>3, <2>4, <2>5, <2>6, <2>7, <2>8, <2>9, <2>10
       DEF LLCNext, Serve
<1> QED  BY <1>1, <1>2

\* Every line is tracked.
LEMMA AllTracked ==
  ASSUME LLCInv, Coherence, NEW a \in Addr
  PROVE  Tracked(a)
BY HoldsOnce, LineTracked DEF Coherence, AllLines

\* Coherence holds along with the array's invariant: the inductive invariant.
THEOREM CoherenceInvariant ==
  ASSUME Stable PROVE LLCSpec => [](LLCInv /\ Coherence)
<1>1. LLCInit => LLCInv /\ Coherence
  BY LLCInitInv, CoherenceInit
<1>2. LLCInv /\ Coherence /\ [LLCNext]_vars => (LLCInv /\ Coherence)'
  BY LLCNextInv, CoherenceNext
<1> QED  BY <1>1, <1>2, PTL DEF LLCSpec

\* However requests race with invalidations and evictions of the two arrays, no
\* assertion fails and "We lost inclusion on this line!" is never reached.
THEOREM StableNoPanic ==
  ASSUME Stable PROVE LLCSpec => [](NoPanic /\ InclusionKept)
<1>1. LLCInv /\ Coherence => NoPanic /\ InclusionKept
  BY FoundAgain DEF Coherence, NoPanic, InclusionKept
<1> QED  BY CoherenceInvariant, <1>1, PTL

\* The directory of the cache, of both arrays, is exact.
THEOREM StableDirectoryExact ==
  ASSUME Stable PROVE LLCSpec => []DirectoryExact
<1>1. LLCInv /\ Coherence => DirectoryExact
  BY AllTracked DEF DirectoryExact
<1> QED  BY CoherenceInvariant, <1>1, PTL

\* So the children's copies are coherent: a writable copy is the only one.
THEOREM StableImplementsCopies ==
  ASSUME Stable PROVE LLCSpec => ImplementsCopies
<1>1. LLCInit => Coherent!Init
  BY CoherenceInit
<1>2. LLCInv /\ LLCInv' /\ Coherence /\ [LLCNext]_vars => [Coherent!Next]_child
  BY CoherenceNext DEF Allowed
<1> QED  BY <1>1, <1>2, CoherenceInvariant, PTL
         DEF LLCSpec, ImplementsCopies, Coherent!Spec
-----------------------------------------------------------------------------
(* The lines that no region ever covers                                    *)

\* The lines that no region covers, now or later
Precise == Addr \ Registered

\* Tags are for lines that have been in a region.
TagLines(T) == \A t \in TagIds : T[t].addr \in Registered \cup {None}

\* Only such lines get into the Doppelganger array; a precise line is in the
\* exact array once, where lookup searches.
PreciseInPlace ==
  /\ approx \subseteq Registered
  /\ TagLines(array_t)
  /\ op.pc # "idle" => op.addr \in Registered
  /\ \A i \in TagIds : array[i] \in Precise => i \in TagCands(array[i])
  /\ \A i, k \in TagIds : array[i] = array[k] /\ array[i] \in Precise => i = k

\* A request for a precise line is for the exact array, and up to date.
PreciseRequests ==
  \A c \in Child : pending[c] # NoRequest =>
    LET r == pending[c] IN
    /\ r.approx => r.addr \in Registered
    /\ r.addr \in Precise => Timely(r, child[c][r.addr])

\* What the cache works on is in its line id, as far as the exact array goes.
PreciseWork ==
  req.pc # "idle" =>
    /\ pending[req.child] # NoRequest /\ pending[req.child].addr = req.addr
    /\ req.id \in TagIds => array[req.id] = req.addr
    /\ req.addr \in Precise =>
         req.id \in TagIds /\ req.type \in Requests(child[req.child][req.addr])

PreciseCoherence ==
  /\ PreciseInPlace
  /\ PreciseRequests
  /\ PreciseWork
  /\ Directory(Precise, Holding, cc, child)

-----------------------------------------------------------------------------
(* Precise lines and line ids                                              *)

\* The line ids of tags hold no precise line, those of the array one each.
LEMMA PreciseHolding ==
  ASSUME LLCInv, PreciseInPlace
  PROVE  /\ \A i \in LineIds : Holding[i] \in Precise => i \in TagIds
         /\ Once(Precise, Holding)
<1>1. Precise \subseteq Addr /\ None \notin Precise /\ Registered \cap Precise = {}
  BY InputAssumption DEF Precise
<1>2. ASSUME NEW i \in LineIds, Holding[i] \in Precise PROVE i \in TagIds
  <2> SUFFICES ASSUME i \notin TagIds PROVE FALSE
    OBVIOUS
  <2>1. PICK t \in TagIds : i = DpgId(t)
    BY IdsApart
  <2> QED  BY <1>1, <1>2, <2>1, HoldingIs DEF PreciseInPlace, TagLines
<1>3. Once(Precise, Holding)
  BY <1>2, HoldingIs DEF Once, PreciseInPlace
<1> QED  BY <1>2, <1>3

\* What the children have of precise lines and where these are stays.
LEMMA PreciseElsewhere ==
  ASSUME LLCInv, PreciseInPlace, Directory(Precise, Holding, cc, child),
         array' = array, TagLines(array_t'),
         \A i \in LineIds : Holding[i] \in Precise => cc'[i] = cc[i],
         \A c \in Child, b \in Precise : child'[c][b] = child[c][b]
  PROVE  Directory(Precise, Holding', cc', child')
<1>1. Precise \subseteq Addr /\ None \notin Precise /\ Registered \cap Precise = {}
  BY InputAssumption DEF Precise
<1>2. ASSUME NEW i \in LineIds, Holding[i] \in Precise \/ Holding'[i] \in Precise
      PROVE  Holding'[i] = Holding[i] /\ cc'[i] = cc[i]
  <2>1. /\ Holding[i] = IF i \in TagIds THEN array[i] ELSE array_t[i - numLines].addr
        /\ Holding'[i] = IF i \in TagIds THEN array[i] ELSE array_t'[i - numLines].addr
    BY DEF Holding
  <2>2. CASE i \in TagIds
    BY <1>2, <2>1, <2>2
  <2>3. CASE i \notin TagIds
    BY <1>1, <1>2, <2>1, <2>3, IdsApart DEF PreciseInPlace, TagLines
  <2> QED  BY <2>2, <2>3
<1>3. cc \in Entries
  BY DEF LLCInv, LLCTypeOK, Entries
<1> QED  BY <1>1, <1>2, <1>3, OthersChange

\* Evicting a tag, whatever its directory entry says
LEMMA TagEvicted ==
  ASSUME LLCInv, PreciseInPlace, Directory(Precise, Holding, cc, child),
         NEW t \in TagIds, NoEvict \/ EvictCC(DpgId(t), array_t[t].addr),
         array' = array, TagLines(array_t')
  PROVE  /\ Directory(Precise, Holding', cc', child')
         /\ \A c \in Child, b \in Precise : child'[c][b] = child[c][b]
<1>1. Precise \subseteq Addr /\ None \notin Precise /\ Registered \cap Precise = {}
  BY InputAssumption DEF Precise
<1>2. /\ DpgId(t) \in LineIds /\ Holding[DpgId(t)] = array_t[t].addr /\ Holding \in Held
      /\ Holding[DpgId(t)] \notin Precise
  BY <1>1, HoldingIs, IdsApart DEF PreciseInPlace, TagLines
<1>3. \A i \in LineIds : Holding[i] \in Precise => cc'[i] = cc[i]
  BY <1>2 DEF NoEvict, EvictCC, LLCInv, LLCTypeOK
<1>4. \A c \in Child, b \in Precise : child'[c][b] = child[c][b]
  BY <1>1, <1>2 DEF NoEvict, EvictCC, Invalidated
<1> QED  BY <1>3, <1>4, PreciseElsewhere

-----------------------------------------------------------------------------
(* Tags                                                                    *)

\* The operations on lists leave the lines of the tags.
LEMMA ListLines ==
  ASSUME NEW T \in Tags, TagLines(T), NEW D, NEW t \in TagIds, NEW d
  PROVE  /\ TagLines(RemoveTagT(T, t)) /\ TagLines(AddTagT(T, D, t, d))
         /\ TagLines(OwnDataT(T, t, d))
         /\ \A a \in Registered : TagLines([T EXCEPT ![t].addr = a])
<1>1. T \in [TagIds -> TagEntry]
  BY DEF Tags
<1>2. TagLines(RemoveTagT(T, t))
  BY <1>1 DEF TagLines, RemoveTagT, FreeTag, TagEntry
<1>3. TagLines(AddTagT(T, D, t, d))
  BY <1>1 DEF TagLines, AddTagT, TagEntry
<1>4. TagLines(OwnDataT(T, t, d))
  BY <1>1 DEF TagLines, OwnDataT, TagEntry
<1>5. \A a \in Registered : TagLines([T EXCEPT ![t].addr = a])
  BY <1>1 DEF TagLines, TagEntry
<1> QED  BY <1>2, <1>3, <1>4, <1>5

\* An access to the array for a registered line
LEMMA AccessLines ==
  ASSUME LLCInv, TagLines(array_t), NEW a \in Registered, NEW t \in TagIds, NEW update,
         \/ LookupHit(a, t, update) \/ LookupRemap(a, t, update)
         \/ PreinsertFreeTag(a, t) \/ PreinsertEvictTag(a, t)
  PROVE  TagLines(array_t') /\ (op'.pc # "idle" => op'.addr \in Registered)
<1>1. array_t \in Tags /\ array_d \in Datas /\ Linked(array_t, array_d) /\ Acyclic(array_t)
  BY TypeFacts DEF LLCInv
<1>2. CASE LookupHit(a, t, update)
  BY <1>2 DEF LookupHit
<1>3. CASE LookupRemap(a, t, update)
  <2> DEFINE T == RemoveTagT(array_t, t)  D == RemoveTagD(array_t, array_d, t)
  <2>1. T \in Tags /\ TagLines(T)
    BY <1>1, <1>3, ListLines, RemoveTagOK DEF LookupRemap, IsFirst, Matches
  <2>2. \/ \E d \in DataIds : array_t' = AddTagT(T, D, t, d) /\ op' = op
        \/ \E d \in DataIds : array_t' = OwnDataT(T, t, d) /\ op' = op
        \/ array_t' = T /\ op'.addr = a
    BY <1>3 DEF LookupRemap
  <2>3. op.pc = "idle"
    BY <1>3 DEF LookupRemap
  <2> HIDE DEF T, D
  <2> QED  BY <2>1, <2>2, <2>3, ListLines
<1>4. CASE PreinsertFreeTag(a, t)
  BY <1>4 DEF PreinsertFreeTag, Idle
<1>5. CASE PreinsertEvictTag(a, t)
  <2>1. array_t' = RemoveTagT(array_t, t) /\ op'.addr = a
    BY <1>5 DEF PreinsertEvictTag, Idle
  <2> QED  BY <1>1, <2>1, ListLines
<1> QED  BY <1>2, <1>3, <1>4, <1>5

\* The rest of it
LEMMA ContinueLines ==
  ASSUME LLCInv, TagLines(array_t), op.addr \in Registered,
         PreinsertData \/ EvictHead \/ TakeEvicted
  PROVE  TagLines(array_t') /\ (op'.pc # "idle" => op'.addr \in Registered)
<1> DEFINE a == op.addr  t == op.tag
<1>1. array_t \in Tags /\ array_d \in Datas /\ op \in OpState
  BY TypeFacts DEF LLCInv, IInv, TypeOK
<1>2. t \in TagIds
  BY DEF PreinsertData, EvictHead, TakeEvicted, LLCInv, IInv, TypeOK
<1>3. ASSUME NEW T \in Tags, TagLines(T), NEW d, Postinsert(T, t, d, a)
      PROVE  TagLines(array_t')
  BY <1>2, <1>3, ListLines DEF Postinsert
<1>4. ASSUME NEW d \in DataIds
      PROVE  /\ AddTagT(array_t, array_d, t, d) \in Tags
             /\ OwnDataT(array_t, t, d) \in Tags
  <2>1. array_d[d].tag_head_id \in TagIds \cup {None}
    BY <1>1 DEF Datas, DataEntry
  <2> QED  BY <1>1, <1>2, <2>1 DEF AddTagT, OwnDataT, Tags, TagEntry
<1>5. CASE PreinsertData
  <2>1. \/ /\ \E d \in DataIds : \/ Postinsert(AddTagT(array_t, array_d, t, d), t, d, a)
                                \/ Postinsert(OwnDataT(array_t, t, d), t, d, a)
           /\ op' = Idle
        \/ /\ array_t' = array_t
           /\ \E d \in DataIds :
                op' = [op EXCEPT !.pc = "evict", !.map = map[a], !.data = d, !.insert = TRUE]
    BY <1>5 DEF PreinsertData
  <2>2. \A d \in DataIds : TagLines(AddTagT(array_t, array_d, t, d))
                           /\ TagLines(OwnDataT(array_t, t, d))
    BY <1>1, <1>2, ListLines
  <2>3. CASE op' = Idle
    BY <1>3, <1>4, <2>1, <2>2, <2>3 DEF Idle
  <2>4. CASE op' # Idle
    BY <1>1, <2>1, <2>4 DEF OpState
  <2> QED  BY <2>3, <2>4
<1>6. CASE EvictHead
  <2> DEFINE h == array_d[op.data].tag_head_id
  <2>1. array_t' = RemoveTagT(array_t, h) /\ op' = op /\ h # None /\ op.data \in DataIds
    BY <1>6, CandsInArray DEF EvictHead, LLCInv, IInv, TypeOK
  <2>2. h \in TagIds
    BY <1>1, <2>1 DEF Datas, DataEntry
  <2> QED  BY <1>1, <2>1, <2>2, ListLines
<1>7. CASE TakeEvicted
  <2>1. /\ op.data \in DataIds /\ op' = Idle
        /\ \/ Postinsert(OwnDataT(array_t, t, op.data), t, op.data, a)
           \/ array_t' = OwnDataT(array_t, t, op.data)
    BY <1>7, CandsInArray DEF TakeEvicted, LLCInv, IInv, TypeOK
  <2>2. TagLines(OwnDataT(array_t, t, op.data))
    BY <1>1, <1>2, ListLines
  <2> QED  BY <1>3, <1>4, <2>1, <2>2 DEF Idle
<1> QED  BY <1>5, <1>6, <1>7

-----------------------------------------------------------------------------
(* The steps of the children and of the program                            *)

\* Requests for precise lines stay up to date.
LEMMA PreciseRequestsStay ==
  ASSUME LLCTypeOK, PreciseRequests,
         \A d \in Child : pending'[d] # NoRequest =>
           pending'[d] = pending[d] /\ \A b \in Precise : Kept(d, b)
  PROVE  PreciseRequests'
<1> SUFFICES ASSUME NEW c \in Child, pending'[c] # NoRequest
             PROVE  /\ pending'[c].approx => pending'[c].addr \in Registered
                    /\ pending'[c].addr \in Precise =>
                         Timely(pending'[c], child'[c][pending'[c].addr])
  BY DEF PreciseRequests
<1>1. pending'[c] = pending[c] /\ pending[c] # NoRequest
  OBVIOUS
<1> QED  BY <1>1, TimelyStays DEF PreciseRequests

\* What the cache works on stays, when its request and its line do.
LEMMA PreciseWorkStays ==
  ASSUME LLCTypeOK, PreciseWork, array' = array,
         req' = req \/ req' = [req EXCEPT !.pc = "process"],
         req.pc # "idle" =>
           /\ pending'[req.child] = pending[req.child]
           /\ req.addr \in Precise => child'[req.child][req.addr] = child[req.child][req.addr]
  PROVE  PreciseWork' \/ req.pc = "idle"
<1> SUFFICES ASSUME req.pc # "idle" PROVE PreciseWork'
  OBVIOUS
<1>1. req \in Work
  BY DEF LLCTypeOK, NoReq
<1>2. /\ req'.child = req.child /\ req'.addr = req.addr
      /\ req'.type = req.type /\ req'.id = req.id
  BY <1>1 DEF Work
<1> QED  BY <1>2 DEF PreciseWork

\* Steps of the program, and of the children but for their writes
LEMMA OutsideKeeps ==
  ASSUME LLCInv, LLCInv', PreciseCoherence,
         UNCHANGED <<array_t, op, child, array, cc, req>>,
         approx' \subseteq Registered,
         \A d \in Child : pending'[d] # pending[d] =>
           pending[d] = NoRequest /\ (pending'[d] # NoRequest =>
             /\ pending'[d].approx => pending'[d].addr \in Registered
             /\ pending'[d].addr \in Precise =>
                  Timely(pending'[d], child[d][pending'[d].addr]))
  PROVE  PreciseCoherence'
<1>1. PreciseInPlace'
  BY DEF PreciseCoherence, PreciseInPlace, TagLines, TagCands
<1>2. PreciseRequests'
  BY DEF PreciseCoherence, PreciseRequests
<1>3. PreciseWork'
  <2>1. req.pc # "idle" => req.child \in Child
    BY DEF LLCInv, LLCTypeOK, Work, NoReq
  <2> QED  BY <2>1 DEF PreciseCoherence, PreciseWork
<1>4. Directory(Precise, Holding', cc', child')
  BY PreciseElsewhere DEF PreciseCoherence, PreciseInPlace, TagLines
<1> QED  BY <1>1, <1>2, <1>3, <1>4 DEF PreciseCoherence

\* A child asks isApprox, which knows only registered lines.
LEMMA AskKeeps ==
  ASSUME LLCInv, LLCInv', PreciseCoherence,
         NEW c \in Child, NEW a \in Addr, NEW type, ChildRequest(c, type, a)
  PROVE  PreciseCoherence'
<1> DEFINE r == [type |-> type, addr |-> a, initial |-> child[c][a], approx |-> a \in approx]
<1>1. /\ pending[c] = NoRequest /\ type \in Requests(child[c][a])
      /\ pending' = [pending EXCEPT ![c] = r]
      /\ UNCHANGED <<array_t, op, child, array, cc, approx, req>>
  BY DEF ChildRequest, dpgVars
<1>2. pending'[c] = r /\ \A d \in Child \ {c} : pending'[d] = pending[d]
  BY <1>1 DEF LLCInv, LLCTypeOK
<1>3. r.approx => r.addr \in Registered
  BY DEF PreciseCoherence, PreciseInPlace
<1>4. Timely(r, child[c][r.addr])
  BY <1>1 DEF Timely, SinceRequest
<1>5. approx' \subseteq Registered
  BY <1>1 DEF PreciseCoherence, PreciseInPlace
<1> HIDE DEF r
<1> QED  BY <1>1, <1>2, <1>3, <1>4, <1>5, OutsideKeeps

\* A child writes a line it has in E.
LEMMA WriteHitKeeps ==
  ASSUME LLCInv, LLCInv', PreciseCoherence, NEW c \in Child, NEW a \in Addr, ChildWrite(c, a)
  PROVE  PreciseCoherence'
<1>1. /\ pending[c] = NoRequest /\ child[c][a] = "E"
      /\ child' = [child EXCEPT ![c][a] = "M"]
      /\ UNCHANGED <<array_t, op, pending, array, cc, approx, req>>
  BY DEF ChildWrite, dpgVars
<1>2. /\ child \in AllCopies /\ cc \in Entries /\ Holding \in Held
      /\ Once(Precise, Holding) /\ Directory(Precise, Holding, cc, child)
  BY HoldingIs, PreciseHolding
     DEF PreciseCoherence, LLCInv, LLCTypeOK, AllCopies, Entries
<1>3. \A d \in Child, b \in Addr :
        child'[d][b] = IF d = c /\ b = a THEN "M" ELSE child[d][b]
  BY <1>1, <1>2 DEF AllCopies
<1>4. Holding' = Holding
  BY <1>1 DEF Holding
<1>5. Directory(Precise, Holding', cc', child')
  <2>1. CASE a \in Precise
    <3>1. PICK i \in LineIds : Holding[i] = a /\ c \in cc[i].sharers
      BY <1>1, <1>2, <2>1 DEF Directory
    <3>2. EntryExact(a, cc[i], child) /\ cc[i].sharers = {c}
      BY <1>1, <1>2, <2>1, <3>1 DEF Directory, EntryExact, Exclusive
    <3>3. EntryExact(a, cc[i], child')
      BY <1>1, <1>3, <3>2 DEF EntryExact, Exclusive
    <3>4. \A d \in Child : child[d][a] # "I" <=> d \in cc[i].sharers
      BY <1>2, <2>1, <3>1, SharersHave DEF Precise
    <3>5. \A d \in Child : child'[d][a] # "I" => d \in cc[i].sharers
      BY <1>3, <3>2, <3>4
    <3>6. \A d \in Child, b \in Addr : b # a => child'[d][b] = child[d][b]
      BY <1>3
    <3>7. /\ \A k \in LineIds \ {i} : cc'[k] = cc[k]
          /\ Holding[i] = a /\ Holding[i] \in Addr /\ cc'[i] = cc[i]
      BY <1>1, <3>1
    <3>8. Directory(Precise, Holding, cc', child')
      BY <1>2, <3>3, <3>5, <3>6, <3>7, LineChange
    <3> QED  BY <1>4, <3>8
  <2>2. CASE a \notin Precise
    <3>1. \A d \in Child, b \in Precise : child'[d][b] = child[d][b]
      BY <1>3, <2>2 DEF Precise
    <3>2. TagLines(array_t')
      BY <1>1 DEF PreciseCoherence, PreciseInPlace, TagLines
    <3> QED  BY <1>1, <3>1, <3>2, PreciseElsewhere DEF PreciseCoherence
  <2> QED  BY <2>1, <2>2
<1>6. PreciseInPlace'
  BY <1>1 DEF PreciseCoherence, PreciseInPlace, TagLines, TagCands
<1>7. PreciseRequests'
  <2>1. ASSUME NEW d \in Child, pending'[d] # NoRequest
        PROVE  pending'[d] = pending[d] /\ \A b \in Precise : Kept(d, b)
    BY <1>1, <1>3, <2>1 DEF Kept, Precise
  <2> QED  BY <2>1, PreciseRequestsStay DEF LLCInv, PreciseCoherence
<1>8. PreciseWork'
  <2>1. req.pc # "idle" => req.child \in Child /\ req.addr \in Addr /\ req.child # c
    BY <1>1 DEF PreciseCoherence, PreciseWork, LLCInv, LLCTypeOK, Work, NoReq
  <2> QED  BY <1>1, <1>3, <2>1 DEF PreciseCoherence, PreciseWork
<1> QED  BY <1>5, <1>6, <1>7, <1>8 DEF PreciseCoherence

-----------------------------------------------------------------------------
(* The steps of the cache                                                  *)

\* A request for the Doppelganger array starts ...
LEMMA StartApproxPrecise ==
  ASSUME LLCInv, LLCInv', PreciseCoherence, NEW c \in Child, StartApprox(c)
  PROVE  PreciseCoherence'
<1> DEFINE a == pending[c].addr
           get == pending[c].type \in Gets
           pc == IF op'.pc = "idle" THEN "process" ELSE "array"
<1>1. /\ Ready(c) /\ a \in Registered /\ UNCHANGED <<pending, array, approx>>
      /\ pending[c] # NoRequest
  BY DEF StartApprox, Ready, PreciseCoherence, PreciseRequests
<1>2. PICK t \in TagIds :
        /\ \/ (LookupHit(a, t, get) \/ LookupRemap(a, t, get)) /\ NoEvict
           \/ PreinsertFreeTag(a, t) /\ NoEvict
           \/ PreinsertEvictTag(a, t) /\ EvictCC(DpgId(t), array_t[t].addr)
        /\ Working(c, pc, DpgId(t))
  BY DEF StartApprox
<1>3. TagLines(array_t') /\ (op'.pc # "idle" => op'.addr \in Registered)
  <2> HIDE DEF a, get
  <2> QED  BY <1>1, <1>2, AccessLines DEF PreciseCoherence, PreciseInPlace
<1>4. /\ Directory(Precise, Holding', cc', child')
      /\ \A d \in Child, b \in Precise : child'[d][b] = child[d][b]
  BY <1>1, <1>2, <1>3, TagEvicted DEF PreciseCoherence
<1>5. PreciseInPlace'
  BY <1>1, <1>3 DEF PreciseCoherence, PreciseInPlace, TagCands
<1>6. PreciseRequests'
  <2>1. ASSUME NEW d \in Child, pending'[d] # NoRequest
        PROVE  pending'[d] = pending[d] /\ \A b \in Precise : Kept(d, b)
    BY <1>1, <1>4 DEF Kept
  <2> QED  BY <2>1, PreciseRequestsStay DEF LLCInv, PreciseCoherence
<1>7. PreciseWork'
  <2>1. req'.child = c /\ req'.addr = a /\ req'.id = DpgId(t)
    BY <1>2 DEF Working
  <2>2. DpgId(t) \notin TagIds /\ a \notin Precise
    BY <1>1, IdsApart DEF Precise
  <2> QED  BY <1>1, <2>1, <2>2 DEF PreciseWork
<1> QED  BY <1>4, <1>5, <1>6, <1>7 DEF PreciseCoherence

\* ... and goes on ...
LEMMA ContinuePrecise ==
  ASSUME LLCInv, LLCInv', PreciseCoherence, ContinueApprox
  PROVE  PreciseCoherence'
<1>1. /\ req.pc = "array" /\ UNCHANGED <<pending, array, approx>>
      /\ req' = req \/ req' = [req EXCEPT !.pc = "process"]
  BY DEF ContinueApprox
<1>2. op.pc # "idle" /\ op.addr \in Registered
  BY <1>1 DEF LLCInv, LLCTypeOK, PreciseCoherence, PreciseInPlace
<1>3. TagLines(array_t') /\ (op'.pc # "idle" => op'.addr \in Registered)
  BY <1>2, ContinueLines DEF ContinueApprox, PreciseCoherence, PreciseInPlace
<1>4. \E t \in TagIds : NoEvict \/ EvictCC(DpgId(t), array_t[t].addr)
  <2>1. CASE NoEvict
    <3>1. op.tag \in TagIds
      BY <1>2 DEF LLCInv, IInv, TypeOK
    <3> QED  BY <2>1, <3>1
  <2>2. CASE EvictHead /\ EvictCC(DpgId(array_d[op.data].tag_head_id),
                                  array_t[array_d[op.data].tag_head_id].addr)
    <3>1. op.data \in DataIds /\ array_d[op.data].tag_head_id # None
      BY <2>2, CandsInArray DEF EvictHead, LLCInv, IInv, TypeOK
    <3>2. array_d[op.data].tag_head_id \in TagIds
      BY <3>1 DEF LLCInv, IInv, TypeOK, DataEntry
    <3> QED  BY <2>2, <3>2
  <2> QED  BY <2>1, <2>2 DEF ContinueApprox
<1>5. /\ Directory(Precise, Holding', cc', child')
      /\ \A d \in Child, b \in Precise : child'[d][b] = child[d][b]
  BY <1>1, <1>3, <1>4, TagEvicted DEF PreciseCoherence
<1>6. PreciseInPlace'
  BY <1>1, <1>3 DEF PreciseCoherence, PreciseInPlace, TagCands
<1>7. PreciseRequests'
  <2>1. ASSUME NEW d \in Child, pending'[d] # NoRequest
        PROVE  pending'[d] = pending[d] /\ \A b \in Precise : Kept(d, b)
    BY <1>1, <1>5 DEF Kept
  <2> QED  BY <2>1, PreciseRequestsStay DEF LLCInv, PreciseCoherence
<1>8. PreciseWork'
  <2>1. req.child \in Child
    BY <1>1 DEF LLCInv, LLCTypeOK, Work, NoReq
  <2> QED  BY <1>1, <1>5, <2>1, PreciseWorkStays DEF LLCInv, PreciseCoherence
<1> QED  BY <1>5, <1>6, <1>7, <1>8 DEF PreciseCoherence

\* The exact array takes the line in, in the place of any other.
LEMMA StartExactPrecise ==
  ASSUME LLCInv, LLCInv', PreciseCoherence, NEW c \in Child, StartExact(c)
  PROVE  PreciseCoherence'
<1> DEFINE a == pending[c].addr
<1>1. /\ Ready(c) /\ ~Skipped(c) /\ pending[c] # NoRequest /\ a \in Addr
      /\ UNCHANGED <<array_t, array_d, map, op, pending, approx>>
  BY DEF StartExact, Ready, LLCInv, LLCTypeOK, Request, dpgVars
<1>2. PICK i \in TagIds :
        /\ \/ IsFirst(i, ExactMatches(a)) /\ UNCHANGED array /\ NoEvict
           \/ /\ ExactMatches(a) = {} /\ i \in TagCands(a)
              /\ EvictCC(i, array[i])
              /\ array' = [array EXCEPT ![i] = a]
        /\ Working(c, "process", i)
  BY DEF StartExact
<1>3. /\ i \in LineIds /\ Holding[i] = array[i] /\ Holding \in Held
      /\ Once(Precise, Holding)
  BY HoldingIs, IdsApart, PreciseHolding DEF PreciseCoherence
<1>4. ASSUME Directory(Precise, Holding', cc', child'), PreciseInPlace', array'[i] = a,
             NEW l, l # a \/ a \notin Precise,
             \A d \in Child, b \in Addr :
               child'[d][b] = child[d][b] \/ (b = l /\ child'[d][b] = "I")
      PROVE  PreciseCoherence'
  <2>1. PreciseRequests'
    <3>1. ASSUME NEW d \in Child, pending'[d] # NoRequest
          PROVE  pending'[d] = pending[d] /\ \A b \in Precise : Kept(d, b)
      BY <1>1, <1>4 DEF Kept, Precise
    <3> QED  BY <3>1, PreciseRequestsStay DEF LLCInv, PreciseCoherence
  <2>2. /\ req'.child = c /\ req'.addr = a /\ req'.id = i /\ req'.type = PatchedType(c)
    BY <1>2 DEF Working
  <2>3. ASSUME a \in Precise PROVE PatchedType(c) \in Requests(child'[c][a])
    <3>1. Timely(pending[c], child[c][a])
      BY <1>1, <2>3 DEF PreciseCoherence, PreciseRequests
    <3>2. child'[c][a] = child[c][a]
      BY <1>1, <1>4, <2>3
    <3> QED  BY <1>1, <3>1, <3>2, StartedRight DEF LLCInv
  <2>4. PreciseWork'
    BY <1>1, <1>4, <2>2, <2>3 DEF PreciseWork
  <2> QED  BY <1>4, <2>1, <2>4 DEF PreciseCoherence
<1>5. CASE IsFirst(i, ExactMatches(a)) /\ UNCHANGED array /\ NoEvict
  <2>1. UNCHANGED <<array, child, cc>> /\ array[i] = a
    BY <1>5 DEF NoEvict, IsFirst, ExactMatches
  <2>2. Holding' = Holding
    BY <1>1, <2>1 DEF Holding
  <2>3. PreciseInPlace' /\ Directory(Precise, Holding', cc', child')
    BY <1>1, <2>1, <2>2
       DEF PreciseCoherence, PreciseInPlace, TagLines, TagCands
  <2>4. None # a
    BY <1>1, InputAssumption
  <2> QED  BY <1>4, <2>1, <2>3, <2>4
<1>6. CASE /\ ExactMatches(a) = {} /\ i \in TagCands(a)
           /\ EvictCC(i, array[i]) /\ array' = [array EXCEPT ![i] = a]
  <2>1. /\ array'[i] = a /\ \A k \in TagIds \ {i} : array'[k] = array[k]
    BY <1>6 DEF LLCInv, LLCTypeOK
  <2>2. a \in Precise => \A k \in TagIds : array[k] # a
    BY <1>6 DEF PreciseCoherence, PreciseInPlace, ExactMatches
  <2>3. Holding' = [Holding EXCEPT ![i] = a]
    <3>1. ASSUME NEW k \in LineIds
          PROVE  (IF k \in TagIds THEN array'[k] ELSE array_t'[k - numLines].addr)
                   = IF k = i THEN a ELSE Holding[k]
      BY <1>1, <2>1 DEF Holding
    <3>2. Holding' = [k \in LineIds |-> IF k = i THEN a ELSE Holding[k]]
      BY <3>1 DEF Holding
    <3>3. Holding = [k \in LineIds |-> Holding[k]]
      BY DEF Holding
    <3> QED  BY <3>2, <3>3
  <2>4. /\ Directory(Precise, [Holding EXCEPT ![i] = a], cc', child')
        /\ \A d \in Child, b \in Addr :
             child'[d][b] = child[d][b] \/ (b = array[i] /\ child'[d][b] = "I")
    <3>1. EvictCC(i, Holding[i]) /\ LLCTypeOK /\ Directory(Precise, Holding, cc, child)
      BY <1>3, <1>6 DEF LLCInv, PreciseCoherence
    <3>2. /\ Directory(Precise, [Holding EXCEPT ![i] = a], cc', child')
          /\ \A d \in Child, b \in Addr :
               child'[d][b] = child[d][b] \/ (b = Holding[i] /\ child'[d][b] = "I")
      BY <1>3, <3>1, EvictKeeps
    <3> QED  BY <1>3, <3>2
  <2>5. PreciseInPlace'
    <3>1. \A k \in TagIds : array'[k] \in Precise => k \in TagCands(array'[k])
      BY <1>6, <2>1 DEF PreciseCoherence, PreciseInPlace
    <3>2. \A k, n \in TagIds : array'[k] = array'[n] /\ array'[k] \in Precise => k = n
      BY <2>1, <2>2 DEF PreciseCoherence, PreciseInPlace
    <3> QED  BY <1>1, <3>1, <3>2 DEF PreciseCoherence, PreciseInPlace, TagLines, TagCands
  <2>6. array[i] # a \/ a \notin Precise
    BY <2>2
  <2> QED  BY <1>4, <2>1, <2>3, <2>4, <2>5, <2>6
<1> QED  BY <1>2, <1>5, <1>6

\* processAccess touches no line but its own.
LEMMA ProcessElsewhere ==
  ASSUME LLCInv, req \in Work, ProcessPut \/ ProcessGETS \/ ProcessGETX
  PROVE  /\ \A i \in LineIds \ {req.id} : cc'[i] = cc[i]
         /\ \A d \in Child, b \in Addr \ {req.addr} : child'[d][b] = child[d][b]
<1> DEFINE c == req.child  a == req.addr
<1>1. /\ cc \in Entries /\ child \in AllCopies
      /\ c \in Child /\ a \in Addr /\ req.id \in LineIds
  BY DEF LLCInv, LLCTypeOK, Work, Entries, AllCopies
<1>2. CASE ProcessPut
  <2>1. child' = [child EXCEPT ![c][a] = "I"]
    BY <1>2 DEF ProcessPut
  <2>2. \E s, S : cc' = [cc EXCEPT ![req.id].state = s, ![req.id].sharers = S]
    BY <1>2 DEF ProcessPut
  <2>3. \A i \in LineIds \ {req.id} : cc'[i] = cc[i]
    BY <1>1, <2>2 DEF Entries
  <2> QED  BY <1>1, <2>1, <2>3 DEF AllCopies
<1>3. ASSUME NEW S, NEW type, NEW s,
             child' = [Invalidated(S, a, type) EXCEPT ![c][a] = s]
      PROVE  \A d \in Child, b \in Addr \ {a} : child'[d][b] = child[d][b]
  <2>1. \A d \in Child, b \in Addr \ {a} : Invalidated(S, a, type)[d][b] = child[d][b]
    BY DEF Invalidated
  <2>2. Invalidated(S, a, type) \in AllCopies
    BY InvalidatedType DEF LLCInv, AllCopies
  <2> QED  BY <1>1, <1>3, <2>1, <2>2 DEF AllCopies
<1>4. CASE ProcessGETS
  <2>1. PICK e : cc' = [cc EXCEPT ![req.id] = e]
    BY <1>4 DEF ProcessGETS
  <2>2. \A i \in LineIds \ {req.id} : cc'[i] = cc[i]
    BY <1>1, <2>1 DEF Entries
  <2>3. PICK S, s : child' = [Invalidated(S, a, "INVX") EXCEPT ![c][a] = s]
    BY <1>4 DEF ProcessGETS
  <2>4. \A d \in Child, b \in Addr \ {a} : child'[d][b] = child[d][b]
    BY <1>3, <2>3
  <2> QED  BY <2>2, <2>4
<1>5. CASE ProcessGETX
  <2>1. PICK e : cc' = [cc EXCEPT ![req.id] = e]
    BY <1>5 DEF ProcessGETX
  <2>2. \A i \in LineIds \ {req.id} : cc'[i] = cc[i]
    BY <1>1, <2>1 DEF Entries
  <2>3. PICK S, s : child' = [Invalidated(S, a, "INV") EXCEPT ![c][a] = s]
    BY <1>5 DEF ProcessGETX
  <2>4. \A d \in Child, b \in Addr \ {a} : child'[d][b] = child[d][b]
    BY <1>3, <2>3
  <2> QED  BY <2>2, <2>4
<1> QED  BY <1>2, <1>4, <1>5

\* ... and one is served: no precise line notices.
LEMMA ProcessPrecise ==
  ASSUME LLCInv, LLCInv', PreciseCoherence, ProcessPut \/ ProcessGETS \/ ProcessGETX
  PROVE  PreciseCoherence'
<1> DEFINE c == req.child  a == req.addr
<1>1. /\ req.pc = "process" /\ req \in Work /\ Answer
  <2>1. req.pc = "process" /\ Answer
    BY Zenon DEF ProcessPut, ProcessGETS, ProcessGETX
  <2> QED  BY <2>1 DEF LLCInv, LLCTypeOK, NoReq
<1>2. /\ pending' = [pending EXCEPT ![c] = NoRequest] /\ req'.pc = "idle"
      /\ UNCHANGED <<array_t, op, array, approx>>
  BY <1>1 DEF Answer, dpgVars, NoReq
<1>3. /\ \A i \in LineIds \ {req.id} : cc'[i] = cc[i]
      /\ \A d \in Child, b \in Addr \ {a} : child'[d][b] = child[d][b]
      /\ c \in Child /\ a \in Addr /\ req.id \in LineIds
      /\ child \in AllCopies
  BY <1>1, ProcessElsewhere DEF Work, LLCInv, LLCTypeOK, AllCopies
<1>4. Holding' = Holding /\ PreciseInPlace'
  BY <1>2 DEF Holding, PreciseCoherence, PreciseInPlace, TagLines, TagCands
<1>5. /\ Directory(Precise, Holding, cc', child')
      /\ a \in Precise => \A d \in Child \ {c} : Kept(d, a)
  <2>1. CASE a \in Precise
    <3>1. AtWork(Precise, Holding)
      BY <1>1, <2>1, HoldingIs, PreciseHolding
         DEF AtWork, LLCInv, PreciseCoherence, PreciseWork
    <3>2. CASE ProcessPut
      <4>1. Directory(Precise, Holding, cc', child') /\ child' = [child EXCEPT ![c][a] = "I"]
        BY <3>1, <3>2, PutKeeps
      <4> QED  BY <1>3, <4>1 DEF Kept, AllCopies
    <3>3. CASE ProcessGETS
      <4>1. /\ Directory(Precise, Holding, cc', child')
            /\ \A d \in Child \ {req.child} :
                 \/ child'[d][req.addr] = child[d][req.addr]
                 \/ Exclusive(child[d][req.addr]) /\ child'[d][req.addr] = "S"
        <5> HIDE DEF a, c
        <5> QED  BY <3>1, <3>3, GETSKeeps
      <4> QED  BY <4>1 DEF Kept
    <3>4. CASE ProcessGETX
      <4>1. /\ Directory(Precise, Holding, cc', child')
            /\ \A d \in Child \ {c} : child'[d][a] = "I"
        BY <3>1, <3>4, GETXKeeps
      <4> QED  BY <4>1 DEF Kept
    <3> QED  BY <3>2, <3>3, <3>4
  <2>2. CASE a \notin Precise
    <3>1. Holding[req.id] \notin Precise
      <4>1. CASE req.id \in TagIds
        BY <1>1, <2>2, <4>1, HoldingIs DEF PreciseCoherence, PreciseWork
      <4>2. CASE req.id \notin TagIds
        BY <1>3, <4>2, PreciseHolding DEF PreciseCoherence
      <4> QED  BY <4>1, <4>2
    <3>2. \A i \in LineIds : Holding[i] \in Precise => cc'[i] = cc[i]
      BY <1>3, <3>1
    <3>3. \A d \in Child, b \in Precise : child'[d][b] = child[d][b]
      BY <1>3, <2>2 DEF Precise
    <3>4. TagLines(array_t')
      BY <1>2 DEF PreciseCoherence, PreciseInPlace, TagLines
    <3> QED  BY <1>2, <1>4, <2>2, <3>2, <3>3, <3>4, PreciseElsewhere DEF PreciseCoherence
  <2> QED  BY <2>1, <2>2
<1>6. PreciseRequests'
  <2>1. ASSUME NEW d \in Child, pending'[d] # NoRequest
        PROVE  pending'[d] = pending[d] /\ \A b \in Precise : Kept(d, b)
    <3>1. d # c /\ pending'[d] = pending[d]
      BY <1>2, <2>1 DEF LLCInv, LLCTypeOK
    <3>2. \A b \in Precise : Kept(d, b)
      BY <1>3, <1>5, <3>1 DEF Kept, Precise
    <3> QED  BY <3>1, <3>2
  <2> QED  BY <2>1, PreciseRequestsStay DEF LLCInv, PreciseCoherence
<1>7. PreciseWork'
  BY <1>2 DEF PreciseWork
<1> QED  BY <1>4, <1>5, <1>6, <1>7 DEF PreciseCoherence

-----------------------------------------------------------------------------
(* The theorem                                                             *)

\* The initial states
LEMMA PreciseInit == LLCInit => PreciseCoherence
<1> SUFFICES ASSUME LLCInit PROVE PreciseCoherence
  OBVIOUS
<1>1. None \notin Precise
  BY InputAssumption DEF Precise
<1>2. \A i \in LineIds : Holding[i] = None
  BY IdsApart DEF Holding, LLCInit, Init, FreeTag
<1>3. Directory(Precise, Holding, cc, child)
  BY <1>1, <1>2 DEF LLCInit, Directory
<1>4. PreciseInPlace
  BY <1>1 DEF LLCInit, Init, FreeTag, Idle, PreciseInPlace, TagLines
<1>5. PreciseRequests /\ PreciseWork
  BY DEF LLCInit, PreciseRequests, PreciseWork, NoReq
<1> QED  BY <1>3, <1>4, <1>5 DEF PreciseCoherence

\* Every step, whatever the program does
LEMMA PreciseNext ==
  ASSUME LLCInv, LLCInv', PreciseCoherence, [LLCNext]_vars
  PROVE  PreciseCoherence'
<1>1. approx \subseteq Registered
  BY DEF PreciseCoherence, PreciseInPlace
<1>2. CASE UNCHANGED vars
  BY <1>1, <1>2, OutsideKeeps DEF vars, dpgVars, ccVars
<1>3. CASE LLCNext
  <2>1. ASSUME NEW a \in Addr, NEW m \in Map, Write(a, m)
        PROVE  PreciseCoherence'
    BY <1>1, <2>1, OutsideKeeps DEF Write, ProgramWrite, ccVars
  <2>2. ASSUME NEW a \in Addr, ChangeRegion(a) PROVE PreciseCoherence'
    BY <1>1, <2>2, OutsideKeeps DEF ChangeRegion, dpgVars
  <2>3. ASSUME NEW c \in Child, NEW a \in Addr, ChildWrite(c, a) PROVE PreciseCoherence'
    BY <2>3, WriteHitKeeps
  <2>4. ASSUME NEW c \in Child, NEW a \in Addr, NEW type \in Gets \cup Puts,
               ChildRequest(c, type, a)
        PROVE  PreciseCoherence'
    BY <2>4, AskKeeps
  <2>5. ASSUME NEW c \in Child, SkipAccess(c) PROVE PreciseCoherence'
    <3>1. /\ req.pc = "idle" /\ pending' = [pending EXCEPT ![c] = NoRequest]
          /\ UNCHANGED <<array_t, op, child, array, cc, approx, req>>
      BY <2>5 DEF SkipAccess, Ready, dpgVars
    <3>2. PreciseRequests'
      <4>1. ASSUME NEW d \in Child, pending'[d] # NoRequest
            PROVE  pending'[d] = pending[d] /\ \A b \in Precise : Kept(d, b)
        BY <3>1, <4>1 DEF Kept, LLCInv, LLCTypeOK
      <4> QED  BY <4>1, PreciseRequestsStay DEF LLCInv, PreciseCoherence
    <3>3. Holding' = Holding
      BY <3>1 DEF Holding
    <3> QED
      BY <3>1, <3>2, <3>3 DEF PreciseCoherence, PreciseInPlace, PreciseWork, TagLines, TagCands
  <2>6. ASSUME NEW c \in Child, Panic(c) PROVE PreciseCoherence'
    BY <1>1, <2>6, OutsideKeeps DEF Panic, dpgVars
  <2>7. ASSUME NEW c \in Child, StartApprox(c) PROVE PreciseCoherence'
    BY <2>7, StartApproxPrecise
  <2>8. ASSUME NEW c \in Child, StartExact(c) PROVE PreciseCoherence'
    BY <2>8, StartExactPrecise
  <2>9. CASE ContinueApprox
    BY <2>9, ContinuePrecise
  <2>10. CASE ProcessPut \/ ProcessGETS \/ ProcessGETX
    BY <2>10, ProcessPrecise
  <2> QED
    BY <1>3, <2>1, <2>2, <2>3, <2>4, <2>5, <2>6, <2>7, <2>8, <2>9, <2>10
       DEF LLCNext, Serve
<1> QED  BY <1>2, <1>3

\* Precise lines are in the cache once and tracked exactly, although a write or
\* a change of regions makes the cache lose track of approximable ones.
THEOREM PreciseAlwaysTracked == LLCSpec => []PreciseTracked
<1>1. LLCInit => LLCInv /\ PreciseCoherence
  BY LLCInitInv, PreciseInit
<1>2. LLCInv /\ PreciseCoherence /\ [LLCNext]_vars => (LLCInv /\ PreciseCoherence)'
  BY LLCNextInv, PreciseNext
<1>3. LLCInv /\ PreciseCoherence => PreciseTracked
  BY PreciseHolding, LineTracked DEF PreciseCoherence, PreciseTracked, Precise
<1> QED  BY <1>1, <1>2, <1>3, PTL DEF LLCSpec
=============================================================================
