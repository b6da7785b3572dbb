---------------------------- MODULE MESICCProofs -----------------------------
(***************************************************************************)
(* Theorems about the coherence controllers, for every tree of caches and  *)
(* every set of lines: no assertion is hit, what the caches hold agrees    *)
(* with their directories and is coherent, filters hold only what their    *)
(* caches do, and no write is lost.                                        *)
(*                                                                         *)
(* Each cache and its parent are related by Link, whichever steps are      *)
(* under way; the rest of the invariant says what the cache a request or   *)
(* an invalidation is at may count on.                                     *)
(***************************************************************************)
EXTENDS MESICC, FiniteSetTheorems, TLAPS

\* Child n is off its parent's list for line l while its upgrade is served.
OffList(n, l) ==
  LET a == acc[Parent[n]] IN
  a.pc = "serve" /\ a.type = "GETX" /\ a.child = n /\ a.line = l

\* A cache, its parent and the entry the parent has of it agree on a line.
Link(n, l) ==
  LET s == state[n][l]  t == state[Parent[n]][l]  e == dir[Parent[n]][l] IN
  /\ s # "I" => t # "I" /\ (n \in e.sharers \/ OffList(n, l))
  /\ Exclusive(s) => Exclusive(t) /\ e.exclusive /\ e.sharers = {n}
  /\ n \in e.sharers => s # "I" /\ (e.exclusive => Exclusive(s))
  /\ OffList(n, l) => n \notin e.sharers /\ s \in {"I", "S"} /\ (s = "S" => ~e.exclusive)

Links ==
  /\ \A p \in Inner, l \in Line : dir[p][l].sharers \subseteq Children(p)
  /\ \A n \in Node \ {Root}, l \in Line : Link(n, l)

\* What may have become of a line since the cache asked its parent about it
Since(s, initial) == s = initial \/ s = "I" \/ (s = "S" /\ Exclusive(initial))

\* What the access at cache n may count on in each phase
AccessOK(n) ==
  LET a == acc[n]  s == state[n][a.line]  v == state[n][a.victim] IN
  /\ a.wb => \/ a.pc = "evict" /\ Exclusive(v)
             \/ a.pc = "serve" /\ a.type \in Gets /\ Exclusive(s)
  /\ n \in Leaf => a.pc # "serve" /\ a.type \in Gets
  /\ n = Root => a.pc \notin {"put", "fetch"}
  /\ a.pc \in {"evict", "put"} => a.victim # a.line /\ a.type \in Gets /\ s = "I"
  /\ a.pc = "evict" => v # "I"
  /\ a.pc = "put" => /\ a.req \in Puts /\ a.initial # "I" /\ Since(v, a.initial)
                     /\ a.req = "PUTX" <=> a.initial = "M"
                     /\ \A c \in Children(n) : state[c][a.victim] = "I"
  /\ a.pc = "fetch" => /\ a.type \in Gets /\ a.req = a.type /\ Since(s, a.initial)
                       /\ a.initial \in IF a.type = "GETS" THEN {"I"} ELSE {"I", "S"}
  /\ a.pc \in {"filled", "serve"} =>
       /\ a.type = "GETS" => s # "I"
       /\ a.type \in {"GETX", "PUTX"} => s = "M"

Accesses == \A n \in Node : AccessOK(n)

\* The request that the access at cache p is for: the child waits with it.
RequestOK(p) ==
  LET a == acc[p]  c == acc[a.child]  s == state[a.child][a.line] IN
  a.child # NoNode =>
    /\ c.pc = (IF a.type \in Gets THEN "fetch" ELSE "put")
    /\ ReqLine(a.child) = a.line
    /\ a.type \in Gets => c.req = a.type
    /\ a.type \in Puts => a.pc \in {"ready", "filled", "serve"}
    /\ a.type = "PUTX" => s = "M"
    /\ a.type = "PUTS" => s \in {"E", "S"}

Requests == \A p \in Node : RequestOK(p)

\* The invalidation at cache c is one its parent is waiting for.
InvalOK(c) ==
  LET i == inv[c] IN
  IF i.pc = "idle" THEN ~i.wb
  ELSE /\ c \in Inner /\ c # Root
       /\ acc[c].pc \in {"idle", "put", "fetch"}
       /\ c \in SendTo(Parent[c]) /\ i.line \in Line
       /\ i.type = SendType(Parent[c]) /\ i.line = SendLine(Parent[c])
       /\ i.wb => Exclusive(state[c][i.line])

Invals == \A c \in Node : InvalOK(c)

IInv ==
  /\ TypeOK /\ Links
  /\ Accesses /\ Requests /\ Invals

\* Someone still has what a core wrote to the line.
Covered(l) ==
  \/ \E n \in Node : state[n][l] = "M"
  \/ \E n \in Node : acc[n].wb /\ SendLine(n) = l
  \/ \E n \in Node : inv[n].wb /\ inv[n].line = l

\* A step does so little to the leaves that no core notices, and keeps writes.
Unnoticed ==
  /\ \A m \in Leaf : \/ acc'[m].pc = acc[m].pc /\ state'[m] = state[m]
                     \/ acc'[m].pc # "idle"
  /\ \A k \in unsaved' : Covered(k) => Covered(k)'

-----------------------------------------------------------------------------
(* The tree                                                                *)

\* What the tree looks like from a node
LEMMA Tree ==
  /\ \A n \in Node \ {Root} :
       /\ Parent[n] \in Node /\ Parent[n] \in Inner /\ n \in Children(Parent[n])
       /\ Parent[n] # n
       /\ Parent[n] # Root => Parent[Parent[n]] # n /\ Parent[Parent[n]] \in Node
  /\ \A p \in Node : \A c \in Children(p) : c \in Node \ {Root} /\ Parent[c] = p
  /\ Leaf \subseteq Node /\ Inner \subseteq Node /\ Leaf \cap Inner = {}
  /\ \A n \in Node : n \in Inner <=> n \notin Leaf
  /\ \A n \in Leaf : Children(n) = {}
<1>1. ASSUME NEW n \in Node \ {Root}
      PROVE  Parent[n] \in Node /\ Parent[n] \in Inner /\ n \in Children(Parent[n])
  BY TreeAssumption DEF Inner, Leaf, Children
<1>2. ASSUME NEW n \in Node \ {Root} PROVE Parent[n] # n
  <2>1. {n} \in (SUBSET Node) \ {{}}
    OBVIOUS
  <2> QED  BY <2>1, TreeAssumption
<1>3. ASSUME NEW n \in Node \ {Root}, Parent[n] # Root PROVE Parent[Parent[n]] # n
  <2>1. {n, Parent[n]} \in (SUBSET Node) \ {{}}
    BY <1>1
  <2>2. PICK m \in {n, Parent[n]} : m = Root \/ Parent[m] \notin {n, Parent[n]}
    BY <2>1, TreeAssumption
  <2> QED  BY <1>3, <2>2
<1>4. \A p \in Node : \A c \in Children(p) : c \in Node \ {Root} /\ Parent[c] = p
  BY DEF Children
<1> QED  BY <1>1, <1>2, <1>3, <1>4 DEF Leaf, Inner

-----------------------------------------------------------------------------
(* What the invariant says of one entry, one access, one invalidation      *)

\* The types, point by point
LEMMA Types ==
  ASSUME TypeOK
  PROVE  /\ \A n \in Node, l \in Line : state[n][l] \in MESI
         /\ \A p \in Inner, l \in Line :
              /\ dir[p][l].sharers \in SUBSET Node /\ dir[p][l].exclusive \in BOOLEAN
              /\ dir[p][l] \in [sharers: SUBSET Node, exclusive: BOOLEAN]
         /\ \A n \in Node :
              /\ acc[n] \in Access /\ inv[n] \in Invalidation
              /\ acc[n].pc # "idle" => acc[n].line \in Line
              /\ acc[n].pc \in {"evict", "put"} => acc[n].victim \in Line
              /\ acc[n].pc \in {"put", "fetch"} => ReqLine(n) \in Line
              /\ acc[n].child # NoNode =>
                   /\ acc[n].pc # "idle" /\ n \in Inner
                   /\ acc[n].child \in Children(n) /\ acc[n].child \in Node \ {Root}
                   /\ Parent[acc[n].child] = n
  BY Tree DEF TypeOK, Access, ReqLine

\* An entry is exclusive for whoever is on its list.
LEMMA ExclusiveEntry ==
  ASSUME IInv, NEW p \in Inner, NEW l \in Line
  PROVE  LET e == dir[p][l] IN
         /\ IsExclusive(e) <=> e.exclusive /\ e.sharers # {}
         /\ \A c \in e.sharers :
              /\ c \in Node \ {Root} /\ Parent[c] = p /\ c \in Children(p)
              /\ state[c][l] # "I" /\ state[p][l] # "I"
              /\ IsExclusive(e) => Exclusive(state[c][l]) /\ e.sharers = {c}
              /\ Exclusive(state[c][l]) => IsExclusive(e) /\ e.sharers = {c}
<1> DEFINE e == dir[p][l]
<1>1. ASSUME NEW c \in e.sharers
      PROVE  /\ c \in Node \ {Root} /\ Parent[c] = p /\ c \in Children(p)
             /\ state[c][l] # "I" /\ state[p][l] # "I"
             /\ e.exclusive => Exclusive(state[c][l]) /\ e.sharers = {c}
             /\ Exclusive(state[c][l]) => e.exclusive /\ e.sharers = {c}
  <2>1. c \in Node \ {Root} /\ Parent[c] = p /\ c \in Children(p)
    BY Tree DEF IInv, Links
  <2>2. Link(c, l)
    BY <2>1 DEF IInv, Links
  <2> QED  BY <2>1, <2>2 DEF Link
<1>2. IsExclusive(e) <=> e.exclusive /\ e.sharers # {}
  <2>1. CASE e.sharers = {}
    BY <2>1, FS_EmptySet DEF IsExclusive
  <2>2. CASE e.sharers # {}
    <3>1. PICK c : c \in e.sharers
      BY <2>2
    <3>2. e.exclusive => e.sharers = {c} /\ Cardinality({c}) = 1
      BY <1>1, <3>1, FS_Singleton
    <3> QED  BY <2>2, <3>2 DEF IsExclusive
  <2> QED  BY <2>1, <2>2
<1> QED  BY <1>1, <1>2

\* Whom a cache may be sending invalidations to, and of what
LEMMA Sending ==
  ASSUME IInv, NEW p \in Node, NEW c \in SendTo(p)
  PROVE  /\ p \in Inner /\ c \in Node \ {Root} /\ Parent[c] = p /\ c \in Children(p)
         /\ SendLine(p) \in Line /\ SendType(p) \in {"INV", "INVX"}
         /\ c \in dir[p][SendLine(p)].sharers
         /\ state[c][SendLine(p)] # "I" /\ state[p][SendLine(p)] # "I"
         /\ SendType(p) = "INVX" => /\ Exclusive(state[c][SendLine(p)])
                                    /\ dir[p][SendLine(p)].sharers = {c}
         /\ \/ inv[p].pc = "send" /\ acc[p].pc \in {"idle", "put", "fetch"} /\ p # Root
            \/ inv[p].pc = "idle" /\ acc[p].pc = "evict" /\ SendType(p) = "INV"
                 /\ SendLine(p) = acc[p].victim
            \/ inv[p].pc = "idle" /\ acc[p].pc = "serve" /\ acc[p].type \in Gets
                 /\ SendLine(p) = acc[p].line /\ acc[p].child # c
                 /\ SendType(p) = IF acc[p].type = "GETS" THEN "INVX" ELSE "INV"
<1> DEFINE l == SendLine(p)
<1>1. p \in Inner /\ c \in dir[p][l].sharers /\ (SendType(p) = "INVX" => IsExclusive(dir[p][l]))
  BY DEF SendTo
<1>2. \/ inv[p].pc = "send" /\ acc[p].pc \in {"idle", "put", "fetch"} /\ p # Root
           /\ l = inv[p].line /\ inv[p].line \in Line /\ SendType(p) = inv[p].type
      \/ inv[p].pc = "idle" /\ acc[p].pc = "evict" /\ SendType(p) = "INV"
           /\ l = acc[p].victim
      \/ inv[p].pc = "idle" /\ acc[p].pc = "serve" /\ acc[p].type \in Gets
           /\ l = acc[p].line
           /\ SendType(p) = IF acc[p].type = "GETS" THEN "INVX" ELSE "INV"
  <2>1. InvalOK(p) /\ inv[p] \in Invalidation
    BY Types DEF IInv, Invals
  <2> QED  BY <2>1 DEF SendTo, SendLine, SendType, InvalOK, Invalidation
<1>3. l \in Line /\ SendType(p) \in {"INV", "INVX"}
  BY <1>2, Types DEF IInv, Invalidation
<1> HIDE DEF l
<1>4. /\ c \in Node \ {Root} /\ Parent[c] = p /\ c \in Children(p)
      /\ state[c][l] # "I" /\ state[p][l] # "I"
      /\ SendType(p) = "INVX" => Exclusive(state[c][l]) /\ dir[p][l].sharers = {c}
  BY <1>1, <1>3, ExclusiveEntry
<1>5. ASSUME inv[p].pc = "idle", acc[p].pc = "serve", acc[p].type \in Gets, l = acc[p].line
      PROVE  acc[p].child # c
  <2> SUFFICES ASSUME acc[p].child = c PROVE FALSE
    OBVIOUS
  <2>1. CASE acc[p].type = "GETX"
    BY <1>1, <1>3, <1>4, <1>5, <2>1 DEF IInv, Links, Link, OffList
  <2>2. CASE acc[p].type = "GETS"
    <3>1. RequestOK(p) /\ AccessOK(c) /\ acc[p].child # NoNode
      BY <1>4, NameAssumption DEF IInv, Requests, Accesses
    <3>2. acc[c].pc = "fetch" /\ acc[c].req = "GETS" /\ acc[c].line = l
      BY <1>5, <2>2, <3>1 DEF RequestOK, ReqLine, Gets
    <3>3. state[c][l] = "I"
      BY <3>1, <3>2 DEF AccessOK, Since, Exclusive
    <3> QED  BY <1>4, <3>3
  <2> QED  BY <1>5, <2>1, <2>2 DEF Gets
<1> QED  BY <1>1, <1>2, <1>3, <1>4, <1>5 DEF l

\* A cache with an exclusive copy shares its parent with no other copy.
LEMMA Siblings ==
  ASSUME IInv, NEW p \in Inner, NEW m \in Children(p), NEW n \in Children(p), m # n,
         NEW l \in Line, Exclusive(state[m][l])
  PROVE  state[n][l] = "I"
<1>1. Link(m, l) /\ Link(n, l) /\ Parent[m] = p /\ Parent[n] = p
  BY Tree DEF IInv, Links, Inner
<1> QED  BY <1>1, Types DEF Link, IInv, MESI

\* A cache is working on the request of a child only if that waits with it.
LEMMA Waiting ==
  ASSUME IInv, NEW p \in Node, NEW n \in Node, acc[p].child = n
  PROVE  acc[n].pc \in {"put", "fetch"} /\ n # Root /\ Parent[n] = p /\ acc[p].pc # "idle"
<1>1. acc[p].child # NoNode /\ RequestOK(p)
  BY NameAssumption DEF IInv, Requests
<1> QED  BY <1>1, Types DEF IInv, RequestOK

-----------------------------------------------------------------------------
(* Steps within one cache                                                  *)

\* What such a step may make of line l in cache n: its parent must not see it,
\* and its children be allowed what they have.
Raised(n, l) ==
  \/ /\ state'[n][l] = "I" <=> state[n][l] = "I"
     /\ Exclusive(state'[n][l]) <=> Exclusive(state[n][l])
  \/ /\ n = Root
     /\ \/ \A c \in Children(n) : state[c][l] = "I"
        \/ /\ state'[n][l] # "I"
           /\ Exclusive(state[n][l]) => Exclusive(state'[n][l])

\* A step of a node that changes its own access and state only
LEMMA LocalStep ==
  ASSUME IInv, TypeOK', NEW n \in Node, UNCHANGED <<dir, inv>>,
         \A m \in Node \ {n} : acc'[m] = acc[m] /\ state'[m] = state[m],
         (acc'[n] = acc[n] /\ state'[n] = state[n]) \/ \A p \in Node : acc[p].child # n,
         acc[n].pc # "serve", acc'[n].pc # "serve",
         inv[n].pc = "send" => acc'[n].pc \in {"idle", "put", "fetch"} /\ state'[n] = state[n],
         inv[n].pc = "send" \/ SendTo(n) = {},
         \A l \in Line : Raised(n, l),
         AccessOK(n)', RequestOK(n)'
  PROVE  IInv'
<1>1. \A m \in Node, l \in Line : m # n => state'[m][l] = state[m][l]
  OBVIOUS
<1>2. Links'
  <2>1. ASSUME NEW m \in Node \ {Root}, NEW l \in Line PROVE Link(m, l)'
    <3>1. Link(m, l) /\ Parent[m] \in Node /\ Parent[m] # m /\ m \in Children(Parent[m])
      BY Tree DEF IInv, Links
    <3>2. OffList(m, l)' <=> OffList(m, l)
      BY <3>1 DEF OffList
    <3>3. CASE m = n
      <4>1. /\ state'[m][l] = "I" <=> state[m][l] = "I"
            /\ Exclusive(state'[m][l]) <=> Exclusive(state[m][l])
            /\ state'[Parent[m]][l] = state[Parent[m]][l]
            /\ state[m][l] \in MESI /\ state'[m][l] \in MESI
        BY <1>1, <3>1, <3>3, Types DEF Raised, IInv, TypeOK
      <4> QED  BY <3>1, <3>2, <4>1 DEF Link, MESI, Exclusive
    <3>4. CASE m # n /\ Parent[m] = n
      <4>1. /\ state'[m][l] = state[m][l]
            /\ state[m][l] # "I" => state'[n][l] # "I"
            /\ Exclusive(state[m][l]) => Exclusive(state'[n][l])
        <5>1. state[m][l] # "I" => state[n][l] # "I"
          BY <3>1, <3>4 DEF Link
        <5>2. Exclusive(state[m][l]) => Exclusive(state[n][l])
          BY <3>1, <3>4 DEF Link
        <5> QED  BY <1>1, <3>1, <3>4, <5>1, <5>2 DEF Raised, Exclusive
      <4> QED  BY <3>1, <3>2, <3>4, <4>1 DEF Link
    <3>5. CASE m # n /\ Parent[m] # n
      <4>1. state'[m][l] = state[m][l] /\ state'[Parent[m]][l] = state[Parent[m]][l]
        BY <1>1, <3>1, <3>5
      <4> QED  BY <3>1, <3>2, <4>1 DEF Link
    <3> QED  BY <3>3, <3>4, <3>5
  <2>2. \A p \in Inner, l \in Line : dir'[p][l].sharers \subseteq Children(p)
    BY DEF IInv, Links
  <2> QED  BY <2>1, <2>2 DEF Links
<1>3. Accesses'
  <2>1. ASSUME NEW m \in Node \ {n} PROVE AccessOK(m)'
    <3>1. AccessOK(m) /\ acc'[m] = acc[m] /\ state'[m] = state[m]
      BY DEF IInv, Accesses
    <3>2. ASSUME acc[m].pc = "put", NEW c \in Children(m) PROVE state'[c][acc[m].victim] = "I"
      <4>1. state[c][acc[m].victim] = "I" /\ acc[m].victim \in Line /\ c \in Node \ {Root}
        BY <3>1, <3>2, Tree, Types DEF AccessOK, IInv
      <4> QED  BY <1>1, <4>1 DEF Raised, Exclusive
    <3> QED  BY <3>1, <3>2 DEF AccessOK
  <2> QED  BY <2>1 DEF Accesses
<1>4. Requests'
  <2>1. ASSUME NEW p \in Node \ {n}, acc'[p].child # NoNode PROVE RequestOK(p)'
    <3>1. acc'[p] = acc[p] /\ RequestOK(p)
      BY DEF IInv, Requests
    <3>2. acc[p].child \in Node /\ acc[p].line \in Line
      BY <2>1, <3>1, Types DEF IInv
    <3>3. acc'[acc[p].child] = acc[acc[p].child]
      BY <3>2
    <3>4. ReqLine(acc[p].child)' = ReqLine(acc[p].child)
      BY <3>1, <3>3 DEF ReqLine
    <3>5. state'[acc[p].child][acc[p].line] = state[acc[p].child][acc[p].line]
      <4>1. CASE acc[p].child # n
        BY <1>1, <3>2, <4>1
      <4>2. CASE acc[p].child = n
        BY <4>2
      <4> QED  BY <4>1, <4>2
    <3> QED  BY <3>1, <3>3, <3>4, <3>5 DEF RequestOK
  <2> QED  BY <2>1 DEF Requests, RequestOK
<1>5. Invals'
  <2>1. ASSUME NEW c \in Node PROVE InvalOK(c)'
    <3>1. InvalOK(c) /\ inv'[c] = inv[c]
      BY DEF IInv, Invals
    <3> SUFFICES ASSUME inv[c].pc # "idle"
                 PROVE  /\ acc'[c].pc \in {"idle", "put", "fetch"}
                        /\ c \in SendTo(Parent[c])'
                        /\ SendType(Parent[c])' = SendType(Parent[c])
                        /\ SendLine(Parent[c])' = SendLine(Parent[c])
                        /\ state'[c][inv[c].line] = state[c][inv[c].line]
      BY <3>1 DEF InvalOK
    <3> DEFINE p == Parent[c]
    <3>2. c \in Node \ {Root} /\ p \in Node /\ c \in SendTo(p) /\ inv[c].line \in Line
      BY <3>1, Tree DEF InvalOK
    <3>3. inv[c].pc = "send"
      BY Types DEF IInv, Invalidation
    <3>4. p = n => inv[p].pc = "send"
      BY <3>2
    <3>5. acc'[p] = acc[p] \/ inv[p].pc = "send"
      BY <3>2, <3>4
    <3>6. SendType(p)' = SendType(p) /\ SendLine(p)' = SendLine(p) /\ SendTo(p)' = SendTo(p)
      BY <3>5 DEF SendType, SendLine, SendTo
    <3>7. acc'[c].pc \in {"idle", "put", "fetch"}
      BY <3>1, <3>3 DEF InvalOK
    <3>8. state'[c][inv[c].line] = state[c][inv[c].line]
      BY <3>3
    <3> QED  BY <3>2, <3>6, <3>7, <3>8
  <2> QED  BY <2>1 DEF Invals
<1> QED  BY <1>2, <1>3, <1>4, <1>5 DEF IInv

\* Such a step that drops no writeback and no line in state M loses no write.
LEMMA LocalCover ==
  ASSUME NEW n \in Node, UNCHANGED inv,
         \A m \in Node \ {n} : acc'[m] = acc[m] /\ state'[m] = state[m],
         acc[n].wb = FALSE, NEW k \in Line,
         state[n][k] = "M" => state'[n][k] = "M",
         Covered(k)
  PROVE  Covered(k)'
<1>1. CASE \E m \in Node : state[m][k] = "M"
  BY <1>1 DEF Covered
<1>2. ASSUME NEW m \in Node, acc[m].wb, SendLine(m) = k PROVE Covered(k)'
  <2>1. acc'[m] = acc[m] /\ inv'[m] = inv[m]
    BY <1>2
  <2>2. SendLine(m)' = k
    BY <1>2, <2>1 DEF SendLine
  <2> QED  BY <1>2, <2>1, <2>2 DEF Covered
<1>3. CASE \E m \in Node : inv[m].wb /\ inv[m].line = k
  BY <1>3 DEF Covered
<1> QED  BY <1>1, <1>2, <1>3 DEF Covered

-----------------------------------------------------------------------------
(* The cores' steps and those of the bottom controllers                    *)

\* The type of the access at cache n, in its phase
AccessType(n, a) ==
  /\ a \in Access
  /\ a.pc = "idle" <=> a.line = NoLine
  /\ a.pc \in {"evict", "put"} <=> a.victim # NoLine
  /\ a.child # NoNode <=> n \in Inner /\ a.pc # "idle"
  /\ a.child # NoNode => a.child \in Children(n)

\* The access of a node has its type.
LEMMA AccessTypes == TypeOK => \A n \in Node : AccessType(n, acc[n])
BY DEF TypeOK, AccessType

\* The types stay when the access at one cache changes.
LEMMA OneAccess ==
  ASSUME TypeOK, NEW n \in Node, NEW a, AccessType(n, a), acc' = [acc EXCEPT ![n] = a],
         state' \in [Node -> [Line -> MESI]], dir' = dir, inv' = inv,
         filter' \in [Leaf -> [rd: Line \cup {NoLine}, wr: Line \cup {NoLine}]],
         unsaved' \in SUBSET Line, fault' \in BOOLEAN
  PROVE  TypeOK' /\ acc'[n] = a /\ \A m \in Node \ {n} : acc'[m] = acc[m]
<1>1. acc' \in [Node -> Access] /\ acc'[n] = a /\ \A m \in Node \ {n} : acc'[m] = acc[m]
  BY DEF TypeOK, AccessType
<1>2. \A m \in Node : AccessType(m, acc'[m])
  BY <1>1, AccessTypes
<1> QED  BY <1>1, <1>2 DEF TypeOK, AccessType

\* No access, too
LEMMA IdleAccess == \A n \in Node : AccessType(n, NoAccess)
BY NameAssumption DEF AccessType, NoAccess, Access, Gets, Puts, MESI

\* A leaf sends no invalidation and is given none to pass on.
LEMMA LeafQuiet ==
  ASSUME IInv, NEW n \in Leaf
  PROVE  inv[n].pc = "idle" /\ SendTo(n) = {} /\ acc[n].child = NoNode /\ n \in Node
<1>1. InvalOK(n) /\ n \in Node /\ n \notin Inner
  BY Tree DEF IInv, Invals
<1> QED  BY <1>1, Types DEF InvalOK, SendTo, IInv, Invalidation

\* An access that holds its cache's lock is alone there.
LEMMA LockHeld ==
  ASSUME IInv, NEW n \in Node, acc[n].pc \notin {"idle", "put", "fetch"}
  PROVE  inv[n].pc = "idle"
<1>1. InvalOK(n) /\ inv[n] \in Invalidation
  BY Types DEF IInv, Invals
<1> QED  BY <1>1 DEF InvalOK, Invalidation

\* A store that the filter cache allows
LEMMA FilterStoreKeeps ==
  ASSUME IInv, NEW n \in Node, NEW l \in Line, FilterStore(n, l)
  PROVE  IInv'
<1>1. UNCHANGED <<state, dir, acc, inv, filter, fault>> /\ acc[n].pc = "idle"
  BY DEF FilterStore
<1>2. TypeOK'
  BY <1>1 DEF FilterStore, IInv, TypeOK
<1>3. AccessOK(n)' /\ RequestOK(n)'
  BY <1>1 DEF IInv, Accesses, Requests, AccessOK, RequestOK, ReqLine
<1>4. inv[n].pc = "send" \/ SendTo(n) = {}
  BY <1>1 DEF SendTo
<1>5. \A k \in Line : Raised(n, k)
  BY <1>1 DEF Raised
<1> QED  BY <1>1, <1>2, <1>3, <1>4, <1>5, LocalStep

\* The filter is cleared when threads change.
LEMMA ContextSwitchKeeps ==
  ASSUME IInv, NEW n \in Node, ContextSwitch(n)
  PROVE  IInv'
<1>1. UNCHANGED <<state, dir, acc, inv, unsaved, fault>> /\ acc[n].pc = "idle"
  BY DEF ContextSwitch
<1>2. TypeOK'
  BY <1>1 DEF ContextSwitch, IInv, TypeOK, NoFilter
<1>3. AccessOK(n)' /\ RequestOK(n)'
  BY <1>1 DEF IInv, Accesses, Requests, AccessOK, RequestOK, ReqLine
<1>4. inv[n].pc = "send" \/ SendTo(n) = {}
  BY <1>1 DEF SendTo
<1>5. \A k \in Line : Raised(n, k)
  BY <1>1 DEF Raised
<1> QED  BY <1>1, <1>2, <1>3, <1>4, <1>5, LocalStep

\* An access that hits in the L1
LEMMA CoreHitKeeps ==
  ASSUME IInv, NEW n \in Node, NEW type \in Gets, NEW l \in Line, CoreHit(n, type, l)
  PROVE  IInv'
<1>1. /\ n \in Leaf /\ acc[n].pc = "idle" /\ UNCHANGED <<dir, acc, inv, fault>>
      /\ \/ UNCHANGED <<state, unsaved>>
         \/ /\ Exclusive(state[n][l]) /\ state' = [state EXCEPT ![n][l] = "M"]
            /\ unsaved' = unsaved \cup {l}
      /\ filter' = [filter EXCEPT ![n] = Filtered(n, type, l)]
  BY DEF CoreHit, Gets
<1>2. TypeOK'
  <2>1. state \in [Node -> [Line -> MESI]] /\ unsaved \in SUBSET Line
    BY DEF IInv, TypeOK
  <2>2. unsaved' \in SUBSET Line
    BY <1>1, <2>1
  <2>3. state' \in [Node -> [Line -> MESI]]
    BY <1>1, <2>1 DEF MESI
  <2>4. filter' \in [Leaf -> [rd: Line \cup {NoLine}, wr: Line \cup {NoLine}]]
    BY <1>1 DEF IInv, TypeOK, Filtered, NoFilter
  <2> QED  BY <1>1, <2>2, <2>3, <2>4 DEF IInv, TypeOK
<1>3. AccessOK(n)' /\ RequestOK(n)'
  BY <1>1, LeafQuiet DEF IInv, Accesses, AccessOK, RequestOK
<1>4. inv[n].pc = "idle" /\ SendTo(n) = {}
  BY <1>1, LeafQuiet
<1>5. \A k \in Line : Raised(n, k)
  BY <1>1 DEF Raised, IInv, TypeOK, Exclusive
<1>6. \A p \in Node : acc[p].child # n
  BY <1>1, Waiting
<1>7. \A m \in Node \ {n} : acc'[m] = acc[m] /\ state'[m] = state[m]
  BY <1>1 DEF IInv, TypeOK
<1> QED  BY <1>1, <1>2, <1>3, <1>4, <1>5, <1>6, <1>7, LocalStep

\* What an access to a cache begins with: nothing but what it is for
IsFresh(a) ==
  a \in Access /\ a.pc = "idle" /\ a.victim = NoLine /\ a.wb = FALSE /\ a.line \in Line

\* An access that begins
LEMMA FreshAccess ==
  ASSUME NEW type \in Gets \cup Puts, NEW l \in Line, NEW child \in Node \cup {NoNode},
         NEW noexcl \in BOOLEAN
  PROVE  /\ IsFresh(NewAccess(type, l, child, noexcl))
         /\ NewAccess(type, l, child, noexcl).type = type
         /\ NewAccess(type, l, child, noexcl).line = l
         /\ NewAccess(type, l, child, noexcl).child = child
<1> DEFINE a1 == [NoAccess EXCEPT !.type = type]
           a2 == [a1 EXCEPT !.line = l]
           a3 == [a2 EXCEPT !.child = child]
           a4 == [a3 EXCEPT !.noexcl = noexcl]
<1>1. NewAccess(type, l, child, noexcl) = a4
  BY DEF NewAccess
<1>2. a1 \in Access /\ a1.pc = "idle" /\ a1.victim = NoLine /\ a1.wb = FALSE /\ a1.type = type
  BY DEF NoAccess, Access, Gets, MESI
<1>3. a2 = [a1 EXCEPT !.line = l]
  OBVIOUS
<1>4. a3 = [a2 EXCEPT !.child = child]
  OBVIOUS
<1>5. a4 = [a3 EXCEPT !.noexcl = noexcl]
  OBVIOUS
<1> HIDE DEF a1, a2, a3, a4
<1>6. IsFresh(a2) /\ a2.type = type /\ a2.line = l
  BY <1>2, <1>3 DEF IsFresh, Access
<1>7. IsFresh(a3) /\ a3.type = type /\ a3.line = l /\ a3.child = child
  BY <1>4, <1>6 DEF IsFresh, Access
<1>8. IsFresh(a4) /\ a4.type = type /\ a4.line = l /\ a4.child = child
  BY <1>5, <1>7 DEF IsFresh, Access
<1> QED  BY <1>1, <1>8

\* What the lookup makes of it
LEMMA Lookup ==
  ASSUME IInv, NEW n \in Node, NEW a0, IsFresh(a0),
         (a0.child \in Children(n) /\ a0.child # NoNode) \/ (a0.child = NoNode /\ n \in Leaf),
         NEW a \in AfterLookup(n, a0)
  PROVE  /\ AccessType(n, a)
         /\ a.type = a0.type /\ a.line = a0.line /\ a.child = a0.child /\ a.wb = FALSE
         /\ a.pc \in {"evict", "ready"}
         /\ a.pc = "evict" => /\ a.victim \in Line /\ a.victim # a.line
                              /\ state[n][a.line] = "I" /\ state[n][a.victim] # "I"
<1> DEFINE l == a0.line
<1>1. \/ a = [a0 EXCEPT !.pc = "ready"]
      \/ \E v \in Line \ {l} : /\ a = [a0 EXCEPT !.pc = "evict", !.victim = v]
                              /\ state[n][l] = "I" /\ state[n][v] # "I"
  <2> DEFINE victims == IF state[n][a0.line] # "I" THEN {}
                        ELSE {u \in Line \ {a0.line} : state[n][u] # "I"}
  <2>1. a \in {[a0 EXCEPT !.pc = "evict", !.victim = v] : v \in victims}
             \cup {[a0 EXCEPT !.pc = "ready"]}
    <3>1. AfterLookup(n, a0) = {[a0 EXCEPT !.pc = "evict", !.victim = v] : v \in victims} \cup
            IF n \in Direct /\ victims # {} THEN {} ELSE {[a0 EXCEPT !.pc = "ready"]}
      BY DEF AfterLookup
    <3> QED  BY <3>1
  <2>2. \A v \in victims : v \in Line \ {l} /\ state[n][l] = "I" /\ state[n][v] # "I"
    OBVIOUS
  <2> QED  BY <2>1, <2>2
<1>2. (n \in Leaf => Children(n) = {}) /\ (n \in Inner <=> n \notin Leaf)
  BY Tree
<1>3. (a0.child # NoNode <=> n \in Inner) /\ (a0.child # NoNode => a0.child \in Children(n))
  BY <1>2
<1>4. CASE a = [a0 EXCEPT !.pc = "ready"]
  <2>1. a \in Access /\ a.pc = "ready" /\ a.victim = NoLine /\ a.wb = FALSE
         /\ a.type = a0.type /\ a.line = a0.line /\ a.child = a0.child
    BY <1>4 DEF IsFresh, Access
  <2> QED  BY <1>3, <2>1, NameAssumption DEF AccessType, IsFresh
<1>5. ASSUME NEW v \in Line \ {l}, a = [a0 EXCEPT !.pc = "evict", !.victim = v],
             state[n][l] = "I", state[n][v] # "I"
      PROVE  /\ AccessType(n, a)
             /\ a.type = a0.type /\ a.line = a0.line /\ a.child = a0.child /\ a.wb = FALSE
             /\ a.pc = "evict" /\ a.victim = v
  <2>1. a \in Access /\ a.pc = "evict" /\ a.victim = v /\ a.wb = FALSE
         /\ a.type = a0.type /\ a.line = a0.line /\ a.child = a0.child
    BY <1>5 DEF IsFresh, Access
  <2> QED  BY <1>3, <2>1, NameAssumption DEF AccessType, IsFresh
<1> QED
  <2>1. CASE a = [a0 EXCEPT !.pc = "ready"]
    <3>1. a.pc = "ready" /\ a.type = a0.type /\ a.line = a0.line /\ a.child = a0.child
           /\ a.wb = FALSE
      BY <2>1 DEF IsFresh, Access
    <3> QED  BY <1>4, <2>1, <3>1
  <2> QED  BY <1>1, <1>5, <2>1

\* What is left of an access that goes on
LEMMA Resumed ==
  ASSUME NEW a \in Access, NEW pc \in {"ready", "filled"}
  PROVE  /\ Resume(a, pc) \in Access
         /\ Resume(a, pc).pc = pc /\ Resume(a, pc).victim = NoLine
         /\ Resume(a, pc).type = a.type /\ Resume(a, pc).line = a.line
         /\ Resume(a, pc).child = a.child /\ Resume(a, pc).wb = a.wb
<1> DEFINE a1 == [a EXCEPT !.pc = pc]
           a2 == [a1 EXCEPT !.victim = NoLine]
           a3 == [a2 EXCEPT !.req = "GETS"]
           a4 == [a3 EXCEPT !.initial = "I"]
<1>1. Resume(a, pc) = a4
  BY DEF Resume
<1>2. /\ a1 \in Access
      /\ a1.pc = pc /\ a1.type = a.type /\ a1.line = a.line /\ a1.child = a.child /\ a1.wb = a.wb
  BY DEF Access
<1>3. a2 = [a1 EXCEPT !.victim = NoLine]
  OBVIOUS
<1>4. a3 = [a2 EXCEPT !.req = "GETS"]
  OBVIOUS
<1>5. a4 = [a3 EXCEPT !.initial = "I"]
  OBVIOUS
<1> HIDE DEF a1, a2, a3, a4
<1>6. /\ a2 \in Access /\ a2.victim = NoLine
      /\ a2.pc = pc /\ a2.type = a.type /\ a2.line = a.line /\ a2.child = a.child /\ a2.wb = a.wb
  BY <1>2, <1>3 DEF Access
<1>7. /\ a3 \in Access /\ a3.victim = NoLine
      /\ a3.pc = pc /\ a3.type = a.type /\ a3.line = a.line /\ a3.child = a.child /\ a3.wb = a.wb
  BY <1>4, <1>6 DEF Access, Gets
<1>8. /\ a4 \in Access /\ a4.victim = NoLine
      /\ a4.pc = pc /\ a4.type = a.type /\ a4.line = a.line /\ a4.child = a.child /\ a4.wb = a.wb
  BY <1>5, <1>7 DEF Access, MESI
<1> QED  BY <1>1, <1>8

\* A request that is being served stays what it was.
LEMMA RequestKept ==
  ASSUME IInv, NEW n \in Node, acc[n].pc # "idle",
         acc'[n].child = acc[n].child, acc'[n].type = acc[n].type, acc'[n].line = acc[n].line,
         \A m \in Node \ {n} : acc'[m] = acc[m] /\ state'[m] = state[m],
         acc[n].type \in Gets \/ acc'[n].pc \in {"ready", "filled", "serve"}
  PROVE  RequestOK(n)'
<1> SUFFICES ASSUME acc[n].child # NoNode PROVE RequestOK(n)'
  BY DEF RequestOK
<1>1. acc[n].child \in Node \ {n}
  BY Types, Tree DEF IInv
<1>2. RequestOK(n) /\ acc'[acc[n].child] = acc[acc[n].child]
       /\ state'[acc[n].child] = state[acc[n].child]
  BY <1>1 DEF IInv, Requests
<1> QED  BY <1>2 DEF RequestOK, ReqLine, Gets, Puts

\* What a core's access begins with when it misses
Begins(n, type, l, a) ==
  /\ acc' = [acc EXCEPT ![n] = a]
  /\ AccessType(n, a)
  /\ a.type = type /\ a.line = l /\ a.child = NoNode /\ a.wb = FALSE
  /\ a.pc \in {"evict", "ready"}
  /\ a.pc = "evict" => /\ a.victim \in Line /\ a.victim # l
                       /\ state[n][l] = "I" /\ state[n][a.victim] # "I"

\* A miss of a core begins an access ...
LEMMA CoreLookup ==
  ASSUME IInv, NEW n \in Node, NEW type \in Gets, NEW l \in Line, CoreMiss(n, type, l)
  PROVE  \E a : Begins(n, type, l, a)
<1> DEFINE a0 == NewAccess(type, l, NoNode, n \in ICache)
<1>1. PICK a \in AfterLookup(n, a0) : acc' = [acc EXCEPT ![n] = a]
  BY DEF CoreMiss
<1>2. IsFresh(a0) /\ a0.type = type /\ a0.line = l /\ a0.child = NoNode
  <2>1. PICK x \in BOOLEAN : a0 = NewAccess(type, l, NoNode, x)
    <3> DEFINE x == n \in ICache
    <3>1. a0 = NewAccess(type, l, NoNode, x)
      OBVIOUS
    <3>2. x \in BOOLEAN
      OBVIOUS
    <3> HIDE DEF x, a0
    <3> QED  BY <3>1, <3>2
  <2>2. type \in Gets \cup Puts /\ NoNode \in Node \cup {NoNode}
    OBVIOUS
  <2> HIDE DEF a0
  <2> QED  BY <2>1, <2>2, FreshAccess
<1> HIDE DEF a0
<1>3. n \in Leaf
  BY DEF CoreMiss
<1>4. (a0.child \in Children(n) /\ a0.child # NoNode) \/ (a0.child = NoNode /\ n \in Leaf)
  BY <1>2, <1>3
<1>5. a.line = a0.line /\ a.type = a0.type /\ a.child = a0.child
  BY <1>1, <1>2, <1>4, Lookup
<1>6. a \in AfterLookup(n, a0)
  BY <1>1
<1>7. /\ AccessType(n, a)
      /\ a.type = type /\ a.line = l /\ a.child = NoNode /\ a.wb = FALSE
      /\ a.pc \in {"evict", "ready"}
      /\ a.pc = "evict" => /\ a.victim \in Line /\ a.victim # l
                           /\ state[n][l] = "I" /\ state[n][a.victim] # "I"
  BY <1>2, <1>4, <1>5, <1>6, Lookup
<1> QED  BY <1>1, <1>7 DEF Begins

\* ... and keeps the invariant.
LEMMA CoreMissKeeps ==
  ASSUME IInv, NEW n \in Node, NEW type \in Gets, NEW l \in Line, CoreMiss(n, type, l)
  PROVE  IInv'
<1>1. /\ n \in Leaf /\ acc[n].pc = "idle"
      /\ UNCHANGED <<state, dir, inv, filter, unsaved, fault>>
  BY DEF CoreMiss
<1>0. PICK a : Begins(n, type, l, a)
  BY CoreLookup
<1>2. /\ acc' = [acc EXCEPT ![n] = a]
      /\ AccessType(n, a)
      /\ a.type = type /\ a.line = l /\ a.child = NoNode /\ a.wb = FALSE
      /\ a.pc \in {"evict", "ready"}
      /\ a.pc = "evict" => /\ a.victim \in Line /\ a.victim # l
                           /\ state[n][l] = "I" /\ state[n][a.victim] # "I"
  BY <1>0 DEF Begins
<1>3. TypeOK' /\ acc'[n] = a /\ \A m \in Node \ {n} : acc'[m] = acc[m]
  BY <1>1, <1>2, OneAccess DEF IInv, TypeOK
<1>4. AccessOK(n)' /\ RequestOK(n)'
  BY <1>1, <1>2, <1>3 DEF AccessOK, RequestOK
<1>5. inv[n].pc = "idle" /\ SendTo(n) = {}
  BY <1>1, LeafQuiet
<1>6. \A k \in Line : Raised(n, k)
  BY <1>1 DEF Raised
<1>7. \A p \in Node : acc[p].child # n
  BY <1>1, Waiting
<1> QED  BY <1>1, <1>2, <1>3, <1>4, <1>5, <1>6, <1>7, LocalStep

\* The core has its line.
LEMMA CoreDoneKeeps ==
  ASSUME IInv, NEW n \in Node, CoreDone(n)
  PROVE  IInv'
<1>1. /\ n \in Leaf /\ acc[n].pc = "filled" /\ UNCHANGED <<state, dir, inv, fault>>
      /\ acc' = [acc EXCEPT ![n] = NoAccess]
      /\ filter' = [filter EXCEPT ![n] = Filtered(n, acc[n].type, acc[n].line)]
      /\ unsaved' \subseteq unsaved \cup {acc[n].line}
  BY DEF CoreDone
<1>2. acc[n].line \in Line
  BY <1>1, Types DEF IInv
<1>3. filter' \in [Leaf -> [rd: Line \cup {NoLine}, wr: Line \cup {NoLine}]]
  BY <1>1, <1>2 DEF IInv, TypeOK, Filtered, NoFilter
<1>4. TypeOK' /\ acc'[n] = NoAccess /\ \A m \in Node \ {n} : acc'[m] = acc[m]
  <2>1. unsaved' \in SUBSET Line /\ fault' \in BOOLEAN /\ state' \in [Node -> [Line -> MESI]]
    BY <1>1, <1>2 DEF IInv, TypeOK
  <2> QED  BY <1>1, <1>3, <2>1, IdleAccess, OneAccess DEF IInv
<1>5. AccessOK(n)' /\ RequestOK(n)'
  BY <1>4 DEF AccessOK, RequestOK, NoAccess, Gets
<1>6. inv[n].pc = "idle" /\ SendTo(n) = {}
  BY <1>1, LeafQuiet
<1>7. \A k \in Line : Raised(n, k)
  BY <1>1 DEF Raised
<1>8. \A p \in Node : acc[p].child # n
  BY <1>1, Waiting
<1>9. acc'[n].pc # "serve"
  BY <1>4 DEF NoAccess
<1> QED  BY <1>1, <1>4, <1>5, <1>6, <1>7, <1>8, <1>9, LocalStep

\* What an access to the parent is
LEMMA Asked ==
  ASSUME NEW a \in Access, NEW pc \in {"put", "fetch"}, NEW req \in Gets \cup Puts, NEW s \in MESI
  PROVE  /\ Ask(a, pc, req, s) \in Access
         /\ Ask(a, pc, req, s).pc = pc /\ Ask(a, pc, req, s).req = req
         /\ Ask(a, pc, req, s).initial = s /\ Ask(a, pc, req, s).victim = a.victim
         /\ Ask(a, pc, req, s).type = a.type /\ Ask(a, pc, req, s).line = a.line
         /\ Ask(a, pc, req, s).child = a.child /\ Ask(a, pc, req, s).wb = a.wb
<1> DEFINE a1 == [a EXCEPT !.pc = pc]
           a2 == [a1 EXCEPT !.req = req]
           a3 == [a2 EXCEPT !.initial = s]
<1>1. Ask(a, pc, req, s) = a3
  BY DEF Ask
<1>2. /\ a1 \in Access /\ a1.victim = a.victim
      /\ a1.pc = pc /\ a1.type = a.type /\ a1.line = a.line /\ a1.child = a.child /\ a1.wb = a.wb
  BY DEF Access
<1>3. a2 = [a1 EXCEPT !.req = req]
  OBVIOUS
<1>4. a3 = [a2 EXCEPT !.initial = s]
  OBVIOUS
<1> HIDE DEF a1, a2, a3
<1>5. /\ a2 \in Access /\ a2.victim = a.victim /\ a2.req = req
      /\ a2.pc = pc /\ a2.type = a.type /\ a2.line = a.line /\ a2.child = a.child /\ a2.wb = a.wb
  BY <1>2, <1>3 DEF Access
<1>6. /\ a3 \in Access /\ a3.victim = a.victim /\ a3.req = req /\ a3.initial = s
      /\ a3.pc = pc /\ a3.type = a.type /\ a3.line = a.line /\ a3.child = a.child /\ a3.wb = a.wb
  BY <1>4, <1>5 DEF Access
<1> QED  BY <1>1, <1>6

\* An access without the writeback it noted
LEMMA Unmarked ==
  ASSUME NEW a \in Access
  PROVE  LET b == [a EXCEPT !.wb = FALSE] IN
         /\ b \in Access /\ b.wb = FALSE
         /\ b.pc = a.pc /\ b.type = a.type /\ b.line = a.line
         /\ b.child = a.child /\ b.victim = a.victim
BY DEF Access

\* No child has a line that is gone from the list.
LEMMA NoSharers ==
  ASSUME IInv, NEW n \in Node, NEW l \in Line, n \in Inner => dir[n][l].sharers = {},
         acc[n].pc # "serve"
  PROVE  \A c \in Children(n) : state[c][l] = "I"
<1> SUFFICES ASSUME NEW c \in Children(n) PROVE state[c][l] = "I"
  OBVIOUS
<1>1. c \in Node \ {Root} /\ Parent[c] = n /\ n \in Inner
  BY Tree
<1>2. Link(c, l)
  BY <1>1 DEF IInv, Links
<1> QED  BY <1>1, <1>2 DEF Link, OffList

\* The victim of an insertion is to go (processEviction).
LEMMA EvictLineKeeps ==
  ASSUME IInv, NEW n \in Node, EvictLine(n)
  PROVE  IInv' /\ fault' = FALSE /\ Unnoticed
<1> DEFINE a == acc[n]
           l == a.victim
           v == state[n][l]
           s == IF a.wb THEN "M" ELSE v
           b == [a EXCEPT !.wb = FALSE]
<1>1. /\ a.pc = "evict" /\ ChildrenGone(n) /\ UNCHANGED <<dir, inv, filter>>
      /\ fault' = (a.wb /\ ~Exclusive(v))
      /\ \/ /\ n = Root /\ state' = [state EXCEPT ![n][l] = "I"]
            /\ unsaved' \subseteq unsaved
            /\ acc' = [acc EXCEPT ![n] = Resume(b, "ready")]
         \/ /\ n # Root /\ state' = [state EXCEPT ![n][l] = s]
            /\ unsaved' = unsaved
            /\ acc' = [acc EXCEPT ![n] = Ask(b, "put", IF s = "M" THEN "PUTX" ELSE "PUTS", s)]
  BY DEF EvictLine
<1>2. /\ AccessOK(n) /\ AccessType(n, a)
      /\ a \in Access /\ l \in Line /\ v \in MESI /\ s \in MESI /\ a.type \in Gets
  <2>1. AccessOK(n) /\ AccessType(n, a) /\ a \in Access /\ l \in Line
    BY <1>1, Types, AccessTypes DEF IInv, Accesses
  <2>2. v \in MESI /\ s \in MESI
    BY <2>1, Types DEF IInv, MESI
  <2> QED  BY <1>1, <2>1, <2>2 DEF AccessOK
<1>3. /\ l # a.line /\ state[n][a.line] = "I" /\ v # "I" /\ s # "I"
      /\ a.wb => Exclusive(v)
      /\ Exclusive(s) <=> Exclusive(v)
      /\ fault' = FALSE
  <2>1. l # a.line /\ state[n][a.line] = "I" /\ v # "I" /\ (a.wb => Exclusive(v))
    BY <1>1, <1>2 DEF AccessOK
  <2>2. fault' = FALSE
    BY <1>1, <2>1
  <2> QED  BY <2>1, <2>2 DEF Exclusive
<1>4. \A c \in Children(n) : state[c][l] = "I"
  BY <1>1, <1>2, NoSharers DEF ChildrenGone
<1>5. inv[n].pc = "idle" /\ SendTo(n) = {}
  <2>1. inv[n].pc = "idle"
    BY <1>1, LockHeld
  <2> QED  BY <1>1, <2>1 DEF SendTo, SendLine, ChildrenGone
<1>6. \A p \in Node : acc[p].child # n
  BY <1>1, Waiting
<1>7. /\ b \in Access /\ b.wb = FALSE
      /\ b.pc = a.pc /\ b.type = a.type /\ b.line = a.line
      /\ b.child = a.child /\ b.victim = a.victim
  BY <1>2, Unmarked
<1> HIDE DEF b, s
<1>8. CASE n = Root
  <2> DEFINE b2 == Resume(b, "ready")
  <2>1. /\ b2 \in Access /\ b2.pc = "ready" /\ b2.victim = NoLine /\ b2.wb = FALSE
        /\ b2.type = a.type /\ b2.line = a.line /\ b2.child = a.child
    BY <1>7, Resumed
  <2>2. AccessType(n, b2)
    BY <1>1, <1>2, <2>1 DEF AccessType
  <2>3. acc' = [acc EXCEPT ![n] = b2] /\ state' = [state EXCEPT ![n][l] = "I"]
    BY <1>1, <1>8
  <2> HIDE DEF b2
  <2>4. state' \in [Node -> [Line -> MESI]]
    BY <2>3 DEF IInv, TypeOK, MESI
  <2>5. TypeOK' /\ acc'[n] = b2 /\ \A m \in Node \ {n} : acc'[m] = acc[m]
    BY <1>1, <1>3, <2>2, <2>3, <2>4, OneAccess DEF IInv, TypeOK
  <2>6. \A m \in Node \ {n} : acc'[m] = acc[m] /\ state'[m] = state[m]
    BY <2>3, <2>5 DEF IInv, TypeOK
  <2>7. \A k \in Line : Raised(n, k)
    BY <1>2, <1>4, <1>8, <2>3 DEF Raised, IInv, TypeOK
  <2>8. AccessOK(n)'
    BY <1>2, <1>8, <2>1, <2>5 DEF AccessOK
  <2>9. RequestOK(n)'
    BY <1>1, <1>2, <2>1, <2>5, <2>6, RequestKept
  <2>10. IInv'
    BY <1>1, <1>3, <1>5, <1>6, <2>1, <2>5, <2>6, <2>7, <2>8, <2>9, LocalStep
  <2>11. Unnoticed
    <3>1. ASSUME NEW k \in unsaved', Covered(k) PROVE Covered(k)'
      <4>1. k \in unsaved /\ k \in Line
        BY <1>1, <3>1 DEF IInv, TypeOK
      <4>2. k # l => state'[n][k] = state[n][k]
        BY <2>3, <4>1 DEF IInv, TypeOK
      <4>3. k = l => (a.wb \/ v = "M" => FALSE)
        BY <1>8, <3>1 DEF EvictLine
      <4>4. CASE a.wb = FALSE
        BY <1>1, <2>6, <3>1, <4>1, <4>2, <4>3, <4>4, LocalCover
      <4>5. CASE a.wb # FALSE
        <5>1. k # l
          BY <1>2, <4>3, <4>5 DEF Access
        <5>2. SendLine(n) = l
          BY <1>1, <1>5 DEF SendLine
        <5>3. \A m \in Node : SendLine(m) = k => m # n
          BY <5>1, <5>2
        <5>4. \A m \in Node \ {n} : SendLine(m)' = SendLine(m) /\ acc'[m].wb = acc[m].wb
          BY <1>1, <2>6 DEF SendLine
        <5>5. \A m \in Node : state'[m][k] = state[m][k]
          BY <2>6, <4>2, <5>1
        <5> QED  BY <1>1, <3>1, <5>3, <5>4, <5>5 DEF Covered
      <4> QED  BY <4>4, <4>5
    <3> QED  BY <2>1, <2>5, <2>6, <3>1, Tree DEF Unnoticed
  <2> QED  BY <1>3, <2>10, <2>11
<1>9. CASE n # Root
  <2> DEFINE req == IF s = "M" THEN "PUTX" ELSE "PUTS"
             b2 == Ask(b, "put", req, s)
  <2>1. /\ b2 \in Access /\ b2.pc = "put" /\ b2.victim = l /\ b2.wb = FALSE
        /\ b2.req = req /\ b2.initial = s
        /\ b2.type = a.type /\ b2.line = a.line /\ b2.child = a.child
    <3>1. req \in Gets \cup Puts
      BY DEF Puts
    <3> HIDE DEF req
    <3>2. "put" \in {"put", "fetch"} /\ b \in Access /\ s \in MESI
      BY <1>2, <1>7
    <3> QED  BY <1>7, <3>1, <3>2, Asked
  <2>2. AccessType(n, b2)
    BY <1>1, <1>2, <2>1 DEF AccessType
  <2>3. acc' = [acc EXCEPT ![n] = b2] /\ state' = [state EXCEPT ![n][l] = s]
    BY <1>1, <1>9
  <2> HIDE DEF b2
  <2>4. state' \in [Node -> [Line -> MESI]]
    BY <1>2, <2>3 DEF IInv, TypeOK
  <2>5. TypeOK' /\ acc'[n] = b2 /\ \A m \in Node \ {n} : acc'[m] = acc[m]
    BY <1>1, <1>3, <1>9, <2>2, <2>3, <2>4, OneAccess DEF IInv, TypeOK
  <2>6. /\ \A m \in Node \ {n} : acc'[m] = acc[m] /\ state'[m] = state[m]
        /\ \A k \in Line \ {l} : state'[n][k] = state[n][k]
        /\ state'[n][l] = s
    BY <1>2, <2>3, <2>5 DEF IInv, TypeOK
  <2>7. \A k \in Line : Raised(n, k)
    BY <1>3, <2>6 DEF Raised
  <2>8. AccessOK(n)'
    <3>1. \A c \in Children(n) : state'[c][l] = "I"
      BY <1>4, <2>6, Tree
    <3>2. state'[n][a.line] = "I" /\ state'[n][l] = s
      BY <1>1, <1>2, <1>3, <2>6, Types DEF IInv
    <3> QED  BY <1>2, <1>3, <1>9, <2>1, <2>5, <3>1, <3>2 DEF AccessOK, Since, Puts
  <2>9. RequestOK(n)'
    BY <1>1, <1>2, <2>1, <2>5, <2>6, RequestKept
  <2>10. IInv'
    BY <1>1, <1>3, <1>5, <1>6, <2>1, <2>5, <2>6, <2>7, <2>8, <2>9, LocalStep
  <2>11. Unnoticed
    <3>1. ASSUME NEW k \in unsaved', Covered(k) PROVE Covered(k)'
      <4>1. k \in Line
        BY <1>1, <1>9, <3>1 DEF IInv, TypeOK
      <4>2. state[n][k] = "M" => state'[n][k] = "M"
        <5>1. v = "M" => s = "M"
          BY DEF s
        <5> QED  BY <2>6, <4>1, <5>1
      <4>3. CASE a.wb = FALSE
        BY <1>1, <2>6, <3>1, <4>1, <4>2, <4>3, LocalCover
      <4>4. CASE a.wb # FALSE
        <5>1. SendLine(n) = l /\ s = "M"
          BY <1>1, <1>2, <1>5, <4>4 DEF SendLine, s, Access
        <5>2. \A m \in Node : SendLine(m) = k /\ k # l => m # n
          BY <5>1
        <5>3. \A m \in Node \ {n} : SendLine(m)' = SendLine(m) /\ acc'[m].wb = acc[m].wb
          BY <1>1, <2>6 DEF SendLine
        <5>4. \A m \in Node : state[m][k] = "M" => state'[m][k] = "M"
          BY <2>6, <4>2
        <5>5. CASE k = l
          BY <2>6, <5>1, <5>5 DEF Covered
        <5>6. CASE k # l
          BY <1>1, <3>1, <5>2, <5>3, <5>4, <5>6 DEF Covered
        <5> QED  BY <5>5, <5>6
      <4> QED  BY <4>3, <4>4
    <3> QED  BY <2>1, <2>5, <2>6, <3>1, Tree DEF Unnoticed
  <2> QED  BY <1>3, <2>10, <2>11
<1> QED  BY <1>8, <1>9

\* A cache that has the permission serves at once ...
LEMMA BottomHitKeeps ==
  ASSUME IInv, NEW n \in Node, BottomHit(n)
  PROVE  IInv' /\ fault' = FALSE /\ Unnoticed
<1> DEFINE a == acc[n]
           s == state[n][a.line]
           t == IF a.type \in {"GETX", "PUTX"} /\ s = "E" THEN "M" ELSE s
           b == [a EXCEPT !.pc = "filled"]
<1>1. /\ a.pc = "ready" /\ UNCHANGED <<dir, inv, filter, unsaved>>
      /\ a.type \in Puts \/ (a.type = "GETS" /\ s # "I") \/ (a.type = "GETX" /\ Exclusive(s))
      /\ fault' = \/ a.type = "PUTX" /\ ~Exclusive(s)
                  \/ a.type = "PUTS" /\ s = "I"
      /\ state' = IF a.type \in {"GETX", "PUTX"} /\ s = "E"
                    THEN [state EXCEPT ![n][a.line] = "M"] ELSE state
      /\ acc' = [acc EXCEPT ![n].pc = "filled"]
  BY DEF BottomHit
<1>2. /\ AccessOK(n) /\ RequestOK(n) /\ AccessType(n, a)
      /\ a \in Access /\ a.line \in Line /\ s \in MESI
  BY <1>1, Types, AccessTypes DEF IInv, Accesses, Requests
<1>3. /\ a.type = "PUTX" => Exclusive(s)
      /\ a.type = "PUTS" => s # "I"
  <2> SUFFICES ASSUME a.type \in Puts
               PROVE  (a.type = "PUTX" => Exclusive(s)) /\ (a.type = "PUTS" => s # "I")
    BY DEF Puts
  <2>1. n \in Inner
    BY <1>2, Tree DEF AccessOK, Gets, Puts
  <2>2. a.child \in Node \ {Root} /\ Parent[a.child] = n /\ a.child # NoNode
    BY <1>1, <1>2, <2>1, Tree DEF AccessType
  <2>3. Link(a.child, a.line)
    BY <1>2, <2>2 DEF IInv, Links
  <2> QED  BY <1>2, <2>2, <2>3 DEF Link, RequestOK, Exclusive
<1>4. fault' = FALSE
  BY <1>1, <1>3
<1>5. /\ t \in MESI /\ a.wb = FALSE
      /\ t = "I" <=> s = "I"
      /\ Exclusive(t) <=> Exclusive(s)
      /\ a.type = "GETS" => t # "I"
      /\ a.type \in {"GETX", "PUTX"} => t = "M"
  BY <1>1, <1>2, <1>3 DEF MESI, Exclusive, AccessOK, Puts, Access
<1>6. inv[n].pc = "idle" /\ SendTo(n) = {}
  <2>1. inv[n].pc = "idle"
    BY <1>1, LockHeld
  <2> QED  BY <1>1, <2>1 DEF SendTo
<1>7. \A p \in Node : acc[p].child # n
  BY <1>1, Waiting
<1>8. state' = [state EXCEPT ![n][a.line] = t]
  <2>1. state \in [Node -> [Line -> MESI]]
    BY DEF IInv, TypeOK
  <2> QED  BY <1>1, <1>2, <2>1
<1>9. /\ b \in Access /\ b.pc = "filled" /\ b.type = a.type /\ b.line = a.line
      /\ b.child = a.child /\ b.victim = a.victim /\ b.wb = a.wb
  BY <1>2 DEF Access
<1>10. AccessType(n, b)
  BY <1>1, <1>2, <1>9 DEF AccessType
<1>11. acc' = [acc EXCEPT ![n] = b]
  BY <1>1
<1> HIDE DEF b, t
<1>12. state' \in [Node -> [Line -> MESI]]
  BY <1>5, <1>8 DEF IInv, TypeOK
<1>13. TypeOK' /\ acc'[n] = b /\ \A m \in Node \ {n} : acc'[m] = acc[m]
  BY <1>1, <1>4, <1>10, <1>11, <1>12, OneAccess DEF IInv, TypeOK
<1>14. /\ \A m \in Node \ {n} : acc'[m] = acc[m] /\ state'[m] = state[m]
       /\ \A k \in Line \ {a.line} : state'[n][k] = state[n][k]
       /\ state'[n][a.line] = t
  BY <1>2, <1>8, <1>13 DEF IInv, TypeOK
<1>15. \A k \in Line : Raised(n, k)
  BY <1>5, <1>14 DEF Raised
<1>16. AccessOK(n)'
  BY <1>1, <1>2, <1>5, <1>9, <1>13, <1>14 DEF AccessOK
<1>17. RequestOK(n)'
  BY <1>1, <1>9, <1>13, <1>14, RequestKept
<1>18. IInv'
  BY <1>1, <1>4, <1>6, <1>7, <1>9, <1>13, <1>14, <1>15, <1>16, <1>17, LocalStep
<1>19. Unnoticed
  <2>1. ASSUME NEW k \in unsaved', Covered(k) PROVE Covered(k)'
    <3>1. k \in Line
      BY <1>1, <2>1 DEF IInv, TypeOK
    <3>2. s = "M" => t = "M"
      BY DEF t
    <3>3. state[n][k] = "M" => state'[n][k] = "M"
      BY <1>14, <3>1, <3>2
    <3> QED  BY <1>1, <1>5, <1>14, <2>1, <3>1, <3>3, LocalCover
  <2> QED  BY <1>9, <1>13, <1>14, <2>1, Tree DEF Unnoticed
<1> QED  BY <1>4, <1>18, <1>19

\* ... and one that has not asks its parent.
LEMMA BottomMissKeeps ==
  ASSUME IInv, NEW n \in Node, BottomMiss(n)
  PROVE  IInv' /\ Unnoticed
<1> DEFINE a == acc[n]
           l == a.line
           s == state[n][l]
<1>1. /\ a.pc = "ready" /\ UNCHANGED <<dir, inv, filter, unsaved, fault>>
      /\ (a.type = "GETS" /\ s = "I") \/ (a.type = "GETX" /\ ~Exclusive(s))
  BY DEF BottomMiss
<1>2. /\ AccessOK(n) /\ AccessType(n, a) /\ a.wb = FALSE /\ a.type \in Gets
      /\ a \in Access /\ l \in Line /\ s \in MESI
  <2>1. AccessOK(n) /\ AccessType(n, a) /\ a \in Access /\ l \in Line
    BY <1>1, Types, AccessTypes DEF IInv, Accesses
  <2>2. s \in MESI /\ a.wb \in BOOLEAN
    BY <2>1, Types DEF IInv, Access
  <2> QED  BY <1>1, <2>1, <2>2 DEF AccessOK, Gets
<1>3. inv[n].pc = "idle" /\ SendTo(n) = {}
  <2>1. inv[n].pc = "idle"
    BY <1>1, LockHeld
  <2> QED  BY <1>1, <2>1 DEF SendTo
<1>4. \A p \in Node : acc[p].child # n
  BY <1>1, Waiting
<1>5. CASE n = Root
  <2> DEFINE t == IF a.type = "GETX" THEN "M" ELSE IF a.noexcl THEN "S" ELSE "E"
             b == [a EXCEPT !.pc = "filled"]
  <2>1. acc' = [acc EXCEPT ![n] = b] /\ state' = [state EXCEPT ![n][l] = t]
    BY <1>1, <1>5 DEF BottomMiss
  <2>2. /\ b \in Access /\ b.pc = "filled" /\ b.type = a.type /\ b.line = a.line
        /\ b.child = a.child /\ b.victim = a.victim /\ b.wb = a.wb
    BY <1>2 DEF Access
  <2>3. /\ t \in MESI /\ t # "I"
        /\ a.type = "GETX" => t = "M"
        /\ Exclusive(s) => Exclusive(t)
    BY <1>1 DEF MESI, Exclusive
  <2>4. AccessType(n, b)
    BY <1>1, <1>2, <2>2 DEF AccessType
  <2> HIDE DEF b, t
  <2>5. state' \in [Node -> [Line -> MESI]]
    BY <2>1, <2>3 DEF IInv, TypeOK
  <2>6. TypeOK' /\ acc'[n] = b /\ \A m \in Node \ {n} : acc'[m] = acc[m]
    BY <1>1, <2>1, <2>4, <2>5, OneAccess DEF IInv, TypeOK
  <2>7. /\ \A m \in Node \ {n} : acc'[m] = acc[m] /\ state'[m] = state[m]
        /\ \A k \in Line \ {l} : state'[n][k] = state[n][k]
        /\ state'[n][l] = t
    BY <1>2, <2>1, <2>6 DEF IInv, TypeOK
  <2>8. \A k \in Line : Raised(n, k)
    BY <1>5, <2>3, <2>7 DEF Raised
  <2>9. AccessOK(n)'
    BY <1>1, <1>2, <2>2, <2>3, <2>6, <2>7 DEF AccessOK, Gets
  <2>10. RequestOK(n)'
    BY <1>1, <2>2, <2>6, <2>7, RequestKept
  <2>11. IInv'
    BY <1>1, <1>3, <1>4, <2>2, <2>6, <2>7, <2>8, <2>9, <2>10, LocalStep
  <2>12. ASSUME NEW k \in unsaved', Covered(k) PROVE Covered(k)'
    <3>1. k \in Line
      BY <1>1, <2>12 DEF IInv, TypeOK
    <3>2. state[n][k] = "M" => state'[n][k] = "M"
      BY <1>1, <2>7, <3>1 DEF Exclusive
    <3> QED  BY <1>1, <1>2, <2>7, <2>12, <3>1, <3>2, LocalCover
  <2> QED  BY <2>2, <2>6, <2>7, <2>11, <2>12, Tree DEF Unnoticed
<1>6. CASE n # Root
  <2> DEFINE b == Ask(a, "fetch", a.type, s)
  <2>1. acc' = [acc EXCEPT ![n] = b] /\ state' = state
    BY <1>1, <1>6 DEF BottomMiss
  <2>2. /\ b \in Access /\ b.pc = "fetch" /\ b.type = a.type /\ b.line = a.line
        /\ b.child = a.child /\ b.victim = a.victim /\ b.wb = a.wb
        /\ b.req = a.type /\ b.initial = s
    <3>1. a.type \in Gets \cup Puts /\ "fetch" \in {"put", "fetch"}
      BY <1>2
    <3> QED  BY <1>2, <3>1, Asked
  <2>3. AccessType(n, b)
    BY <1>1, <1>2, <2>2 DEF AccessType
  <2> HIDE DEF b
  <2>4. TypeOK' /\ acc'[n] = b /\ \A m \in Node \ {n} : acc'[m] = acc[m]
    BY <1>1, <2>1, <2>3, OneAccess DEF IInv, TypeOK
  <2>5. \A k \in Line : Raised(n, k)
    BY <2>1 DEF Raised
  <2>6. AccessOK(n)'
    BY <1>1, <1>2, <1>6, <2>1, <2>2, <2>4 DEF AccessOK, Since, MESI, Exclusive
  <2>7. RequestOK(n)'
    BY <1>1, <1>2, <2>1, <2>2, <2>4, RequestKept
  <2>8. IInv'
    BY <1>1, <1>3, <1>4, <2>1, <2>2, <2>4, <2>5, <2>6, <2>7, LocalStep
  <2>9. ASSUME NEW k \in unsaved', Covered(k) PROVE Covered(k)'
    <3>1. k \in Line
      BY <1>1, <2>9 DEF IInv, TypeOK
    <3> QED  BY <1>1, <1>2, <2>1, <2>4, <2>9, <3>1, LocalCover
  <2> QED  BY <2>1, <2>2, <2>4, <2>8, <2>9, Tree DEF Unnoticed
<1> QED  BY <1>5, <1>6

\* startAccess: CheckForMESIRace drops or patches what was overtaken.
LEMMA StartAccessKeeps ==
  ASSUME IInv, NEW n \in Node, StartAccess(n)
  PROVE  IInv' /\ fault' = FALSE /\ Unnoticed
<1> DEFINE p == Parent[n]
           l == ReqLine(n)
           a == acc[n]
           s == state[n][l]
           skip == Skipped(a, s)
<1>1. /\ n # Root /\ a.pc \in {"put", "fetch"}
      /\ acc[p].pc = "idle" /\ inv[p].pc = "idle"
      /\ UNCHANGED <<state, dir, inv, filter, unsaved>>
      /\ fault' = \/ s # a.initial /\ a.req \in Puts /\ s \notin {"I", "S"}
                  \/ s # a.initial /\ a.req = "GETX" /\ ~(a.initial = "S" /\ s = "I")
                  \/ s # a.initial /\ a.req = "GETS"
                  \/ ~skip /\ a.req \in Puts /\ state[p][l] = "I"
  BY DEF StartAccess
<1>2. /\ AccessOK(n) /\ AccessType(n, a) /\ a \in Access /\ l \in Line /\ s \in MESI
      /\ p \in Inner /\ p \in Node /\ p # n /\ n \in Children(p) /\ Link(n, l)
  <2>1. AccessOK(n) /\ AccessType(n, a) /\ a \in Access /\ l \in Line
    BY <1>1, Types, AccessTypes DEF IInv, Accesses
  <2> QED  BY <1>1, <2>1, Tree, Types DEF IInv, Links
<1>3. /\ a.wb = FALSE /\ a.type \in Gets
      /\ a.pc = "put" => /\ a.req \in Puts /\ a.initial # "I" /\ Since(s, a.initial)
                         /\ a.req = "PUTX" <=> a.initial = "M"
      /\ a.pc = "fetch" => /\ a.req = a.type /\ Since(s, a.initial)
                           /\ a.initial \in IF a.type = "GETS" THEN {"I"} ELSE {"I", "S"}
  <2>1. a.wb \in BOOLEAN
    BY <1>2 DEF Access
  <2> QED  BY <1>1, <1>2, <2>1 DEF AccessOK, ReqLine
<1>4. inv[n].pc = "idle" /\ SendTo(p) = {}
  <2>1. SendTo(p) = {}
    BY <1>1 DEF SendTo
  <2>2. InvalOK(n)
    BY DEF IInv, Invals
  <2> QED  BY <2>1, <2>2 DEF InvalOK
<1>5. \A q \in Node : acc[q].child # n
  BY <1>1, Waiting
<1>6. fault' = FALSE
  <2>1. ~(s # a.initial /\ a.req \in Puts /\ s \notin {"I", "S"})
    BY <1>1, <1>3 DEF Since, Gets, Puts
  <2>2. ~(s # a.initial /\ a.req = "GETX" /\ ~(a.initial = "S" /\ s = "I"))
    BY <1>1, <1>3 DEF Since, Gets, Puts, Exclusive
  <2>3. ~(s # a.initial /\ a.req = "GETS")
    BY <1>1, <1>3 DEF Since, Gets, Puts, Exclusive
  <2>4. ~(~skip /\ a.req \in Puts /\ state[p][l] = "I")
    BY <1>1, <1>2, <1>3 DEF Skipped, Since, Gets, Puts, Link
  <2> QED  BY <1>1, <2>1, <2>2, <2>3, <2>4
<1>7. CASE skip
  <2> DEFINE b == Resume(a, "ready")
  <2>1. a.pc = "put"
    BY <1>1, <1>3, <1>7 DEF Skipped, Gets, Puts
  <2>2. acc' = [acc EXCEPT ![n] = b]
    BY <1>7 DEF StartAccess
  <2>3. /\ b \in Access /\ b.pc = "ready" /\ b.victim = NoLine /\ b.wb = FALSE
        /\ b.type = a.type /\ b.line = a.line /\ b.child = a.child
    BY <1>2, <1>3, Resumed
  <2>4. AccessType(n, b)
    BY <1>1, <1>2, <2>3 DEF AccessType
  <2> HIDE DEF b
  <2>5. TypeOK' /\ acc'[n] = b /\ \A m \in Node \ {n} : acc'[m] = acc[m]
    BY <1>1, <1>6, <2>2, <2>4, OneAccess DEF IInv, TypeOK
  <2>6. \A k \in Line : Raised(n, k)
    BY <1>1 DEF Raised
  <2>7. AccessOK(n)'
    BY <1>1, <1>2, <1>3, <2>3, <2>5 DEF AccessOK
  <2>8. RequestOK(n)'
    BY <1>1, <1>3, <2>3, <2>5, RequestKept
  <2>9. SendTo(n) = {}
    BY <1>4, <2>1 DEF SendTo
  <2>10. IInv'
    BY <1>1, <1>4, <1>5, <1>6, <2>1, <2>3, <2>5, <2>6, <2>7, <2>8, <2>9, LocalStep
  <2>11. ASSUME NEW k \in unsaved', Covered(k) PROVE Covered(k)'
    <3>1. k \in Line
      BY <1>1, <2>11 DEF IInv, TypeOK
    <3> QED  BY <1>1, <1>3, <2>5, <2>11, <3>1, LocalCover
  <2> QED  BY <1>1, <1>6, <2>3, <2>5, <2>10, <2>11, Tree DEF Unnoticed
<1>8. CASE ~skip
  <2> DEFINE type == PatchedType(a, s)
             a0 == NewAccess(type, l, n, a.noexcl)
  <2>1. PICK b \in AfterLookup(p, a0) : acc' = [acc EXCEPT ![p] = b]
    BY <1>8 DEF StartAccess
  <2>2. /\ type \in Gets \cup Puts /\ (type \in Gets <=> a.pc = "fetch")
        /\ type \in Gets => type = a.req
        /\ type \in Puts => s # "I"
        /\ type = "PUTX" => s = "M"
        /\ type = "PUTS" => s \in {"E", "S"}
    BY <1>1, <1>2, <1>3, <1>8 DEF PatchedType, Skipped, Since, Gets, Puts, MESI, Exclusive
  <2> HIDE DEF type
  <2>3. IsFresh(a0) /\ a0.type = type /\ a0.line = l /\ a0.child = n
    <3>1. a.noexcl \in BOOLEAN /\ n \in Node \cup {NoNode}
      BY <1>2 DEF Access
    <3> QED  BY <1>2, <2>2, <3>1, FreshAccess
  <2> HIDE DEF a0
  <2>4. /\ AccessType(p, b)
        /\ b.type = type /\ b.line = l /\ b.child = n /\ b.wb = FALSE
        /\ b.pc \in {"evict", "ready"}
        /\ b.pc = "evict" => /\ b.victim \in Line /\ b.victim # b.line
                             /\ state[p][l] = "I" /\ state[p][b.victim] # "I"
    <3>1. (a0.child \in Children(p) /\ a0.child # NoNode) \/ (a0.child = NoNode /\ p \in Leaf)
      BY <1>2, <2>3, NameAssumption
    <3>2. b.line = a0.line /\ b.type = a0.type /\ b.child = a0.child
      BY <1>2, <2>1, <2>3, <3>1, Lookup
    <3>3. /\ AccessType(p, b) /\ b.wb = FALSE /\ b.pc \in {"evict", "ready"}
          /\ b.pc = "evict" => /\ b.victim \in Line /\ b.victim # b.line
                               /\ state[p][b.line] = "I" /\ state[p][b.victim] # "I"
      BY <1>2, <2>1, <2>3, <3>1, Lookup
    <3> QED  BY <2>3, <3>2, <3>3
  <2>5. TypeOK' /\ acc'[p] = b /\ \A m \in Node \ {p} : acc'[m] = acc[m]
    BY <1>1, <1>2, <1>6, <2>1, <2>4, OneAccess DEF IInv, TypeOK
  <2>6. b.pc = "evict" => b.type \in Gets
    <3>1. type \in Puts => state[p][l] # "I"
      BY <1>2, <2>2 DEF Link
    <3> QED  BY <2>2, <2>4, <3>1
  <2>7. AccessOK(p)'
    <3>1. p \notin Leaf
      BY <1>2, Tree
    <3> QED  BY <1>1, <2>4, <2>5, <2>6, <3>1 DEF AccessOK
  <2>8. RequestOK(p)'
    <3>1. acc'[n] = a /\ ReqLine(n)' = l
      BY <1>2, <2>5 DEF ReqLine
    <3>2. type \in Puts => b.pc = "ready"
      BY <2>4, <2>6 DEF Gets, Puts
    <3> QED  BY <1>1, <2>2, <2>4, <2>5, <3>1, <3>2 DEF RequestOK, Gets, Puts
  <2>9. \A k \in Line : Raised(p, k)
    BY <1>1 DEF Raised
  <2>10. \A q \in Node : acc[q].child # p
    BY <1>1, <1>2, Waiting
  <2>11. IInv'
    BY <1>1, <1>2, <1>4, <1>6, <2>4, <2>5, <2>7, <2>8, <2>9, <2>10, LocalStep
  <2>12. ASSUME NEW k \in unsaved', Covered(k) PROVE Covered(k)'
    <3>1. k \in Line
      BY <1>1, <2>12 DEF IInv, TypeOK
    <3>2. acc[p].wb = FALSE
      <4>1. AccessOK(p) /\ acc[p].wb \in BOOLEAN
        BY <1>2, Types DEF IInv, Accesses, Access
      <4> QED  BY <1>1, <4>1 DEF AccessOK
    <3> QED  BY <1>1, <1>2, <2>5, <2>12, <3>1, <3>2, LocalCover
  <2> QED  BY <1>1, <1>6, <2>4, <2>5, <2>11, <2>12, Tree DEF Unnoticed
<1> QED  BY <1>7, <1>8

-----------------------------------------------------------------------------
(* The top controllers' steps                                              *)

\* An access that a cache serves, and the child it is for
LEMMA Serving ==
  ASSUME IInv, NEW p \in Node, acc[p].pc \in {"filled", "serve"}, p \in Inner
  PROVE  LET a == acc[p]  c == a.child  l == a.line  s == state[c][l]
             e == dir[p][l]  off == a.pc = "serve" /\ a.type = "GETX" IN
         /\ c \in Node \ {Root} /\ Parent[c] = p /\ c # p /\ c \in Children(p)
         /\ l \in Line /\ inv[p].pc = "idle" /\ AccessOK(p) /\ a.type \in Gets \cup Puts
         /\ a.type \in Puts => /\ acc[c].pc = "put" /\ s # "I" /\ acc[c].victim = l
                               /\ \A d \in Children(c) : state[d][l] = "I"
         /\ a.type \in Gets => /\ acc[c].pc = "fetch" /\ acc[c].line = l
                               /\ acc[c].type = a.type
         /\ a.type = "PUTX" => s = "M"
         /\ a.type = "GETS" => s = "I"
         /\ a.type = "GETX" => s \in {"I", "S"} /\ (s = "S" => ~e.exclusive)
         /\ ~off => (c \in e.sharers <=> s # "I")
         /\ off => c \notin e.sharers
<1> DEFINE a == acc[p]
           c == a.child
           l == a.line
           s == state[c][l]
<1>1. /\ c \in Node \ {Root} /\ Parent[c] = p /\ c # p /\ c \in Children(p)
      /\ l \in Line /\ AccessOK(p) /\ AccessOK(c) /\ RequestOK(p) /\ Link(c, l)
      /\ c # NoNode /\ a.type \in Gets \cup Puts
  <2>1. c # NoNode /\ a.type \in Gets \cup Puts /\ l \in Line
    BY Types DEF IInv, TypeOK, Access
  <2> QED  BY <2>1, Types, Tree DEF IInv, Accesses, Requests, Links
<1>2. inv[p].pc = "idle"
  BY LockHeld
<1>3. OffList(c, l) <=> a.pc = "serve" /\ a.type = "GETX"
  BY <1>1 DEF OffList
<1>4. a.type \in Puts => /\ acc[c].pc = "put" /\ acc[c].victim = l /\ s # "I"
                         /\ \A d \in Children(c) : state[d][l] = "I"
  BY <1>1 DEF RequestOK, ReqLine, AccessOK, Gets, Puts
<1>5. a.type \in Gets => /\ acc[c].pc = "fetch" /\ acc[c].line = l /\ acc[c].type = a.type
                         /\ Since(s, acc[c].initial)
                         /\ acc[c].initial \in IF a.type = "GETS" THEN {"I"} ELSE {"I", "S"}
  BY <1>1 DEF RequestOK, ReqLine, AccessOK
<1>6. a.type = "PUTX" => s = "M"
  BY <1>1 DEF RequestOK
<1>7. a.type = "GETS" => s = "I"
  BY <1>5 DEF Since, Exclusive, Gets
<1>8. a.type = "GETX" => s \in {"I", "S"}
  BY <1>5 DEF Since, Exclusive, Gets
<1> QED  BY <1>1, <1>2, <1>3, <1>4, <1>5, <1>6, <1>7, <1>8 DEF Link, Exclusive

\* processAccess serves the child.
LEMMA ServeKeeps ==
  ASSUME IInv, NEW p \in Node, Serve(p)
  PROVE  IInv' /\ fault' = FALSE /\ Unnoticed
<1> DEFINE a == acc[p]
           c == a.child
           l == a.line
           s == state[c][l]
           e == dir[p][l]
           b == [a EXCEPT !.pc = "serve"]
<1>1. /\ p \in Inner /\ a.pc = "filled" /\ UNCHANGED <<state, inv, filter, unsaved>>
      /\ dir' = IF a.type = "GETX" THEN [dir EXCEPT ![p][l].sharers = @ \ {c}] ELSE dir
      /\ acc' = [acc EXCEPT ![p] = b]
      /\ fault' = \/ a.type = "PUTX" /\ ~IsExclusive(e)
                  \/ a.type \in Puts /\ c \notin e.sharers
                  \/ a.type = "GETS" /\ c \in e.sharers
                  \/ /\ a.type = "GETX"
                     /\ ~Exclusive(state[p][l]) \/ (c \in e.sharers /\ IsExclusive(e))
  BY DEF Serve
<1>2. /\ c \in Node \ {Root} /\ Parent[c] = p /\ c # p /\ c \in Children(p)
      /\ l \in Line /\ inv[p].pc = "idle" /\ AccessOK(p) /\ a.type \in Gets \cup Puts
      /\ a.type \in Puts => s # "I"
      /\ a.type = "PUTX" => s = "M"
      /\ a.type = "GETS" => s = "I"
      /\ a.type = "GETX" => s \in {"I", "S"} /\ (s = "S" => ~e.exclusive)
      /\ c \in e.sharers <=> s # "I"
  BY <1>1, Serving
<1>3. a \in Access /\ AccessType(p, a)
  BY Types, AccessTypes DEF IInv
<1>4. fault' = FALSE
  <2>1. a.type = "PUTX" => IsExclusive(e)
    BY <1>1, <1>2, ExclusiveEntry DEF Exclusive
  <2>2. c \in e.sharers /\ IsExclusive(e) => Exclusive(s)
    BY <1>1, <1>2, ExclusiveEntry
  <2>3. a.type = "GETX" => Exclusive(state[p][l]) /\ ~Exclusive(s)
    BY <1>1, <1>2 DEF AccessOK, Exclusive
  <2> QED  BY <1>1, <1>2, <2>1, <2>2, <2>3 DEF Puts
<1>5. /\ b \in Access /\ b.pc = "serve" /\ b.type = a.type /\ b.line = a.line
      /\ b.child = a.child /\ b.victim = a.victim /\ b.wb = a.wb
  BY <1>3 DEF Access
<1> HIDE DEF b
<1>6. acc'[p] = b /\ \A m \in Node \ {p} : acc'[m] = acc[m]
  BY <1>1, <1>5 DEF IInv, TypeOK
<1>7. /\ \A q \in Inner, k \in Line : dir'[q][k].exclusive = dir[q][k].exclusive
      /\ \A q \in Inner, k \in Line :
           dir'[q][k].sharers = IF q = p /\ k = l /\ a.type = "GETX"
                                  THEN e.sharers \ {c} ELSE dir[q][k].sharers
      /\ dir' \in [Inner -> [Line -> [sharers: SUBSET Node, exclusive: BOOLEAN]]]
  <2>1. dir \in [Inner -> [Line -> [sharers: SUBSET Node, exclusive: BOOLEAN]]]
    BY DEF IInv, TypeOK
  <2>2. CASE a.type = "GETX"
    <3> DEFINE e2 == [e EXCEPT !.sharers = @ \ {c}]
    <3>1. dir' = [dir EXCEPT ![p][l] = e2]
      BY <1>1, <2>2
    <3>2. e2 \in [sharers: SUBSET Node, exclusive: BOOLEAN] /\ e2.sharers = e.sharers \ {c}
           /\ e2.exclusive = e.exclusive
      BY <1>1, <1>2, <2>1
    <3> HIDE DEF e2
    <3>3. /\ dir'[p][l] = e2
          /\ \A q \in Inner, k \in Line : q # p \/ k # l => dir'[q][k] = dir[q][k]
          /\ dir' \in [Inner -> [Line -> [sharers: SUBSET Node, exclusive: BOOLEAN]]]
      <4>1. p \in Inner /\ l \in Line
        BY <1>1, <1>2
      <4>2. dir'[p][l] = e2
        BY <2>1, <3>1, <4>1
      <4>3. \A q \in Inner, k \in Line : q # p \/ k # l => dir'[q][k] = dir[q][k]
        BY <2>1, <3>1
      <4>4. dir' \in [Inner -> [Line -> [sharers: SUBSET Node, exclusive: BOOLEAN]]]
        BY <2>1, <3>1, <3>2
      <4> QED  BY <4>2, <4>3, <4>4
    <3> QED  BY <2>2, <3>2, <3>3
  <2>3. CASE a.type # "GETX"
    BY <1>1, <2>1, <2>3
  <2> QED  BY <2>2, <2>3
<1>8. TypeOK'
  <2>1. acc' \in [Node -> Access]
    BY <1>1, <1>5 DEF IInv, TypeOK
  <2>2. \A m \in Node : AccessType(m, acc'[m])
    BY <1>1, <1>3, <1>5, <1>6, AccessTypes DEF AccessType, IInv
  <2> QED  BY <1>1, <1>4, <1>7, <2>1, <2>2 DEF IInv, TypeOK, AccessType
<1>9. Links'
  <2>1. ASSUME NEW m \in Node \ {Root}, NEW k \in Line PROVE Link(m, k)'
    <3>1. Link(m, k) /\ Parent[m] \in Inner /\ Parent[m] \in Node
      BY Tree DEF IInv, Links
    <3>2. OffList(m, k)' <=> OffList(m, k) \/ (m = c /\ k = l /\ a.type = "GETX")
      <4>1. CASE Parent[m] = p
        BY <1>1, <1>2, <1>5, <1>6, <4>1 DEF OffList
      <4>2. CASE Parent[m] # p
        <5>1. acc'[Parent[m]] = acc[Parent[m]]
          BY <1>6, <3>1, <4>2
        <5> QED  BY <1>2, <4>2, <5>1 DEF OffList
      <4> QED  BY <4>1, <4>2
    <3>3. CASE m = c /\ k = l /\ a.type = "GETX"
      <4>1. /\ dir'[p][l].exclusive = e.exclusive
            /\ dir'[p][l].sharers = e.sharers \ {c}
        BY <1>1, <1>2, <1>7, <3>3
      <4>2. s # "I" => state[p][l] # "I"
        BY <1>2, <3>1, <3>3 DEF Link
      <4> QED  BY <1>1, <1>2, <3>2, <3>3, <4>1, <4>2 DEF Link, Exclusive
    <3>4. CASE ~(m = c /\ k = l /\ a.type = "GETX")
      <4>1. m \in dir[Parent[m]][k].sharers <=> m \in dir'[Parent[m]][k].sharers
        BY <1>7, <3>1, <3>4
      <4>2. dir[Parent[m]][k].sharers = {m} => dir'[Parent[m]][k].sharers = {m}
        BY <1>2, <1>7, <3>1, <3>4
      <4>3. dir[Parent[m]][k].exclusive = dir'[Parent[m]][k].exclusive
        BY <1>7, <3>1
      <4> QED  BY <1>1, <3>1, <3>2, <3>4, <4>1, <4>2, <4>3 DEF Link
    <3> QED  BY <3>3, <3>4
  <2>2. \A q \in Inner, k \in Line : dir'[q][k].sharers \subseteq Children(q)
    BY <1>7 DEF IInv, Links
  <2> QED  BY <2>1, <2>2 DEF Links
<1>10. Accesses'
  <2>1. AccessOK(p)'
    <3>1. p \notin Leaf
      BY <1>1, Tree
    <3> QED  BY <1>1, <1>2, <1>5, <1>6, <3>1 DEF AccessOK
  <2>2. ASSUME NEW m \in Node \ {p} PROVE AccessOK(m)'
    <3>1. AccessOK(m) /\ acc'[m] = acc[m] /\ state' = state
      BY <1>1, <1>6 DEF IInv, Accesses
    <3> QED  BY <3>1 DEF AccessOK
  <2> QED  BY <2>1, <2>2 DEF Accesses
<1>11. Requests'
  <2>1. RequestOK(p)'
    BY <1>1, <1>5, <1>6, RequestKept
  <2>2. ASSUME NEW q \in Node \ {p}, acc[q].child # NoNode PROVE RequestOK(q)'
    <3>1. acc[q].child \in Node /\ acc[q].child # p /\ RequestOK(q)
      BY <1>1, <2>2, Types, Waiting DEF IInv, Requests
    <3> QED  BY <1>1, <1>6, <3>1 DEF RequestOK, ReqLine
  <2>3. ASSUME NEW q \in Node \ {p}, acc[q].child = NoNode PROVE RequestOK(q)'
    BY <1>6, <2>3 DEF RequestOK
  <2> QED  BY <2>1, <2>2, <2>3 DEF Requests
<1>12. Invals'
  <2>1. ASSUME NEW m \in Node, inv[m].pc # "idle" PROVE InvalOK(m)'
    <3>1. InvalOK(m) /\ m \in Node \ {Root} /\ m # p /\ Parent[m] \in Node
      BY <1>1, <2>1, Tree DEF IInv, Invals, InvalOK
    <3>2. Parent[m] # p
      BY <1>1, <1>2, <2>1, <3>1 DEF InvalOK, SendTo
    <3>3. /\ SendTo(Parent[m])' = SendTo(Parent[m])
          /\ SendType(Parent[m])' = SendType(Parent[m])
          /\ SendLine(Parent[m])' = SendLine(Parent[m])
      <4>1. acc'[Parent[m]] = acc[Parent[m]] /\ inv' = inv
        BY <1>1, <1>6, <3>1, <3>2
      <4>2. dir'[Parent[m]] = dir[Parent[m]]
        BY <1>1, <3>1, <3>2, Tree DEF IInv, TypeOK
      <4> QED  BY <4>1, <4>2 DEF SendTo, SendType, SendLine
    <3> QED  BY <1>1, <1>6, <2>1, <3>1, <3>3 DEF InvalOK
  <2>2. ASSUME NEW m \in Node, inv[m].pc = "idle" PROVE InvalOK(m)'
    BY <1>1, <2>2 DEF IInv, Invals, InvalOK
  <2> QED  BY <2>1, <2>2 DEF Invals
<1>13. Unnoticed
  <2>1. ASSUME NEW k \in unsaved', Covered(k) PROVE Covered(k)'
    <3>1. k \in Line
      BY <1>1, <2>1 DEF IInv, TypeOK
    <3>2. a.wb = FALSE
      BY <1>1, <1>2, <1>3 DEF AccessOK, Access
    <3> QED  BY <1>1, <1>6, <2>1, <3>1, <3>2, LocalCover
  <2> QED  BY <1>1, <1>5, <1>6, <2>1, Tree DEF Unnoticed
<1> QED  BY <1>4, <1>8, <1>9, <1>10, <1>11, <1>12, <1>13 DEF IInv

-----------------------------------------------------------------------------
(* Invalidations                                                           *)

\* An invalidation goes to a child.
LEMMA StartInvalidateKeeps ==
  ASSUME IInv, NEW p \in Node, NEW c \in Node, StartInvalidate(p, c)
  PROVE  IInv' /\ Unnoticed
<1> DEFINE i == [pc |-> "send", type |-> SendType(p), line |-> SendLine(p), wb |-> FALSE]
<1>1. /\ c \in SendTo(p) /\ c \in Inner /\ BccFree(c)
      /\ inv' = [inv EXCEPT ![c] = i]
      /\ UNCHANGED <<state, dir, acc, filter, unsaved, fault>>
  BY DEF StartInvalidate
<1>2. /\ c \in Node \ {Root} /\ Parent[c] = p /\ c # p
      /\ SendLine(p) \in Line /\ SendType(p) \in {"INV", "INVX"}
  BY <1>1, Sending, Tree
<1>3. acc[c].pc \in {"idle", "put", "fetch"} /\ inv[c].pc = "idle" /\ SendTo(c) = {}
  BY <1>1 DEF BccFree, SendTo
<1>4. i \in Invalidation
  BY <1>2 DEF Invalidation
<1>5. inv' \in [Node -> Invalidation] /\ inv'[c] = i /\ \A m \in Node \ {c} : inv'[m] = inv[m]
  BY <1>1, <1>4 DEF IInv, TypeOK
<1>6. \A q \in Node \ {c} :
        /\ SendTo(q)' = SendTo(q) /\ SendType(q)' = SendType(q) /\ SendLine(q)' = SendLine(q)
  BY <1>1, <1>5 DEF SendTo, SendType, SendLine
<1>7. TypeOK'
  BY <1>1, <1>5 DEF IInv, TypeOK
<1>8. Links'
  BY <1>1 DEF IInv, Links, Link, OffList
<1>9. Accesses'
  BY <1>1 DEF IInv, Accesses, AccessOK
<1>10. Requests'
  BY <1>1 DEF IInv, Requests, RequestOK, ReqLine
<1>11. Invals'
  <2>1. InvalOK(c)'
    BY <1>1, <1>2, <1>3, <1>5, <1>6 DEF InvalOK
  <2>2. ASSUME NEW m \in Node \ {c}, inv[m].pc # "idle" PROVE InvalOK(m)'
    <3>1. InvalOK(m) /\ m \in Node \ {Root} /\ Parent[m] \in Node
      BY <2>2, Tree DEF IInv, Invals, InvalOK
    <3>2. Parent[m] # c
      BY <1>3, <2>2, <3>1 DEF InvalOK
    <3> QED  BY <1>1, <1>5, <1>6, <3>1, <3>2 DEF InvalOK
  <2>3. ASSUME NEW m \in Node \ {c}, inv[m].pc = "idle" PROVE InvalOK(m)'
    BY <1>5, <2>3 DEF IInv, Invals, InvalOK
  <2> QED  BY <2>1, <2>2, <2>3 DEF Invals
<1>12. Unnoticed
  <2>1. ASSUME NEW k \in Line, Covered(k) PROVE Covered(k)'
    <3>1. AccessOK(c) /\ InvalOK(c)
      BY DEF IInv, Accesses, Invals
    <3>2. ~acc[c].wb /\ ~inv[c].wb
      BY <1>3, <3>1 DEF AccessOK, InvalOK
    <3> QED  BY <1>1, <1>5, <1>6, <2>1, <3>2 DEF Covered
  <2> QED  BY <1>1, <2>1 DEF Unnoticed, IInv, TypeOK
<1> QED  BY <1>7, <1>8, <1>9, <1>10, <1>11, <1>12 DEF IInv

\* What cache c may count on when it does what p asks of it: either it is a
\* leaf or its children are done, and what they wrote it may keep.
Yields(c, wb) ==
  /\ acc[c].pc \in {"idle", "put", "fetch"}
  /\ \/ c \in Leaf /\ wb = FALSE
     \/ inv[c].pc = "send" /\ SendTo(c) = {} /\ wb = inv[c].wb

\* Both ways an invalidation ends
LEMMA Yielding ==
  ASSUME IInv, NEW p \in Node, NEW c \in Node,
         InvalidateLeaf(p, c) \/ FinishInvalidate(p, c)
  PROVE  /\ c \in SendTo(p)
         /\ \E wb \in BOOLEAN : Yields(c, wb) /\ Invalidated(p, c, wb)
<1>1. CASE InvalidateLeaf(p, c)
  <2>1. Yields(c, FALSE) /\ Invalidated(p, c, FALSE) /\ c \in SendTo(p)
    BY <1>1 DEF InvalidateLeaf, BccFree, Yields
  <2> QED  BY <2>1
<1>2. CASE FinishInvalidate(p, c)
  <2>1. /\ c \in Children(p) /\ inv[c].pc = "send" /\ SendTo(c) = {}
        /\ Invalidated(p, c, inv[c].wb)
    BY <1>2 DEF FinishInvalidate
  <2>2. Parent[c] = p /\ InvalOK(c) /\ inv[c].wb \in BOOLEAN
    BY <2>1, Tree, Types DEF IInv, Invals, Invalidation
  <2>3. Yields(c, inv[c].wb) /\ c \in SendTo(p)
    BY <2>1, <2>2 DEF InvalOK, Yields
  <2> QED  BY <2>1, <2>2, <2>3
<1> QED  BY <1>1, <1>2

\* What its children and its parent have of the line then
LEMMA Yielded ==
  ASSUME IInv, NEW p \in Node, NEW c \in SendTo(p), NEW wb \in BOOLEAN, Yields(c, wb)
  PROVE  LET l == SendLine(p)  type == SendType(p)  s == state[c][l] IN
         /\ type = "INV" => \A d \in Children(c) : state[d][l] = "I"
         /\ \A d \in Children(c) : ~Exclusive(state[d][l])
         /\ wb \/ WritesBack(s) => Exclusive(state[p][l])
         /\ \/ acc[c].pc = "idle"
            \/ acc[c].pc = "put" /\ (acc[c].victim = l => s = acc[c].initial \/ s = "S")
                 /\ acc[c].line # l
            \/ acc[c].pc = "fetch" /\ (acc[c].line = l => type = "INV")
         /\ SendTo(c) = {}
<1> DEFINE l == SendLine(p)
           type == SendType(p)
           s == state[c][l]
<1>1. /\ p \in Inner /\ c \in Node \ {Root} /\ Parent[c] = p /\ c \in Children(p)
      /\ l \in Line /\ type \in {"INV", "INVX"} /\ s # "I"
      /\ type = "INVX" => Exclusive(s)
      /\ Link(c, l) /\ AccessOK(c) /\ InvalOK(c)
  BY Sending DEF IInv, Links, Accesses, Invals
<1>2. SendTo(c) = {}
  BY LeafQuiet DEF Yields
<1>3. inv[c].pc = "send" => inv[c].type = type /\ inv[c].line = l
  BY <1>1 DEF InvalOK
<1>4. CASE c \in Leaf
  <2>1. Children(c) = {} /\ wb = FALSE
    <3>1. inv[c].pc = "idle"
      BY <1>4, LeafQuiet
    <3> QED  BY <1>4, <3>1, Tree DEF Yields
  <2>2. WritesBack(s) => Exclusive(state[p][l])
    BY <1>1 DEF WritesBack, Link, Exclusive
  <2>3. \/ acc[c].pc = "idle"
        \/ acc[c].pc = "put" /\ (acc[c].victim = l => s = acc[c].initial \/ s = "S")
             /\ acc[c].line # l
        \/ acc[c].pc = "fetch" /\ (acc[c].line = l => type = "INV")
    BY <1>1 DEF Yields, AccessOK, Since, Exclusive
  <2> QED  BY <1>2, <2>1, <2>2, <2>3
<1>5. CASE c \notin Leaf
  <2>1. c \in Inner /\ inv[c].pc = "send" /\ wb = inv[c].wb /\ acc[c].pc # "serve"
    BY <1>1, <1>5, Tree DEF Yields
  <2>2. SendType(c) = type /\ SendLine(c) = l
    BY <1>3, <2>1 DEF SendType, SendLine
  <2>3. dir[c][l].sharers = {} \/ (type = "INVX" /\ ~IsExclusive(dir[c][l]))
    BY <1>2, <2>1, <2>2 DEF SendTo
  <2>4. type = "INV" => \A d \in Children(c) : state[d][l] = "I"
    BY <1>1, <2>1, <2>3, NoSharers
  <2>5. \A d \in Children(c) : ~Exclusive(state[d][l])
    <3> SUFFICES ASSUME NEW d \in Children(c), Exclusive(state[d][l]) PROVE FALSE
      OBVIOUS
    <3>1. d \in Node \ {Root} /\ Parent[d] = c
      BY <1>1, Tree
    <3>2. d \in dir[c][l].sharers
      <4>1. Link(d, l)
        BY <1>1, <3>1 DEF IInv, Links
      <4> QED  BY <3>1, <4>1 DEF Link
    <3>3. IsExclusive(dir[c][l])
      BY <1>1, <2>1, <3>2, ExclusiveEntry
    <3> QED  BY <2>3, <3>2, <3>3
  <2>6. wb \/ WritesBack(s) => Exclusive(state[p][l])
    BY <1>1, <1>3, <2>1 DEF WritesBack, Link, Exclusive, InvalOK
  <2>7. \/ acc[c].pc = "idle"
        \/ acc[c].pc = "put" /\ (acc[c].victim = l => s = acc[c].initial \/ s = "S")
             /\ acc[c].line # l
        \/ acc[c].pc = "fetch" /\ (acc[c].line = l => type = "INV")
    BY <1>1 DEF Yields, AccessOK, Since, Exclusive
  <2> QED  BY <1>2, <2>4, <2>5, <2>6, <2>7
<1> QED  BY <1>4, <1>5

\* A child has done as the invalidation says.
LEMMA InvalidatedKeeps ==
  ASSUME IInv, NEW p \in Node, NEW c \in SendTo(p), NEW wb \in BOOLEAN,
         Yields(c, wb), Invalidated(p, c, wb),
         filter' \in [Leaf -> [rd: Line \cup {NoLine}, wr: Line \cup {NoLine}]]
  PROVE  /\ IInv' /\ fault' = FALSE /\ unsaved' = unsaved
         /\ \A m \in Node \ {c} : acc'[m].pc = acc[m].pc /\ state'[m] = state[m]
         /\ acc'[c].pc = acc[c].pc
         /\ \A k \in Line \ {SendLine(p)} : state'[c][k] = state[c][k]
         /\ \A k \in Line : Covered(k) => Covered(k)'
<1> DEFINE type == SendType(p)
           l == SendLine(p)
           s == state[c][l]
           t == IF type = "INV" THEN "I" ELSE "S"
           w == wb \/ WritesBack(s)
           e == dir[p][l]
<1>1. /\ p \in Inner /\ c \in Node \ {Root} /\ Parent[c] = p /\ c \in Children(p) /\ c # p
      /\ l \in Line /\ type \in {"INV", "INVX"} /\ c \in e.sharers
      /\ s # "I" /\ state[p][l] # "I"
      /\ type = "INVX" => Exclusive(s) /\ e.sharers = {c}
      /\ \/ inv[p].pc = "send" /\ acc[p].pc \in {"idle", "put", "fetch"} /\ p # Root
         \/ inv[p].pc = "idle" /\ acc[p].pc = "evict" /\ l = acc[p].victim
         \/ inv[p].pc = "idle" /\ acc[p].pc = "serve" /\ acc[p].type \in Gets
              /\ l = acc[p].line /\ acc[p].child # c
  BY Sending, Tree
<1>2. /\ type = "INV" => \A d \in Children(c) : state[d][l] = "I"
      /\ \A d \in Children(c) : ~Exclusive(state[d][l])
      /\ w => Exclusive(state[p][l])
      /\ \/ acc[c].pc = "idle"
         \/ acc[c].pc = "put" /\ (acc[c].victim = l => s = acc[c].initial \/ s = "S")
              /\ acc[c].line # l
         \/ acc[c].pc = "fetch" /\ (acc[c].line = l => type = "INV")
      /\ SendTo(c) = {}
  BY Yielded
<1>3. /\ fault' = (IF type = "INV" THEN s = "I" ELSE ~Exclusive(s))
      /\ state' = [state EXCEPT ![c][l] = t]
      /\ dir' = IF type = "INV" THEN [dir EXCEPT ![p][l].sharers = @ \ {c}]
                                ELSE [dir EXCEPT ![p][l].exclusive = FALSE]
      /\ IF inv[p].pc = "send"
           THEN inv' = [inv EXCEPT ![p].wb = @ \/ w, ![c] = NoInv] /\ acc' = acc
           ELSE acc' = [acc EXCEPT ![p].wb = @ \/ w] /\ inv' = [inv EXCEPT ![c] = NoInv]
      /\ unsaved' = unsaved
  BY DEF Invalidated
<1>4. fault' = FALSE
  BY <1>1, <1>3
<1>5. t \in MESI /\ w \in BOOLEAN
  BY DEF MESI
<1>6. /\ state' \in [Node -> [Line -> MESI]] /\ state'[c][l] = t
      /\ \A k \in Line \ {l} : state'[c][k] = state[c][k]
      /\ \A m \in Node \ {c} : state'[m] = state[m]
  <2> HIDE DEF t
  <2>1. state \in [Node -> [Line -> MESI]]
    BY DEF IInv, TypeOK
  <2> QED  BY <1>1, <1>3, <1>5, <2>1
<1>7. /\ dir' \in [Inner -> [Line -> [sharers: SUBSET Node, exclusive: BOOLEAN]]]
      /\ \A q \in Inner, k \in Line : q # p \/ k # l => dir'[q][k] = dir[q][k]
      /\ \A q \in Inner : q # p => dir'[q] = dir[q]
      /\ type = "INV" => /\ dir'[p][l].sharers = e.sharers \ {c}
                         /\ dir'[p][l].exclusive = e.exclusive
      /\ type # "INV" => dir'[p][l].sharers = e.sharers /\ dir'[p][l].exclusive = FALSE
  <2> DEFINE e2 == IF type = "INV" THEN [e EXCEPT !.sharers = @ \ {c}]
                                   ELSE [e EXCEPT !.exclusive = FALSE]
  <2>1. dir \in [Inner -> [Line -> [sharers: SUBSET Node, exclusive: BOOLEAN]]]
    BY DEF IInv, TypeOK
  <2>2. dir' = [dir EXCEPT ![p][l] = e2]
    <3>1. CASE type = "INV"
      BY <1>3, <3>1
    <3>2. CASE type # "INV"
      BY <1>3, <3>2
    <3> QED  BY <3>1, <3>2
  <2>3. /\ e2 \in [sharers: SUBSET Node, exclusive: BOOLEAN]
        /\ type = "INV" => e2.sharers = e.sharers \ {c} /\ e2.exclusive = e.exclusive
        /\ type # "INV" => e2.sharers = e.sharers /\ e2.exclusive = FALSE
    <3>1. e \in [sharers: SUBSET Node, exclusive: BOOLEAN]
      BY <1>1, <2>1
    <3> HIDE DEF e, type
    <3>2. CASE type = "INV"
      BY <3>1, <3>2
    <3>3. CASE type # "INV"
      BY <3>1, <3>3
    <3> QED  BY <3>2, <3>3
  <2> HIDE DEF e2
  <2>4. dir'[p][l] = e2
    BY <1>1, <2>1, <2>2
  <2>5. \A q \in Inner, k \in Line : q # p \/ k # l => dir'[q][k] = dir[q][k]
    BY <2>1, <2>2
  <2>6. dir' \in [Inner -> [Line -> [sharers: SUBSET Node, exclusive: BOOLEAN]]]
    BY <2>1, <2>2, <2>3
  <2>7. \A q \in Inner : q # p => dir'[q] = dir[q]
    BY <2>1, <2>2
  <2> QED  BY <2>3, <2>4, <2>5, <2>6, <2>7
<1>8. /\ inv' \in [Node -> Invalidation] /\ inv'[c] = NoInv
      /\ \A m \in Node \ {c} :
           /\ inv'[m].pc = inv[m].pc /\ inv'[m].type = inv[m].type
           /\ inv'[m].line = inv[m].line
           /\ inv'[m].wb = IF m = p /\ inv[p].pc = "send" THEN inv[p].wb \/ w ELSE inv[m].wb
  <2>1. inv \in [Node -> Invalidation] /\ NoInv \in Invalidation
    BY DEF IInv, TypeOK, Invalidation, NoInv
  <2>2. CASE inv[p].pc = "send"
    <3> DEFINE j == [inv[p] EXCEPT !.wb = @ \/ w]
               inv1 == [inv EXCEPT ![p] = j]
    <3>1. inv' = [inv1 EXCEPT ![c] = NoInv]
      BY <1>3, <2>2
    <3>2. /\ j \in Invalidation /\ j.pc = inv[p].pc /\ j.type = inv[p].type
          /\ j.line = inv[p].line /\ j.wb = (inv[p].wb \/ w)
      BY <1>5, <2>1 DEF Invalidation
    <3> HIDE DEF j
    <3>3. inv1 \in [Node -> Invalidation] /\ inv1[p] = j /\ \A m \in Node \ {p} : inv1[m] = inv[m]
      BY <2>1, <3>2
    <3> HIDE DEF inv1
    <3>4. /\ inv' \in [Node -> Invalidation] /\ inv'[c] = NoInv
          /\ \A m \in Node \ {c} : inv'[m] = inv1[m]
      BY <1>1, <2>1, <3>1, <3>3
    <3> QED  BY <1>1, <2>2, <3>2, <3>3, <3>4
  <2>3. CASE inv[p].pc # "send"
    BY <1>1, <1>3, <2>1, <2>3
  <2> QED  BY <2>2, <2>3
<1>9. /\ acc' \in [Node -> Access]
      /\ \A m \in Node :
           /\ acc'[m].pc = acc[m].pc /\ acc'[m].type = acc[m].type
           /\ acc'[m].line = acc[m].line /\ acc'[m].child = acc[m].child
           /\ acc'[m].victim = acc[m].victim /\ acc'[m].req = acc[m].req
           /\ acc'[m].initial = acc[m].initial
           /\ acc'[m].wb = IF m = p /\ inv[p].pc # "send" THEN acc[p].wb \/ w ELSE acc[m].wb
  <2>1. acc \in [Node -> Access]
    BY DEF IInv, TypeOK
  <2>2. CASE inv[p].pc = "send"
    BY <1>3, <2>1, <2>2
  <2>3. CASE inv[p].pc # "send"
    <3> DEFINE b == [acc[p] EXCEPT !.wb = @ \/ w]
    <3>1. acc' = [acc EXCEPT ![p] = b]
      BY <1>3, <2>3
    <3>2. /\ b \in Access /\ b.pc = acc[p].pc /\ b.type = acc[p].type
          /\ b.line = acc[p].line /\ b.child = acc[p].child /\ b.victim = acc[p].victim
          /\ b.req = acc[p].req /\ b.initial = acc[p].initial
          /\ b.wb = (acc[p].wb \/ w)
      BY <1>5, <2>1 DEF Access
    <3> HIDE DEF b
    <3>3. acc' \in [Node -> Access] /\ acc'[p] = b /\ \A m \in Node \ {p} : acc'[m] = acc[m]
      BY <2>1, <3>1, <3>2
    <3> QED  BY <2>3, <3>2, <3>3
  <2> QED  BY <2>2, <2>3
<1> HIDE DEF type, l, w
<1>10. TypeOK'
  <2>1. ASSUME NEW m \in Node PROVE AccessType(m, acc'[m])
    BY <1>9, AccessTypes DEF AccessType, IInv
  <2>2. unsaved' = unsaved
    BY <1>3
  <2> QED  BY <1>4, <1>6, <1>7, <1>8, <1>9, <2>1, <2>2 DEF IInv, TypeOK, AccessType
<1>11. Links'
  <2>1. ASSUME NEW m \in Node \ {Root}, NEW k \in Line PROVE Link(m, k)'
    <3>1. Link(m, k) /\ Parent[m] \in Inner /\ Parent[m] \in Node /\ Parent[m] # m
           /\ m \in Children(Parent[m])
      BY Tree DEF IInv, Links
    <3>2. OffList(m, k)' <=> OffList(m, k)
      BY <1>9, <3>1 DEF OffList
    <3>3. CASE k # l
      <4>1. /\ state'[m][k] = state[m][k] /\ state'[Parent[m]][k] = state[Parent[m]][k]
            /\ dir'[Parent[m]][k] = dir[Parent[m]][k]
        BY <1>6, <1>7, <3>1, <3>3
      <4> QED  BY <3>1, <3>2, <4>1 DEF Link
    <3>4. CASE k = l /\ m = c
      BY <1>1, <1>6, <1>7, <3>1, <3>2, <3>4 DEF Link, Exclusive
    <3>5. CASE k = l /\ m # c /\ Parent[m] = p
      <4>1. state'[m][l] = state[m][l] /\ state'[p][l] = state[p][l]
        BY <1>1, <1>6, <3>5
      <4>2. ~Exclusive(state[m][l])
        BY <1>1, <3>1, <3>5 DEF Link
      <4> QED  BY <1>1, <1>7, <3>1, <3>2, <3>5, <4>1, <4>2 DEF Link
    <3>6. CASE k = l /\ Parent[m] = c
      <4>1. /\ state'[m][l] = state[m][l] /\ ~Exclusive(state[m][l])
            /\ type = "INV" => state[m][l] = "I"
            /\ dir'[c] = dir[c]
        BY <1>1, <1>2, <1>6, <1>7, <3>1, <3>6
      <4>2. state[m][l] # "I" => state'[c][l] # "I"
        BY <1>6, <4>1
      <4> QED  BY <3>1, <3>2, <3>6, <4>1, <4>2 DEF Link
    <3>7. CASE k = l /\ m # c /\ Parent[m] # p /\ Parent[m] # c
      <4>1. /\ state'[m][k] = state[m][k] /\ state'[Parent[m]][k] = state[Parent[m]][k]
            /\ dir'[Parent[m]][k] = dir[Parent[m]][k]
        BY <1>6, <1>7, <3>1, <3>7
      <4> QED  BY <3>1, <3>2, <4>1 DEF Link
    <3> QED  BY <1>1, <3>3, <3>4, <3>5, <3>6, <3>7
  <2>2. \A q \in Inner, k \in Line : dir'[q][k].sharers \subseteq Children(q)
    BY <1>7 DEF IInv, Links
  <2> QED  BY <2>1, <2>2 DEF Links
<1>12. Accesses'
  <2>1. ASSUME NEW m \in Node PROVE AccessOK(m)'
    <3> DEFINE a == acc[m]
    <3>1. AccessOK(m)
      BY DEF IInv, Accesses
    <3>2. /\ acc'[m].pc = a.pc /\ acc'[m].type = a.type /\ acc'[m].line = a.line
          /\ acc'[m].victim = a.victim /\ acc'[m].req = a.req /\ acc'[m].initial = a.initial
      BY <1>9
    <3>3. a.pc = "put" => \A d \in Children(m) : state'[d][a.victim] = "I"
      <4> SUFFICES ASSUME a.pc = "put", NEW d \in Children(m) PROVE state'[d][a.victim] = "I"
        OBVIOUS
      <4>1. state[d][a.victim] = "I" /\ d \in Node /\ a.victim \in Line
        BY <3>1, Tree, Types DEF AccessOK, IInv
      <4>2. CASE d = c
        BY <1>1, <1>6, <4>1, <4>2
      <4>3. CASE d # c
        BY <1>6, <4>1, <4>3
      <4> QED  BY <4>2, <4>3
    <3>4. CASE m = c
      <4>1. acc'[m].wb = a.wb
        BY <1>1, <1>9, <3>4
      <4>2. a.pc \in {"idle", "put", "fetch"} /\ a.wb = FALSE
        <5>1. a.wb \in BOOLEAN
          BY Types DEF IInv, Access
        <5> QED  BY <1>2, <3>1, <3>4, <5>1 DEF AccessOK
      <4>3. CASE a.pc = "idle"
        BY <3>1, <3>2, <4>1, <4>2, <4>3 DEF AccessOK
      <4>4. CASE a.pc = "put"
        <5>1. state'[c][a.line] = state[c][a.line]
          BY <1>2, <1>6, <3>4, <4>4, Types DEF IInv
        <5>2. Since(state'[c][a.victim], a.initial)
          <6>1. a.victim \in Line
            BY <4>4, Types DEF IInv
          <6>2. Since(state[c][a.victim], a.initial)
            BY <3>1, <3>4, <4>4 DEF AccessOK
          <6>3. CASE a.victim = l
            BY <1>1, <1>2, <1>6, <3>4, <4>4, <6>2, <6>3 DEF Since, Exclusive
          <6>4. CASE a.victim # l
            BY <1>6, <6>1, <6>2, <6>4
          <6> QED  BY <6>3, <6>4
        <5> QED  BY <3>1, <3>2, <3>3, <3>4, <4>1, <4>2, <4>4, <5>1, <5>2 DEF AccessOK
      <4>5. CASE a.pc = "fetch"
        <5>1. a.line \in Line
          BY <4>5, Types DEF IInv
        <5>2. Since(state'[c][a.line], a.initial)
          <6>1. Since(state[c][a.line], a.initial)
            BY <3>1, <3>4, <4>5 DEF AccessOK
          <6>2. CASE a.line = l
            BY <1>2, <1>6, <3>4, <4>5, <6>2 DEF Since
          <6>3. CASE a.line # l
            BY <1>6, <5>1, <6>1, <6>3
          <6> QED  BY <6>2, <6>3
        <5> QED  BY <3>1, <3>2, <3>4, <4>1, <4>2, <4>5, <5>2 DEF AccessOK
      <4> QED  BY <4>2, <4>3, <4>4, <4>5
    <3>5. CASE m = p
      <4>1. state'[m] = state[m] /\ (w => Exclusive(state[m][l]))
        BY <1>1, <1>2, <1>6, <3>5
      <4>2. acc'[m].wb => \/ a.pc = "evict" /\ Exclusive(state[m][a.victim])
                          \/ a.pc = "serve" /\ a.type \in Gets /\ Exclusive(state[m][a.line])
        BY <1>1, <1>9, <3>1, <3>5, <4>1 DEF AccessOK
      <4> QED  BY <3>1, <3>2, <3>3, <4>1, <4>2 DEF AccessOK
    <3>6. CASE m # c /\ m # p
      <4>1. state'[m] = state[m] /\ acc'[m].wb = a.wb
        BY <1>6, <1>9, <3>6
      <4> QED  BY <3>1, <3>2, <3>3, <4>1 DEF AccessOK
    <3> QED  BY <3>4, <3>5, <3>6
  <2> QED  BY <2>1 DEF Accesses
<1>13. Requests'
  <2>1. ASSUME NEW q \in Node, acc[q].child # NoNode PROVE RequestOK(q)'
    <3>1. /\ RequestOK(q) /\ acc[q].child \in Node \ {Root} /\ Parent[acc[q].child] = q
          /\ acc[q].line \in Line
      BY <2>1, Types DEF IInv, Requests
    <3>2. ReqLine(acc[q].child)' = ReqLine(acc[q].child)
      BY <1>9, <3>1 DEF ReqLine
    <3>3. acc[q].type \in Puts =>
            state'[acc[q].child][acc[q].line] = state[acc[q].child][acc[q].line]
      <4>1. CASE acc[q].child = c
        <5>1. q = p
          BY <1>1, <3>1, <4>1
        <5>2. acc[q].type \notin Puts
          BY <1>1, <2>1, <3>1, <5>1, Types DEF RequestOK, Gets, Puts, IInv
        <5> QED  BY <5>2
      <4>2. CASE acc[q].child # c
        BY <1>6, <3>1, <4>2
      <4> QED  BY <4>1, <4>2
    <3> QED  BY <1>9, <3>1, <3>2, <3>3 DEF RequestOK, Puts
  <2>2. ASSUME NEW q \in Node, acc[q].child = NoNode PROVE RequestOK(q)'
    BY <1>9, <2>2 DEF RequestOK
  <2> QED  BY <2>1, <2>2 DEF Requests
<1>14. Invals'
  <2>1. InvalOK(c)'
    BY <1>8 DEF InvalOK, NoInv
  <2>2. ASSUME NEW m \in Node \ {c}, inv[m].pc = "idle" PROVE InvalOK(m)'
    BY <1>8, <2>2 DEF IInv, Invals, InvalOK
  <2>3. ASSUME NEW m \in Node \ {c}, inv[m].pc # "idle" PROVE InvalOK(m)'
    <3> DEFINE q == Parent[m]
    <3>1. /\ InvalOK(m) /\ m \in Node \ {Root} /\ q \in Node /\ q \in Inner
          /\ m \in SendTo(q) /\ inv[m].line \in Line
      BY <2>3, Tree DEF IInv, Invals, InvalOK
    <3>2. q # c
      BY <1>2, <3>1
    <3>3. SendType(q)' = SendType(q) /\ SendLine(q)' = SendLine(q)
      BY <1>8, <1>9, <3>1, <3>2 DEF SendType, SendLine
    <3>4. m \in SendTo(q)'
      <4>1. CASE q = p
        <5>1. type = "INV" /\ m \in dir'[p][l].sharers
          BY <1>1, <1>7, <2>3, <3>1, <4>1, Sending DEF type, l
        <5> QED  BY <1>8, <1>9, <3>1, <3>2, <3>3, <4>1, <5>1 DEF SendTo, type, l
      <4>2. CASE q # p
        <5>1. dir'[q] = dir[q]
          BY <1>7, <3>1, <4>2
        <5>2. /\ inv'[q].pc = inv[q].pc /\ acc'[q].pc = acc[q].pc
              /\ acc'[q].type = acc[q].type
          BY <1>8, <1>9, <3>1, <3>2
        <5> QED  BY <3>1, <3>3, <5>1, <5>2 DEF SendTo
      <4> QED  BY <4>1, <4>2
    <3>5. inv'[m].wb => Exclusive(state'[m][inv[m].line])
      <4>1. state'[m] = state[m]
        BY <1>6
      <4>2. CASE m = p
        <5>1. inv[p].pc = "send"
          BY <2>3, <4>2, Types DEF IInv, Invalidation
        <5>2. l = inv[p].line
          BY <5>1 DEF l, SendLine
        <5> QED  BY <1>2, <1>8, <2>3, <3>1, <4>1, <4>2, <5>1, <5>2 DEF InvalOK
      <4>3. CASE m # p
        BY <1>8, <2>3, <3>1, <4>1, <4>3 DEF InvalOK
      <4> QED  BY <4>2, <4>3
    <3> QED  BY <1>8, <1>9, <2>3, <3>1, <3>3, <3>4, <3>5 DEF InvalOK
  <2> QED  BY <2>1, <2>2, <2>3 DEF Invals
<1>15. ASSUME NEW k \in Line, Covered(k) PROVE Covered(k)'
  <2>1. SendLine(p)' = SendLine(p)
    BY <1>1, <1>8, <1>9 DEF SendLine
  <2>2. ASSUME w, k = l PROVE Covered(k)'
    <3>1. CASE inv[p].pc = "send"
      <4>1. inv[p].line = k
        BY <2>2, <3>1 DEF l, SendLine
      <4>2. inv'[p].line = k /\ inv'[p].wb
        BY <1>1, <1>8, <2>2, <3>1, <4>1
      <4> QED  BY <1>1, <4>2 DEF Covered
    <3>2. CASE inv[p].pc # "send"
      <4>1. acc'[p].wb /\ SendLine(p)' = k
        BY <1>1, <1>9, <2>1, <2>2, <3>2 DEF l
      <4> QED  BY <1>1, <4>1 DEF Covered
    <3> QED  BY <3>1, <3>2
  <2>3. ASSUME NEW m \in Node, state[m][k] = "M" PROVE Covered(k)'
    <3>1. CASE m = c /\ k = l
      <4>1. w
        BY <2>3, <3>1 DEF w, l, WritesBack
      <4> QED  BY <2>2, <3>1, <4>1
    <3>2. CASE ~(m = c /\ k = l)
      <4>1. state'[m][k] = "M"
        BY <1>6, <2>3, <3>2
      <4> QED  BY <4>1 DEF Covered
    <3> QED  BY <3>1, <3>2
  <2>4. ASSUME NEW m \in Node, acc[m].wb, SendLine(m) = k PROVE Covered(k)'
    <3>1. m # c
      <4>1. AccessOK(c)
        BY <1>1 DEF IInv, Accesses
      <4> QED  BY <1>2, <2>4, <4>1 DEF AccessOK
    <3>2. acc'[m].wb /\ SendLine(m)' = k
      BY <1>8, <1>9, <2>4, <3>1 DEF SendLine
    <3> QED  BY <3>2 DEF Covered
  <2>5. ASSUME NEW m \in Node, inv[m].wb, inv[m].line = k PROVE Covered(k)'
    <3>1. CASE m = c
      <4>1. InvalOK(c)
        BY <1>1 DEF IInv, Invals
      <4>2. wb /\ k = l
        BY <1>1, <2>5, <3>1, <4>1, LeafQuiet DEF InvalOK, Yields, l
      <4> QED  BY <2>2, <4>2 DEF w
    <3>2. CASE m # c
      <4>1. inv'[m].wb /\ inv'[m].line = k
        BY <1>8, <2>5, <3>2
      <4> QED  BY <4>1 DEF Covered
    <3> QED  BY <3>1, <3>2
  <2> QED  BY <1>15, <2>3, <2>4, <2>5 DEF Covered
<1>16. IInv'
  BY <1>10, <1>11, <1>12, <1>13, <1>14 DEF IInv
<1>17. unsaved' = unsaved
  BY <1>3
<1>18. \A m \in Node : acc'[m].pc = acc[m].pc
  BY <1>9
<1> QED  BY <1>1, <1>4, <1>6, <1>15, <1>16, <1>17, <1>18 DEF l

-----------------------------------------------------------------------------
(* An access returns to the child.                                         *)

\* endAccess: the child has its line.
LEMMA EndAccessKeeps ==
  ASSUME IInv, NEW p \in Node, EndAccess(p)
  PROVE  IInv' /\ fault' = FALSE /\ Unnoticed
<1>0. PICK a, c, l, st, e :
        a = acc[p] /\ c = a.child /\ l = a.line /\ st = state[p][l] /\ e = dir[p][l]
  OBVIOUS
<1> DEFINE g == Granted(a, e, st)
           e2 == NewEntry(a, e, st)
           t == IF a.wb THEN "M" ELSE st
           pc == IF a.type \in Puts THEN "ready" ELSE "filled"
           b == Resume(acc[c], pc)
<1>1. /\ a.pc = "serve" /\ SendTo(p) = {} /\ UNCHANGED <<inv, filter, unsaved>>
      /\ fault' = (a.wb /\ ~Exclusive(st))
      /\ dir' = [dir EXCEPT ![p][l] = e2]
      /\ state' = [state EXCEPT ![c][l] = g, ![p][l] = t]
      /\ acc' = [acc EXCEPT ![p] = NoAccess, ![c] = b]
  BY <1>0 DEF EndAccess
<1>2. p \in Inner /\ AccessOK(p) /\ a \in Access
  BY <1>0, <1>1, Tree, Types DEF IInv, Accesses, AccessOK
<1>3. /\ c \in Node \ {Root} /\ Parent[c] = p /\ c # p /\ c \in Children(p)
      /\ l \in Line /\ inv[p].pc = "idle" /\ a.type \in Gets \cup Puts
      /\ a.type \in Puts => /\ acc[c].pc = "put" /\ acc[c].victim = l
                            /\ \A d \in Children(c) : state[d][l] = "I"
      /\ a.type \in Gets => /\ acc[c].pc = "fetch" /\ acc[c].line = l
                            /\ acc[c].type = a.type
      /\ a.type = "GETS" => state[c][l] = "I"
      /\ a.type = "GETX" => state[c][l] \in {"I", "S"}
  BY <1>0, <1>1, <1>2, Serving
<1>4. /\ acc[c] \in Access /\ AccessOK(c) /\ AccessType(c, acc[c]) /\ acc[c].type \in Gets
      /\ acc[c].pc \in {"put", "fetch"} /\ acc[c].wb = FALSE /\ inv[c].pc = "idle"
      /\ st \in MESI
  <2>1. /\ acc[c] \in Access /\ AccessOK(c) /\ AccessType(c, acc[c]) /\ InvalOK(c)
        /\ acc[c].wb \in BOOLEAN /\ st \in MESI
    BY <1>0, <1>2, <1>3, Types, AccessTypes DEF IInv, Accesses, Invals, Access
  <2>2. inv[c].pc = "idle"
    BY <1>1, <1>3, <2>1 DEF InvalOK
  <2>3. acc[c].pc \in {"put", "fetch"}
    BY <1>3 DEF Gets, Puts
  <2> QED  BY <2>1, <2>2, <2>3 DEF AccessOK
<1>5. /\ fault' = FALSE
      /\ t \in MESI /\ (t = "I" <=> st = "I") /\ (Exclusive(t) <=> Exclusive(st))
      /\ (a.wb => Exclusive(st)) /\ (~a.wb => t = st)
      /\ a.type = "GETX" => t = "M"
      /\ a.type = "GETS" => t # "I"
  <2>1. (a.wb => Exclusive(st)) /\ (a.type = "GETX" => st = "M") /\ (a.type = "GETS" => st # "I")
    BY <1>0, <1>1, <1>2 DEF AccessOK, Gets
  <2> QED  BY <1>1, <1>4, <2>1 DEF Exclusive, MESI
<1>6. a.type = "GETX" => e.sharers = {}
  BY <1>0, <1>1, <1>2, <1>3 DEF SendTo, SendType, SendLine, Gets
<1>7. a.type = "GETS" => \A m \in Children(p) : ~Exclusive(state[m][l])
  <2> SUFFICES ASSUME a.type = "GETS", NEW m \in Children(p), Exclusive(state[m][l])
               PROVE  FALSE
    OBVIOUS
  <2>1. m \in Node \ {Root} /\ Parent[m] = p
    BY Tree
  <2>2. Link(m, l)
    BY <1>3, <2>1 DEF IInv, Links
  <2>3. m \in e.sharers
    BY <1>0, <2>1, <2>2 DEF Link
  <2>4. IsExclusive(e)
    BY <1>0, <1>2, <1>3, <2>3, ExclusiveEntry
  <2>5. SendTo(p) = e.sharers
    BY <1>0, <1>1, <1>2, <1>3, <2>4 DEF SendTo, SendType, SendLine, Gets
  <2> QED  BY <1>1, <2>3, <2>5
<1>8. /\ g \in MESI /\ e2 \in [sharers: SUBSET Node, exclusive: BOOLEAN]
      /\ a.type \in Puts => /\ g = "I" /\ e2.sharers = e.sharers \ {c}
                            /\ e2.exclusive = e.exclusive
      /\ a.type \in Gets => /\ e2.sharers = e.sharers \cup {c}
                            /\ e2.exclusive <=> g # "S"
      /\ a.type = "GETX" => g = "M"
      /\ a.type = "GETS" => \/ g = "E" /\ e.sharers = {} /\ Exclusive(st)
                            \/ g = "S"
  <2>1. e \in [sharers: SUBSET Node, exclusive: BOOLEAN]
    BY <1>0, <1>2, <1>3, Types DEF IInv
  <2>2. /\ a.type \in Puts => g = "I"
        /\ a.type = "GETX" => g = "M"
        /\ a.type = "GETS" => \/ g = "E" /\ e.sharers = {} /\ Exclusive(st)
                              \/ g = "S"
    BY DEF Granted, Puts
  <2>3. g \in MESI
    BY <1>3, <2>2 DEF MESI, Gets, Puts
  <2>4. a.type \in Puts => /\ e2.sharers = e.sharers \ {c} /\ e2.exclusive = e.exclusive
                           /\ e2 \in [sharers: SUBSET Node, exclusive: BOOLEAN]
    BY <1>0, <2>1 DEF NewEntry
  <2>5. a.type \in Gets => /\ e2.sharers = e.sharers \cup {c} /\ (e2.exclusive <=> g # "S")
                           /\ e2 \in [sharers: SUBSET Node, exclusive: BOOLEAN]
    <3> SUFFICES ASSUME a.type \in Gets
                 PROVE  /\ e2.sharers = e.sharers \cup {c} /\ (e2.exclusive <=> g # "S")
                        /\ e2 \in [sharers: SUBSET Node, exclusive: BOOLEAN]
      OBVIOUS
    <3>1. e2 = [sharers |-> e.sharers \cup {c}, exclusive |-> g # "S"]
      <4>1. a.type \notin Puts /\ a.child = c
        BY <1>0 DEF Gets, Puts
      <4> QED  BY <4>1 DEF NewEntry
    <3> HIDE DEF g, e2
    <3> QED  BY <1>3, <2>1, <3>1
  <2> QED  BY <1>3, <2>2, <2>3, <2>4, <2>5
<1>9. /\ b \in Access /\ b.pc = pc /\ b.victim = NoLine /\ b.wb = FALSE
      /\ b.type = acc[c].type /\ b.line = acc[c].line /\ b.child = acc[c].child
  <2>1. pc \in {"ready", "filled"}
    OBVIOUS
  <2> HIDE DEF pc
  <2> QED  BY <1>4, <2>1, Resumed
<1>10. AccessType(c, b)
  BY <1>4, <1>9 DEF AccessType
<1>11. /\ acc'[p] = NoAccess /\ acc'[c] = b
       /\ \A m \in Node \ {p, c} : acc'[m] = acc[m]
       /\ acc' \in [Node -> Access]
  <2> DEFINE acc1 == [acc EXCEPT ![p] = NoAccess]
  <2>1. acc \in [Node -> Access] /\ NoAccess \in Access
    BY IdleAccess DEF IInv, TypeOK, AccessType
  <2>2. acc' = [acc1 EXCEPT ![c] = b]
    BY <1>1
  <2> HIDE DEF b
  <2>3. acc1 \in [Node -> Access] /\ acc1[p] = NoAccess /\ \A m \in Node \ {p} : acc1[m] = acc[m]
    BY <2>1
  <2> HIDE DEF acc1
  <2> QED  BY <1>3, <1>9, <2>2, <2>3
<1> HIDE DEF b
<1>12. /\ state'[c][l] = g /\ state'[p][l] = t
       /\ \A m \in Node \ {p, c} : state'[m] = state[m]
       /\ \A m \in Node, k \in Line \ {l} : state'[m][k] = state[m][k]
       /\ state' \in [Node -> [Line -> MESI]]
  <2> DEFINE s1 == [state EXCEPT ![c][l] = g]
  <2>1. state \in [Node -> [Line -> MESI]]
    BY DEF IInv, TypeOK
  <2>2. state' = [s1 EXCEPT ![p][l] = t]
    BY <1>1
  <2> HIDE DEF g, t
  <2>3. /\ s1 \in [Node -> [Line -> MESI]] /\ s1[c][l] = g
        /\ \A m \in Node \ {c} : s1[m] = state[m]
        /\ \A m \in Node, k \in Line \ {l} : s1[m][k] = state[m][k]
    BY <1>3, <1>8, <2>1
  <2> HIDE DEF s1
  <2> QED  BY <1>3, <1>5, <2>2, <2>3
<1>13. /\ dir'[p][l] = e2
       /\ \A q \in Inner, k \in Line : q # p \/ k # l => dir'[q][k] = dir[q][k]
       /\ \A q \in Inner : q # p => dir'[q] = dir[q]
       /\ dir' \in [Inner -> [Line -> [sharers: SUBSET Node, exclusive: BOOLEAN]]]
  <2>1. dir \in [Inner -> [Line -> [sharers: SUBSET Node, exclusive: BOOLEAN]]]
    BY DEF IInv, TypeOK
  <2>2. dir' = [dir EXCEPT ![p][l] = e2]
    BY <1>1
  <2> HIDE DEF e2
  <2>3. dir'[p][l] = e2
    BY <1>2, <1>3, <2>1, <2>2
  <2>4. \A q \in Inner, k \in Line : q # p \/ k # l => dir'[q][k] = dir[q][k]
    BY <2>1, <2>2
  <2>5. dir' \in [Inner -> [Line -> [sharers: SUBSET Node, exclusive: BOOLEAN]]]
    BY <1>8, <2>1, <2>2
  <2>6. \A q \in Inner : q # p => dir'[q] = dir[q]
    BY <2>1, <2>2
  <2> QED  BY <2>3, <2>4, <2>5, <2>6
<1> HIDE DEF g, e2, t
<1>14. TypeOK'
  <2>1. ASSUME NEW m \in Node PROVE AccessType(m, acc'[m])
    BY <1>10, <1>11, AccessTypes, IdleAccess DEF IInv
  <2> QED  BY <1>1, <1>5, <1>11, <1>12, <1>13, <2>1 DEF IInv, TypeOK, AccessType
<1>15. acc'[p].pc = "idle" /\ acc'[c].pc \in {"ready", "filled"}
  BY <1>9, <1>11 DEF NoAccess
<1>16. Links'
  <2>1. ASSUME NEW m \in Node \ {Root}, NEW k \in Line PROVE Link(m, k)'
    <3> DEFINE q == Parent[m]
    <3>1. Link(m, k) /\ q \in Inner /\ q \in Node /\ q # m /\ m \in Children(q)
           /\ (q # Root => Parent[q] # m)
      BY Tree DEF IInv, Links
    <3>2. q = p => ~OffList(m, k)'
      BY <1>15 DEF OffList
    <3>3. q # p => (OffList(m, k)' <=> OffList(m, k))
      <4> SUFFICES ASSUME q # p PROVE OffList(m, k)' <=> OffList(m, k)
        OBVIOUS
      <4>1. CASE q = c
        BY <1>4, <1>15, <4>1 DEF OffList
      <4>2. CASE q # c
        <5>1. acc'[q] = acc[q]
          BY <1>11, <3>1, <4>2
        <5> QED  BY <5>1 DEF OffList
      <4> QED  BY <4>1, <4>2
    <3>4. OffList(m, k) /\ q = p => m = c /\ k = l
      BY <1>0 DEF OffList
    <3>5. CASE k # l
      <4>1. /\ state'[m][k] = state[m][k] /\ state'[q][k] = state[q][k]
            /\ dir'[q][k] = dir[q][k]
        BY <1>12, <1>13, <3>1, <3>5
      <4> QED  BY <3>1, <3>2, <3>3, <3>4, <3>5, <4>1 DEF Link
    <3>6. CASE k = l /\ m = c
      <4>1. a.type \in Puts => state'[c][l] = "I" /\ c \notin dir'[p][l].sharers
        BY <1>8, <1>12, <1>13
      <4>2. a.type \in Gets => /\ state'[c][l] # "I" /\ state'[p][l] # "I"
                               /\ c \in dir'[p][l].sharers
                               /\ dir'[p][l].exclusive <=> Exclusive(state'[c][l])
                               /\ Exclusive(state'[c][l]) =>
                                    dir'[p][l].sharers = {c} /\ Exclusive(state'[p][l])
        BY <1>5, <1>6, <1>8, <1>12, <1>13 DEF Exclusive, Gets
      <4> QED  BY <1>3, <3>2, <3>6, <4>1, <4>2 DEF Link, Exclusive
    <3>7. CASE k = l /\ m # c /\ q = p
      <4>1. /\ state'[m][l] = state[m][l] /\ state'[p][l] = t /\ dir'[p][l] = e2
        BY <1>12, <1>13, <3>1, <3>7
      <4>2. ~OffList(m, l) /\ ~OffList(m, l)'
        BY <3>2, <3>4, <3>7
      <4>3. CASE a.type \in Puts
        <5>1. e2.sharers = e.sharers \ {c} /\ e2.exclusive = e.exclusive
          BY <1>8, <4>3
        <5> QED  BY <1>0, <1>5, <3>1, <3>7, <4>1, <4>2, <5>1 DEF Link
      <4>4. CASE a.type = "GETX"
        BY <1>0, <1>5, <1>6, <1>8, <3>1, <3>7, <4>1, <4>2, <4>4 DEF Link, Gets, Exclusive
      <4>5. CASE a.type = "GETS"
        BY <1>0, <1>5, <1>7, <1>8, <3>1, <3>7, <4>1, <4>2, <4>5 DEF Link, Gets
      <4> QED  BY <1>3, <4>3, <4>4, <4>5 DEF Gets
    <3>8. CASE k = l /\ m # p /\ q = c
      <4>1. state'[m][l] = state[m][l] /\ dir'[c] = dir[c] /\ m # c
        BY <1>3, <1>12, <1>13, <3>1, <3>8
      <4>2. /\ a.type # "GETX" => state[m][l] = "I"
        BY <1>3, <3>1, <3>8 DEF Link, Gets, Puts
      <4>3. a.type = "GETX" => Exclusive(state'[c][l]) /\ state'[c][l] # "I"
        BY <1>8, <1>12 DEF Exclusive
      <4>4. Exclusive("I") = FALSE
        BY DEF Exclusive
      <4> QED  BY <1>3, <3>1, <3>3, <3>8, <4>1, <4>2, <4>3, <4>4 DEF Link
    <3>9. CASE k = l /\ m = p
      <4>1. q # p /\ q # c
        BY <1>3, <3>1, <3>9, Tree
      <4>2. state'[q][l] = state[q][l] /\ dir'[q] = dir[q] /\ state'[p][l] = t
        BY <1>12, <1>13, <3>1, <4>1
      <4>3. OffList(p, l) => state[p][l] \in {"I", "S"} /\ (t = st)
        BY <1>0, <1>5, <3>1, <3>9 DEF Link, Exclusive
      <4> QED  BY <1>0, <1>5, <3>1, <3>3, <3>9, <4>1, <4>2, <4>3 DEF Link
    <3>10. CASE k = l /\ m # p /\ m # c /\ q # p /\ q # c
      <4>1. state'[m][l] = state[m][l] /\ state'[q][l] = state[q][l] /\ dir'[q] = dir[q]
        BY <1>12, <1>13, <3>1, <3>10
      <4> QED  BY <3>1, <3>3, <3>10, <4>1 DEF Link
    <3> QED  BY <3>5, <3>6, <3>7, <3>8, <3>9, <3>10, <1>3
  <2>2. \A q \in Inner, k \in Line : dir'[q][k].sharers \subseteq Children(q)
    <3>1. e2.sharers \subseteq Children(p)
      BY <1>0, <1>2, <1>3, <1>8 DEF IInv, Links
    <3> QED  BY <1>13, <3>1 DEF IInv, Links
  <2> QED  BY <2>1, <2>2 DEF Links
<1>17. Accesses'
  <2>1. AccessOK(p)'
    BY <1>11 DEF AccessOK, NoAccess, Gets
  <2>2. AccessOK(c)'
    <3>1. a.type \in Puts => b.pc = "ready"
      BY <1>9
    <3>2. a.type \in Gets => /\ b.pc = "filled" /\ b.line = l /\ b.type = a.type
                             /\ a.type = "GETS" => state'[c][l] # "I"
                             /\ a.type = "GETX" => state'[c][l] = "M"
      BY <1>3, <1>8, <1>9, <1>12 DEF Gets, Puts
    <3>3. b.type \in Gets /\ b.wb = FALSE /\ c # Root
      BY <1>3, <1>4, <1>9
    <3> QED  BY <1>3, <1>11, <3>1, <3>2, <3>3 DEF AccessOK, Gets
  <2>3. ASSUME NEW m \in Node \ {p, c} PROVE AccessOK(m)'
    <3>1. AccessOK(m) /\ acc'[m] = acc[m]
      BY <1>11 DEF IInv, Accesses
    <3>2. state'[m] = state[m]
      BY <1>12
    <3>3. ASSUME acc[m].pc = "put", NEW d \in Children(m) PROVE state'[d][acc[m].victim] = "I"
      <4>1. /\ state[d][acc[m].victim] = "I" /\ d \in Node \ {Root} /\ acc[m].victim \in Line
            /\ Parent[d] = m
        BY <3>1, <3>3, Tree, Types DEF AccessOK, IInv
      <4>2. d # c
        BY <1>3, <4>1
      <4>3. CASE d = p /\ acc[m].victim = l
        BY <1>0, <1>5, <1>12, <4>1, <4>3
      <4>4. CASE ~(d = p /\ acc[m].victim = l)
        BY <1>12, <4>1, <4>2, <4>4
      <4> QED  BY <4>3, <4>4
    <3> QED  BY <3>1, <3>2, <3>3 DEF AccessOK
  <2> QED  BY <2>1, <2>2, <2>3 DEF Accesses
<1>18. Requests'
  <2>1. RequestOK(p)'
    BY <1>11 DEF RequestOK, NoAccess
  <2>2. RequestOK(c)'
    <3> SUFFICES ASSUME acc[c].child # NoNode PROVE RequestOK(c)'
      BY <1>9, <1>11 DEF RequestOK
    <3> DEFINE d == acc[c].child
    <3>1. RequestOK(c) /\ d \in Node \ {Root} /\ Parent[d] = c /\ d # c /\ acc[c].line \in Line
      BY <1>3, Types, Tree DEF IInv, Requests
    <3>2. d # p
      BY <1>3, <3>1, Tree
    <3>3. acc'[d] = acc[d] /\ state'[d][acc[c].line] = state[d][acc[c].line]
      BY <1>11, <1>12, <3>1, <3>2
    <3> QED  BY <1>4, <1>9, <1>11, <3>1, <3>3 DEF RequestOK, ReqLine, Gets, Puts
  <2>3. ASSUME NEW q \in Node \ {p, c}, acc[q].child # NoNode PROVE RequestOK(q)'
    <3> DEFINE d == acc[q].child
    <3>1. RequestOK(q) /\ d \in Node \ {Root} /\ Parent[d] = q /\ acc[q].line \in Line
      BY <2>3, Types DEF IInv, Requests
    <3>2. d # p /\ d # c
      BY <1>0, <1>1, <1>3, <3>1, Waiting
    <3>3. acc'[d] = acc[d] /\ state'[d][acc[q].line] = state[d][acc[q].line]
      BY <1>11, <1>12, <3>1, <3>2
    <3> QED  BY <1>11, <3>1, <3>3 DEF RequestOK, ReqLine
  <2>4. ASSUME NEW q \in Node \ {p, c}, acc[q].child = NoNode PROVE RequestOK(q)'
    BY <1>11, <2>4 DEF RequestOK
  <2> QED  BY <2>1, <2>2, <2>3, <2>4 DEF Requests
<1>19. Invals'
  <2>1. ASSUME NEW m \in Node, inv[m].pc = "idle" PROVE InvalOK(m)'
    BY <1>1, <2>1 DEF IInv, Invals, InvalOK
  <2>2. ASSUME NEW m \in Node, inv[m].pc # "idle" PROVE InvalOK(m)'
    <3> DEFINE q == Parent[m]
    <3>1. /\ InvalOK(m) /\ m \in Node \ {Root} /\ q \in Node /\ q \in Inner
          /\ m \in SendTo(q) /\ inv[m].line \in Line
      BY <2>2, Tree DEF IInv, Invals, InvalOK
    <3>2. m # p /\ m # c
      BY <1>3, <1>4, <2>2
    <3>3. q # p /\ q # c
      <4>1. SendTo(c) = {}
        BY <1>4 DEF SendTo
      <4> QED  BY <1>1, <3>1, <4>1
    <3>4. acc'[q] = acc[q] /\ inv' = inv /\ dir'[q] = dir[q]
      BY <1>1, <1>11, <1>13, <3>1, <3>3
    <3>5. /\ SendTo(q)' = SendTo(q) /\ SendType(q)' = SendType(q)
          /\ SendLine(q)' = SendLine(q)
      BY <3>4 DEF SendTo, SendType, SendLine
    <3>6. acc'[m] = acc[m] /\ state'[m][inv[m].line] = state[m][inv[m].line]
      BY <1>11, <1>12, <3>1, <3>2
    <3> QED  BY <2>2, <3>1, <3>4, <3>5, <3>6 DEF InvalOK
  <2> QED  BY <2>1, <2>2 DEF Invals
<1>20. Unnoticed
  <2>1. ASSUME NEW k \in unsaved', Covered(k) PROVE Covered(k)'
    <3>1. k \in Line
      BY <1>1, <2>1 DEF IInv, TypeOK
    <3>2. ASSUME NEW m \in Node, state[m][k] = "M" PROVE Covered(k)'
      <4>1. CASE m = c /\ k = l
        <5>1. a.type \in Puts
          BY <1>3, <3>2, <4>1 DEF Gets
        <5>2. a.type = "PUTX"
          <6>1. RequestOK(p) /\ c # NoNode
            BY <1>3, NameAssumption DEF IInv, Requests
          <6> QED  BY <1>0, <3>2, <4>1, <5>1, <6>1 DEF RequestOK, Puts
        <5>3. st = "M"
          BY <1>0, <1>1, <1>2, <5>2 DEF AccessOK
        <5>4. t = "M"
          BY <5>3 DEF t
        <5> QED  BY <1>12, <4>1, <5>4 DEF Covered
      <4>2. CASE m = p /\ k = l
        <5>1. t = "M"
          BY <1>0, <3>2, <4>2 DEF t
        <5> QED  BY <1>12, <4>2, <5>1 DEF Covered
      <4>3. CASE k # l \/ m \notin {c, p}
        <5>1. state'[m][k] = "M"
          BY <1>12, <3>1, <3>2, <4>3
        <5> QED  BY <5>1 DEF Covered
      <4> QED  BY <4>1, <4>2, <4>3
    <3>3. ASSUME NEW m \in Node, acc[m].wb, SendLine(m) = k PROVE Covered(k)'
      <4>1. m # c
        BY <1>4, <3>3
      <4>2. CASE m = p
        <5>1. k = l /\ t = "M"
          BY <1>0, <1>1, <1>3, <3>3, <4>2 DEF SendLine, t
        <5> QED  BY <1>12, <5>1 DEF Covered
      <4>3. CASE m # p
        <5>1. acc'[m] = acc[m] /\ inv'[m] = inv[m]
          BY <1>1, <1>11, <4>1, <4>3
        <5>2. SendLine(m)' = k
          BY <3>3, <5>1 DEF SendLine
        <5> QED  BY <3>3, <5>1, <5>2 DEF Covered
      <4> QED  BY <4>2, <4>3
    <3>4. CASE \E m \in Node : inv[m].wb /\ inv[m].line = k
      BY <1>1, <3>4 DEF Covered
    <3> QED  BY <2>1, <3>2, <3>3, <3>4 DEF Covered
  <2>2. ASSUME NEW m \in Leaf
        PROVE  (acc'[m].pc = acc[m].pc /\ state'[m] = state[m]) \/ acc'[m].pc # "idle"
    <3>1. m \in Node /\ m # p
      BY <1>2, Tree
    <3> QED  BY <1>11, <1>12, <1>15, <3>1
  <2> QED  BY <2>1, <2>2 DEF Unnoticed
<1> QED  BY <1>5, <1>14, <1>16, <1>17, <1>18, <1>19, <1>20 DEF IInv

-----------------------------------------------------------------------------
(* Every step                                                              *)

\* The initial states
LEMMA InitInv == Init => IInv /\ ~fault
<1> SUFFICES ASSUME Init PROVE IInv /\ ~fault
  OBVIOUS
<1>1. /\ \A n \in Node : acc[n] = NoAccess /\ inv[n] = NoInv
      /\ \A n \in Node, l \in Line : state[n][l] = "I"
      /\ \A p \in Inner, l \in Line : dir[p][l].sharers = {} /\ dir[p][l].exclusive = FALSE
  BY Tree DEF Init
<1>2. /\ NoAccess.pc = "idle" /\ NoAccess.type = "GETS" /\ NoAccess.line = NoLine
      /\ NoAccess.child = NoNode /\ NoAccess.victim = NoLine /\ NoAccess.wb = FALSE
      /\ NoAccess \in Access
  BY DEF NoAccess, Access, Gets, Puts, MESI
<1>3. NoInv.pc = "idle" /\ NoInv.wb = FALSE /\ NoInv \in Invalidation
  BY DEF NoInv, Invalidation
<1>4. TypeOK
  <2>1. state \in [Node -> [Line -> MESI]]
    BY DEF Init, MESI
  <2>2. dir \in [Inner -> [Line -> [sharers: SUBSET Node, exclusive: BOOLEAN]]]
    BY DEF Init
  <2>3. acc \in [Node -> Access] /\ inv \in [Node -> Invalidation]
    BY <1>2, <1>3 DEF Init
  <2>4. filter \in [Leaf -> [rd: Line \cup {NoLine}, wr: Line \cup {NoLine}]]
    BY DEF Init, NoFilter
  <2> QED  BY <1>1, <1>2, <2>1, <2>2, <2>3, <2>4 DEF Init, TypeOK
<1>5. Links
  BY <1>1, <1>2, Tree DEF Links, Link, OffList, Exclusive
<1>6. Accesses
  BY <1>1, <1>2 DEF Accesses, AccessOK, Gets
<1>7. Requests
  BY <1>1, <1>2 DEF Requests, RequestOK
<1>8. Invals
  BY <1>1, <1>3 DEF Invals, InvalOK
<1> QED  BY <1>4, <1>5, <1>6, <1>7, <1>8 DEF IInv, Init

\* A filter after an invalidation is still one.
LEMMA FilterTyped ==
  ASSUME TypeOK, NEW p \in Node, NEW c \in Node,
         InvalidateLeaf(p, c) \/ FinishInvalidate(p, c)
  PROVE  filter' \in [Leaf -> [rd: Line \cup {NoLine}, wr: Line \cup {NoLine}]]
<1>1. NoFilter \in [rd: Line \cup {NoLine}, wr: Line \cup {NoLine}]
  BY DEF NoFilter
<1>2. CASE InvalidateLeaf(p, c)
  BY <1>1, <1>2 DEF InvalidateLeaf, FilterCleared, TypeOK
<1>3. CASE FinishInvalidate(p, c)
  BY <1>3 DEF FinishInvalidate, TypeOK
<1> QED  BY <1>2, <1>3

\* Every step
LEMMA NextInv == IInv /\ ~fault /\ [Next]_vars => IInv' /\ ~fault'
<1> SUFFICES ASSUME IInv, ~fault, [Next]_vars PROVE IInv' /\ ~fault'
  OBVIOUS
<1>1. ASSUME NEW n \in Node, NEW l \in Line, FilterStore(n, l) PROVE IInv' /\ ~fault'
  BY <1>1, FilterStoreKeeps DEF FilterStore
<1>2. ASSUME NEW n \in Node, NEW l \in Line, NEW type \in Gets, CoreHit(n, type, l)
      PROVE  IInv' /\ ~fault'
  BY <1>2, CoreHitKeeps DEF CoreHit
<1>3. ASSUME NEW n \in Node, NEW l \in Line, NEW type \in Gets, CoreMiss(n, type, l)
      PROVE  IInv' /\ ~fault'
  BY <1>3, CoreMissKeeps DEF CoreMiss
<1>4. ASSUME NEW n \in Node, ContextSwitch(n) PROVE IInv' /\ ~fault'
  BY <1>4, ContextSwitchKeeps DEF ContextSwitch
<1>5. ASSUME NEW n \in Node, CoreDone(n) PROVE IInv' /\ ~fault'
  BY <1>5, CoreDoneKeeps DEF CoreDone
<1>6. ASSUME NEW n \in Node, EvictLine(n) PROVE IInv' /\ ~fault'
  BY <1>6, EvictLineKeeps
<1>7. ASSUME NEW n \in Node, BottomHit(n) PROVE IInv' /\ ~fault'
  BY <1>7, BottomHitKeeps
<1>8. ASSUME NEW n \in Node, BottomMiss(n) PROVE IInv' /\ ~fault'
  BY <1>8, BottomMissKeeps DEF BottomMiss
<1>9. ASSUME NEW n \in Node, StartAccess(n) PROVE IInv' /\ ~fault'
  BY <1>9, StartAccessKeeps
<1>10. ASSUME NEW n \in Node, Serve(n) PROVE IInv' /\ ~fault'
  BY <1>10, ServeKeeps
<1>11. ASSUME NEW n \in Node, EndAccess(n) PROVE IInv' /\ ~fault'
  BY <1>11, EndAccessKeeps
<1>12. ASSUME NEW p \in Node, NEW c \in Node, StartInvalidate(p, c) PROVE IInv' /\ ~fault'
  BY <1>12, StartInvalidateKeeps DEF StartInvalidate
<1>13. ASSUME NEW p \in Node, NEW c \in Node, InvalidateLeaf(p, c) \/ FinishInvalidate(p, c)
       PROVE  IInv' /\ ~fault'
  <2>1. filter' \in [Leaf -> [rd: Line \cup {NoLine}, wr: Line \cup {NoLine}]]
    BY <1>13, FilterTyped DEF IInv
  <2>2. c \in SendTo(p) /\ \E wb \in BOOLEAN : Yields(c, wb) /\ Invalidated(p, c, wb)
    BY <1>13, Yielding
  <2> QED  BY <2>1, <2>2, InvalidatedKeeps
<1>14. CASE UNCHANGED vars
  <2>1. UNCHANGED <<state, dir, acc, inv, filter, unsaved, fault>>
    BY <1>14 DEF vars
  <2>2. TypeOK'
    BY <2>1 DEF IInv, TypeOK
  <2>3. Links'
    BY <2>1 DEF IInv, Links, Link, OffList
  <2>4. Accesses'
    <3>1. ASSUME NEW n \in Node PROVE AccessOK(n)'
      BY <2>1 DEF IInv, Accesses, AccessOK
    <3> QED  BY <3>1 DEF Accesses
  <2>5. Requests' /\ Invals'
    BY <2>1 DEF IInv, Requests, RequestOK, ReqLine, Invals, InvalOK, SendTo, SendType, SendLine
  <2> QED  BY <2>1, <2>2, <2>3, <2>4, <2>5 DEF IInv
<1> QED  BY <1>1, <1>2, <1>3, <1>4, <1>5, <1>6, <1>7, <1>8, <1>9, <1>10, <1>11, <1>12, <1>13, <1>14
         DEF Next, CoreStart, Continue

\* In every reachable state the invariant holds and no assertion was hit.
THEOREM Invariance == Spec => [](IInv /\ ~fault)
BY InitInv, NextInv, PTL DEF Spec

\* CheckForMESIRace covers every race there is: no assertion or panic of the
\* controllers is ever hit.
THEOREM NoAssertionHit == Spec => []AssertionsHold
BY Invariance, PTL DEF AssertionsHold

\* When a controller locks a line, permissions are inclusive and the
\* directory lists exactly the children with a copy, but one in an upgrade.
THEOREM HierarchyStaysExact == Spec => []HierarchyExact
<1>1. IInv => HierarchyExact
  <2> SUFFICES ASSUME IInv PROVE HierarchyExact
    OBVIOUS
  <2>1. \A n \in Node \ {Root}, l \in Line : Link(n, l)
    BY DEF IInv, Links
  <2>2. Inclusion
    BY <2>1 DEF Inclusion, Link
  <2>3. DirectoryExact
    BY <2>1 DEF DirectoryExact, Link, OffList
  <2> QED  BY <2>2, <2>3 DEF HierarchyExact, IInv
<1> QED  BY <1>1, Invariance, PTL

-----------------------------------------------------------------------------
(* Filters and writes                                                      *)

\* What leaf n's filter hits on, its cache would, unless an access is replacing
\* the entry: FilterIncluded, of one leaf and line.
FilterOK(n, l) ==
  /\ filter[n].rd = l => state[n][l] # "I" \/ acc[n].pc # "idle"
  /\ filter[n].wr = l => filter[n].rd = l /\ (state[n][l] = "M" \/ acc[n].pc # "idle")

\* Inclusion of the filters, line by line
LEMMA FilterOKs == FilterIncluded <=> \A n \in Leaf, l \in Line : FilterOK(n, l)
BY DEF FilterIncluded, FilterOK

\* Steps no core notices leave filters as they are, and right.
LEMMA UnnoticedKeeps ==
  ASSUME FilterIncluded, NoLostWrite, Unnoticed, filter' = filter, unsaved' \subseteq unsaved
  PROVE  FilterIncluded' /\ NoLostWrite'
<1>1. ASSUME NEW n \in Leaf, NEW l \in Line PROVE FilterOK(n, l)'
  BY FilterOKs DEF FilterOK, Unnoticed
<1>2. ASSUME NEW k \in unsaved' PROVE Covered(k)'
  <2>1. Covered(k)
    BY <1>2 DEF NoLostWrite, Covered
  <2> QED  BY <2>1 DEF Unnoticed
<1> QED  BY <1>1, <1>2 DEF FilterIncluded, FilterOK, NoLostWrite, Covered

\* A core's step at its own leaf
LEMMA CoreKeeps ==
  ASSUME FilterIncluded, NoLostWrite, NEW n \in Leaf, UNCHANGED inv,
         \A m \in Node \ {n} : acc'[m] = acc[m] /\ state'[m] = state[m],
         \A m \in Leaf \ {n} : filter'[m] = filter[m],
         acc[n].wb = FALSE,
         \A k \in Line : state[n][k] = "M" => state'[n][k] = "M",
         \A k \in Line : FilterOK(n, k)',
         unsaved \subseteq Line,
         \A k \in unsaved' \ unsaved : state'[n][k] = "M"
  PROVE  FilterIncluded' /\ NoLostWrite'
<1>1. ASSUME NEW m \in Leaf, NEW k \in Line PROVE FilterOK(m, k)'
  <2>1. CASE m = n
    BY <2>1
  <2>2. CASE m # n
    <3>1. filter'[m] = filter[m] /\ acc'[m] = acc[m] /\ state'[m] = state[m]
      BY <2>2, Tree
    <3> QED  BY <3>1, FilterOKs DEF FilterOK
  <2> QED  BY <2>1, <2>2
<1>2. ASSUME NEW k \in unsaved' PROVE Covered(k)'
  <2>1. CASE k \in unsaved
    <3>1. Covered(k)
      BY <2>1 DEF NoLostWrite, Covered
    <3> QED  BY <2>1, <3>1, Tree, LocalCover
  <2>2. CASE k \notin unsaved
    BY <2>2, Tree DEF Covered
  <2> QED  BY <2>1, <2>2
<1> QED  BY <1>1, <1>2 DEF FilterIncluded, FilterOK, NoLostWrite, Covered

\* What a core leaves in its filter when it has what it asked for
LEMMA FilteredOK ==
  ASSUME IInv, NEW n \in Leaf, NEW type \in Gets, NEW l \in Line, NEW k \in Line,
         filter' = [filter EXCEPT ![n] = Filtered(n, type, l)],
         state'[n][l] # "I", type = "GETX" => state'[n][l] = "M"
  PROVE  FilterOK(n, k)' /\ \A m \in Leaf \ {n} : filter'[m] = filter[m]
<1>1. filter \in [Leaf -> [rd: Line \cup {NoLine}, wr: Line \cup {NoLine}]]
  BY DEF IInv, TypeOK
<1>2. filter'[n] = Filtered(n, type, l) /\ \A m \in Leaf \ {n} : filter'[m] = filter[m]
  BY <1>1
<1> QED  BY <1>2, NameAssumption DEF FilterOK, Filtered, NoFilter

\* An invalidation loses no write and takes the line from the filter.
LEMMA InvalidatedWrites ==
  ASSUME IInv, FilterIncluded, NoLostWrite, NEW p \in Node, NEW c \in Node,
         InvalidateLeaf(p, c) \/ FinishInvalidate(p, c)
  PROVE  FilterIncluded' /\ NoLostWrite'
<1>1. filter' \in [Leaf -> [rd: Line \cup {NoLine}, wr: Line \cup {NoLine}]]
  BY FilterTyped DEF IInv
<1>2. /\ IInv' /\ unsaved' = unsaved
      /\ \A m \in Node \ {c} : acc'[m].pc = acc[m].pc /\ state'[m] = state[m]
      /\ acc'[c].pc = acc[c].pc
      /\ \A k \in Line \ {SendLine(p)} : state'[c][k] = state[c][k]
      /\ \A k \in Line : Covered(k) => Covered(k)'
  <2>1. c \in SendTo(p) /\ \E wb \in BOOLEAN : Yields(c, wb) /\ Invalidated(p, c, wb)
    BY Yielding
  <2> QED  BY <1>1, <2>1, InvalidatedKeeps
<1>3. NoLostWrite'
  <2>1. ASSUME NEW k \in unsaved' PROVE Covered(k)'
    <3>1. k \in unsaved /\ k \in Line
      BY <1>2 DEF IInv, TypeOK
    <3>2. Covered(k)
      BY <3>1 DEF NoLostWrite, Covered
    <3> QED  BY <1>2, <3>1, <3>2
  <2> QED  BY <2>1 DEF NoLostWrite, Covered
<1>4. ASSUME NEW m \in Leaf, NEW k \in Line PROVE FilterOK(m, k)'
  <2>1. m \in Node /\ FilterOK(m, k)
    BY FilterOKs, Tree
  <2>2. CASE m # c
    <3>1. filter'[m] = filter[m]
      BY <2>2 DEF InvalidateLeaf, FinishInvalidate, IInv, TypeOK
    <3> QED  BY <1>2, <2>1, <2>2, <3>1 DEF FilterOK
  <2>3. CASE m = c
    <3>1. InvalidateLeaf(p, c)
      BY <2>3, LeafQuiet DEF FinishInvalidate
    <3>2. filter'[c] = FilterCleared(filter[c], SendType(p), SendLine(p))
      BY <2>3, <3>1 DEF InvalidateLeaf, IInv, TypeOK
    <3>3. CASE filter[c].rd = SendLine(p)
      BY <2>3, <3>2, <3>3, NameAssumption DEF FilterOK, FilterCleared, NoFilter
    <3>4. CASE filter[c].rd # SendLine(p)
      <4>1. filter'[c] = filter[c]
        BY <3>2, <3>4 DEF FilterCleared
      <4>2. CASE k = SendLine(p)
        BY <2>1, <2>3, <3>4, <4>1, <4>2 DEF FilterOK
      <4>3. CASE k # SendLine(p)
        BY <1>2, <2>1, <2>3, <4>1, <4>3 DEF FilterOK
      <4> QED  BY <4>2, <4>3
    <3> QED  BY <3>3, <3>4
  <2> QED  BY <2>2, <2>3
<1> QED  BY <1>3, <1>4 DEF FilterIncluded, FilterOK

\* Neither does any step.
LEMMA NextWrites ==
  IInv /\ FilterIncluded /\ NoLostWrite /\ [Next]_vars => FilterIncluded' /\ NoLostWrite'
<1> SUFFICES ASSUME IInv, FilterIncluded, NoLostWrite, [Next]_vars
             PROVE  FilterIncluded' /\ NoLostWrite'
  OBVIOUS
<1>1. /\ unsaved \subseteq Line /\ \A n \in Node : AccessOK(n)
      /\ state \in [Node -> [Line -> MESI]] /\ acc \in [Node -> Access]
  BY DEF IInv, TypeOK, Accesses
<1>2. ASSUME NEW n \in Node, NEW l \in Line, FilterStore(n, l)
      PROVE  FilterIncluded' /\ NoLostWrite'
  <2>1. /\ n \in Leaf /\ acc[n].pc = "idle" /\ filter[n].wr = l
        /\ unsaved' = unsaved \cup {l}
        /\ UNCHANGED <<state, dir, acc, inv, filter, fault>>
    BY <1>2, TreeAssumption DEF FilterStore, FilterHit
  <2>2. state[n][l] = "M"
    BY <2>1, FilterOKs DEF FilterOK
  <2>3. acc[n].wb = FALSE
    BY <1>1, <2>1, Types DEF AccessOK, IInv, Access
  <2>4. \A k \in Line : FilterOK(n, k)'
    BY <2>1, FilterOKs DEF FilterOK
  <2> QED  BY <1>1, <2>1, <2>2, <2>3, <2>4, CoreKeeps
<1>3. ASSUME NEW n \in Node, NEW l \in Line, NEW type \in Gets, CoreHit(n, type, l)
      PROVE  FilterIncluded' /\ NoLostWrite'
  <2>1. /\ n \in Leaf /\ acc[n].pc = "idle" /\ UNCHANGED <<dir, acc, inv, fault>>
        /\ filter' = [filter EXCEPT ![n] = Filtered(n, type, l)]
    BY <1>3 DEF CoreHit
  <2>2. /\ state'[n][l] # "I" /\ (type = "GETX" => state'[n][l] = "M")
        /\ \A m \in Node \ {n} : state'[m] = state[m]
        /\ \A k \in Line : state[n][k] = "M" => state'[n][k] = "M"
        /\ \A k \in unsaved' \ unsaved : state'[n][k] = "M"
    <3>1. CASE type = "GETX"
      <4>1. state' = [state EXCEPT ![n][l] = "M"] /\ unsaved' = unsaved \cup {l}
        BY <1>3, <3>1 DEF CoreHit
      <4> QED  BY <1>1, <3>1, <4>1
    <3>2. CASE type = "GETS"
      BY <1>3, <3>2 DEF CoreHit
    <3> QED  BY <3>1, <3>2 DEF Gets
  <2>3. acc[n].wb = FALSE
    BY <1>1, <2>1, Types DEF AccessOK, IInv, Access
  <2>4. \A k \in Line : FilterOK(n, k)' /\ \A m \in Leaf \ {n} : filter'[m] = filter[m]
    BY <2>1, <2>2, FilteredOK
  <2> QED  BY <1>1, <2>1, <2>2, <2>3, <2>4, CoreKeeps
<1>4. ASSUME NEW n \in Node, NEW l \in Line, NEW type \in Gets, CoreMiss(n, type, l)
      PROVE  FilterIncluded' /\ NoLostWrite'
  <2>1. /\ n \in Leaf /\ acc[n].pc = "idle"
        /\ UNCHANGED <<state, dir, inv, filter, unsaved, fault>>
    BY <1>4 DEF CoreMiss
  <2>2. PICK a : Begins(n, type, l, a)
    BY <1>4, CoreLookup
  <2>3. acc'[n].pc # "idle" /\ \A m \in Node \ {n} : acc'[m] = acc[m]
    BY <1>1, <2>2 DEF Begins
  <2>4. acc[n].wb = FALSE
    BY <1>1, <2>1, Types DEF AccessOK, IInv, Access
  <2>5. \A k \in Line : FilterOK(n, k)'
    BY <2>1, <2>3, FilterOKs DEF FilterOK
  <2> QED  BY <1>1, <2>1, <2>3, <2>4, <2>5, CoreKeeps
<1>5. ASSUME NEW n \in Node, CoreDone(n)
      PROVE  FilterIncluded' /\ NoLostWrite'
  <2> DEFINE a == acc[n]
  <2>1. /\ n \in Leaf /\ a.pc = "filled" /\ UNCHANGED <<state, dir, inv, fault>>
        /\ acc' = [acc EXCEPT ![n] = NoAccess]
        /\ filter' = [filter EXCEPT ![n] = Filtered(n, a.type, a.line)]
        /\ unsaved' = IF a.type = "GETX" THEN unsaved \cup {a.line} ELSE unsaved
    BY <1>5 DEF CoreDone
  <2>2. AccessOK(n) /\ a.line \in Line /\ a.type \in Gets
    BY <1>1, <2>1, Types DEF AccessOK, IInv
  <2>3. a.wb = FALSE
    BY <2>1, <2>2, Types DEF AccessOK, IInv, Access
  <2>4. state'[n][a.line] # "I" /\ (a.type = "GETX" => state'[n][a.line] = "M")
    BY <2>1, <2>2 DEF AccessOK, Gets
  <2>5. \A k \in Line : FilterOK(n, k)' /\ \A m \in Leaf \ {n} : filter'[m] = filter[m]
    BY <2>1, <2>2, <2>4, FilteredOK
  <2>6. \A m \in Node \ {n} : acc'[m] = acc[m]
    BY <1>1, <2>1
  <2>7. \A k \in unsaved' \ unsaved : state'[n][k] = "M"
    <3>1. CASE a.type = "GETX"
      <4>1. unsaved' = unsaved \cup {a.line}
        BY <2>1, <3>1
      <4> QED  BY <2>4, <3>1, <4>1
    <3>2. CASE a.type # "GETX"
      BY <2>1, <3>2
    <3> QED  BY <3>1, <3>2
  <2>8. n \in Leaf /\ UNCHANGED <<state, inv>>
    BY <2>1
  <2>9. \A m \in Node \ {n} : acc'[m] = acc[m] /\ state'[m] = state[m]
    BY <2>6, <2>8
  <2> QED  BY <1>1, <2>2, <2>3, <2>5, <2>7, <2>8, <2>9, CoreKeeps
<1>6. ASSUME NEW n \in Node, ContextSwitch(n)
      PROVE  FilterIncluded' /\ NoLostWrite'
  <2>1. /\ n \in Leaf /\ acc[n].pc = "idle" /\ filter' = [filter EXCEPT ![n] = NoFilter]
        /\ UNCHANGED <<state, dir, acc, inv, unsaved, fault>>
    BY <1>6, TreeAssumption DEF ContextSwitch
  <2>2. filter'[n] = NoFilter /\ \A m \in Leaf \ {n} : filter'[m] = filter[m]
    BY <2>1 DEF IInv, TypeOK
  <2>3. \A k \in Line : FilterOK(n, k)'
    BY <2>2, NameAssumption DEF FilterOK, NoFilter
  <2>4. acc[n].wb = FALSE
    BY <1>1, <2>1, Types DEF AccessOK, IInv, Access
  <2> QED  BY <1>1, <2>1, <2>2, <2>3, <2>4, CoreKeeps
<1>7. ASSUME NEW n \in Node, EvictLine(n) PROVE FilterIncluded' /\ NoLostWrite'
  <2>1. filter' = filter /\ unsaved' \subseteq unsaved
    BY <1>7 DEF EvictLine
  <2> QED  BY <1>7, <2>1, EvictLineKeeps, UnnoticedKeeps
<1>8. ASSUME NEW n \in Node, BottomHit(n) PROVE FilterIncluded' /\ NoLostWrite'
  <2>1. filter' = filter /\ unsaved' = unsaved
    BY <1>8 DEF BottomHit
  <2> QED  BY <1>8, <2>1, BottomHitKeeps, UnnoticedKeeps
<1>9. ASSUME NEW n \in Node, BottomMiss(n) PROVE FilterIncluded' /\ NoLostWrite'
  <2>1. filter' = filter /\ unsaved' = unsaved
    BY <1>9 DEF BottomMiss
  <2> QED  BY <1>9, <2>1, BottomMissKeeps, UnnoticedKeeps
<1>10. ASSUME NEW n \in Node, StartAccess(n) PROVE FilterIncluded' /\ NoLostWrite'
  <2>1. filter' = filter /\ unsaved' = unsaved
    BY <1>10 DEF StartAccess
  <2> QED  BY <1>10, <2>1, StartAccessKeeps, UnnoticedKeeps
<1>11. ASSUME NEW n \in Node, Serve(n) PROVE FilterIncluded' /\ NoLostWrite'
  <2>1. filter' = filter /\ unsaved' = unsaved
    BY <1>11 DEF Serve
  <2> QED  BY <1>11, <2>1, ServeKeeps, UnnoticedKeeps
<1>12. ASSUME NEW n \in Node, EndAccess(n) PROVE FilterIncluded' /\ NoLostWrite'
  <2>1. filter' = filter /\ unsaved' = unsaved
    BY <1>12 DEF EndAccess
  <2> QED  BY <1>12, <2>1, EndAccessKeeps, UnnoticedKeeps
<1>13. ASSUME NEW p \in Node, NEW c \in Node, StartInvalidate(p, c)
       PROVE  FilterIncluded' /\ NoLostWrite'
  <2>1. filter' = filter /\ unsaved' = unsaved
    BY <1>13 DEF StartInvalidate
  <2> QED  BY <1>13, <2>1, StartInvalidateKeeps, UnnoticedKeeps
<1>14. ASSUME NEW p \in Node, NEW c \in Node, InvalidateLeaf(p, c) \/ FinishInvalidate(p, c)
       PROVE  FilterIncluded' /\ NoLostWrite'
  BY <1>14, InvalidatedWrites
<1>15. CASE UNCHANGED vars
  BY <1>15 DEF vars, FilterIncluded, NoLostWrite, SendLine
<1> QED  BY <1>2, <1>3, <1>4, <1>5, <1>6, <1>7, <1>8, <1>9, <1>10, <1>11, <1>12, <1>13, <1>14,
            <1>15 DEF Next, CoreStart, Continue

\* Filters stay included and no write is lost.
LEMMA WritesInvariance == Spec => [](IInv /\ FilterIncluded /\ NoLostWrite)
<1>1. Init => FilterIncluded /\ NoLostWrite
  BY Tree, NameAssumption DEF Init, NoFilter, FilterIncluded, NoLostWrite
<1> QED  BY <1>1, InitInv, NextInv, NextWrites, Invariance, PTL DEF Spec

\* What hits in a filter without a lock would hit in its cache, whatever the
\* other caches send meanwhile.
THEOREM FiltersStayIncluded == Spec => []FilterIncluded
BY WritesInvariance, PTL

\* No write of a core is lost on the way to the memory: some cache has the line
\* in state M, or a writeback flag is on its way to one.
THEOREM NoWriteIsLost == Spec => []NoLostWrite
BY WritesInvariance, PTL

-----------------------------------------------------------------------------
(* Single writer, and the copies at the leaves                             *)

\* Sets with the parents of their members
Upward(S) == \A x \in S \ {Root} : Parent[x] \in S

\* Above a node is what every set that goes upward from it has.
LEMMA AboveIs ==
  ASSUME NEW n \in Node, NEW a \in Node, a # n
  PROVE  a \in Above[n] <=> \A S \in SUBSET Node : n \in S /\ Upward(S) => a \in S
BY DEF Above, Upward

\* A cache and those above it: the line of ancestors, up to the root.
LEMMA Ancestors ==
  ASSUME NEW m \in Node
  PROVE  LET A == {m} \cup Above[m] IN
         /\ A \subseteq Node /\ Upward(A) /\ Root \in A
         /\ \A S \in SUBSET Node : m \in S /\ Upward(S) => A \subseteq S
         /\ \A x \in A \ {m} : \E y \in A \ {Root} : Parent[y] = x
<1> DEFINE A == {m} \cup Above[m]
<1>1. A \subseteq Node
  BY DEF Above
<1>2. ASSUME NEW S \in SUBSET Node, m \in S, Upward(S) PROVE A \subseteq S
  BY <1>1, <1>2, AboveIs
<1>3. Upward(A)
  <2>1. ASSUME NEW x \in A \ {Root} PROVE Parent[x] \in A
    <3>1. x \in Node /\ Parent[x] \in Node
      BY <1>1, TreeAssumption
    <3>2. ASSUME NEW S \in SUBSET Node, m \in S, Upward(S) PROVE Parent[x] \in S
      BY <1>2, <2>1, <3>2 DEF Upward
    <3> QED  BY <3>1, <3>2, AboveIs
  <2> QED  BY <2>1 DEF Upward
<1>4. Root \in A
  <2>1. A \in (SUBSET Node) \ {{}}
    BY <1>1
  <2> HIDE DEF A
  <2> QED  BY <1>3, <2>1, TreeAssumption DEF Upward
<1>5. ASSUME NEW x \in A \ {m} PROVE \E y \in A \ {Root} : Parent[y] = x
  <2> SUFFICES ASSUME \A y \in A \ {Root} : Parent[y] # x PROVE FALSE
    OBVIOUS
  <2> DEFINE S == A \ {x}
  <2>1. S \in SUBSET Node /\ m \in S
    BY <1>1, <1>5
  <2>2. Upward(S)
    BY <1>3 DEF Upward
  <2>3. A \subseteq S
    <3> HIDE DEF S, A
    <3> QED  BY <1>2, <2>1, <2>2
  <2> QED  BY <2>3
<1> QED  BY <1>1, <1>2, <1>3, <1>4, <1>5

\* The lowest copy that is not above an exclusive one would be its sibling.
LEMMA OneWriter == IInv => SingleWriter
<1> SUFFICES ASSUME IInv, NEW m \in Node, NEW n \in Node, NEW l \in Line,
                    m # n, m \notin Above[n], n \notin Above[m],
                    Exclusive(state[m][l]), state[n][l] # "I"
             PROVE  FALSE
  BY DEF SingleWriter
<1> DEFINE A == {m} \cup Above[m]
           B == {x \in Node \ A : state[x][l] # "I" /\ m \notin Above[x]}
<1>1. /\ A \subseteq Node /\ Upward(A) /\ Root \in A
      /\ \A S \in SUBSET Node : m \in S /\ Upward(S) => A \subseteq S
      /\ \A x \in A \ {m} : \E y \in A \ {Root} : Parent[y] = x
  BY Ancestors
<1>2. \A x \in Node \ {Root} : Link(x, l) /\ Parent[x] \in Node
  BY Tree DEF IInv, Links
<1>3. \A x \in A : Exclusive(state[x][l])
  <2> DEFINE S == {x \in Node : Exclusive(state[x][l])}
  <2>1. Upward(S)
    BY <1>2 DEF Upward, Link
  <2>2. S \in SUBSET Node /\ m \in S
    OBVIOUS
  <2> HIDE DEF A, S
  <2>3. A \subseteq S
    BY <1>1, <2>1, <2>2
  <2> QED  BY <2>3 DEF S
<1>4. B \in (SUBSET Node) \ {{}}
  BY DEF Above
<1> HIDE DEF A, B
<1>5. PICK x \in B : x = Root \/ Parent[x] \notin B
  BY <1>4, TreeAssumption
<1>6. x \in Node \ {Root} /\ x \notin A /\ state[x][l] # "I" /\ m \notin Above[x] /\ x # m
  BY <1>1, <1>5 DEF B, A
<1> DEFINE y == Parent[x]
<1>7. y \in Node /\ y \in Inner /\ x \in Children(y) /\ y # x /\ state[y][l] # "I"
  BY <1>2, <1>6, Tree DEF Link
<1>8. \A S \in SUBSET Node : x \in S /\ Upward(S) => y \in S
  BY <1>6 DEF Upward
<1>9. y # m
  BY <1>6, <1>7, <1>8, AboveIs
<1>10. m \notin Above[y]
  <2> SUFFICES ASSUME m \in Above[y] PROVE FALSE
    OBVIOUS
  <2>1. \A S \in SUBSET Node : y \in S /\ Upward(S) => m \in S
    BY <1>7, <1>9, AboveIs
  <2> QED  BY <1>6, <1>8, <2>1, AboveIs
<1>11. y \in A
  BY <1>5, <1>6, <1>7, <1>10 DEF B
<1>12. PICK z \in A \ {Root} : Parent[z] = y
  BY <1>1, <1>9, <1>11
<1>13. z \in Children(y) /\ z # x /\ Exclusive(state[z][l])
  BY <1>1, <1>3, <1>6, <1>12 DEF Children
<1> QED  BY <1>6, <1>7, <1>13, Siblings

\* No leaf is above another.
LEMMA LeavesApart ==
  ASSUME NEW m \in Leaf, NEW n \in Leaf, m # n PROVE m \notin Above[n]
<1> SUFFICES ASSUME m \in Above[n] PROVE FALSE
  OBVIOUS
<1>1. PICK y \in ({n} \cup Above[n]) \ {Root} : Parent[y] = m
  BY Ancestors, Tree
<1>2. y \in Children(m)
  BY <1>1, Ancestors, Tree DEF Children
<1> QED  BY <1>2, Tree

\* Single writer or many readers, for every tree: a cache with an exclusive
\* copy shares the line only with the caches above and below it.
THEOREM SingleWriterAlways == Spec => []SingleWriter
BY OneWriter, Invariance, PTL

\* A step changes one line of one leaf cache at most.
OneCopy ==
  \E n \in Node, l \in Line : \A d \in Leaf, k \in Line :
    d # n \/ k # l => state'[d][k] = state[d][k]

\* A step changes one line in one L1 at most, as Copies allows.
LEMMA StepChanges == IInv /\ [Next]_vars => OneCopy \/ state' = state
<1> SUFFICES ASSUME IInv, [Next]_vars, state' # state PROVE OneCopy
  OBVIOUS
<1>1. state \in [Node -> [Line -> MESI]] /\ Leaf \subseteq Node
  BY Tree DEF IInv, TypeOK
<1>2. ASSUME NEW n \in Node, NEW l \in Line, NEW t, state' = [state EXCEPT ![n][l] = t]
      PROVE  OneCopy
  <2>1. \A d \in Node, k \in Line : d # n \/ k # l => state'[d][k] = state[d][k]
    BY <1>1, <1>2
  <2> QED  BY <1>1, <2>1 DEF OneCopy
<1>3. ASSUME NEW n \in Node, NEW l \in Line, NEW type \in Gets, CoreHit(n, type, l)
      PROVE  OneCopy
  BY <1>2, <1>3 DEF CoreHit
<1>4. ASSUME NEW n \in Node, EvictLine(n) PROVE OneCopy
  <2>1. acc[n].victim \in Line
    BY <1>4, Types DEF EvictLine, IInv
  <2> QED  BY <1>2, <1>4, <2>1 DEF EvictLine
<1>5. ASSUME NEW n \in Node, BottomHit(n) PROVE OneCopy
  <2>1. acc[n].line \in Line
    BY <1>5, Types DEF BottomHit, IInv
  <2> QED  BY <1>2, <1>5, <2>1 DEF BottomHit
<1>6. ASSUME NEW n \in Node, BottomMiss(n) PROVE OneCopy
  <2>1. acc[n].line \in Line
    BY <1>6, Types DEF BottomMiss, IInv
  <2> QED  BY <1>2, <1>6, <2>1 DEF BottomMiss
<1>7. ASSUME NEW p \in Node, EndAccess(p) PROVE OneCopy
  <2>1. p \in Inner /\ acc[p].pc = "serve"
    BY <1>7, Tree DEF EndAccess, IInv, Accesses, AccessOK
  <2>2. /\ acc[p].child \in Node /\ acc[p].line \in Line
    BY <2>1, Serving
  <2>3. PICK c, l, t, u : /\ c = acc[p].child /\ l = acc[p].line
                          /\ state' = [state EXCEPT ![c][l] = t, ![p][l] = u]
    BY <1>7 DEF EndAccess
  <2>4. \A d \in Leaf, k \in Line : d # c \/ k # l => state'[d][k] = state[d][k]
    <3> DEFINE s1 == [state EXCEPT ![c][l] = t]
    <3>1. state' = [s1 EXCEPT ![p][l] = u] /\ DOMAIN s1 = Node
      BY <1>1, <2>3
    <3>2. \A d \in Node, k \in Line : d # c \/ k # l => s1[d][k] = state[d][k]
      BY <1>1, <2>3
    <3> HIDE DEF s1
    <3>3. \A d \in Node : d # p => state'[d] = s1[d]
      BY <3>1
    <3> QED  BY <1>1, <2>1, <3>2, <3>3, Tree
  <2>5. c \in Node /\ l \in Line
    BY <2>2, <2>3
  <2> QED  BY <2>4, <2>5 DEF OneCopy
<1>8. ASSUME NEW p \in Node, NEW c \in Node, InvalidateLeaf(p, c) \/ FinishInvalidate(p, c)
      PROVE  OneCopy
  <2>1. c \in SendTo(p) /\ \E wb \in BOOLEAN : Invalidated(p, c, wb)
    BY <1>8, Yielding
  <2>2. SendLine(p) \in Line
    BY <2>1, Sending
  <2>3. PICK wb \in BOOLEAN : Invalidated(p, c, wb)
    BY <2>1
  <2>4. \E t : state' = [state EXCEPT ![c][SendLine(p)] = t]
    BY <2>3 DEF Invalidated
  <2> QED  BY <1>2, <2>2, <2>4
<1> QED  BY <1>3, <1>4, <1>5, <1>6, <1>7, <1>8
         DEF Next, CoreStart, Continue, FilterStore, CoreMiss, CoreDone, ContextSwitch, StartAccess,
             Serve, StartInvalidate, vars

\* The leaf caches implement Copies: what the cores see is coherent.
THEOREM LeavesImplementCopies == Spec => ImplementsCopies
<1> DEFINE copy == [n \in Leaf |-> state[n]]
<1>1. Init => Coherent!Init
  BY Tree DEF Init, Coherent!Init
<1>2. ASSUME IInv, IInv', [Next]_vars PROVE [Coherent!Next]_copy
  <2>1. CASE state' = state
    BY <2>1
  <2>2. ASSUME NEW n \in Node, NEW l \in Line,
               \A d \in Leaf, k \in Line : d # n \/ k # l => state'[d][k] = state[d][k]
        PROVE  [Coherent!Next]_copy
    <3>0. /\ state \in [Node -> [Line -> MESI]] /\ state' \in [Node -> [Line -> MESI]]
          /\ Leaf \subseteq Node
      BY <1>2, Tree DEF IInv, TypeOK
    <3>1. CASE n \notin Leaf
      <4>1. \A d \in Leaf : state'[d] = state[d]
        <5>1. ASSUME NEW d \in Leaf PROVE state'[d] = state[d]
          <6>1. state[d] \in [Line -> MESI] /\ state'[d] \in [Line -> MESI]
            BY <3>0
          <6>2. \A k \in Line : state'[d][k] = state[d][k]
            BY <2>2, <3>1
          <6> QED  BY <6>1, <6>2
        <5> QED  BY <5>1
      <4> QED  BY <4>1
    <3>2. CASE n \in Leaf
      <4>1. \A d \in Leaf, k \in Line :
              /\ copy[d][k] = state[d][k] /\ copy'[d][k] = state'[d][k]
              /\ state[d][k] \in MESI /\ state'[d][k] \in MESI
        BY <3>0
      <4>2. copy' \in [Leaf -> [Line -> {"M", "E", "S", "I"}]]
        BY <3>0 DEF MESI
      <4>3. \A d \in Leaf \ {n} :
              /\ Exclusive(state'[d][l]) => state'[n][l] = "I"
              /\ Exclusive(state'[n][l]) => state'[d][l] = "I"
        <5>1. SingleWriter'
          BY <1>2, OneWriter, PTL
        <5> QED  BY <3>0, <3>2, <5>1, LeavesApart DEF SingleWriter
      <4> HIDE DEF copy
      <4>4. Coherent!Change(n, l)
        <5>1. \A d \in Leaf, k \in Line \ {l} : copy'[d][k] = copy[d][k]
          BY <2>2, <4>1
        <5>2. \A d \in Leaf \ {n} : copy'[d][l] \in Coherent!Demoted(copy[d][l])
          BY <2>2, <4>1 DEF Coherent!Demoted, MESI
        <5>3. copy'[n][l] \in Coherent!Granted(n, l)
          BY <3>2, <4>1, <4>3 DEF Coherent!Granted, Coherent!Demoted, MESI, Exclusive
        <5> QED  BY <4>2, <5>1, <5>2, <5>3 DEF Coherent!Change, copy
      <4> QED  BY <3>2, <4>4 DEF Coherent!Next
    <3> QED  BY <3>1, <3>2
  <2> QED  BY <1>2, <2>1, <2>2, StepChanges DEF OneCopy
<1> QED  BY <1>1, <1>2, Invariance, PTL DEF Spec, ImplementsCopies, Coherent!Spec
=============================================================================
