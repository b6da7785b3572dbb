------------------------------- MODULE MCLLC --------------------------------
(* The last-level cache under two kinds of programs, one of which runs:    *)
(*   one that keeps the maps of cached lines and its regions as they are,  *)
(*     with two caches above and two approximable lines;                   *)
(*   one that changes both at any time, with one cache above, one          *)
(*     approximable line and two precise ones.  Its cache has variables of *)
(*     its own (m_...) and ends with the first failed assertion.           *)
EXTENDS DoppelgangerLLC, TLC

CONSTANTS p1, p2, p3, a1, a2, x1, x2, m1, m2, m3, m4

TwoAddr  == {a1, a2}
TwoChild == {p1, p2}
TwoMap   == {m1, m2}
HashOf(K) == [k \in K |-> IF k \in {a1, x1} THEN 1 ELSE IF k = a2 THEN 2 ELSE 0]
TwoHash  == HashOf(TwoAddr \cup TwoMap)

MixedAddr == {a1, x1, x2}
MixedMap  == {m3, m4}

VARIABLES
  changes,    \* does the second program run?
  m_child, m_pending, m_array, m_cc, m_approx, m_req, m_fault,
  m_array_t, m_array_d, m_rp_dpg_t, m_rp_dpg_d, m_map, m_op

mixedVars == <<m_child, m_pending, m_array, m_cc, m_approx, m_req, m_fault,
               m_array_t, m_array_d, m_rp_dpg_t, m_rp_dpg_d, m_map, m_op>>

Mixed == INSTANCE DoppelgangerLLC WITH
  Addr <- MixedAddr, Registered <- {a1}, Child <- {p3},
  Map <- MixedMap, hash <- HashOf(MixedAddr \cup MixedMap),
  WriteWhileCached <- TRUE, RegionChanges <- TRUE,
  child <- m_child, pending <- m_pending, array <- m_array, cc <- m_cc,
  approx <- m_approx, req <- m_req, fault <- m_fault,
  array_t <- m_array_t, array_d <- m_array_d, rp_dpg_t <- m_rp_dpg_t,
  rp_dpg_d <- m_rp_dpg_d, map <- m_map, op <- m_op

\* The cache that does not run has one initial state.
MCInit ==
  /\ LLCInit /\ Mixed!LLCInit /\ changes \in BOOLEAN
  /\ IF changes THEN map = [a \in TwoAddr |-> m1] ELSE m_map = [a \in MixedAddr |-> m3]
MCNext ==
  \/ ~changes /\ LLCNext /\ UNCHANGED <<changes, mixedVars>>
  \/ changes /\ Mixed!LLCNext /\ UNCHANGED <<changes, vars>>
  \/ m_fault /\ UNCHANGED <<changes, vars, mixedVars>>
MCSpec == MCInit /\ [][MCNext]_<<changes, vars, mixedVars>>

\* The lines that no region ever covers are tracked while the second program
\* changes maps and regions (PreciseTracked of its cache).
MixedTracked == Mixed!PreciseTracked

MCSymmetry ==
  {f @@ g @@ h : f \in Permutations(TwoChild), g \in Permutations(TwoMap),
                 h \in Permutations(MixedMap)}
=============================================================================
