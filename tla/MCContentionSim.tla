-------------------------- MODULE MCContentionSim ---------------------------
EXTENDS ContentionSim, TLC
CONSTANTS c1, c2
Cores == {c1, c2}
MCConfigs == {[numSimThreads |-> 1, numMSHRs |-> 2], [numSimThreads |-> 2, numMSHRs |-> 1]}
MCDomain == (c1 :> 0) @@ (c2 :> 1)
Hit(k, b) == [type |-> "hit", think |-> k, bank |-> b, mem |-> 0, lat |-> 0]
Miss(k, b, m, l) == [type |-> "miss", think |-> k, bank |-> b, mem |-> m, lat |-> l]
MCAccesses == (c1 :> {Miss(1, 1, 0, 2), Hit(0, 1)}) @@ (c2 :> {Hit(0, 0), Miss(5, 1, 1, 0)})
MCMaxAccesses == (c1 :> 1) @@ (c2 :> 1)
MCMaxLeaves == (c1 :> 1) @@ (c2 :> 0)
=============================================================================
