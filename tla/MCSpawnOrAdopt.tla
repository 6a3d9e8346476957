--------------------------- MODULE MCSpawnOrAdopt ---------------------------
EXTENDS SpawnOrAdopt, TLC

\* Windows of one build, or of builds a protocol major apart.
MCBuilds == {b \in [Hosts -> {1, 2}] : \E h \in Hosts : b[h] = 1}

MCOneBuild == {[h \in Hosts |-> 1]}

\* Hosts and autonomy levels are interchangeable.
MCSymmetry == Permutations(Hosts) \cup Permutations(Modes)
=============================================================================
