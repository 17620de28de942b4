--------------------------- MODULE MCRelationCache ---------------------------
\* Instances of RelationCache for TLC.
EXTENDS RelationCache, TLC

\* Safety runs: agents and workers are interchangeable.
Symmetry == Permutations(Peers) \cup Permutations(Workers)
=============================================================================
