------------------------------- MODULE MCIdGen -------------------------------
\* Instances of IdGen for TLC.
EXTENDS IdGen, TLC

\* Safety runs: processes are interchangeable.
Symmetry == Permutations(Procs)
=============================================================================
