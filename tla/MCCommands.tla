------------------------------ MODULE MCCommands ------------------------------
\* Instances of Commands for TLC.
EXTENDS Commands, TLC

\* Safety runs: calls, keys and runtimes are interchangeable.
Symmetry == Permutations(Calls) \cup Permutations(Keys) \cup Permutations(Runtimes)
=============================================================================
