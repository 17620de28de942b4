------------------------------ MODULE MCWelcome ------------------------------
\* Instances of Welcome for TLC.
EXTENDS Welcome, TLC

\* Safety runs: workers are interchangeable.
Symmetry == Permutations(Workers)
=============================================================================
