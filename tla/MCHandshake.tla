----------------------------- MODULE MCHandshake -----------------------------
\* Instances of Handshake for TLC.
EXTENDS Handshake, TLC

\* Safety runs: the two people are interchangeable.
Symmetry == Permutations(Users)
=============================================================================
