------------------------------- MODULE MCInbox -------------------------------
\* Instances of Inbox for TLC.
EXTENDS Inbox, TLC

\* Safety runs: connections are interchangeable.
Symmetry == Permutations(Conns)
=============================================================================
