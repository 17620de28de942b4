---------------------------- MODULE MCConversation ----------------------------
\* Instances of Conversation for TLC.
EXTENDS Conversation, TLC

\* Safety runs: workers are interchangeable (the two agents are not).
Symmetry == Permutations(Workers)
=============================================================================
