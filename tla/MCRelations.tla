----------------------------- MODULE MCRelations -----------------------------
(***************************************************************************)
(* Small instances of Relations for TLC.                                   *)
(***************************************************************************)
EXTENDS Relations, TLC

\* The official account is an agent like no other; the others, and the workers,
\* are interchangeable.
Symmetry == Permutations(Users \ Official) \cup Permutations(Workers)
=============================================================================
