----------------------------- MODULE MCLibrary -----------------------------
(* Small instances of Library for TLC.                                     *)
EXTENDS Library, TLC

\* TypeOK and the action properties treat contents, old and new jobs, workers
\* and requests alike.
Symmetry ==
  Permutations(Contents) \cup Permutations(Old) \cup Permutations(Jobs \ Old)
    \cup Permutations(Workers) \cup Permutations(Requests)
=============================================================================
