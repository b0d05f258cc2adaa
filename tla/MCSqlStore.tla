----------------------------- MODULE MCSqlStore ------------------------------
(* The instance of SqlStore that TLC checks: interchangeable requests,       *)
(* threads and kinds of failure.                                             *)
EXTENDS SqlStore, TLC

Symmetry == Permutations(Caller) \cup Permutations(Thread) \cup Permutations(Kind)
=============================================================================
