---------------------------- MODULE MCJwksClient ----------------------------
(* The instance of JwksClient that TLC checks: interchangeable tasks. *)
EXTENDS JwksClient, TLC

Symmetry == Permutations(Caller)
=============================================================================
