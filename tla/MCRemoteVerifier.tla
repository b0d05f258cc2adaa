-------------------------- MODULE MCRemoteVerifier --------------------------
(* The instance of RemoteVerifier that TLC checks: interchangeable requests, *)
(* and a Retry-After that is absent, below the floor or above the ceiling.   *)
EXTENDS RemoteVerifier, TLC

MCRetryAfter == {<<>>, <<-3>>, <<5>>}

Symmetry == Permutations(Caller)
=============================================================================
