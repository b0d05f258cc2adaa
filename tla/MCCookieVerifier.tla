-------------------------- MODULE MCCookieVerifier --------------------------
(* The instance of CookieVerifier that TLC checks: interchangeable requests  *)
(* and kinds of failure.                                                     *)
EXTENDS CookieVerifier, TLC

Symmetry == Permutations(Caller) \cup Permutations(Kind)
=============================================================================
