----------------------------- MODULE BearerToken -----------------------------
(***************************************************************************)
(* What JwtVerifier (_internal/jwt_verifier.py) makes of a bearer token:   *)
(* what is refused before a key is looked for, what the decode refuses,    *)
(* and what is checked of the claims after it. Times are whole seconds.    *)
(*                                                                         *)
(* A claim is absent, a number, or something int() reads as one and        *)
(* _as_number() does not: true, or a string of digits. What int() cannot   *)
(* read is refused as an absent one is.                                    *)
(***************************************************************************)
EXTENDS Integers, Sequences

SupportedAlgorithms == {"EdDSA", "ES256", "ES512", "PS256", "RS256"}

MaxLeeway   == 1   \* MAX_LEEWAY, on the instances' scale (bound)
MaxLifetime == 4   \* MAX_LIFETIME, likewise (bound)

\* What JwtVerifier can be built with.
IsJwtConfig(c) ==
  /\ c.algorithms # {} /\ c.algorithms \subseteq SupportedAlgorithms
  /\ c.leeway \in 0 .. MaxLeeway
  /\ c.lifetime \in 1 .. MaxLifetime

\* extract(): one Authorization header of the bearer scheme, with a token.
Presents(lines) ==
  IF Len(lines) > 1 THEN "ambiguous"
  ELSE IF \/ Len(lines) = 0 \/ lines[1].scheme # "bearer"
          \/ lines[1].token.form = "blank"
       THEN "absent" ELSE "token"

\* Everything that is decided with no fetch: the size and the shape, a header that
\* cannot be read or that declares extensions, the kid, the algorithm.
IsWorthAKey(token, c) ==
  /\ token.form = "threeSegments"
  /\ token.header = "readable"
  /\ token.kid # "blank"
  /\ token.alg \in c.algorithms

\* The key published under the kid is for the algorithm the header chose.
HasItsKey(token, keys) ==
  token.kid \in DOMAIN keys /\ keys[token.kid].alg = token.alg

Required == {"exp", "iat", "iss", "aud", "sub"}

IsIncomplete(claim) == \E name \in Required : claim[name].kind = "absent"

IsEarly(claim, c, now) ==
  \/ claim.iat.at > now + c.leeway
  \/ claim.nbf.kind # "absent" /\ claim.nbf.at > now + c.leeway

IsOver(claim, c, now) == claim.exp.at <= now - c.leeway

IsForeign(claim) == claim.iss.at # "origin" \/ claim.aud.at # "origin"

\* jwt.decode(), in the order PyJWT looks.
Decoded(token, keys, c, now) ==
  LET claim == token.claims IN
  IF token.signedBy # keys[token.kid].material \/ IsIncomplete(claim)
       \/ IsEarly(claim, c, now)   THEN "InvalidCredential"
  ELSE IF IsOver(claim, c, now)     THEN "SessionExpired"
  ELSE IF IsForeign(claim)          THEN "InvalidCredential"
  ELSE "none"

HasSubject(claim) == claim.sub.at # "blank"

\* exp - iat is positive and no longer than upstream would mint.
MutantLivesAsMinted(claim, c) == claim.exp.at - claim.iat.at > 0
LivesAsMinted(claim, c) ==
  /\ claim.iat.kind = "number" /\ claim.exp.kind = "number"
  /\ claim.exp.at - claim.iat.at \in 1 .. c.lifetime
=============================================================================
