-------------------------------- MODULE Csrf --------------------------------
(***************************************************************************)
(* The cross-site request forgery policies (_internal/csrf.py): what is    *)
(* taken of a request before it is verified, what each policy says of it,  *)
(* and which policies can be built.                                        *)
(*                                                                         *)
(* A policy is a record; an operator's own policy allows, refuses or, in   *)
(* breach of its protocol, answers. An origin an operator writes is what   *)
(* it canonicalizes to and its spelling; one a request presents is not     *)
(* canonicalized. A MAC is compared by its key and message, whatever it is *)
(* spelled in.                                                             *)
(***************************************************************************)
EXTENDS Sequences, CookieParsing

SafeMethods == {"GET", "HEAD", "OPTIONS"}

BrowserHeaders == {"cookie", "origin"} \* two of them: any other is treated as they are

Canonical(written) == written.origin

\* The facts of a request, read for the policy that will judge them.
FactsFor(policy, r) ==
  [method |-> r.method, websocket |-> r.websocket, site |-> r.site,
   origin |-> IF r.origins = <<>> THEN "none" ELSE r.origins[1],
   originCount |-> Len(r.origins),
   headerName |-> policy.header,
   headerValue |-> IF policy.header \in DOMAIN r.headers
                   THEN r.headers[policy.header] ELSE <<>>]

RequiresCheck(facts) == facts.websocket \/ facts.method \notin SafeMethods

IsBadOrigin(facts, allowed) ==
  \/ facts.site = "cross-site"
  \/ facts.origin \in {"none", "blank"}
  \/ facts.originCount > 1
  \/ facts.origin \notin {Canonical(allowed[i]) : i \in DOMAIN allowed}

PresentsHeader(facts, name) == facts.headerName = name /\ ~IsBlank(facts.headerValue)

\* Domain-separated from the cookie's own MAC, which the same secret may make.
MutantDigest(key, token) == Mac(key, token)
Digest(key, token) == Mac(key, <<Text("fba-csrf-v1:")>> \o token)

OriginRefuses(policy, facts) ==
  /\ policy.kind = "origin" /\ RequiresCheck(facts)
  /\ \/ IsBadOrigin(facts, policy.origins)
     \/ policy.header # "none" /\ ~PresentsHeader(facts, policy.header)

IsForged(policy, facts, token) == facts.headerValue # <<Digest(policy.key, token)>>

DoubleRefuses(policy, facts, token) ==
  /\ policy.kind = "double" /\ RequiresCheck(facts)
  /\ \/ IsBadOrigin(facts, policy.origins)
     \/ ~PresentsHeader(facts, policy.header)
     \/ IsForged(policy, facts, token)

OwnRefuses(policy) == policy.kind = "own" /\ policy.says = "no"

\* CsrfDisabled refuses nothing.
Refuses(policy, facts, token) ==
  \/ OriginRefuses(policy, facts) \/ DoubleRefuses(policy, facts, token)
  \/ OwnRefuses(policy)

\* check() allows by returning None; any other answer is a policy that meant to deny.
ReturnsSomething(policy) == policy.kind = "own" /\ policy.says = "False"

------------------------------------------------------------------------------
AreOrigins(written) ==
  /\ written # <<>>
  /\ \A i \in DOMAIN written : Canonical(written[i]) # "unusable"
  /\ IsInjective([i \in DOMAIN written |-> Canonical(written[i])])

IsCustomHeader(name) == name \notin BrowserHeaders \cup {"none", "not a token"}

IsDisabled(policy) == policy.kind = "disabled" /\ policy.reasoned

IsOriginCheck(policy) ==
  /\ policy.kind = "origin" /\ AreOrigins(policy.origins)
  /\ policy.header = "none" \/ IsCustomHeader(policy.header)

IsDoubleSubmit(policy) ==
  /\ policy.kind = "double" /\ policy.key # "weak"
  /\ AreOrigins(policy.origins) /\ IsCustomHeader(policy.header)

\* None is no policy, and one of the operator's own declares the header it reads.
IsPolicy(policy) ==
  \/ IsDisabled(policy) \/ IsOriginCheck(policy) \/ IsDoubleSubmit(policy)
  \/ policy.kind = "own" /\ (policy.header = "none" \/ IsCustomHeader(policy.header))
=============================================================================
