----------------------------- MODULE MCDispatch -----------------------------
(* The instance of Dispatch that TLC checks: two factories of one model race *)
(* for its resolver, with a third that asks for what the second did.         *)
EXTENDS Dispatch, TLC

CONSTANTS b1, b2, b3, r1, r2, m1

MCKind == (b1 :> "optional") @@ (b2 :> "required") @@ (b3 :> "required")
MCModelOf == (b1 :> m1) @@ (b2 :> m1) @@ (b3 :> m1)
MCRoute == (r1 :> <<b1, b2, b3>>) @@ (r2 :> <<b1>>)

Label(kind, prefixes, base, published) ==
  [kind |-> kind, prefixes |-> prefixes, base |-> base, published |-> published]

Bearer     == Label("bearer", <<>>, "authorization", "none")
Cookie     == Label("cookie", <<>>, "sid", "BetterAuthCookie-sid")
Secure     == Label("cookie", <<"__secure-">>, "sid", "BetterAuthCookie-__Secure-sid")
Spaced     == Label("cookie", <<>>, "a b", "BetterAuthCookie-a-b")
Dashed     == Label("cookie", <<>>, "a-b", "BetterAuthCookie-a-b")
Assertion  == Label("other", <<>>, "x-assertion", "none")
Blank      == Label("blank", <<>>, "none", "none")

V(id, source) ==
  [id |-> id, source |-> source, implements |-> TRUE, asyncExtract |-> FALSE,
   prepares |-> source.kind = "cookie"]

Jwt == V("jwt", Bearer)

MCOffers ==
  {<<>>, <<Jwt>>, <<Jwt, Jwt>>, <<Jwt, V("remote", Cookie)>>,
   <<V("cookie", Cookie), V("remote", Secure)>>,
   <<V("cookie", Spaced), V("remote", Dashed)>>,
   <<V("cookie", Cookie), V("other", Assertion)>>,
   <<V("cookie", Blank)>>, <<[Jwt EXCEPT !.asyncExtract = TRUE]>>,
   <<[Jwt EXCEPT !.implements = FALSE]>>}

MCCarried ==
  LET keys == {Credential(l) : l \in {Bearer, Cookie, Assertion}}
  IN {{}} \cup {{k} : k \in keys} \cup {{Credential(Bearer), Credential(Cookie)}}

\* Answers, accidents, both in a group of one, in two of them, and in a group of two;
\* refusals explained as they may be, as they may not, and edited on the way out.
Raise(leaf, groups) == [leaf |-> leaf, groups |-> groups, built |-> Nil, refusal |-> Nil]

Explains(built, refusal) ==
  [leaf |-> "AuthorizationRefused", groups |-> <<>>, built |-> built, refusal |-> refusal]

Refusal403(headers) == [code |-> 403, plain |-> TRUE, headers |-> headers]

MCRaises ==
  {Raise("CsrfFailure", <<>>), Raise("CsrfFailure", <<1, 1>>), Raise("CsrfFailure", <<1, 2>>),
   Raise("ValueError", <<>>), Raise("ConfigurationError", <<1>>), Raise("SessionExpired", <<1>>)}
  \cup {Explains(Refusal403(h), Plain(Refusal403(h))) : h \in HeaderKinds}
  \cup {Explains(Refusal403("none"), Refusal403(h)) : h \in HeaderKinds}
  \cup {Explains([Refusal403("none") EXCEPT !.code = c, !.plain = p],
                 [Refusal403("none") EXCEPT !.code = c]) : c \in {401, 404}, p \in BOOLEAN}
=============================================================================
