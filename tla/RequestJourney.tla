--------------------------- MODULE RequestJourney ---------------------------
(***************************************************************************)
(* One request through a verifier of each mode, from the verifier's        *)
(* construction to the answer: CookieVerifier over a store, RemoteVerifier *)
(* over get-session, JwtVerifier over the key set, the last two through a  *)
(* transport. The order is that of verify() in cookie_verifier.py,         *)
(* remote_verifier.py and jwt_verifier.py.                                 *)
(*                                                                         *)
(* What other requests share, Mode C's gates and the cached key set, is    *)
(* left to RemoteVerifier and JwksClient. Time passes while the request    *)
(* waits for another process, and only then.                               *)
(***************************************************************************)
EXTENDS Csrf, BearerToken, KeyDocument, StoreRecords, SchemaPlan, TransportRead,
        RemoteConfig

CONSTANTS
  Setups,           \* how the verifier is configured
  RequestsOf(_),    \* the requests it may be given
  Stored,           \* what a store may hold under a token
  Documents,        \* what get-session may answer
  KeySets,          \* what the key set's URL may answer
  MaxNow            \* the last moment of the clock (bound)

\* A time is a number, and what is sent or selected is a sequence.
IsTimed(t) == t.kind \in {"number", "moment"} => t.at \in Int

AreCookies(r) ==
  /\ r.origins \in Seq(ToSet(r.origins))
  /\ \A p \in Numbered(r.cookies) : p.index \in {Whole} \cup Nat

AreTokens(lines) ==
  /\ lines \in Seq(ToSet(lines))
  /\ \A i \in DOMAIN lines :
       LET claim == lines[i].token.claims IN
       /\ IsTimed(claim.exp) /\ IsTimed(claim.iat)
       /\ claim.nbf.kind # "absent" => claim.nbf.at \in Int

\* A row has a session's fields, and nothing of a column that its table lacks.
AreRows(stored) ==
  /\ stored.rows \in Seq(ToSet(stored.rows))
  /\ \A i \in DOMAIN stored.rows :
       /\ {"token", "expiresAt", "banned", "banExpires"} \subseteq DOMAIN stored.rows[i]
       /\ IsTimed(stored.rows[i].expiresAt)
       /\ "banned" \notin stored.tables.users.columns => stored.rows[i].banned = "absent"

\* An operator's own policy allows, refuses or answers.
ASSUME JourneyAssumption ==
  /\ MaxNow \in Nat
  /\ \A s \in Setups :
       /\ s.policy.kind = "own" => s.policy.says \in {"yes", "no", "False"}
       /\ \A r \in RequestsOf(s) :
            IF s.mode = "jwt" THEN AreTokens(r.authorization) ELSE AreCookies(r)
  /\ \A stored \in Stored :
       IF stored.store = "sql" THEN AreRows(stored)
       ELSE IsTimed(stored.value.holds.expiresAt)
  /\ \A response \in Documents : IsTimed(response.holds.expiresAt)

VARIABLES
  setup, now, pc,
  request,   \* as it arrived
  value,     \* the one value of its cookies
  verified,  \* whether a configured key signed it
  found,     \* what the store, get-session or the key set's URL answered
  held,      \* the record behind it, as the store or upstream keeps it (history)
  judgedAt,  \* when that was judged
  asked,     \* what has been consulted: the signature, the store, upstream
  dataSeen,  \* _session_data_once
  answer

inputs  == <<setup, request>>
history == <<asked, judgedAt>>
records == <<found, held>>
vars == <<setup, now, pc, request, value, verified, records, history, dataSeen, answer,
          transport>>

Nothing == [kind |-> "nothing"]

IsCookieSetup(s) ==
  /\ s.mode = "cookie"
  /\ IsKeyring(s.given, s.keyring) /\ IsPolicy(s.policy) /\ IsCookieName(s.posture)
  /\ s.store = "sql" => IsSqlConfig(s.sql)

IsRemoteSetup(s) ==
  /\ s.mode = "remote"
  /\ IsOptionalKeyring(s.given, s.keyring) /\ IsPolicy(s.policy) /\ IsCookieName(s.posture)
  /\ IsRemoteConfig(s.remote)

IsJwtSetup(s) == s.mode = "jwt" /\ IsJwtConfig(s.jwt)

Init ==
  /\ setup \in Setups
  /\ now = 0 /\ pc = "building" /\ request = Nothing
  /\ value = <<>> /\ verified = FALSE /\ found = Nothing /\ held = Nothing
  /\ judgedAt = 0 /\ asked = {} /\ dataSeen = FALSE /\ answer = "none"
  /\ TransportInit

End(class) == pc' = "done" /\ answer' = class

Go(place) == pc' = place /\ UNCHANGED answer

Construct ==
  /\ pc = "building"
  /\ IF IsCookieSetup(setup) \/ IsRemoteSetup(setup) \/ IsJwtSetup(setup)
     THEN Go("listening") ELSE End("unbuilt")
  /\ UNCHANGED <<inputs, now, value, verified, records, history, dataSeen, transport>>

------------------------------------------------------------------------------
\* extract(): absent, or a snapshot that verify() is given.
Own(r) == Matched(r.cookies, setup.posture)

\* Mode A warns once of the cookie cache it never reads.
SeesData(r) ==
  /\ setup.mode = "cookie"
  /\ ~IsOversized(r.cookies)
  /\ \E p \in CookiePairs(r.cookies) : p.cookie = "data"

ExtractCookie ==
  /\ pc = "listening" /\ setup.mode # "jwt"
  /\ \E r \in RequestsOf(setup) :
       /\ request' = r
       /\ dataSeen' = (dataSeen \/ SeesData(r))
       /\ IF Own(r) = {} THEN End("anonymous") ELSE Go("resolving")
  /\ UNCHANGED <<setup, now, value, verified, records, history, transport>>

ExtractBearer ==
  /\ pc = "listening" /\ setup.mode = "jwt"
  /\ \E r \in RequestsOf(setup) :
       /\ request' = r
       /\ IF Presents(r.authorization) = "absent" THEN End("anonymous") ELSE Go("reading")
  /\ UNCHANGED <<setup, now, value, verified, records, history, dataSeen, transport>>

ResolveCookie ==
  /\ pc = "resolving"
  /\ IF HasOneValue(Own(request))
     THEN value' = ValueOf(Own(request)) /\ Go("parsing")
     ELSE End("InvalidCredential") /\ UNCHANGED value
  /\ UNCHANGED <<inputs, now, verified, records, history, dataSeen, transport>>

ParseCookie ==
  /\ pc = "parsing"
  /\ IF \/ setup.mode = "cookie" /\ IsSignedValue(value)
        \/ setup.mode = "remote" /\ IsLooselySigned(value)
     THEN Go("policing") ELSE End("InvalidCredential")
  /\ UNCHANGED <<inputs, now, value, verified, records, history, dataSeen, transport>>

EnforcePolicy ==
  /\ pc = "policing"
  /\ IF Refuses(setup.policy, FactsFor(setup.policy, request), Token(value))
     THEN End("CsrfFailure")
     ELSE IF ReturnsSomething(setup.policy) THEN End("ConfigurationError")
     ELSE Go("checking")
  /\ UNCHANGED <<inputs, now, value, verified, records, history, dataSeen, transport>>

\* Mode C has a keyring only if it was given one.
CheckSignature ==
  /\ pc = "checking"
  /\ asked' = asked \cup {"signature"}
  /\ verified' = (IsSignedValue(value) /\ Verifies(setup.keyring, value))
  /\ IF verified' \/ (setup.mode = "remote" /\ setup.keyring = {})
     THEN Go("asking") ELSE End("InvalidCredential")
  /\ UNCHANGED <<inputs, now, value, records, judgedAt, dataSeen, transport>>

------------------------------------------------------------------------------
\* The store is asked, and answers later, or cannot.
AskStore ==
  /\ pc = "asking" /\ setup.mode = "cookie"
  /\ asked' = asked \cup {"store"}
  /\ Go("waiting")
  /\ UNCHANGED <<inputs, now, value, verified, records, judgedAt, dataSeen, transport>>

Looked(stored, finds, record) ==
  IF finds THEN found' = record /\ held' = stored /\ Go("judging")
           ELSE End("SessionRevoked") /\ UNCHANGED records

RedisAnswers ==
  /\ pc = "waiting" /\ setup.store = "redis"
  /\ \E stored \in Stored :
       /\ stored.store = "redis"
       /\ Looked(stored.value.holds, RedisFinds(stored.value, Token(value)),
                 stored.value.holds)
  /\ UNCHANGED <<inputs, now, value, verified, history, dataSeen, transport>>

\* The plan is made by the first lookup; a schema that allows none is the operator's to
\* hear of, and no answer to the client.
SqlAnswers ==
  /\ pc = "waiting" /\ setup.store = "sql"
  /\ \E stored \in Stored :
       /\ stored.store = "sql"
       /\ IF IsPlanned(stored.tables, setup.sql)
          THEN LET rows == RowsRead(stored.rows, stored.tables, setup.sql) IN
               Looked(stored.rows[1], SqlFinds(rows, Token(value)), rows[1])
          ELSE End("ConfigurationError") /\ UNCHANGED records
  /\ UNCHANGED <<inputs, now, value, verified, history, dataSeen, transport>>

StoreFails ==
  /\ pc = "waiting"
  /\ End("AuthServiceUnavailable")
  /\ UNCHANGED <<inputs, now, value, verified, records, history, dataSeen, transport>>

\* Upstream is asked through the transport, whose steps are its own.
AskUpstream ==
  /\ pc = "asking" /\ setup.mode # "cookie"
  /\ Open /\ Go("fetching")
  /\ asked' = asked \cup {"upstream"}
  /\ UNCHANGED <<inputs, now, value, verified, records, judgedAt, dataSeen>>

Transfer ==
  /\ pc = "fetching" /\ Exchange
  /\ UNCHANGED <<inputs, now, pc, value, verified, records, history, dataSeen, answer>>

FetchFails ==
  /\ pc = "fetching" /\ link = "done" /\ verdict # "body"
  /\ End("AuthServiceUnavailable")
  /\ UNCHANGED <<inputs, now, value, verified, records, history, dataSeen, transport>>

ReadDocument ==
  /\ pc = "fetching" /\ setup.mode = "remote" /\ link = "done" /\ verdict = "body"
  /\ \E response \in Documents :
       IF FromResponse(response, verified) = "none"
       THEN found' = response.holds /\ held' = response.holds /\ Go("judging")
       ELSE End(FromResponse(response, verified)) /\ UNCHANGED records
  /\ UNCHANGED <<inputs, now, value, verified, history, dataSeen, transport>>

\* The session is built, unless its user does not parse.
BuildSession == End("session") \/ End("InvalidCredential")

\* The record is Mode C's to compare, and both modes' to hold against the clock.
JudgeSession ==
  /\ pc = "judging"
  /\ judgedAt' = now
  /\ IF setup.mode = "remote" /\ ~Names(found.token, Token(value))
     THEN End("InvalidCredential")
     ELSE IF HasEnded(found, now) THEN End("SessionExpired")
     ELSE IF IsBarred(found, now) THEN End("SessionRevoked")
     ELSE BuildSession
  /\ UNCHANGED <<inputs, now, value, verified, records, asked, dataSeen, transport>>

------------------------------------------------------------------------------
\* A bearer token: nothing is fetched for one that is refused on its face.
Bearer == request.authorization[1].token

ReadToken ==
  /\ pc = "reading"
  /\ IF Presents(request.authorization) = "token" /\ IsWorthAKey(Bearer, setup.jwt)
     THEN Go("asking") ELSE End("InvalidCredential")
  /\ UNCHANGED <<inputs, now, value, verified, records, history, dataSeen, transport>>

Keys(response) == Collected(response.entries, setup.jwt.algorithms)

ReadKeys ==
  /\ pc = "fetching" /\ setup.mode = "jwt" /\ link = "done" /\ verdict = "body"
  /\ \E response \in KeySets :
       /\ found' = response /\ UNCHANGED held
       /\ IF IsRefused(response, setup.jwt.algorithms) THEN End("AuthServiceUnavailable")
          ELSE IF HasItsKey(Bearer, Keys(response)) THEN Go("decoding")
          ELSE End("InvalidCredential")
  /\ UNCHANGED <<inputs, now, value, verified, history, dataSeen, transport>>

DecodeToken ==
  /\ pc = "decoding"
  /\ judgedAt' = now
  /\ LET refusal == Decoded(Bearer, Keys(found), setup.jwt, now) IN
       IF refusal # "none" THEN End(refusal)
       ELSE IF HasSubject(Bearer.claims) /\ LivesAsMinted(Bearer.claims, setup.jwt)
       THEN BuildSession ELSE End("InvalidCredential")
  /\ UNCHANGED <<inputs, now, value, verified, records, asked, dataSeen, transport>>

Tick ==
  /\ pc \in {"listening", "waiting", "fetching"} /\ now < MaxNow
  /\ now' = now + 1
  /\ UNCHANGED <<inputs, pc, value, verified, records, history, dataSeen, answer, transport>>

Next ==
  \/ Construct \/ ExtractCookie \/ ExtractBearer \/ ResolveCookie \/ ParseCookie
  \/ EnforcePolicy \/ CheckSignature \/ AskStore \/ RedisAnswers \/ SqlAnswers
  \/ StoreFails \/ AskUpstream \/ Transfer \/ FetchFails \/ ReadDocument \/ JudgeSession
  \/ ReadToken \/ ReadKeys \/ DecodeToken \/ Tick

Spec == Init /\ [][Next]_vars

------------------------------------------------------------------------------
\* The cookies of the verifier's own name, as the request carries them.
Carried ==
  {p \in Numbered(request.cookies) :
     p.cookie = setup.posture /\ p.index < MaxChunks /\ ~IsBlank(p.value)}

\* A session is served for the one value the request carries under the verifier's own
\* name: no other posture's cookie, no second cookie, no chunk left out; signed for that
\* token by a configured key; and told of a record that names the token, not ended and
\* not banned as it is judged, whatever columns an allow-list leaves out
\* (cookie_parsing.py, signing.py, session_document.py, sqlalchemy_core.py).
ServedIsTheOneSession ==
  answer = "session" /\ setup.mode # "jwt" =>
    LET token == Token(value) IN
    /\ Carried # {}
    /\ \/ \E p \in Carried : Carried = {p} /\ p.value = value
       \/ \A i \in 0 .. Cardinality(Carried) - 1 : \E p \in Carried : p.index = i
    /\ setup.mode = "cookie" \/ setup.keyring # {} =>
         \E key \in setup.keyring : Last(value) = Mac(key, token)
    /\ held.token = token
    /\ judgedAt < held.expiresAt.at
    /\ held.banned \in {"absent", "false", "0"}
         \/ (held.banExpires.kind = "moment" /\ held.banExpires.at <= judgedAt)

\* What vouches for a request under a policy that asks: a method that changes nothing,
\* or one allowed origin, with the header, and the MAC made for this session alone.
IsVouchedFor ==
  LET policy == setup.policy
      header == request.headers[policy.header] IN
  \/ request.method \in {"GET", "HEAD", "OPTIONS"} /\ ~request.websocket
  \/ policy.kind = "disabled" \/ (policy.kind = "own" /\ policy.says = "yes")
  \/ /\ policy.kind \in {"origin", "double"}
     /\ request.site # "cross-site"
     /\ \E i \in DOMAIN policy.origins : request.origins = <<policy.origins[i].origin>>
     /\ policy.header # "none" => ~IsBlank(header)
     /\ policy.kind = "double" =>
          header = <<Mac(policy.key, <<Text("fba-csrf-v1:")>> \o Token(value))>>

\* Nothing is consulted for a request that its policy does not vouch for, not even its
\* signature, so that the refusal says nothing of the credential (cookie_verifier.py,
\* verify: the pinned order).
PolicyComesFirst ==
  /\ asked # {} /\ setup.mode # "jwt" => IsVouchedFor
  /\ answer = "CsrfFailure" => asked = {}

\* A bearer token that is served had not ended, was issued and may be used by now and
\* ends within the ceiling, the leeway on either side; it was issued before its end,
\* and signed by a key that the document publishes for verifying under the token's kid
\* and algorithm (jwt_verifier.py, _decoded and _check_lifetime; jwks.py, _collect).
TokenInsideItsLife ==
  answer = "session" /\ setup.mode = "jwt" =>
    LET claim == Bearer.claims
        c     == setup.jwt IN
    /\ judgedAt - c.leeway < claim.exp.at
    /\ claim.iat.at <= judgedAt + c.leeway
    /\ claim.nbf.kind # "absent" => claim.nbf.at <= judgedAt + c.leeway
    /\ claim.iat.at < claim.exp.at
    /\ claim.exp.at <= judgedAt + c.leeway + c.lifetime
    /\ Bearer.alg \in c.algorithms
    /\ \E e \in ToSet(found.entries) :
         /\ e.kid = Bearer.kid /\ e.alg = Bearer.alg /\ e.material = Bearer.signedBy
         /\ e.use # "enc" /\ (e.ops = "absent" \/ e.verify)
         /\ e.bits >= MinRsaBits \/ e.alg \notin Rsa
=============================================================================
