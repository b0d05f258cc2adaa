-------------------------- MODULE MCRequestJourney --------------------------
(* The instance of RequestJourney that TLC checks. Each set of requests      *)
(* varies one thing richly and the others between a good case and a bad one. *)
EXTENDS RequestJourney, TLC

A == <<Text("a")>>   \* the tokens of two sessions, and one that is not a session's
B == <<Text("b")>>

Signed(key, token) == token \o <<Dot, Mac(key, token)>>

GoodJwt == [algorithms |-> {"EdDSA", "RS256"}, leeway |-> 1, lifetime |-> 2]

Written(origin, spelling) == [origin |-> origin, spelling |-> spelling]
App    == Written("app", "lower")

Policy(kind, origins, header, key) ==
  [kind |-> kind, origins |-> origins, header |-> header, key |-> key,
   says |-> "yes", reasoned |-> TRUE]

ByOrigin   == Policy("origin", <<App, Written("admin", "lower")>>, "none", "none")
ByHeader   == Policy("origin", <<App>>, "x-app", "none")
Double     == Policy("double", <<App>>, "x-csrf-token", "k1")
Disabled   == Policy("disabled", <<>>, "none", "none")
OfTheirOwn(says) == [Policy("own", <<>>, "none", "none") EXCEPT !.says = says]

Usable == {ByOrigin, ByHeader, Double, Disabled} \cup {OfTheirOwn(s) : s \in {"yes", "no", "False"}}

Unusable ==
  {Policy("none", <<>>, "none", "none"), Policy("origin", <<>>, "none", "none"),
   Policy("origin", <<App, Written("app", "upper")>>, "none", "none"),
   Policy("origin", <<Written("unusable", "path")>>, "none", "none"),
   Policy("origin", <<App>>, "cookie", "none"), Policy("double", <<App>>, "none", "k1"),
   Policy("double", <<App>>, "x-csrf-token", "weak"),
   [Disabled EXCEPT !.reasoned = FALSE]}

GoodRemote == [basePath |-> "absolute", cap |-> Cap, concurrency |-> 8,
               queueTimeout |-> 20, negativeTtl |-> 300, maxRemembered |-> 1024]

FlawedRemote ==
  {[GoodRemote EXCEPT !.basePath = "relative"], [GoodRemote EXCEPT !.cap = 0],
   [GoodRemote EXCEPT !.concurrency = 257], [GoodRemote EXCEPT !.queueTimeout = 0],
   [GoodRemote EXCEPT !.negativeTtl = 3001], [GoodRemote EXCEPT !.maxRemembered = 0]}

\* Allow-lists; tenant is a column of the deployment's own.
Every       == [kind |-> "every", names |-> <<>>]
Only(names) == [kind |-> "sequence", names |-> names]

GoodSql == [sessionTable |-> "session", userTable |-> "user", sessions |-> Every,
            users |-> Every]

SqlConfigs ==
  {GoodSql, [GoodSql EXCEPT !.userTable = "session"], [GoodSql EXCEPT !.userTable = "blank"],
   [GoodSql EXCEPT !.sessions = Only(<<>>)]}
  \cup {[GoodSql EXCEPT !.users = Only(names)] :
          names \in {<<>>, <<"tenant">>, <<"tenant", "tenant">>, <<"blank">>}}
  \cup {[GoodSql EXCEPT !.users.kind = k] : k \in {"text", "bytes", "set"}}

Setup(mode, posture, given, keyring, policy) ==
  [mode |-> mode, posture |-> posture, given |-> given, keyring |-> keyring,
   policy |-> policy, remote |-> GoodRemote, jwt |-> GoodJwt, store |-> "redis",
   sql |-> GoodSql]

GoodCookie   == Setup("cookie", "secure", "secrets", {"k1", "k2"}, ByOrigin)
Unchecked    == Setup("remote", "plain", "neither", {}, ByOrigin)
GoodBearer   == Setup("jwt", "none", "neither", {}, Disabled)

MCSetups ==
  {[GoodCookie EXCEPT !.policy = p] : p \in Usable \cup Unusable}
  \cup {[GoodCookie EXCEPT !.store = "sql", !.sql = c] : c \in SqlConfigs}
  \cup {[GoodCookie EXCEPT !.given = g] : g \in {"both", "neither"}}
  \cup {[GoodCookie EXCEPT !.keyring = k] : k \in {{}, {"weak"}}}
  \cup {[GoodCookie EXCEPT !.posture = n] : n \in {"blank", "illegal"}}
  \cup {Unchecked, [Unchecked EXCEPT !.policy = Double],
        [Unchecked EXCEPT !.policy = OfTheirOwn("False")],
        [Unchecked EXCEPT !.given = "secrets"], [Unchecked EXCEPT !.posture = "blank"],
        Setup("remote", "secure", "secret", {"k1"}, ByOrigin)}
  \cup {[Unchecked EXCEPT !.remote = c] : c \in FlawedRemote}
  \cup {[GoodBearer EXCEPT !.jwt = c] :
          c \in {GoodJwt, [GoodJwt EXCEPT !.leeway = 0],
                 [GoodJwt EXCEPT !.leeway = 2], [GoodJwt EXCEPT !.lifetime = 0],
                 [GoodJwt EXCEPT !.algorithms = {}],
                 [GoodJwt EXCEPT !.algorithms = {"HS256"}]}}

------------------------------------------------------------------------------
\* Cookies: what a server sets, whole and in chunks, and what stands beside it.
Pair(cookie, index, v) == [cookie |-> cookie, index |-> index, value |-> v]

Values == {Signed("k1", A), Signed("k2", B), Signed("k0", A), A, <<Blank>>,
           <<Dot>> \o <<Mac("k1", <<>>)>>, A \o <<Dot>>, A \o <<NotUtf8, Dot, Mac("k1", A)>>,
           A \o <<Escaped, Mac("k1", A)>>, A \o <<Twice, Mac("k1", A)>>}

Singles == {<<Pair(c, Whole, v)>> : c \in {"secure", "plain"}, v \in Values}

Beside ==
  {Pair("secure", Whole, <<Blank>>), Pair("plain", Whole, Signed("k2", B)),
   Pair("secure", Whole, Signed("k2", B)), Pair("data", Whole, A), Pair("other", Whole, A),
   Pair("fragment", Whole, <<>>), Pair("secure", 0, A), Pair("secure", 2, A)}

Chunk(i, v) == Pair("secure", i, v)

Chunked ==
  {<<Chunk(0, A), Chunk(1, <<Dot, Mac("k1", A)>>)>>,
   <<Chunk(1, <<Dot, Mac("k1", A)>>), Chunk(0, A)>>,
   <<Chunk(0, A), Chunk(2, <<Dot, Mac("k1", A)>>)>>,
   <<Chunk(1, A), Chunk(2, <<Dot, Mac("k1", A)>>)>>,
   <<Chunk(0, A), Chunk(0, A), Chunk(1, <<Dot, Mac("k1", A)>>)>>,
   <<Chunk(0, A), Chunk(1, <<Dot>>), Chunk(2, <<Mac("k1", A)>>)>>,
   <<Chunk(0, A), Chunk(1, <<Dot, Mac("k1", A), Dot, Mac("k1", A), Dot>>)>>}

Jars == {<<c>> : c \in Singles \cup Chunked}
        \cup {<<s, <<b>>>> : s \in Singles, b \in Beside}
        \cup {<<<<b>>, c>> : c \in Chunked, b \in Beside}
        \cup {<<>>, <<<<Pair("data", Whole, A)>>>>}

\* Connections: the method, where the browser says the request comes from, and headers.
Connection(method, websocket, site, origins, token) ==
  [method |-> method, websocket |-> websocket, site |-> site, origins |-> origins,
   headers |-> [h \in {"x-app", "x-csrf-token"} |-> token]]

CsrfOf(token) == <<Mac("k1", <<Text("fba-csrf-v1:")>> \o token)>>

OwnPage   == Connection("POST", FALSE, "same-origin", <<"app">>, CsrfOf(A))
Elsewhere  == Connection("POST", FALSE, "cross-site", <<"other">>, <<>>)

Connections ==
  {OwnPage} \cup
  {Connection(m, w, s, o, t) :
     m \in {"GET", "POST"}, w \in BOOLEAN, s \in {"none", "cross-site"},
     o \in {<<>>, <<"blank">>, <<"app">>, <<"other">>, <<"app", "other">>},
     t \in {<<>>, <<Blank>>, CsrfOf(A), CsrfOf(B), <<Mac("k1", A)>>}}

Cookies(jar, connection) ==
  [cookies |-> jar, method |-> connection.method, websocket |-> connection.websocket,
   site |-> connection.site, origins |-> connection.origins, headers |-> connection.headers]

Plainly == {<<<<Pair(c, Whole, v)>>>> :
              c \in {"secure", "plain"}, v \in {Signed("k1", A), Signed("k0", A), A}}

CookieRequests ==
  {Cookies(j, c) : j \in Jars, c \in {OwnPage, Elsewhere}}
  \cup {Cookies(j, c) : j \in Plainly, c \in Connections}

------------------------------------------------------------------------------
\* Tokens: one the server issued, at every time, and one flaw at a time.
Claim(kind, at) == [kind |-> kind, at |-> at]

Claims(iat, nbf, exp) ==
  [iat |-> iat, nbf |-> nbf, exp |-> exp, iss |-> Claim("text", "origin"),
   aud |-> Claim("text", "origin"), sub |-> Claim("text", "somebody")]

Minted(claims) ==
  [form |-> "threeSegments", header |-> "readable", kid |-> "kid1", alg |-> "EdDSA",
   signedBy |-> "m1", claims |-> claims]

Times == {Minted(Claims(Claim("number", i), n, Claim("number", e))) :
            i \in 0 .. 3, e \in 0 .. 5,
            n \in {Claim("absent", 0), Claim("number", 1), Claim("number", 3)}}

Good == Minted(Claims(Claim("number", 0), Claim("absent", 0), Claim("number", 2)))

Flawed ==
  {[Good EXCEPT !.form = f] : f \in {"blank", "tooLong", "twoSegments"}}
  \cup {[Good EXCEPT !.header = h] : h \in {"unreadable", "critical"}}
  \cup {[Good EXCEPT !.kid = k] : k \in {"blank", "kid2", "kid3"}}
  \cup {[Good EXCEPT !.alg = a] : a \in {"RS256", "ES256", "HS256"}}
  \cup {[Good EXCEPT !.signedBy = b] : b \in {"m2", "m3"}}
  \cup {[Good EXCEPT !.claims[c].kind = k] :
          c \in {"iat", "exp"}, k \in {"absent", "other"}}
  \cup {[Good EXCEPT !.claims[c].kind = "absent"] : c \in {"iss", "aud", "sub"}}
  \cup {[Good EXCEPT !.claims[c].at = "elsewhere"] : c \in {"iss", "aud"}}
  \cup {[Good EXCEPT !.claims.sub.at = "blank"]}
  \cup {[Good EXCEPT !.kid = "kid2", !.alg = "RS256", !.signedBy = "m2"]}

Line(scheme, token) == [scheme |-> scheme, token |-> token]

BearerRequests ==
  {[authorization |-> lines] :
     lines \in {<<Line("bearer", t)>> : t \in Times \cup Flawed}
               \cup {<<>>, <<Line("basic", Good)>>, <<Line("bearer", Good), Line("bearer", Good)>>}}

MCRequestsOf(s) == IF s.mode = "jwt" THEN BearerRequests ELSE CookieRequests

------------------------------------------------------------------------------
\* Records, as documents and as rows.
Moment(at) == [kind |-> "moment", at |-> at]
None       == [kind |-> "absent", at |-> 0]
Unread     == [kind |-> "unreadable", at |-> 0]

Record(token, expiresAt, banned, banExpires) ==
  [halves |-> "both", id |-> "u", userId |-> "u", token |-> token,
   expiresAt |-> expiresAt, banned |-> banned, banExpires |-> banExpires]

Records ==
  {Record(t, Moment(e), b, x) :
     t \in {A, B}, e \in 1 .. 2, b \in {"absent", "true", "false", "1", "0", "2"},
     x \in {None, Unread, Moment(1)}}
  \cup {Record(A, None, "absent", None), Record(A, Unread, "absent", None),
        Record(<<>>, Moment(2), "absent", None),
        [Record(A, Moment(2), "absent", None) EXCEPT !.id = "blank"],
        [Record(A, Moment(2), "absent", None) EXCEPT !.userId = "blank"],
        [Record(A, Moment(2), "absent", None) EXCEPT !.halves = "session"]}

Value(kind, holds) == [kind |-> kind, holds |-> holds]
AnyRecord == Record(A, Moment(2), "absent", None)

Having(columns) == [exists |-> TRUE, columns |-> columns]

\* The tables a migration made, and others: no admin plugin, no table, no token.
Full ==
  [sessions |-> Having(SessionTable.required \cup SessionTable.own),
   users |-> Having(UserTable.required \cup UserTable.own \cup {"tenant"})]

OtherTables ==
  {[Full EXCEPT !.users.columns = @ \ {"role", "banned", "banReason", "banExpires"}],
   [Full EXCEPT !.users.columns = @ \ {"tenant"}], [Full EXCEPT !.users.columns = {"id"}],
   [Full EXCEPT !.users.exists = FALSE], [Full EXCEPT !.users.columns = @ \ {"id"}],
   [Full EXCEPT !.sessions.exists = FALSE], [Full EXCEPT !.sessions.columns = @ \ {"token"}]}

MCStored ==
  {[store |-> "redis", value |-> Value("object", r)] : r \in Records}
  \cup {[store |-> "redis", value |-> Value(k, AnyRecord)] :
          k \in {"absent", "tooLarge", "notJson", "notObject", "otherType"}}
  \cup {[store |-> "sql", tables |-> Full, rows |-> <<r>>] : r \in Records}
  \cup {[store |-> "sql", tables |-> Full, rows |-> rows] :
          rows \in {<<>>, <<AnyRecord, AnyRecord>>}}
  \cup {[store |-> "sql", tables |-> t, rows |-> <<AnyRecord>>] : t \in OtherTables}

Response(status, media, body, holds) ==
  [status |-> status, media |-> media, body |-> body, holds |-> holds]

MCDocuments ==
  {Response(200, "json", "object", r) : r \in Records}
  \cup {Response(200, "json", b, AnyRecord) : b \in {"null", "list", "notJson"}}
  \cup {Response(s, "json", "null", AnyRecord) : s \in {302, 404, 429, 500}}
  \cup {Response(200, "html", "null", AnyRecord)}

------------------------------------------------------------------------------
\* Key sets: entries of one kid and of others, in either order.
Entry(kid, alg, material) ==
  [kind |-> "object", kid |-> kid, alg |-> alg, material |-> material, use |-> "absent",
   ops |-> "absent", verify |-> TRUE, loads |-> TRUE, bits |-> 2048]

Main == Entry("kid1", "EdDSA", "m1")
Rsa2 == Entry("kid2", "RS256", "m2")

Others ==
  {Rsa2, [Rsa2 EXCEPT !.bits = 1024], [Rsa2 EXCEPT !.use = "enc"],
   [Rsa2 EXCEPT !.ops = "list", !.verify = FALSE], [Rsa2 EXCEPT !.ops = "list"],
   [Rsa2 EXCEPT !.ops = "text"], [Main EXCEPT !.material = "m3"],
   [Main EXCEPT !.use = "enc", !.material = "m3"], [Main EXCEPT !.loads = FALSE],
   [Rsa2 EXCEPT !.kind = "text"], [Rsa2 EXCEPT !.kid = "blank"],
   [Rsa2 EXCEPT !.alg = "absent"], [Rsa2 EXCEPT !.alg = "ES256"],
   [Rsa2 EXCEPT !.alg = "unknown"]}

KeysResponse(status, media, body, entries) ==
  [status |-> status, media |-> media, body |-> body, entries |-> entries]

MCKeySets ==
  {KeysResponse(200, "json", "keys", es) :
     es \in {<<Main, o>> : o \in Others} \cup {<<o, Main>> : o \in Others}
            \cup {<<>>, <<Main>>, <<Main, Rsa2, Rsa2>>}}
  \cup {KeysResponse(500, "json", "keys", <<Main>>), KeysResponse(200, "html", "keys", <<Main>>),
        KeysResponse(200, "json", "other", <<Main>>)}
=============================================================================
