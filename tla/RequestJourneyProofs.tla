------------------------ MODULE RequestJourneyProofs -----------------------
(***************************************************************************)
(* What holds of a request for every configuration, every request, every   *)
(* answer, and every cap, chunk and length of body. The exchange comes     *)
(* first, by itself; a request then takes its steps and no others.         *)
(***************************************************************************)
EXTENDS RequestJourney, WellFoundedInduction, TLAPS

(* The variables are what they should be. *)
TransportTypeOK ==
  /\ link \in Links /\ verdict \in Verdicts
  /\ sent \in Nat /\ kept \in Nat /\ aborting \in BOOLEAN

(* The buffer is all that arrived until that outgrows the cap; from then on it *)
(* is the cap and one byte, and the read is cancelled.                         *)
BufferIsHonest ==
  IF aborting THEN kept = Cap + 1 /\ sent > Cap ELSE kept = sent /\ sent <= Cap

(* There is no verdict while bytes arrive, and then it is what the buffer says. *)
VerdictFollows ==
  /\ link \in {"idle", "opening", "reading"} => verdict = "none"
  /\ verdict = "body" => ~aborting
  /\ verdict = "tooLarge" => aborting

TransportInv == TransportTypeOK /\ BufferIsHonest /\ VerdictFollows
-----------------------------------------------------------------------------
(* A chunk keeps the buffer honest: what is cut off is only what is past the cap *)
(* and one byte (httpx_transports.py, _capped).                                  *)
LEMMA SlicedKeepsTheBuffer ==
  ASSUME TransportInv, NEW length \in 1 .. MaxChunk
  PROVE  /\ kept + Sliced(length) \in Nat
         /\ IF aborting \/ kept + Sliced(length) > Cap
            THEN kept + Sliced(length) = Cap + 1 /\ sent + length > Cap
            ELSE kept + Sliced(length) = sent + length /\ sent + length <= Cap
<1>1. /\ Cap \in Nat /\ length \in Nat /\ length >= 1
      /\ kept \in Nat /\ sent \in Nat /\ aborting \in BOOLEAN
  BY TransportAssumption DEF TransportInv, TransportTypeOK
<1>2. CASE aborting
  <2>1. kept = Cap + 1 /\ sent > Cap
    BY <1>2 DEF TransportInv, BufferIsHonest
  <2>2. Sliced(length) = 0
    BY <1>1, <2>1 DEF Sliced
  <2> QED
    BY <1>1, <1>2, <2>1, <2>2
<1>3. CASE ~aborting
  <2>1. kept = sent /\ sent <= Cap
    BY <1>3 DEF TransportInv, BufferIsHonest
  <2>2. CASE length > Cap - kept + 1
    <3>1. Sliced(length) = Cap - kept + 1
      BY <2>2 DEF Sliced
    <3> QED
      BY <1>1, <1>3, <2>1, <2>2, <3>1
  <2>3. CASE ~(length > Cap - kept + 1)
    <3>1. Sliced(length) = length
      BY <2>3 DEF Sliced
    <3> QED
      BY <1>1, <1>3, <2>1, <2>3, <3>1
  <2> QED
    BY <2>2, <2>3
<1> QED
  BY <1>2, <1>3

(* The inductive invariant holds at first. *)
LEMMA ExchangeBegins == TransportInit => TransportInv
<1> SUFFICES ASSUME TransportInit
             PROVE  TransportInv
  OBVIOUS
<1>1. TransportTypeOK
  BY DEF TransportInit, TransportTypeOK, Links, Verdicts
<1>2. BufferIsHonest
  <2>1. aborting = FALSE /\ sent = 0 /\ kept = 0
    BY DEF TransportInit
  <2> QED
    BY <2>1, TransportAssumption DEF BufferIsHonest
<1>3. VerdictFollows
  BY DEF TransportInit, VerdictFollows
<1> QED
  BY <1>1, <1>2, <1>3 DEF TransportInv

(* Every step of the exchange keeps it. *)
LEMMA ExchangeKeeps == TransportInv /\ [Open \/ Exchange]_transport => TransportInv'
<1> SUFFICES ASSUME TransportInv, [Open \/ Exchange]_transport
             PROVE  TransportInv'
  OBVIOUS
<1> USE DEF TransportInv, TransportTypeOK, BufferIsHonest, VerdictFollows, Links, Verdicts
<1>1. CASE Open
  BY <1>1 DEF Open
<1>2. CASE RejectContentEncoding
  BY <1>2 DEF RejectContentEncoding
<1>3. CASE AcceptHeaders
  BY <1>3 DEF AcceptHeaders
<1>4. CASE Receive
  <2>1. PICK length \in 1 .. MaxChunk :
          sent' = sent + length /\ kept' = kept + Sliced(length)
    BY <1>4 DEF Receive
  <2>2. /\ link = "reading" /\ link' = link /\ verdict' = verdict
        /\ aborting' = (aborting \/ kept' > Cap)
    BY <1>4 DEF Receive
  <2>3. /\ kept' \in Nat
        /\ IF aborting' THEN kept' = Cap + 1 /\ sent' > Cap ELSE kept' = sent' /\ sent' <= Cap
    BY <2>1, <2>2, SlicedKeepsTheBuffer
  <2>4. sent' \in Nat
    BY <2>1, TransportAssumption
  <2>5. aborting' \in BOOLEAN
    BY <2>2
  <2>6. VerdictFollows'
    BY <2>2
  <2> QED
    BY <2>2, <2>3, <2>4, <2>5, <2>6
<1>5. CASE EndOfBody
  BY <1>5 DEF EndOfBody
<1>6. CASE Close
  BY <1>6 DEF Close
<1>7. CASE Fail
  BY <1>7 DEF Fail, Failures
<1>8. CASE UNCHANGED transport
  BY <1>8 DEF transport
<1> QED
  BY <1>1, <1>2, <1>3, <1>4, <1>5, <1>6, <1>7, <1>8 DEF Exchange

(* What is kept is enough for the property. *)
LEMMA InvariantSuffices == TransportInv => BodyIsWhole
BY TransportAssumption
   DEF TransportInv, TransportTypeOK, BufferIsHonest, VerdictFollows, BodyIsWhole

(* A body is delivered whole and within the cap or not at all, it is refused as too *)
(* large only if it is, and the buffer outgrows the cap by one byte at most, for    *)
(* every cap, every chunk and every body (httpx_transports.py, _capped).            *)
THEOREM BodiesAreWhole == TransportSpec => []BodyIsWhole
<1>1. TransportSpec => []TransportInv
  BY ExchangeBegins, ExchangeKeeps, PTL DEF TransportSpec
<1> QED
  BY <1>1, InvariantSuffices, PTL
-----------------------------------------------------------------------------
(* A request touches the exchange only as the exchange itself steps. *)
LEMMA StepsAreExchanges == [Next]_vars => [Open \/ Exchange]_transport
<1> SUFFICES ASSUME [Next]_vars
             PROVE  [Open \/ Exchange]_transport
  OBVIOUS
<1>1. CASE Construct
  BY <1>1 DEF Construct
<1>2. CASE ExtractCookie
  BY <1>2 DEF ExtractCookie
<1>3. CASE ExtractBearer
  BY <1>3 DEF ExtractBearer
<1>4. CASE ResolveCookie
  BY <1>4 DEF ResolveCookie
<1>5. CASE ParseCookie
  BY <1>5 DEF ParseCookie
<1>6. CASE EnforcePolicy
  BY <1>6 DEF EnforcePolicy
<1>7. CASE CheckSignature
  BY <1>7 DEF CheckSignature
<1>8. CASE AskStore
  BY <1>8 DEF AskStore
<1>9. CASE RedisAnswers
  BY <1>9 DEF RedisAnswers
<1>21. CASE SqlAnswers
  BY <1>21 DEF SqlAnswers
<1>10. CASE StoreFails
  BY <1>10 DEF StoreFails
<1>11. CASE AskUpstream
  BY <1>11 DEF AskUpstream
<1>12. CASE Transfer
  BY <1>12 DEF Transfer
<1>13. CASE FetchFails
  BY <1>13 DEF FetchFails
<1>14. CASE ReadDocument
  BY <1>14 DEF ReadDocument
<1>15. CASE JudgeSession
  BY <1>15 DEF JudgeSession
<1>16. CASE ReadToken
  BY <1>16 DEF ReadToken
<1>17. CASE ReadKeys
  BY <1>17 DEF ReadKeys
<1>18. CASE DecodeToken
  BY <1>18 DEF DecodeToken
<1>19. CASE Tick
  BY <1>19 DEF Tick
<1>20. CASE UNCHANGED vars
  BY <1>20 DEF vars
<1> QED
  BY <1>1, <1>2, <1>3, <1>4, <1>5, <1>6, <1>7, <1>8, <1>9, <1>10, <1>11, <1>12,
     <1>13, <1>14, <1>15, <1>16, <1>17, <1>18, <1>19, <1>20, <1>21 DEF Next

(* What upstream or the key set's URL answers reaches a verifier whole or not at *)
(* all, whatever the request (httpx_transports.py, _capped).                     *)
THEOREM AnswersArriveWhole == Spec => []BodyIsWhole
<1>1. Init => TransportInit
  BY DEF Init
<1>2. Spec => TransportSpec
  BY <1>1, StepsAreExchanges, PTL DEF Spec, TransportSpec
<1> QED
  BY <1>2, BodiesAreWhole, PTL
-----------------------------------------------------------------------------
(* Whose a request is wherever it has got to, and that nothing is consulted early. *)
IsBuilt(s) == IsCookieSetup(s) \/ IsRemoteSetup(s) \/ IsJwtSetup(s)

ByCookie  == {"resolving", "parsing", "policing", "checking", "waiting", "judging"}
ByBearer  == {"reading", "decoding"}
Early     == {"building", "listening", "resolving", "parsing", "policing", "reading"}
Consulted == {"asking", "waiting", "fetching", "judging"}

OnItsWay ==
  /\ setup \in Setups /\ now \in Nat
  /\ pc \notin {"building", "done"} => IsBuilt(setup)
  /\ pc \in ByCookie => setup.mode # "jwt"
  /\ pc \in ByBearer => setup.mode = "jwt"
  /\ pc \notin {"building", "listening", "done"} => request \in RequestsOf(setup)
  /\ pc \in Early => asked = {}
  /\ pc # "done" => answer = "none"

(* What the policy has let through it vouches for. *)
PolicyInv ==
  /\ pc \in Consulted \cup {"checking"} /\ setup.mode # "jwt" => IsVouchedFor
  /\ PolicyComesFirst

(* A token that a key is fetched for has the shape of one, and is decoded with a key
   that the document read publishes for it. *)
IsFetchedFor == Presents(request.authorization) = "token" /\ IsWorthAKey(Bearer, setup.jwt)

TokenInv ==
  /\ pc \in {"asking", "fetching", "decoding"} /\ setup.mode = "jwt" => IsFetchedFor
  /\ pc = "decoding" => HasItsKey(Bearer, Keys(found))
  /\ TokenInsideItsLife

(* The value is the one the cookies carry; it is signed by the time anything is asked;
   and the record to judge is what was found of the one held. *)
IsTheOneValue ==
  /\ Carried # {}
  /\ \/ \E p \in Carried : Carried = {p} /\ p.value = value
     \/ \A i \in 0 .. Cardinality(Carried) - 1 : \E p \in Carried : p.index = i

IsSigned ==
  setup.mode = "cookie" \/ setup.keyring # {} =>
    \E key \in setup.keyring : Last(value) = Mac(key, Token(value))

IsOf(record, stored) ==
  /\ IsMoment(record.expiresAt) /\ record.expiresAt.at \in Int
  /\ record.token = stored.token /\ record.expiresAt = stored.expiresAt
  /\ record.banned = stored.banned /\ record.banned \in {"absent"} \cup DbFlags
  /\ IsMoment(record.banExpires) => record.banExpires = stored.banExpires

SessionInv ==
  /\ pc \in Consulted \cup {"parsing", "policing", "checking"} /\ setup.mode # "jwt"
       => IsTheOneValue
  /\ pc \in Consulted /\ setup.mode # "jwt" => IsSigned
  /\ pc = "judging" =>
       IsOf(found, held) /\ (setup.mode = "cookie" => Names(found.token, Token(value)))
  /\ ServedIsTheOneSession

JourneyInv == OnItsWay /\ PolicyInv /\ TokenInv /\ SessionInv
-----------------------------------------------------------------------------
(* A request that its policy neither refuses nor answers is one that it vouches for *)
(* (csrf.py, the three policies and enforce_policy).                                *)
LEMMA PolicyVouches ==
  ASSUME setup \in Setups, setup.mode # "jwt", request \in RequestsOf(setup),
         IsPolicy(setup.policy), ~ReturnsSomething(setup.policy),
         ~Refuses(setup.policy, FactsFor(setup.policy, request), Token(value))
  PROVE  IsVouchedFor
<1> DEFINE policy == setup.policy
           facts  == FactsFor(policy, request)
<1>1. /\ facts.method = request.method /\ facts.websocket = request.websocket
      /\ facts.site = request.site /\ facts.originCount = Len(request.origins)
      /\ facts.origin = IF request.origins = <<>> THEN "none" ELSE request.origins[1]
      /\ facts.headerName = policy.header
      /\ facts.headerValue = IF policy.header \in DOMAIN request.headers
                             THEN request.headers[policy.header] ELSE <<>>
  BY DEF FactsFor
<1>2. AreCookies(request) /\ (policy.kind = "own" => policy.says \in {"yes", "no", "False"})
  BY JourneyAssumption
<1>3. ~RequiresCheck(facts)
        => request.method \in {"GET", "HEAD", "OPTIONS"} /\ ~request.websocket
  BY <1>1 DEF RequiresCheck, SafeMethods
<1>4. ASSUME ~IsBadOrigin(facts, policy.origins)
      PROVE  /\ request.site # "cross-site"
             /\ \E i \in DOMAIN policy.origins : request.origins = <<policy.origins[i].origin>>
  <2>1. request.site # "cross-site" /\ request.origins # <<>>
    BY <1>1, <1>4 DEF IsBadOrigin
  <2>2. request.origins[1] \in {Canonical(policy.origins[i]) : i \in DOMAIN policy.origins}
    BY <1>1, <1>4, <2>1 DEF IsBadOrigin
  <2>3. request.origins \in Seq(ToSet(request.origins)) /\ ~(Len(request.origins) > 1)
    BY <1>1, <1>2, <1>4 DEF IsBadOrigin, AreCookies
  <2>4. request.origins = <<request.origins[1]>>
    BY <2>1, <2>3
  <2> QED
    BY <2>1, <2>2, <2>4 DEF Canonical
<1>5. ASSUME PresentsHeader(facts, policy.header)
      PROVE  /\ facts.headerValue = request.headers[policy.header]
             /\ ~IsBlank(request.headers[policy.header])
  <2>1. ~IsBlank(facts.headerValue)
    BY <1>5 DEF PresentsHeader
  <2>2. IsBlank(<<>>)
    BY DEF IsBlank
  <2> QED
    BY <1>1, <2>1, <2>2
<1>6. CASE ~RequiresCheck(facts)
  BY <1>3, <1>6 DEF IsVouchedFor
<1>7. CASE RequiresCheck(facts)
  <2>1. CASE IsDisabled(policy)
    BY <2>1 DEF IsDisabled, IsVouchedFor
  <2>2. CASE IsOriginCheck(policy)
    <3>1. policy.kind = "origin"
      BY <2>2 DEF IsOriginCheck
    <3>2. /\ ~IsBadOrigin(facts, policy.origins)
          /\ policy.header # "none" => PresentsHeader(facts, policy.header)
      BY <1>7, <3>1 DEF Refuses, OriginRefuses
    <3> QED
      BY <1>4, <1>5, <3>1, <3>2 DEF IsVouchedFor
  <2>3. CASE IsDoubleSubmit(policy)
    <3>1. policy.kind = "double"
      BY <2>3 DEF IsDoubleSubmit
    <3>2. /\ ~IsBadOrigin(facts, policy.origins) /\ PresentsHeader(facts, policy.header)
          /\ facts.headerValue = <<Digest(policy.key, Token(value))>>
      BY <1>7, <3>1 DEF Refuses, DoubleRefuses, IsForged
    <3> QED
      BY <1>4, <1>5, <3>1, <3>2 DEF IsVouchedFor, Digest
  <2>4. CASE policy.kind = "own"
    <3>1. policy.says = "yes"
      BY <1>2, <2>4 DEF Refuses, OwnRefuses, ReturnsSomething
    <3> QED
      BY <2>4, <3>1 DEF IsVouchedFor
  <2> QED
    BY <2>1, <2>2, <2>3, <2>4 DEF IsPolicy
<1> QED
  BY <1>6, <1>7
-----------------------------------------------------------------------------
(* Cookies that resolve to one value carry that value whole, or every chunk of it *)
(* (cookie_parsing.py, _value_for_base and _reassembled).                         *)
LEMMA OneValueIsCarried ==
  ASSUME AreCookies(request), HasOneValue(Own(request))
  PROVE  /\ Carried # {}
         /\ \/ \E p \in Carried : Carried = {p} /\ p.value = ValueOf(Own(request))
            \/ \A i \in 0 .. Cardinality(Carried) - 1 : \E p \in Carried : p.index = i
<1> DEFINE own == Own(request)
<1>1. own # {}
  BY DEF HasOneValue, IsWhole
<1>2. own = {p \in CookiePairs(request.cookies) :
               <<p.cookie, p.index>> \in AcceptableNames(setup.posture) /\ ~IsBlank(p.value)}
  BY <1>1 DEF Own, Matched
<1>3. own = Carried
  <2>1. setup.posture # "fragment"
    <3>1. PICK p \in own : TRUE
      BY <1>1
    <3>2. p.cookie # "fragment" /\ p.cookie = setup.posture
      BY <1>2, <3>1 DEF CookiePairs, AcceptableNames
    <3> QED
      BY <3>2
  <2>2. ASSUME NEW p \in Numbered(request.cookies), p.cookie = setup.posture
        PROVE  <<p.cookie, p.index>> \in AcceptableNames(setup.posture)
                 <=> p.index < MaxChunks
    <3>1. p.index = -1 \/ p.index \in Nat
      BY DEF AreCookies, Whole
    <3>2. MaxChunks \in Nat
      BY CookieParsingAssumption
    <3> QED
      BY <2>2, <3>1, <3>2 DEF AcceptableNames, Whole
  <2>3. ASSUME NEW p \in own PROVE p \in Carried
    <3>1. /\ p \in Numbered(request.cookies) /\ ~IsBlank(p.value)
          /\ <<p.cookie, p.index>> \in AcceptableNames(setup.posture)
      BY <1>2, <2>3 DEF CookiePairs
    <3>2. p.cookie = setup.posture
      BY <3>1 DEF AcceptableNames
    <3> QED
      BY <2>2, <3>1, <3>2 DEF Carried
  <2>4. ASSUME NEW p \in Carried PROVE p \in own
    <3>1. /\ p \in Numbered(request.cookies) /\ p.cookie = setup.posture
          /\ ~IsBlank(p.value) /\ p.index < MaxChunks
      BY <2>4 DEF Carried
    <3> QED
      BY <1>2, <2>1, <2>2, <3>1 DEF CookiePairs
  <2> QED
    BY <2>3, <2>4
<1>4. CASE IsWhole(own)
  <2>1. PICK p \in own : own = {p}
    BY <1>4 DEF IsWhole
  <2>2. ValueOf(own) = p.value
    <3>1. (CHOOSE q \in own : TRUE) = p
      BY <2>1
    <3> QED
      BY <1>4, <3>1 DEF ValueOf
  <2> QED
    BY <1>1, <1>3, <2>1, <2>2
<1>5. CASE ~IsWhole(own)
  <2>1. {p.index : p \in own} = 0 .. Cardinality(own) - 1
    BY <1>5 DEF HasOneValue, IsContiguous
  <2> QED
    BY <1>1, <1>3, <2>1
<1> QED
  BY <1>4, <1>5
-----------------------------------------------------------------------------
(* A set of places that is not empty has a last one. *)
LEMMA LastPlaceExists ==
  ASSUME NEW n \in Nat, NEW I, I \subseteq 1 .. n, I # {}
  PROVE  Max(I) \in I /\ \A i \in I : i <= Max(I)
<1> DEFINE after == {d \in Nat : n - d \in I}
<1>1. after \subseteq Nat /\ after # {}
  <2>1. PICK i \in I : TRUE
    OBVIOUS
  <2>2. n - i \in Nat /\ n - (n - i) = i
    BY <2>1
  <2> QED
    BY <2>1, <2>2
<1>2. PICK d \in after : \A e \in after : ~(<<e, d>> \in OpToRel(<, Nat))
  BY <1>1, WFMin, NatLessThanWellFounded
<1>3. ASSUME NEW e \in after PROVE d <= e
  <2>1. d \in Nat /\ e \in Nat
    BY <1>3
  <2>2. ~(e < d)
    BY <1>2, <1>3, <2>1 DEF OpToRel
  <2> QED
    BY <2>1, <2>2
<1>4. ASSUME NEW i \in I PROVE n - d >= i
  <2>1. n - i \in Nat /\ n - (n - i) = i /\ i \in Nat
    BY <1>4
  <2>2. n - i \in after
    BY <2>1
  <2>3. d <= n - i
    BY <1>3, <2>2
  <2> QED
    BY <2>1, <2>3
<1>5. Max(I) \in I /\ \A i \in I : Max(I) >= i
  BY <1>2, <1>4 DEF Max
<1> QED
  BY <1>5

(* The dot a value is split at is its last, if it has one. *)
LEMMA LastDotIsAPlace ==
  ASSUME NEW S, NEW v \in Seq(S)
  PROVE  LastDot(v) \in 0 .. Len(v)
<1> DEFINE I == {i \in 1 .. Len(v) : v[i] = Dot}
<1>1. LastDot(v) = IF I # {} THEN Max(I) ELSE 0
  BY DEF LastDot, SelectLastInSeq
<1>2. I \subseteq 1 .. Len(v) /\ Len(v) \in Nat
  OBVIOUS
<1>3. I # {} => Max(I) \in I
  BY <1>2, LastPlaceExists
<1> QED
  BY <1>1, <1>2, <1>3

(* A value that a key verifies ends with that key's MAC of its token *)
(* (signing.py, verify_signature; cookie_parsing.py, parse_signed_value). *)
LEMMA SignatureIsLast ==
  ASSUME IsSignedValue(value), Verifies(setup.keyring, value)
  PROVE  \E key \in setup.keyring : Last(value) = Mac(key, Token(value))
<1> DEFINE plain == Unquoted(value)
           dot   == LastDot(plain)
<1>1. PICK n \in Nat : value \in [1 .. n -> ToSet(value)]
  BY CookieParsingAssumption DEF IsSignedValue, IsSplit, BoundedSeq, SeqOf
<1>2. value \in Seq(ToSet(value)) /\ Len(value) = n
  BY <1>1
<1>3. DOMAIN plain = 1 .. n
  BY <1>1 DEF Unquoted
<1>4. plain \in Seq({plain[i] : i \in 1 .. n}) /\ Len(plain) = n
  <2>1. plain \in [1 .. n -> {plain[i] : i \in 1 .. n}]
    BY <1>1 DEF Unquoted
  <2> QED
    BY <1>1, <2>1
<1>5. dot \in 0 .. n
  BY <1>4, LastDotIsAPlace
<1>6. Len(Signature(value)) = 1
  BY DEF IsSignedValue
<1>7. Signature(value) = SubSeq(plain, dot + 1, n)
  BY <1>2 DEF Signature
<1>8. /\ Len(Signature(value)) = n - dot
      /\ \A i \in 1 .. n - dot : Signature(value)[i] = plain[dot + i]
  BY <1>1, <1>4, <1>5, <1>7
<1>9. n - dot = 1 /\ Signature(value)[1] = plain[n]
  BY <1>5, <1>6, <1>8
<1>10. PICK key \in setup.keyring : Signature(value) = <<Mac(key, Token(value))>>
  BY DEF Verifies
<1>11. plain[n] = Mac(key, Token(value))
  BY <1>9, <1>10
<1>12. plain[n] # Dot /\ plain[n] # Escaped
  <2>1. plain[n].mac = <<key, Token(value)>>
    BY <1>11 DEF Mac
  <2>2. Dot.mac = <<>> /\ Escaped.mac = <<>>
    BY DEF Dot, Escaped, Text
  <2>3. <<key, Token(value)>> # <<>>
    OBVIOUS
  <2> QED
    BY <2>1, <2>2, <2>3
<1>13. n \in 1 .. n
  BY <1>1, <1>5, <1>9
<1>14. plain[n] = IF value[n] = Escaped THEN Dot
                  ELSE IF value[n] = Twice THEN Escaped ELSE value[n]
  BY <1>1, <1>13 DEF Unquoted
<1>15. value[n] = Mac(key, Token(value))
  BY <1>11, <1>12, <1>14
<1> QED
  BY <1>2, <1>15 DEF Last
-----------------------------------------------------------------------------
(* A key found under a token's kid is of an entry that the document publishes for *)
(* verifying with the token's algorithm (jwks.py, _collect).                      *)
LEMMA KeysArePublished ==
  ASSUME NEW entries, NEW algorithms, NEW kid \in DOMAIN Collected(entries, algorithms)
  PROVE  \E i \in DOMAIN entries :
           /\ entries[i].kid = kid /\ IsSound(entries[i], algorithms)
           /\ Collected(entries, algorithms)[kid]
                = [alg |-> entries[i].alg, material |-> entries[i].material]
<1> DEFINE sound == Kept(entries, algorithms)
<1>1. kid \in {entries[i].kid : i \in sound}
  BY DEF Collected
<1>2. PICK i \in sound : i = CHOOSE j \in sound : entries[j].kid = kid
  BY <1>1
<1>3. entries[i].kid = kid
  BY <1>1, <1>2
<1>4. Collected(entries, algorithms)[kid]
        = [alg |-> entries[i].alg, material |-> entries[i].material]
  BY <1>1, <1>2 DEF Collected
<1>5. i \in DOMAIN entries /\ IsSound(entries[i], algorithms)
  BY DEF Kept
<1> QED
  BY <1>3, <1>4, <1>5

(* A token that decodes, and lives as upstream mints them, is inside its life *)
(* (jwt_verifier.py, _decoded and _check_lifetime).                           *)
LEMMA DecodedIsInsideItsLife ==
  ASSUME NEW c, IsJwtConfig(c), NEW token, NEW keys, NEW moment \in Nat,
         IsTimed(token.claims.exp), IsTimed(token.claims.iat),
         token.claims.nbf.kind # "absent" => token.claims.nbf.at \in Int,
         Decoded(token, keys, c, moment) = "none", LivesAsMinted(token.claims, c)
  PROVE  /\ moment - c.leeway < token.claims.exp.at
         /\ token.claims.iat.at <= moment + c.leeway
         /\ token.claims.nbf.kind # "absent" => token.claims.nbf.at <= moment + c.leeway
         /\ token.claims.iat.at < token.claims.exp.at
         /\ token.claims.exp.at <= moment + c.leeway + c.lifetime
         /\ token.signedBy = keys[token.kid].material
<1>1. /\ token.signedBy = keys[token.kid].material
      /\ ~IsEarly(token.claims, c, moment) /\ ~IsOver(token.claims, c, moment)
  BY DEF Decoded
<1>2. token.claims.exp.at \in Int /\ token.claims.iat.at \in Int
  BY DEF LivesAsMinted, IsTimed
<1>3. c.leeway \in Nat /\ c.lifetime \in Nat
  BY DEF IsJwtConfig, MaxLeeway, MaxLifetime
<1>4. /\ token.claims.exp.at - token.claims.iat.at <= c.lifetime
      /\ token.claims.exp.at - token.claims.iat.at >= 1
  BY <1>2, <1>3 DEF LivesAsMinted
<1>5. ~(token.claims.iat.at > moment + c.leeway)
  BY <1>1 DEF IsEarly
<1>6. ~(token.claims.exp.at <= moment - c.leeway)
  BY <1>1 DEF IsOver
<1>7. token.claims.nbf.kind # "absent"
        => token.claims.nbf.at \in Int /\ ~(token.claims.nbf.at > moment + c.leeway)
  BY <1>1 DEF IsEarly
<1>8. token.claims.nbf.kind # "absent" => token.claims.nbf.at <= moment + c.leeway
  BY <1>3, <1>7
<1> QED
  BY <1>1, <1>2, <1>3, <1>4, <1>5, <1>6, <1>8
-----------------------------------------------------------------------------
(* What a document holds is what is judged of it. *)
LEMMA DocumentsAreWhole ==
  ASSUME NEW d, IsDocument(d), IsTimed(d.expiresAt)
  PROVE  IsOf(d, d)
<1>1. IsMoment(d.expiresAt) /\ d.expiresAt.at \in Int
  BY DEF IsDocument, CarriesSession, IsMoment, IsTimed
<1>2. d.banned \in {"absent"} \cup DbFlags
  BY DEF IsDocument, IsDocumentUser, ReadsAs, DbFlags
<1> QED
  BY <1>1, <1>2 DEF IsOf

(* A row that is found is of the one row selected, and no allow-list takes the ban *)
(* from it (sqlalchemy_core.py, _accepted, session_from and user_from).            *)
LEMMA RowsAreWhole ==
  ASSUME NEW stored, AreRows(stored), NEW config, NEW token,
         SqlFinds(RowsRead(stored.rows, stored.tables, config), token)
  PROVE  LET record == RowsRead(stored.rows, stored.tables, config)[1] IN
         IsOf(record, stored.rows[1]) /\ Names(record.token, token)
<1> DEFINE rows    == RowsRead(stored.rows, stored.tables, config)
           record  == rows[1]
           row     == stored.rows[1]
           columns == Accepted(stored.tables.users, UserTable, config.users)
<1>1. stored.rows \in Seq(ToSet(stored.rows))
  BY DEF AreRows
<1>2. rows = [i \in 1 .. Len(stored.rows) |-> Selected(stored.rows[i], columns)]
  BY <1>1 DEF RowsRead
<1>3. Len(rows) = Len(stored.rows)
  <2>1. rows \in [1 .. Len(stored.rows) -> {rows[i] : i \in 1 .. Len(stored.rows)}]
    BY <1>2
  <2> QED
    BY <1>1, <2>1
<1>4. Len(rows) = 1 /\ CarriesSession(record) /\ IsRowUser(record)
        /\ Names(record.token, token)
  BY DEF SqlFinds
<1>5. 1 \in DOMAIN stored.rows /\ record = Selected(row, columns)
  <2>1. Len(stored.rows) = 1
    BY <1>3, <1>4
  <2>2. 1 \in 1 .. Len(stored.rows)
    BY <2>1
  <2> HIDE DEF rows
  <2>3. DOMAIN stored.rows = 1 .. Len(stored.rows)
    BY <1>1
  <2> QED
    BY <1>2, <2>2, <2>3
<1>6. /\ {"token", "expiresAt", "banned", "banExpires"} \subseteq DOMAIN row
      /\ IsTimed(row.expiresAt)
      /\ "banned" \notin stored.tables.users.columns => row.banned = "absent"
  BY <1>5 DEF AreRows
<1>7. /\ record.token = row.token /\ record.expiresAt = row.expiresAt
      /\ record.banned = IF "banned" \in columns THEN row.banned ELSE "absent"
      /\ "banExpires" \in columns => record.banExpires = row.banExpires
      /\ "banExpires" \notin columns => record.banExpires = [kind |-> "absent", at |-> 0]
  BY <1>5, <1>6 DEF Selected
<1>8. "banned" \in stored.tables.users.columns => "banned" \in columns
  BY DEF Accepted, UserTable
<1>9. record.banned = row.banned
  BY <1>6, <1>7, <1>8
<1>10. IsMoment(record.banExpires) => record.banExpires = row.banExpires
  BY <1>7 DEF IsMoment
<1>11. record.banned \in {"absent"} \cup DbFlags
  BY <1>4 DEF IsRowUser, ReadsAs
<1>12. IsMoment(record.expiresAt) /\ record.expiresAt.at \in Int
  BY <1>4, <1>6, <1>7 DEF CarriesSession, IsMoment, IsTimed
<1> QED
  BY <1>4, <1>7, <1>9, <1>10, <1>11, <1>12 DEF IsOf
-----------------------------------------------------------------------------
(* The invariant holds at first. *)
LEMMA JourneyBegins == Init => JourneyInv
<1> SUFFICES ASSUME Init
             PROVE  JourneyInv
  OBVIOUS
<1>1. pc = "building" /\ answer = "none" /\ asked = {} /\ setup \in Setups /\ now = 0
  BY DEF Init
<1>2. OnItsWay
  BY <1>1 DEF OnItsWay, ByCookie, ByBearer, Early
<1>3. PolicyInv
  BY <1>1 DEF PolicyInv, PolicyComesFirst, Consulted
<1>4. TokenInv
  BY <1>1 DEF TokenInv, TokenInsideItsLife
<1>5. SessionInv
  BY <1>1 DEF SessionInv, ServedIsTheOneSession, Consulted
<1> QED
  BY <1>2, <1>3, <1>4, <1>5 DEF JourneyInv

(* A request is built for, asked about and answered in the order of verify(). *)
LEMMA OnItsWayKeeps == OnItsWay /\ [Next]_vars => OnItsWay'
<1> SUFFICES ASSUME OnItsWay, [Next]_vars
             PROVE  OnItsWay'
  OBVIOUS
<1> USE DEF OnItsWay, ByCookie, ByBearer, Early, End, Go, inputs, history
<1>1. CASE Construct
  BY <1>1 DEF Construct, IsBuilt
<1>2. CASE ExtractCookie
  BY <1>2 DEF ExtractCookie
<1>3. CASE ExtractBearer
  BY <1>3 DEF ExtractBearer
<1>4. CASE ResolveCookie
  BY <1>4 DEF ResolveCookie
<1>5. CASE ParseCookie
  BY <1>5 DEF ParseCookie
<1>6. CASE EnforcePolicy
  BY <1>6 DEF EnforcePolicy
<1>7. CASE CheckSignature
  BY <1>7 DEF CheckSignature
<1>8. CASE AskStore
  BY <1>8 DEF AskStore
<1>9. CASE RedisAnswers
  BY <1>9 DEF RedisAnswers, Looked
<1>10. CASE SqlAnswers
  BY <1>10 DEF SqlAnswers, Looked
<1>11. CASE StoreFails
  BY <1>11 DEF StoreFails
<1>12. CASE AskUpstream
  BY <1>12 DEF AskUpstream
<1>13. CASE Transfer
  BY <1>13 DEF Transfer
<1>14. CASE FetchFails
  BY <1>14 DEF FetchFails
<1>15. CASE ReadDocument
  BY <1>15 DEF ReadDocument
<1>16. CASE JudgeSession
  BY <1>16 DEF JudgeSession, BuildSession
<1>17. CASE ReadToken
  BY <1>17 DEF ReadToken
<1>18. CASE ReadKeys
  BY <1>18 DEF ReadKeys
<1>19. CASE DecodeToken
  BY <1>19 DEF DecodeToken, BuildSession
<1>20. CASE Tick
  BY <1>20 DEF Tick
<1>21. CASE UNCHANGED vars
  BY <1>21 DEF vars
<1> QED
  BY <1>1, <1>2, <1>3, <1>4, <1>5, <1>6, <1>7, <1>8, <1>9, <1>10, <1>11, <1>12, <1>13,
     <1>14, <1>15, <1>16, <1>17, <1>18, <1>19, <1>20, <1>21 DEF Next

(* What a policy vouches for, what the cookies carry, and what signed it stay while  *)
(* the request does.                                                                 *)
LEMMA RequestsStand ==
  ASSUME UNCHANGED <<inputs, value>>
  PROVE  /\ IsVouchedFor => IsVouchedFor'
         /\ IsTheOneValue => IsTheOneValue'
         /\ IsSigned => IsSigned'
         /\ IsFetchedFor => IsFetchedFor'
<1>1. setup' = setup /\ request' = request /\ value' = value
  BY DEF inputs
<1>2. IsVouchedFor => IsVouchedFor'
  BY <1>1 DEF IsVouchedFor
<1>3. IsTheOneValue => IsTheOneValue'
  BY <1>1 DEF IsTheOneValue, Carried
<1>4. IsSigned => IsSigned'
  BY <1>1 DEF IsSigned
<1>5. IsFetchedFor => IsFetchedFor'
  BY <1>1 DEF IsFetchedFor, Bearer
<1> QED
  BY <1>2, <1>3, <1>4, <1>5

(* What a response or a token is refused with is never the policy's refusal, and no *)
(* session.                                                                         *)
LEMMA RefusalsOfAnswers ==
  /\ \A response, signed : FromResponse(response, signed) \notin {"CsrfFailure", "session"}
  /\ \A token, keys, c, moment :
       Decoded(token, keys, c, moment) \notin {"CsrfFailure", "session"}
BY DEF FromResponse, NullOutcome, Decoded

(* Nothing is consulted before the policy, and it vouches for all that follows. *)
LEMMA PolicyKeeps == OnItsWay /\ PolicyInv /\ [Next]_vars => PolicyInv'
<1> SUFFICES ASSUME OnItsWay, PolicyInv, [Next]_vars
             PROVE  PolicyInv'
  OBVIOUS
<1>1. UNCHANGED <<inputs, value>> /\ IsVouchedFor => IsVouchedFor'
  BY RequestsStand
<1> USE DEF OnItsWay, PolicyInv, PolicyComesFirst, ByCookie, ByBearer, Early, Consulted,
            End, Go, history
<1>2. CASE Construct
  BY <1>1, <1>2 DEF Construct
<1>3. CASE ExtractCookie
  BY <1>3 DEF ExtractCookie
<1>4. CASE ExtractBearer
  BY <1>4 DEF ExtractBearer
<1>5. CASE ResolveCookie
  BY <1>5 DEF ResolveCookie
<1>6. CASE ParseCookie
  BY <1>6 DEF ParseCookie
<1>7. CASE EnforcePolicy
  <2>1. /\ pc = "policing" /\ asked = {} /\ asked' = {} /\ answer = "none"
        /\ UNCHANGED <<inputs, value>> /\ setup' = setup
    BY <1>7 DEF EnforcePolicy, inputs
  <2>2. CASE \/ Refuses(setup.policy, FactsFor(setup.policy, request), Token(value))
             \/ ReturnsSomething(setup.policy)
    <3>1. pc' = "done"
      BY <1>7, <2>2 DEF EnforcePolicy
    <3> QED
      BY <2>1, <3>1
  <2>3. CASE /\ ~Refuses(setup.policy, FactsFor(setup.policy, request), Token(value))
             /\ ~ReturnsSomething(setup.policy)
    <3>1. pc' = "checking" /\ answer' = "none"
      BY <1>7, <2>1, <2>3 DEF EnforcePolicy
    <3>2. setup.mode # "jwt" /\ request \in RequestsOf(setup) /\ IsBuilt(setup)
      BY <2>1
    <3>3. IsPolicy(setup.policy)
      BY <3>2 DEF IsBuilt, IsCookieSetup, IsRemoteSetup, IsJwtSetup
    <3>4. IsVouchedFor
      BY <2>3, <3>2, <3>3, PolicyVouches
    <3>5. IsVouchedFor'
      BY <1>1, <2>1, <3>4
    <3> QED
      BY <2>1, <3>1, <3>5
  <2> QED
    BY <2>2, <2>3
<1>8. CASE CheckSignature
  BY <1>1, <1>8 DEF CheckSignature, inputs
<1>9. CASE AskStore
  BY <1>1, <1>9 DEF AskStore, inputs
<1>10. CASE RedisAnswers
  BY <1>1, <1>10 DEF RedisAnswers, Looked, inputs
<1>11. CASE SqlAnswers
  BY <1>1, <1>11 DEF SqlAnswers, Looked, inputs
<1>12. CASE StoreFails
  BY <1>1, <1>12 DEF StoreFails, inputs
<1>13. CASE AskUpstream
  BY <1>1, <1>13 DEF AskUpstream, inputs
<1>14. CASE Transfer
  BY <1>1, <1>14 DEF Transfer, inputs
<1>15. CASE FetchFails
  BY <1>1, <1>15 DEF FetchFails, inputs
<1>16. CASE ReadDocument
  BY <1>1, <1>16, RefusalsOfAnswers DEF ReadDocument, inputs
<1>17. CASE JudgeSession
  BY <1>1, <1>17 DEF JudgeSession, BuildSession, inputs
<1>18. CASE ReadToken
  BY <1>1, <1>18 DEF ReadToken, inputs
<1>19. CASE ReadKeys
  BY <1>1, <1>19 DEF ReadKeys, inputs
<1>20. CASE DecodeToken
  BY <1>1, <1>20, RefusalsOfAnswers DEF DecodeToken, BuildSession, inputs
<1>21. CASE Tick
  BY <1>1, <1>21 DEF Tick, inputs
<1>22. CASE UNCHANGED vars
  BY <1>1, <1>22 DEF vars, inputs
<1> QED
  BY <1>2, <1>3, <1>4, <1>5, <1>6, <1>7, <1>8, <1>9, <1>10, <1>11, <1>12, <1>13,
     <1>14, <1>15, <1>16, <1>17, <1>18, <1>19, <1>20, <1>21, <1>22 DEF Next

(* A token's key is fetched, and what it decodes to is served, inside its life only. *)
LEMMA TokenKeeps == OnItsWay /\ TokenInv /\ [Next]_vars => TokenInv'
<1> SUFFICES ASSUME OnItsWay, TokenInv, [Next]_vars
             PROVE  TokenInv'
  OBVIOUS
<1>1. UNCHANGED <<inputs, value>> /\ IsFetchedFor => IsFetchedFor'
  BY RequestsStand
<1> USE DEF OnItsWay, TokenInv, ByCookie, ByBearer, End, Go
<1>2. ASSUME UNCHANGED <<inputs, value>>, answer' # "session" \/ setup.mode # "jwt",
             pc' # "decoding",
             setup.mode = "jwt" /\ pc' \in {"asking", "fetching"} => IsFetchedFor
      PROVE  TokenInv'
  BY <1>1, <1>2 DEF TokenInsideItsLife, inputs
<1>3. CASE Construct
  BY <1>2, <1>3 DEF Construct, inputs
<1>4. CASE ExtractCookie
  BY <1>4 DEF ExtractCookie, TokenInsideItsLife
<1>5. CASE ExtractBearer
  BY <1>5 DEF ExtractBearer, TokenInsideItsLife
<1>6. CASE ResolveCookie
  BY <1>6 DEF ResolveCookie, TokenInsideItsLife, inputs
<1>7. CASE ParseCookie
  BY <1>2, <1>7 DEF ParseCookie
<1>8. CASE EnforcePolicy
  BY <1>2, <1>8 DEF EnforcePolicy
<1>9. CASE CheckSignature
  BY <1>2, <1>9 DEF CheckSignature
<1>10. CASE AskStore
  BY <1>2, <1>10 DEF AskStore
<1>11. CASE RedisAnswers
  BY <1>2, <1>11 DEF RedisAnswers, Looked
<1>12. CASE SqlAnswers
  BY <1>2, <1>12 DEF SqlAnswers, Looked
<1>13. CASE StoreFails
  BY <1>2, <1>13 DEF StoreFails
<1>14. CASE AskUpstream
  BY <1>2, <1>14 DEF AskUpstream
<1>15. CASE Transfer
  BY <1>2, <1>15 DEF Transfer
<1>16. CASE FetchFails
  BY <1>2, <1>16 DEF FetchFails
<1>17. CASE ReadDocument
  BY <1>2, <1>17, RefusalsOfAnswers DEF ReadDocument
<1>18. CASE JudgeSession
  BY <1>2, <1>18 DEF JudgeSession, BuildSession
<1>19. CASE ReadToken
  <2>1. UNCHANGED <<inputs, value>> /\ answer' # "session" /\ pc' \in {"asking", "done"}
    BY <1>19 DEF ReadToken
  <2>2. pc' = "asking" => IsFetchedFor
    BY <1>19 DEF ReadToken, IsFetchedFor
  <2> QED
    BY <1>2, <2>1, <2>2
<1>20. CASE ReadKeys
  <2>1. /\ UNCHANGED <<inputs, value>> /\ answer' # "session" /\ pc' \in {"decoding", "done"}
        /\ IsFetchedFor
    BY <1>20 DEF ReadKeys
  <2>2. pc' = "decoding" => HasItsKey(Bearer, Keys(found))'
    BY <1>20 DEF ReadKeys, Bearer, Keys, inputs
  <2> QED
    BY <1>1, <2>1, <2>2 DEF TokenInsideItsLife
<1>21. CASE DecodeToken
  <2> DEFINE c == setup.jwt
             keys == Keys(found)
  <2>1. /\ pc = "decoding" /\ pc' = "done" /\ judgedAt' = now /\ setup.mode = "jwt"
        /\ setup' = setup /\ request' = request /\ found' = found
        /\ IsFetchedFor /\ HasItsKey(Bearer, keys)
    BY <1>21 DEF DecodeToken, BuildSession, inputs, records
  <2>2. SUFFICES ASSUME answer' = "session"
                 PROVE  TokenInsideItsLife'
    BY <2>1 DEF TokenInsideItsLife
  <2>3. Decoded(Bearer, keys, c, now) = "none" /\ LivesAsMinted(Bearer.claims, c)
    BY <1>21, <2>2, RefusalsOfAnswers DEF DecodeToken
  <2>4. IsJwtConfig(c)
    BY <2>1 DEF IsBuilt, IsCookieSetup, IsRemoteSetup, IsJwtSetup
  <2>5. /\ IsTimed(Bearer.claims.exp) /\ IsTimed(Bearer.claims.iat)
        /\ Bearer.claims.nbf.kind # "absent" => Bearer.claims.nbf.at \in Int
    <3>1. AreTokens(request.authorization)
      BY <2>1, JourneyAssumption
    <3>2. 1 \in DOMAIN request.authorization
      BY <2>1, <3>1 DEF AreTokens, IsFetchedFor, Presents
    <3> QED
      BY <3>1, <3>2 DEF AreTokens, Bearer
  <2>6. /\ now - c.leeway < Bearer.claims.exp.at
        /\ Bearer.claims.iat.at <= now + c.leeway
        /\ Bearer.claims.nbf.kind # "absent" => Bearer.claims.nbf.at <= now + c.leeway
        /\ Bearer.claims.iat.at < Bearer.claims.exp.at
        /\ Bearer.claims.exp.at <= now + c.leeway + c.lifetime
        /\ Bearer.signedBy = keys[Bearer.kid].material
    BY <2>3, <2>4, <2>5, DecodedIsInsideItsLife
  <2>7. Bearer.alg \in c.algorithms
    BY <2>1 DEF IsFetchedFor, IsWorthAKey
  <2>8. \E e \in ToSet(found.entries) :
          /\ e.kid = Bearer.kid /\ e.alg = Bearer.alg /\ e.material = Bearer.signedBy
          /\ e.use # "enc" /\ (e.ops = "absent" \/ e.verify)
          /\ e.bits >= MinRsaBits \/ e.alg \notin Rsa
    <3>1. Bearer.kid \in DOMAIN keys /\ keys[Bearer.kid].alg = Bearer.alg
      BY <2>1 DEF HasItsKey
    <3>2. PICK i \in DOMAIN found.entries :
            /\ found.entries[i].kid = Bearer.kid
            /\ IsSound(found.entries[i], c.algorithms)
            /\ keys[Bearer.kid] = [alg |-> found.entries[i].alg,
                                   material |-> found.entries[i].material]
      BY <3>1, KeysArePublished DEF Keys
    <3> DEFINE e == found.entries[i]
    <3>3. e.alg = Bearer.alg /\ e.material = Bearer.signedBy
      BY <2>6, <3>1, <3>2
    <3>4. /\ e.use # "enc" /\ (e.ops = "absent" \/ e.verify)
          /\ e.bits >= MinRsaBits \/ e.alg \notin Rsa
      BY <3>2 DEF IsSound, IsCandidate, ForVerifying
    <3>5. e \in ToSet(found.entries)
      BY DEF ToSet
    <3> QED
      BY <3>2, <3>3, <3>4, <3>5
  <2> QED
    BY <2>1, <2>6, <2>7, <2>8 DEF TokenInsideItsLife, Bearer
<1>22. CASE Tick
  BY <1>1, <1>22 DEF Tick, TokenInsideItsLife, inputs, records, history
<1>23. CASE UNCHANGED vars
  BY <1>1, <1>23 DEF vars, TokenInsideItsLife, Bearer, Keys, inputs, records, history
<1> QED
  BY <1>3, <1>4, <1>5, <1>6, <1>7, <1>8, <1>9, <1>10, <1>11, <1>12, <1>13, <1>14,
     <1>15, <1>16, <1>17, <1>18, <1>19, <1>20, <1>21, <1>22, <1>23 DEF Next

(* The one value is signed before anything is asked with it, and the record found *)
(* for it is judged as it is held.                                                *)
LEMMA SessionKeeps == OnItsWay /\ SessionInv /\ [Next]_vars => SessionInv'
<1> SUFFICES ASSUME OnItsWay, SessionInv, [Next]_vars
             PROVE  SessionInv'
  OBVIOUS
<1>1. /\ UNCHANGED <<inputs, value>> /\ IsTheOneValue => IsTheOneValue'
      /\ UNCHANGED <<inputs, value>> /\ IsSigned => IsSigned'
  BY RequestsStand
<1> USE DEF OnItsWay, SessionInv, ByCookie, ByBearer, Consulted, End, Go
<1>2. ASSUME UNCHANGED <<inputs, value>>, answer' # "session" \/ setup.mode = "jwt",
             pc' # "judging",
             setup.mode # "jwt" /\ pc' \in Consulted \cup {"parsing", "policing", "checking"}
               => IsTheOneValue,
             setup.mode # "jwt" /\ pc' \in Consulted => IsSigned
      PROVE  SessionInv'
  BY <1>1, <1>2 DEF ServedIsTheOneSession, inputs
<1>3. CASE Construct
  BY <1>2, <1>3 DEF Construct
<1>4. CASE ExtractCookie
  BY <1>4 DEF ExtractCookie, ServedIsTheOneSession
<1>5. CASE ExtractBearer
  BY <1>5 DEF ExtractBearer, ServedIsTheOneSession
<1>6. CASE ResolveCookie
  <2>1. /\ setup' = setup /\ request' = request /\ pc = "resolving"
        /\ answer' # "session" /\ pc' \in {"parsing", "done"}
        /\ pc' = "parsing" =>
             HasOneValue(Own(request)) /\ value' = ValueOf(Own(request))
    BY <1>6 DEF ResolveCookie, inputs
  <2>2. ASSUME pc' = "parsing" PROVE IsTheOneValue'
    <3>1. AreCookies(request)
      BY <2>1, JourneyAssumption
    <3>2. /\ Carried # {}
          /\ \/ \E p \in Carried : Carried = {p} /\ p.value = value'
             \/ \A i \in 0 .. Cardinality(Carried) - 1 : \E p \in Carried : p.index = i
      BY <2>1, <2>2, <3>1, OneValueIsCarried
    <3>3. Carried' = Carried
      BY <2>1 DEF Carried
    <3> QED
      BY <3>2, <3>3 DEF IsTheOneValue
  <2> QED
    BY <2>1, <2>2 DEF ServedIsTheOneSession
<1>7. CASE ParseCookie
  BY <1>2, <1>7 DEF ParseCookie
<1>8. CASE EnforcePolicy
  BY <1>2, <1>8 DEF EnforcePolicy
<1>9. CASE CheckSignature
  <2>1. /\ UNCHANGED <<inputs, value>> /\ answer' # "session" /\ pc' \in {"asking", "done"}
        /\ setup.mode # "jwt" /\ IsTheOneValue
    BY <1>9 DEF CheckSignature
  <2>2. ASSUME pc' = "asking" PROVE IsSigned
    <3>1. CASE verified'
      <4>1. IsSignedValue(value) /\ Verifies(setup.keyring, value)
        BY <1>9, <3>1 DEF CheckSignature
      <4> QED
        BY <4>1, SignatureIsLast DEF IsSigned
    <3>2. CASE setup.mode = "remote" /\ setup.keyring = {}
      BY <3>2 DEF IsSigned
    <3> QED
      BY <1>9, <2>2, <3>1, <3>2 DEF CheckSignature
  <2> QED
    BY <1>2, <2>1, <2>2
<1>10. CASE AskStore
  BY <1>2, <1>10 DEF AskStore
<1>11. CASE RedisAnswers
  <2>1. PICK stored \in Stored :
          /\ stored.store = "redis"
          /\ Looked(stored.value.holds, RedisFinds(stored.value, Token(value)),
                    stored.value.holds)
    BY <1>11 DEF RedisAnswers
  <2>2. /\ UNCHANGED <<inputs, value>> /\ pc = "waiting" /\ setup.mode # "jwt"
        /\ IsTheOneValue /\ IsSigned /\ answer' # "session"
    BY <1>11, <2>1 DEF RedisAnswers, Looked
  <2>3. CASE ~RedisFinds(stored.value, Token(value))
    BY <1>2, <2>1, <2>2, <2>3 DEF Looked
  <2>4. CASE RedisFinds(stored.value, Token(value))
    <3>1. found' = stored.value.holds /\ held' = stored.value.holds /\ pc' = "judging"
      BY <2>1, <2>4 DEF Looked
    <3>2. IsDocument(stored.value.holds) /\ Names(stored.value.holds.token, Token(value))
      BY <2>4 DEF RedisFinds
    <3>3. IsTimed(stored.value.holds.expiresAt)
      BY <2>1, JourneyAssumption
    <3>4. IsOf(stored.value.holds, stored.value.holds)
      BY <3>2, <3>3, DocumentsAreWhole
    <3>5. IsOf(found, held)' /\ Names(found.token, Token(value))'
      BY <2>2, <3>1, <3>2, <3>4 DEF IsOf
    <3> QED
      BY <1>1, <2>2, <3>5 DEF ServedIsTheOneSession, inputs
  <2> QED
    BY <2>3, <2>4
<1>12. CASE SqlAnswers
  <2>1. PICK stored \in Stored :
          /\ stored.store = "sql"
          /\ IF IsPlanned(stored.tables, setup.sql)
             THEN LET rows == RowsRead(stored.rows, stored.tables, setup.sql) IN
                  Looked(stored.rows[1], SqlFinds(rows, Token(value)), rows[1])
             ELSE End("ConfigurationError") /\ UNCHANGED records
    BY <1>12 DEF SqlAnswers
  <2> DEFINE rows == RowsRead(stored.rows, stored.tables, setup.sql)
  <2>2. /\ UNCHANGED <<inputs, value>> /\ pc = "waiting" /\ setup.mode # "jwt"
        /\ IsTheOneValue /\ IsSigned /\ answer' # "session"
    BY <1>12, <2>1 DEF SqlAnswers, Looked
  <2>3. CASE IsPlanned(stored.tables, setup.sql) /\ SqlFinds(rows, Token(value))
    <3>1. found' = rows[1] /\ held' = stored.rows[1] /\ pc' = "judging"
      BY <2>1, <2>3 DEF Looked
    <3>2. AreRows(stored)
      BY <2>1, JourneyAssumption
    <3>3. IsOf(rows[1], stored.rows[1]) /\ Names(rows[1].token, Token(value))
      BY <2>3, <3>2, RowsAreWhole
    <3> HIDE DEF rows
    <3>4. IsOf(found, held)' /\ Names(found.token, Token(value))'
      BY <2>2, <3>1, <3>3 DEF IsOf
    <3> QED
      BY <1>1, <2>2, <3>4 DEF ServedIsTheOneSession, inputs
  <2>4. CASE ~(IsPlanned(stored.tables, setup.sql) /\ SqlFinds(rows, Token(value)))
    <3>1. pc' = "done"
      BY <2>1, <2>4 DEF Looked
    <3> QED
      BY <1>2, <2>2, <3>1
  <2> QED
    BY <2>3, <2>4
<1>13. CASE StoreFails
  BY <1>2, <1>13 DEF StoreFails
<1>14. CASE AskUpstream
  BY <1>2, <1>14 DEF AskUpstream
<1>15. CASE Transfer
  BY <1>2, <1>15 DEF Transfer
<1>16. CASE FetchFails
  BY <1>2, <1>16 DEF FetchFails
<1>17. CASE ReadDocument
  <2>1. PICK response \in Documents :
          IF FromResponse(response, verified) = "none"
          THEN found' = response.holds /\ held' = response.holds /\ Go("judging")
          ELSE End(FromResponse(response, verified)) /\ UNCHANGED records
    BY <1>17 DEF ReadDocument
  <2>2. /\ UNCHANGED <<inputs, value>> /\ pc = "fetching" /\ setup.mode = "remote"
        /\ IsTheOneValue /\ IsSigned /\ answer' # "session"
    BY <1>17, <2>1, RefusalsOfAnswers DEF ReadDocument
  <2>3. CASE FromResponse(response, verified) = "none"
    <3>1. found' = response.holds /\ held' = response.holds /\ pc' = "judging"
      BY <2>1, <2>3
    <3>2. IsDocument(response.holds)
      BY <2>3 DEF FromResponse, NullOutcome
    <3>3. IsTimed(response.holds.expiresAt)
      BY JourneyAssumption
    <3>4. IsOf(response.holds, response.holds)
      BY <3>2, <3>3, DocumentsAreWhole
    <3>5. IsOf(found, held)'
      BY <3>1, <3>4 DEF IsOf
    <3> QED
      BY <1>1, <2>2, <3>5 DEF ServedIsTheOneSession, inputs
  <2>4. CASE FromResponse(response, verified) # "none"
    BY <1>2, <2>1, <2>2, <2>4
  <2> QED
    BY <2>3, <2>4
<1>18. CASE JudgeSession
  <2>1. /\ UNCHANGED <<inputs, value>> /\ setup' = setup /\ value' = value
        /\ held' = held /\ judgedAt' = now
        /\ pc = "judging" /\ pc' = "done" /\ setup.mode # "jwt"
        /\ IsTheOneValue /\ IsSigned /\ IsOf(found, held)
    BY <1>18 DEF JudgeSession, BuildSession, inputs, records
  <2>2. SUFFICES ASSUME answer' = "session"
                 PROVE  ServedIsTheOneSession'
    BY <2>1 DEF ServedIsTheOneSession
  <2>3. /\ setup.mode = "remote" => Names(found.token, Token(value))
        /\ ~HasEnded(found, now) /\ ~IsBarred(found, now)
    BY <1>18, <2>2 DEF JudgeSession
  <2>4. setup.mode \in {"cookie", "remote"}
    BY <2>1 DEF IsBuilt, IsCookieSetup, IsRemoteSetup, IsJwtSetup
  <2>5. held.token = Token(value)
    BY <2>1, <2>3, <2>4 DEF Names, IsOf
  <2>6. now < held.expiresAt.at
    <3>1. ~(held.expiresAt.at <= now) /\ held.expiresAt.at \in Int
      BY <2>1, <2>3 DEF HasEnded, IsOf
    <3> QED
      BY <3>1
  <2>7. \/ held.banned \in {"absent", "false", "0"}
        \/ held.banExpires.kind = "moment" /\ held.banExpires.at <= now
    BY <2>1, <2>3 DEF IsBarred, IsTrue, IsOf, IsMoment, DbFlags, JsonFlags
  <2>8. IsTheOneValue' /\ IsSigned'
    BY <1>1, <2>1
  <2> QED
    BY <2>1, <2>5, <2>6, <2>7, <2>8 DEF ServedIsTheOneSession, IsTheOneValue, IsSigned
<1>19. CASE ReadToken
  BY <1>2, <1>19 DEF ReadToken
<1>20. CASE ReadKeys
  BY <1>2, <1>20 DEF ReadKeys
<1>21. CASE DecodeToken
  BY <1>2, <1>21, RefusalsOfAnswers DEF DecodeToken, BuildSession
<1>22. CASE Tick
  BY <1>2, <1>22 DEF Tick
<1>23. CASE UNCHANGED vars
  <2>1. /\ UNCHANGED <<inputs, value>>
        /\ UNCHANGED <<setup, value, pc, answer, held, found, judgedAt>>
    BY <1>23 DEF vars, inputs, records, history
  <2>2. ServedIsTheOneSession'
    <3>1. UNCHANGED <<setup, request, value, answer, held, judgedAt>>
      BY <2>1 DEF inputs
    <3> QED
      BY <3>1 DEF ServedIsTheOneSession, Carried
  <2>3. pc = "judging" =>
          IsOf(found, held)' /\ (setup.mode = "cookie" => Names(found.token, Token(value)))'
    BY <2>1 DEF IsOf
  <2> QED
    BY <1>1, <2>1, <2>2, <2>3
<1> QED
  BY <1>3, <1>4, <1>5, <1>6, <1>7, <1>8, <1>9, <1>10, <1>11, <1>12, <1>13, <1>14,
     <1>15, <1>16, <1>17, <1>18, <1>19, <1>20, <1>21, <1>22, <1>23 DEF Next

(* Every step keeps the invariant. *)
LEMMA JourneyKeeps == JourneyInv /\ [Next]_vars => JourneyInv'
BY OnItsWayKeeps, PolicyKeeps, TokenKeeps, SessionKeeps DEF JourneyInv

(* Every reachable state is of the invariant. *)
LEMMA JourneyIsInvariant == Spec => []JourneyInv
BY JourneyBegins, JourneyKeeps, PTL DEF Spec

(* Nothing is consulted for a request that its policy does not vouch for, and a    *)
(* refusal by the policy says nothing of the credential, for every configuration   *)
(* and every request (cookie_verifier.py and remote_verifier.py, verify).          *)
THEOREM PoliciesComeFirst == Spec => []PolicyComesFirst
<1>1. JourneyInv => PolicyComesFirst
  BY DEF JourneyInv, PolicyInv
<1> QED
  BY <1>1, JourneyIsInvariant, PTL

(* A bearer token is served inside its life alone, and signed by a key published for *)
(* it, for every key set and every moment of the clock (jwt_verifier.py, jwks.py).   *)
THEOREM TokensAreInsideTheirLives == Spec => []TokenInsideItsLife
<1>1. JourneyInv => TokenInsideItsLife
  BY DEF JourneyInv, TokenInv
<1> QED
  BY <1>1, JourneyIsInvariant, PTL

(* A session is served for the one value carried under the verifier's own name, signed *)
(* for the token it names, of a record neither ended nor banned, for every cookie, row *)
(* and document (cookie_parsing.py, signing.py, session_document.py,                   *)
(* sqlalchemy_core.py).                                                                *)
THEOREM SessionsAreTheOne == Spec => []ServedIsTheOneSession
<1>1. JourneyInv => ServedIsTheOneSession
  BY DEF JourneyInv, SessionInv
<1> QED
  BY <1>1, JourneyIsInvariant, PTL
=============================================================================
