------------------------ MODULE RemoteVerdictProofs -------------------------
(***************************************************************************)
(* Mode C's verdicts and its 429 latch, for every set of requests, tokens  *)
(* and waits: what a request is told was true of its session at some       *)
(* moment of that very request, and a latch is served out by everyone who  *)
(* was not past it when it tripped.                                        *)
(***************************************************************************)
EXTENDS RemoteVerifierProofs

(* Whatever is remembered is a cookie that opens no session, now or later. *)
KeysDead == \A i \in DOMAIN entries : Dead(entries[i].key)

(* A request under way has seen the status its session has. *)
StatusSeen ==
  \A c \in Caller :
    pc[c] \notin {"idle", "done"} /\ cookie[c] # NoCookie
      => session[cookie[c].token] \in seen[c]

(* A reply under way says what was true when upstream sent it. *)
ReplyTrue(c) ==
  /\ pc[c] = "fetching"
  /\ reply[c] = "null" =>
       /\ Dead(cookie[c])
       /\ cookie[c].signature = "forged" \/ "gone" \in seen[c]
  /\ reply[c] = "live" => cookie[c].signature = "good" /\ "live" \in seen[c]
  /\ reply[c] = "banned" => "banned" \in seen[c]

RepliesTrue == \A c \in Caller : reply[c] # "none" => ReplyTrue(c)

Truthful == KeysDead /\ StatusSeen /\ RepliesTrue

(* What the two verdict properties say of one step. *)
AcceptsTrue ==
  \A c \in Caller : Ended(c, {"accepted"}) =>
    /\ cookie[c].signature = "good"
    /\ "live" \in seen[c]
    /\ reply[c] # "crossed"

RefusesTrue ==
  \A c \in Caller : Ended(c, {"invalid", "revoked"}) =>
    \/ cookie'[c].signature = "forged"
    \/ seen'[c] \cap {"banned", "gone"} # {}
    \/ reply[c] = "crossed"
-----------------------------------------------------------------------------
\* At the start nothing is remembered and nothing was seen.
LEMMA InitTruthful == Init => Truthful
<1> SUFFICES ASSUME Init PROVE Truthful
  OBVIOUS
<1>1. DOMAIN entries = {}
  BY DEF Init
<1> QED
  BY <1>1 DEF Init, Truthful, KeysDead, StatusSeen, RepliesTrue

(* A step of one request leaves the others as they are. *)
OthersAlone(c) ==
  \A d \in Caller \ {c} :
    /\ pc'[d] = pc[d]
    /\ cookie'[d] = cookie[d]
    /\ answer'[d] = answer[d]
    /\ reply'[d] = reply[d]
    /\ seen'[d] = seen[d]

(* The parts of a request that its arrival and its end change. *)
LEMMA EndTells ==
  ASSUME TypeOK, NEW c \in Caller, NEW outcome, End(c, outcome)
  PROVE  /\ \A d \in Caller \ {c} :
              pc'[d] = pc[d] /\ answer'[d] = answer[d] /\ reply'[d] = reply[d]
         /\ pc'[c] = "done" /\ answer'[c] = outcome /\ reply'[c] = "none"
BY DEF TypeOK, End

(* Past the gate a request waits for its slot, and prepare() is done. *)
LEMMA ProceedTells ==
  ASSUME TypeOK, NEW c \in Caller, NEW k, Proceed(c, k)
  PROVE  /\ \A d \in Caller \ {c} :
              pc'[d] = pc[d] /\ answer'[d] = answer[d] /\ reply'[d] = reply[d]
         /\ answer'[c] \in {answer[c], "ready"}
         /\ reply'[c] \in {reply[c], "none"}
BY EndTells, ProceedMoves DEF Proceed, OthersKeepPlace

\* Coming to the readiness gate tells a request nothing about its session.
LEMMA ReadyTells ==
  ASSUME TypeOK, NEW c \in Caller, NEW k, Ready(c, k)
  PROVE  /\ \A d \in Caller \ {c} :
              pc'[d] = pc[d] /\ answer'[d] = answer[d] /\ reply'[d] = reply[d]
         /\ answer'[c] \in {answer[c], "ready", "misconfigured"}
         /\ reply'[c] \in {reply[c], "none"}
<1>1. OthersKeepPlace(c)
  BY ReadyMoves
<1> QED
  BY <1>1, EndTells, ProceedTells DEF Ready, Acquire, OthersKeepPlace

\* Every step keeps the verdicts, remembered or on their way, true.
LEMMA NextTruthful ==
  TInv /\ Truthful /\ [Next]_vars => Truthful' /\ AcceptsTrue /\ RefusesTrue
<1> SUFFICES ASSUME TypeOK, CookieNamed, KeysDead, StatusSeen, RepliesTrue, [Next]_vars
             PROVE  Truthful' /\ AcceptsTrue /\ RefusesTrue
  BY DEF Truthful, TInv
<1> DEFINE Goal == Truthful' /\ AcceptsTrue /\ RefusesTrue
<1> USE DEF probe, lock, limiter, request, world, history
<1>e. entries \in Seq(Entry)
  BY DEF TypeOK, Entry
\* A stretch of one request, at the end of which it awaits no answer.
<1>1. ASSUME NEW c \in Caller, OthersAlone(c), UNCHANGED session,
             KeysDead', reply'[c] = "none",
             pc'[c] \notin {"idle", "done"} /\ cookie'[c] # NoCookie
               => session[cookie'[c].token] \in seen'[c]
      PROVE  Truthful'
  <2>1. StatusSeen'
    BY <1>1 DEF StatusSeen, OthersAlone
  <2>2. RepliesTrue'
    BY <1>1 DEF RepliesTrue, ReplyTrue, Dead, OthersAlone
  <2> QED
    BY <1>1, <2>1, <2>2 DEF Truthful
\* Nothing is said to the others; what c is told decides.
<1>2. ASSUME NEW c \in Caller, OthersAlone(c),
             answer'[c] \notin {"accepted", "invalid", "revoked"}
      PROVE  AcceptsTrue /\ RefusesTrue
  BY <1>2 DEF AcceptsTrue, RefusesTrue, Ended, OthersAlone
<1>3. ASSUME UNCHANGED <<entries, session>> PROVE KeysDead'
  BY <1>3 DEF KeysDead, Dead
<1>4. ASSUME NEW key, entries' = Cache!AfterAsking(key), UNCHANGED session
      PROVE  KeysDead'
  <2>1. \A j \in DOMAIN entries' : \E i \in DOMAIN entries : entries'[j] = entries[i]
    BY <1>4, <1>e, AskingKeeps
  <2> QED
    BY <1>4, <2>1 DEF KeysDead, Dead
\* A request that arrives and is told nothing of its session.
<1>5. ASSUME NEW c \in Caller, NEW k \in Cookie \cup {NoCookie}, Arrives(c, k),
             UNCHANGED session, KeysDead',
             \A d \in Caller \ {c} :
               pc'[d] = pc[d] /\ answer'[d] = answer[d] /\ reply'[d] = reply[d],
             reply'[c] \in {reply[c], "none"}
      PROVE  Truthful' /\ OthersAlone(c)
  <2>1. reply'[c] = "none"
    BY <1>5 DEF Arrives, RepliesTrue, ReplyTrue
  <2>2. cookie'[c] = k /\ (k # NoCookie => seen'[c] = {session[k.token]})
    BY <1>5 DEF Arrives, TypeOK
  <2>3. OthersAlone(c)
    BY <1>5 DEF Arrives, TypeOK, OthersAlone
  <2> QED
    BY <1>1, <1>5, <2>1, <2>2, <2>3
<1>6. ASSUME NEW c \in Caller, NEW k \in Cookie, RefusedForged(c, k)
      PROVE  Goal
  <2>1. Truthful' /\ OthersAlone(c)
    <3>1. KeysDead'
      BY <1>3, <1>6 DEF RefusedForged
    <3> QED
      BY <1>5, <1>6, <3>1, EndTells DEF RefusedForged
  <2>2. cookie'[c].signature = "forged" /\ answer'[c] = "invalid"
    BY <1>6, EndTells DEF RefusedForged, Arrives, KnownForged, TypeOK
  <2> QED
    BY <2>1, <2>2 DEF AcceptsTrue, RefusesTrue, Ended, OthersAlone
<1>7. ASSUME NEW c \in Caller, NEW k \in Cookie, RefusedRemembered(c, k)
      PROVE  Goal
  <2>1. Truthful' /\ OthersAlone(c)
    <3>1. KeysDead'
      BY <1>3, <1>7 DEF RefusedRemembered
    <3> QED
      BY <1>5, <1>7, <3>1, EndTells DEF RefusedRemembered
  <2>2. Dead(k)
    BY <1>7 DEF RefusedRemembered, Cache!Holds, Cache!Has, CacheKey, KeysDead
  <2>3. cookie'[c] = k /\ seen'[c] = {session[k.token]}
    BY <1>7, RemoteAssumption DEF RefusedRemembered, Arrives, TypeOK
  <2>4. cookie'[c].signature = "forged" \/ seen'[c] \cap {"banned", "gone"} # {}
    BY <2>2, <2>3 DEF Dead
  <2>5. answer'[c] # "accepted"
    BY <1>7, EndTells DEF RefusedRemembered, NullOutcome
  <2> QED
    BY <2>1, <2>4, <2>5 DEF AcceptsTrue, RefusesTrue, Ended, OthersAlone
<1>8. ASSUME NEW c \in Caller, NEW k \in Cookie, RefusedLatched(c, k) \/ Admit(c, k)
      PROVE  Goal
  <2>1. KeysDead'
    BY <1>4, <1>8 DEF RefusedLatched, Admit
  <2>2. /\ Arrives(c, k) /\ UNCHANGED session
        /\ \A d \in Caller \ {c} :
             pc'[d] = pc[d] /\ answer'[d] = answer[d] /\ reply'[d] = reply[d]
        /\ answer'[c] \in {answer[c], "ready", "misconfigured", "unavailable"}
        /\ reply'[c] \in {reply[c], "none"}
    BY <1>8, EndTells, ReadyTells DEF RefusedLatched, Admit
  <2>3. Truthful' /\ OthersAlone(c)
    BY <1>5, <2>1, <2>2
  <2> QED
    BY <2>2, <2>3 DEF AcceptsTrue, RefusesTrue, Ended, OthersAlone
<1>9. ASSUME NEW c \in Caller, Prepare(c) \/ RefusedUnread(c)
      PROVE  Goal
  <2>1. KeysDead'
    BY <1>3, <1>9 DEF Prepare, RefusedUnread
  <2>2. /\ Arrives(c, NoCookie) /\ UNCHANGED session
        /\ \A d \in Caller \ {c} :
             pc'[d] = pc[d] /\ answer'[d] = answer[d] /\ reply'[d] = reply[d]
        /\ answer'[c] \in {answer[c], "ready", "misconfigured", "refused"}
        /\ reply'[c] \in {reply[c], "none"}
    BY <1>9, EndTells, ReadyTells DEF Prepare, RefusedUnread
  <2>3. Truthful' /\ OthersAlone(c)
    BY <1>5, <2>1, <2>2
  <2> QED
    BY <2>2, <2>3 DEF AcceptsTrue, RefusesTrue, Ended, OthersAlone
\* A later stretch that ends the request with an answer about something else.
<1>10. ASSUME NEW c \in Caller, NEW outcome, End(c, outcome),
              outcome \notin {"accepted", "invalid", "revoked"},
              UNCHANGED <<cookie, seen, session, entries>>
       PROVE  Goal
  <2>1. OthersAlone(c) /\ pc'[c] = "done" /\ answer'[c] = outcome /\ reply'[c] = "none"
    BY <1>10, EndTells DEF OthersAlone
  <2>2. KeysDead'
    BY <1>3, <1>10
  <2>3. Truthful'
    BY <1>1, <1>10, <2>1, <2>2
  <2> QED
    BY <1>2, <1>10, <2>1, <2>3
\* A later stretch that takes the request on to its next wait.
<1>11. ASSUME NEW c \in Caller, pc[c] \in {"entering", "waiting", "probing", "queued"},
              \A d \in Caller \ {c} : pc'[d] = pc[d],
              UNCHANGED <<answer, reply, cookie, seen, session, entries>>
       PROVE  Goal
  <2>1. OthersAlone(c) /\ reply'[c] = "none"
    BY <1>11 DEF OthersAlone, RepliesTrue, ReplyTrue
  <2>2. KeysDead'
    BY <1>3, <1>11
  <2>3. cookie'[c] # NoCookie => session[cookie'[c].token] \in seen'[c]
    BY <1>11 DEF StatusSeen
  <2>4. Truthful'
    BY <1>1, <1>11, <2>1, <2>2, <2>3
  <2>5. AcceptsTrue /\ RefusesTrue
    BY <1>11 DEF AcceptsTrue, RefusesTrue, Ended
  <2> QED
    BY <2>4, <2>5
<1> HIDE DEF Goal
<1>12. ASSUME NEW c \in Caller, pc[c] \in {"entering", "waiting", "probing"},
              Proceed(c, cookie[c]), UNCHANGED <<cookie, seen, session, entries>>
       PROVE  Goal
  <2>1. CASE cookie[c] = NoCookie
    BY <1>10, <1>12, <2>1 DEF Proceed
  <2>2. CASE cookie[c] # NoCookie
    BY <1>11, <1>12, <2>2, ProceedTells DEF Proceed
  <2> QED
    BY <2>1, <2>2
<1>13. ASSUME NEW c \in Caller, Turn(c)
       PROVE  Goal
  <2>1. CASE Rechecked(c) /\ probedOk
    BY <1>12, <2>1 DEF Rechecked, HasTurn
  <2>2. CASE Rechecked(c) /\ ~probedOk
    BY <1>10, <2>2 DEF Rechecked, Unreachable
  <2>3. CASE BeginProbe(c)
    BY <1>11, <2>3 DEF BeginProbe, StartProbe, HasTurn, TypeOK
  <2> QED
    BY <1>13, <2>1, <2>2, <2>3 DEF Turn
<1>14. ASSUME NEW c \in Caller, ProbeAnswered(c) \/ ProbeCancelled(c)
       PROVE  Goal
  <2>1. CASE ProbeSucceeds(c)
    BY <1>12, <2>1 DEF ProbeSucceeds, ProbeEnds
  <2>2. CASE ProbeRefused(c) \/ ProbeFails(c) \/ ProbeCancelled(c)
    BY <1>10, <2>2 DEF ProbeRefused, ProbeFails, ProbeCancelled, ProbeEnds, Unreachable
  <2> QED
    BY <1>14, <2>1, <2>2 DEF ProbeAnswered
<1>15. ASSUME NEW c \in Caller,
              WaitCancelled(c) \/ QueueTimesOut(c) \/ QueueCancelled(c)
       PROVE  Goal
  BY <1>10, <1>15 DEF WaitCancelled, QueueTimesOut, QueueCancelled
<1>16. ASSUME NEW c \in Caller, Send(c)
       PROVE  Goal
  BY <1>11, <1>16 DEF Send, TypeOK
<1>17. ASSUME NEW c \in Caller, FetchFails(c) \/ FetchRaises(c) \/ FetchCancelled(c)
       PROVE  Goal
  BY <1>10, <1>17 DEF FetchFails, FetchRaises, FetchCancelled, FetchLeft
<1>18. ASSUME NEW c \in Caller, NEW values \in RetryAfter, FetchLimited(c, values)
       PROVE  Goal
  BY <1>10, <1>18 DEF FetchLimited
<1>19. ASSUME NEW c \in Caller, FetchAnswers(c)
       PROVE  Goal
  <2>1. cookie[c] \in Cookie /\ reply[c] \in {"null", "live", "banned", "crossed"}
        /\ ReplyTrue(c) /\ UNCHANGED <<cookie, seen, session, keyring, now>>
    BY <1>19 DEF FetchAnswers, CookieNamed, RepliesTrue
  <2>2. PICK fits \in BOOLEAN : End(c, DocumentOutcome(reply[c], fits))
    BY <1>19 DEF FetchAnswers
  <2>3. /\ OthersAlone(c) /\ pc'[c] = "done" /\ reply'[c] = "none"
        /\ answer'[c] = DocumentOutcome(reply[c], fits)
    BY <2>1, <2>2, EndTells DEF OthersAlone
  <2>4. KeysDead'
    <3>1. CASE reply[c] = "null"
      <4>1. Dead(cookie[c]) /\ entries' = Cache!AfterRemembering(CacheKey(cookie[c]))
        BY <1>19, <2>1, <3>1 DEF FetchAnswers, IsCacheable, ReplyTrue
      <4>2. now \in Nat
        BY DEF TypeOK
      <4>3. \A j \in DOMAIN entries' :
              \/ entries'[j].key = cookie[c]
              \/ \E i \in DOMAIN entries : entries'[j].key = entries[i].key
        BY <1>e, <2>1, <4>1, <4>2, RememberingKeeps DEF CacheKey
      <4> QED
        BY <2>1, <4>1, <4>3 DEF KeysDead, Dead
    <3>2. CASE reply[c] # "null"
      BY <1>3, <1>19, <2>1, <3>2 DEF FetchAnswers, IsCacheable
    <3> QED
      BY <3>1, <3>2
  <2>5. Truthful'
    BY <1>1, <2>1, <2>3, <2>4
  <2>6. AcceptsTrue
    BY <2>1, <2>3
       DEF AcceptsTrue, Ended, OthersAlone, DocumentOutcome, NullOutcome, ReplyTrue
  <2>7. RefusesTrue
    BY <2>1, <2>3
       DEF RefusesTrue, Ended, OthersAlone, DocumentOutcome, NullOutcome, ReplyTrue
  <2> QED
    BY <2>5, <2>6, <2>7 DEF Goal
<1>20. ASSUME NEW c \in Caller, UpstreamReplies(c)
       PROVE  Goal
  <2>1. PICK r \in {Truth(cookie[c]), "crossed", "limited"} :
          reply' = [reply EXCEPT ![c] = r]
    BY <1>20 DEF UpstreamReplies
  <2>2. /\ pc[c] = "fetching" /\ UNCHANGED <<pc, cookie, answer, seen, session, entries>>
        /\ cookie[c] \in Cookie
    BY <1>20 DEF UpstreamReplies, CookieNamed
  <2>3. reply'[c] = r /\ \A d \in Caller \ {c} : reply'[d] = reply[d]
    BY <2>1 DEF TypeOK
  <2>4. session[cookie[c].token] \in seen[c] /\ session[cookie[c].token] \in Statuses
    BY <2>2, RemoteAssumption DEF StatusSeen, TypeOK, Cookie
  <2>5. ReplyTrue(c)'
    <3>1. CASE r = Truth(cookie[c])
      BY <2>2, <2>3, <2>4, <3>1 DEF ReplyTrue, Truth, Dead, Cookie, Statuses
    <3>2. CASE r # Truth(cookie[c])
      BY <2>1, <2>2, <2>3, <3>2 DEF ReplyTrue
    <3> QED
      BY <3>1, <3>2
  <2>6. RepliesTrue'
    BY <2>2, <2>3, <2>5 DEF RepliesTrue, ReplyTrue, Dead
  <2>7. KeysDead' /\ StatusSeen'
    BY <1>3, <2>2 DEF StatusSeen
  <2>8. AcceptsTrue /\ RefusesTrue
    BY <2>2 DEF AcceptsTrue, RefusesTrue, Ended
  <2> QED
    BY <2>6, <2>7, <2>8 DEF Truthful, Goal
<1>21. ASSUME NEW c \in Caller, Return(c)
       PROVE  Goal
  <2>1. /\ pc[c] = "done" /\ pc'[c] = "idle" /\ answer'[c] = "none"
        /\ UNCHANGED <<reply, session, entries>>
        /\ OthersAlone(c)
    BY <1>21 DEF Return, OthersAlone, TypeOK
  <2>2. reply'[c] = "none"
    BY <2>1 DEF RepliesTrue, ReplyTrue
  <2>3. KeysDead'
    BY <1>3, <2>1
  <2>4. Truthful'
    BY <1>1, <2>1, <2>2, <2>3
  <2> QED
    BY <1>2, <2>1, <2>4 DEF Goal
<1>22. ASSUME NEW t \in Token, NEW status \in Statuses, SessionChanges(t, status)
       PROVE  Goal
  <2>1. UNCHANGED <<pc, cookie, answer, reply, entries>>
    BY <1>22 DEF SessionChanges
  <2>2. \A k \in Cookie : Dead(k) => Dead(k)'
    BY <1>22 DEF SessionChanges, Dead, Cookie, TypeOK
  <2>3. KeysDead'
    <3>1. ASSUME NEW i \in DOMAIN entries PROVE entries[i].key \in Cookie
      <4>1. entries[i] \in Entry
        BY <1>e, ElementOfSeq, LenProperties
      <4> QED
        BY <4>1 DEF Entry, CacheKey
    <3> QED
      BY <2>1, <2>2, <3>1 DEF KeysDead
  <2>4. \A d \in Caller : seen[d] \subseteq seen'[d]
    BY <1>22 DEF SessionChanges
  <2>5. StatusSeen'
    <3> SUFFICES ASSUME NEW d \in Caller, pc[d] \notin {"idle", "done"}, cookie[d] # NoCookie
                 PROVE  session'[cookie[d].token] \in seen'[d]
      BY <2>1 DEF StatusSeen
    <3>1. cookie[d].token \in Token
      BY DEF TypeOK, Cookie
    <3>2. CASE cookie[d].token = t
      BY <1>22, <3>1, <3>2 DEF SessionChanges, TypeOK
    <3>3. CASE cookie[d].token # t
      BY <1>22, <2>4, <3>1, <3>3 DEF SessionChanges, StatusSeen, TypeOK
    <3> QED
      BY <3>2, <3>3
  <2>6. RepliesTrue'
    <3> SUFFICES ASSUME NEW d \in Caller, reply[d] # "none" PROVE ReplyTrue(d)'
      BY <2>1 DEF RepliesTrue
    <3>1. ReplyTrue(d) /\ cookie[d] \in Cookie
      BY DEF RepliesTrue, ReplyTrue, CookieNamed
    <3> QED
      BY <2>1, <2>2, <2>4, <3>1 DEF ReplyTrue
  <2>7. AcceptsTrue /\ RefusesTrue
    BY <2>1 DEF AcceptsTrue, RefusesTrue, Ended
  <2> QED
    BY <2>3, <2>5, <2>6, <2>7 DEF Truthful, Goal
<1>23. ASSUME Tick \/ UNCHANGED vars
       PROVE  Goal
  <2>1. UNCHANGED <<pc, cookie, answer, reply, seen, session, entries>>
    BY <1>23 DEF Tick, vars
  <2>2. KeysDead' /\ StatusSeen'
    BY <1>3, <2>1 DEF StatusSeen
  <2>3. RepliesTrue'
    BY <2>1 DEF RepliesTrue, ReplyTrue, Dead
  <2>4. AcceptsTrue /\ RefusesTrue
    BY <2>1 DEF AcceptsTrue, RefusesTrue, Ended
  <2> QED
    BY <2>2, <2>3, <2>4 DEF Truthful, Goal
<1>24. ASSUME NEW c \in Caller, NEW k \in Cookie, Gates(c, k)
       PROVE  Goal
  BY <1>6, <1>7, <1>8, <1>24 DEF Gates
<1>25. ASSUME Next PROVE Goal
  BY <1>9, <1>13, <1>14, <1>15, <1>16, <1>17, <1>18, <1>19, <1>20, <1>21, <1>22, <1>23,
     <1>24, <1>25
     DEF Next, FetchEnds
<1>26. Goal
  BY <1>23, <1>25
<1> QED
  BY <1>26 DEF Goal
-----------------------------------------------------------------------------
\* A remembered cookie whose session is dead is not live.
LEMMA NoLiveFromKeys == KeysDead => NoLiveCookieRemembered
BY DEF KeysDead, NoLiveCookieRemembered, Cache!Has, CacheKey

(* No cookie that still opens a session is ever remembered as forged, whatever
   forgeries of its token were sent and however many requests there are. *)
THEOREM LiveCookiesAreNotRemembered == Spec => []NoLiveCookieRemembered
<1>1. Truthful => NoLiveCookieRemembered
  BY NoLiveFromKeys DEF Truthful
<1> QED
  BY <1>1, InitTInv, NextTInv, InitTruthful, NextTruthful, PTL DEF Spec

(* A request is accepted only with a genuine cookie, of a session that upstream
   held live at some moment of that request. *)
THEOREM AcceptanceIsTrue == Spec => AcceptedWasLive
<1>1. AcceptsTrue => [\A c \in Caller : Ended(c, {"accepted"}) =>
                        /\ cookie[c].signature = "good"
                        /\ "live" \in seen[c]
                        /\ reply[c] # "crossed"]_vars
  BY DEF AcceptsTrue
<1> QED
  BY <1>1, InitTInv, NextTInv, InitTruthful, NextTruthful, PTL DEF Spec, AcceptedWasLive

(* A request is refused as dead only if its cookie is forged, or its session was
   banned or gone at some moment of that request, or upstream crossed answers. *)
THEOREM RefusalIsTrue == Spec => RefusalWasTrue
<1>1. RefusesTrue => [\A c \in Caller : Ended(c, {"invalid", "revoked"}) =>
                        \/ cookie'[c].signature = "forged"
                        \/ seen'[c] \cap {"banned", "gone"} # {}
                        \/ reply[c] = "crossed"]_vars
  BY DEF RefusesTrue
<1> QED
  BY <1>1, InitTInv, NextTInv, InitTruthful, NextTruthful, PTL DEF Spec, RefusalWasTrue
-----------------------------------------------------------------------------
\* The 429 latch, for every Retry-After.
(* While the latch holds, every request that carries a cookie and is under way
   was so when the latch tripped. *)
PassedKnown ==
  Backoff!Latched =>
    \A c \in Caller : c \in InFlight /\ cookie[c] # NoCookie => c \in passed

LatchKept == LatchIsBounded /\ PassedKnown

(* What the two latch properties say of one step. *)
ServedOnce == Backoff!Latched => blockedUntil' = blockedUntil

PassedSend ==
  \A c \in Caller :
    pc[c] # "fetching" /\ pc'[c] = "fetching" /\ Backoff!Latched => c \in passed

\* At the start nothing was ever latched.
LEMMA InitLatch == Init => LatchKept
BY RemoteAssumption DEF Init, LatchKept, LatchIsBounded, PassedKnown, Backoff!Latched, Never

\* Every step keeps the latch bounded, serves it out, and lets through only those past it.
LEMMA NextLatch == TInv /\ LatchKept /\ [Next]_vars => LatchKept' /\ ServedOnce /\ PassedSend
<1> SUFFICES ASSUME TypeOK, CookieNamed, LatchIsBounded, PassedKnown, [Next]_vars
             PROVE  LatchKept' /\ ServedOnce /\ PassedSend
  BY DEF LatchKept, TInv
<1> DEFINE Goal == LatchKept' /\ ServedOnce /\ PassedSend
<1> USE DEF probe, lock, limiter, request, world, history
<1>t. /\ now \in Nat /\ blockedUntil \in Nat \cup {Never} /\ MaxBackoff \in Nat
      /\ pc \in [Caller -> Places]
  BY RemoteAssumption DEF TypeOK
\* Only a request that was given a slot starts to fetch, and it was under way.
<1>1. ASSUME \A d \in Caller : pc'[d] = "fetching" => pc[d] \in {"queued", "fetching"}
      PROVE  PassedSend
  <2> SUFFICES ASSUME NEW d \in Caller, pc[d] # "fetching", pc'[d] = "fetching",
                      Backoff!Latched
               PROVE  d \in passed
    BY DEF PassedSend
  <2>1. d \in InFlight /\ cookie[d] \in Cookie
    BY <1>1 DEF InFlight, CookieNamed
  <2>2. cookie[d] # NoCookie
    BY <2>1, RemoteAssumption
  <2> QED
    BY <2>1, <2>2 DEF PassedKnown
\* Steps that leave the latch alone, and set no further request under way.
<1>2. ASSUME UNCHANGED <<blockedUntil, now>>,
             \A d \in Caller :
               d \in InFlight' /\ cookie'[d] # NoCookie
                 => d \in InFlight /\ cookie[d] # NoCookie /\ (d \in passed => d \in passed'),
             \A d \in Caller : pc'[d] = "fetching" => pc[d] \in {"queued", "fetching"}
      PROVE  Goal
  BY <1>1, <1>2 DEF LatchKept, LatchIsBounded, PassedKnown, ServedOnce, Backoff!Latched
<1> HIDE DEF Goal
<1>3. ASSUME NEW c \in Caller, OthersKeepPlace(c),
             pc'[c] \in {"idle", "done"} \/ cookie'[c] = NoCookie,
             pc'[c] # "fetching",
             \A d \in Caller \ {c} : cookie'[d] = cookie[d] /\ (d \in passed => d \in passed'),
             UNCHANGED <<blockedUntil, now>>
      PROVE  Goal
  BY <1>2, <1>3 DEF OthersKeepPlace, InFlight
<1>4. ASSUME NEW c \in Caller, c \in InFlight, OthersKeepPlace(c),
             pc'[c] = "fetching" => pc[c] \in {"queued", "fetching"},
             UNCHANGED <<cookie, passed, blockedUntil, now>>
      PROVE  Goal
  BY <1>2, <1>4 DEF OthersKeepPlace, InFlight
<1>5. ASSUME NEW c \in Caller, NEW k \in Cookie,
             RefusedForged(c, k) \/ RefusedRemembered(c, k) \/ RefusedLatched(c, k)
      PROVE  Goal
  <2>1. Arrives(c, k) /\ UNCHANGED <<blockedUntil, now>>
    BY <1>5 DEF RefusedForged, RefusedRemembered, RefusedLatched
  <2>2. OthersKeepPlace(c) /\ pc'[c] = "done"
    BY <1>5, EndMoves DEF RefusedForged, RefusedRemembered, RefusedLatched
  <2> QED
    BY <1>3, <2>1, <2>2, ArrivesKeeps
<1>6. ASSUME NEW c \in Caller, Prepare(c) \/ RefusedUnread(c)
      PROVE  Goal
  <2>1. Arrives(c, NoCookie) /\ UNCHANGED <<blockedUntil, now>>
    BY <1>6 DEF Prepare, RefusedUnread
  <2>2. OthersKeepPlace(c) /\ pc'[c] # "fetching"
    BY <1>6, EndMoves, ReadyMoves DEF Prepare, RefusedUnread
  <2> QED
    BY <1>3, <2>1, <2>2, ArrivesKeeps
\* A request that is let in has found the latch cleared.
<1>7. ASSUME NEW c \in Caller, NEW k \in Cookie, Admit(c, k)
      PROVE  Goal
  <2>1. ~Backoff!Latched /\ blockedUntil' = Never /\ now' = now
    BY <1>7 DEF Admit, Backoff!AfterAsking
  <2>2. OthersKeepPlace(c) /\ pc'[c] # "fetching"
    BY <1>7, ReadyMoves DEF Admit
  <2>3. PassedSend /\ ServedOnce
    BY <2>1 DEF PassedSend, ServedOnce
  <2>4. LatchIsBounded' /\ PassedKnown'
    BY <1>t, <2>1 DEF LatchIsBounded, PassedKnown, Backoff!Latched, Never
  <2> QED
    BY <2>3, <2>4 DEF Goal, LatchKept
<1>8. ASSUME NEW c \in Caller, Turn(c)
      PROVE  Goal
  <2>1. c \in InFlight /\ UNCHANGED <<cookie, passed, blockedUntil, now>>
    BY <1>8 DEF Turn, Rechecked, BeginProbe, StartProbe, HasTurn, InFlight
  <2>2. OthersKeepPlace(c) /\ pc'[c] # "fetching"
    <3>1. CASE Rechecked(c)
      BY <3>1, EndMoves, ProceedMoves DEF Rechecked
    <3>2. CASE BeginProbe(c)
      BY <1>t, <3>2 DEF BeginProbe, StartProbe, OthersKeepPlace
    <3> QED
      BY <1>8, <3>1, <3>2 DEF Turn
  <2> QED
    BY <1>4, <2>1, <2>2
<1>9. ASSUME NEW c \in Caller, ProbeAnswered(c) \/ ProbeCancelled(c)
      PROVE  Goal
  <2>1. c \in InFlight /\ UNCHANGED <<cookie, passed, blockedUntil, now>>
    BY <1>9 DEF ProbeAnswered, ProbeSucceeds, ProbeRefused, ProbeFails, ProbeCancelled,
                ProbeEnds, InFlight
  <2>2. OthersKeepPlace(c) /\ pc'[c] # "fetching"
    BY <1>9, EndMoves, ProceedMoves
       DEF ProbeAnswered, ProbeSucceeds, ProbeRefused, ProbeFails, ProbeCancelled
  <2> QED
    BY <1>4, <2>1, <2>2
<1>10. ASSUME NEW c \in Caller,
              \/ WaitCancelled(c) \/ QueueTimesOut(c) \/ QueueCancelled(c)
              \/ FetchAnswers(c) \/ FetchFails(c) \/ FetchRaises(c) \/ FetchCancelled(c)
       PROVE  Goal
  <2>1. c \in InFlight /\ UNCHANGED <<cookie, passed, blockedUntil, now>>
    BY <1>10 DEF WaitCancelled, QueueTimesOut, QueueCancelled, FetchAnswers, FetchFails,
                 FetchRaises, FetchCancelled, FetchLeft, InFlight
  <2>2. PICK outcome : End(c, outcome)
    BY <1>10 DEF WaitCancelled, QueueTimesOut, QueueCancelled, FetchAnswers, FetchFails,
                 FetchRaises, FetchCancelled, FetchLeft
  <2>3. OthersKeepPlace(c) /\ pc'[c] = "done"
    BY <2>2, EndMoves
  <2> QED
    BY <1>4, <2>1, <2>3
<1>11. ASSUME NEW c \in Caller, Send(c) \/ UpstreamReplies(c)
       PROVE  Goal
  <2>1. c \in InFlight /\ UNCHANGED <<cookie, passed, blockedUntil, now>>
    BY <1>11 DEF Send, UpstreamReplies, InFlight
  <2>2. OthersKeepPlace(c) /\ pc[c] \in {"queued", "fetching"}
    BY <1>11, <1>t DEF Send, UpstreamReplies, OthersKeepPlace
  <2> QED
    BY <1>4, <2>1, <2>2
\* The first 429 trips the latch and notes who is past it; a later one does not.
<1>12. ASSUME NEW c \in Caller, NEW values \in RetryAfter, FetchLimited(c, values)
       PROVE  Goal
  <2>1. /\ OthersKeepPlace(c) /\ pc'[c] = "done"
        /\ UNCHANGED <<now, cookie>>
        /\ blockedUntil' = Backoff!AfterObserving(values)
        /\ passed' = IF Backoff!Latched THEN passed ELSE InFlight
    BY <1>12, EndMoves DEF FetchLimited
  <2>2. PassedSend
    BY <1>1, <2>1 DEF OthersKeepPlace
  <2>3. ServedOnce
    BY <2>1 DEF ServedOnce, Backoff!AfterObserving
  <2>4. Backoff!Backoff(values) \in Nat /\ Backoff!Backoff(values) <= MaxBackoff
    BY <1>t, LatchKeeps
  <2>5. LatchIsBounded'
    BY <1>t, <2>1, <2>4 DEF LatchIsBounded, Backoff!AfterObserving
  <2>6. InFlight' \subseteq InFlight
    BY <2>1 DEF OthersKeepPlace, InFlight
  <2>7. PassedKnown'
    BY <2>1, <2>3, <2>6 DEF PassedKnown, ServedOnce, Backoff!Latched
  <2> QED
    BY <2>2, <2>3, <2>5, <2>7 DEF Goal, LatchKept
<1>13. ASSUME NEW c \in Caller, Return(c)
       PROVE  Goal
  <2>1. /\ OthersKeepPlace(c) /\ pc'[c] = "idle" /\ UNCHANGED <<blockedUntil, now>>
        /\ \A d \in Caller \ {c} : cookie'[d] = cookie[d] /\ (d \in passed => d \in passed')
    BY <1>13, <1>t DEF Return, OthersKeepPlace, TypeOK
  <2> QED
    BY <1>3, <2>1
<1>14. ASSUME (\E t \in Token, status \in Statuses : SessionChanges(t, status))
              \/ UNCHANGED vars
       PROVE  Goal
  <2>1. UNCHANGED <<pc, cookie, passed, blockedUntil, now>>
    BY <1>14 DEF SessionChanges, vars
  <2> QED
    BY <1>2, <2>1 DEF InFlight
<1>15. ASSUME Tick PROVE Goal
  <2>1. UNCHANGED <<pc, cookie, passed, blockedUntil>> /\ now' = now + 1
    BY <1>15 DEF Tick
  <2>2. LatchIsBounded' /\ (Backoff!Latched' => Backoff!Latched)
    BY <1>t, <2>1 DEF LatchIsBounded, Backoff!Latched, Never
  <2>3. PassedKnown'
    BY <2>1, <2>2 DEF PassedKnown, InFlight
  <2> QED
    BY <1>1, <2>1, <2>2, <2>3 DEF Goal, LatchKept, ServedOnce
<1>16. ASSUME NEW c \in Caller, FetchEnds(c) PROVE Goal
  BY <1>10, <1>12, <1>16 DEF FetchEnds
<1>17. ASSUME NEW c \in Caller, NEW k \in Cookie, Gates(c, k) PROVE Goal
  BY <1>5, <1>7, <1>17 DEF Gates
<1>18. ASSUME Next PROVE Goal
  BY <1>6, <1>8, <1>9, <1>10, <1>11, <1>13, <1>14, <1>15, <1>16, <1>17, <1>18 DEF Next
<1>19. Goal
  BY <1>14, <1>18
<1> QED
  BY <1>19 DEF Goal

(* Whatever wait upstream names, it is kept out for MaxBackoff at the most. *)
THEOREM LatchBounded == Spec => []LatchIsBounded
<1>1. LatchKept => LatchIsBounded
  BY DEF LatchKept
<1> QED
  BY <1>1, InitTInv, NextTInv, InitLatch, NextLatch, PTL DEF Spec

(* While the latch holds, no answer lifts it or makes it longer. *)
THEOREM LatchIsServedOnce == Spec => LatchServedOnce
<1>1. ServedOnce => [Backoff!Latched => blockedUntil' = blockedUntil]_vars
  BY DEF ServedOnce
<1> QED
  BY <1>1, InitTInv, NextTInv, InitLatch, NextLatch, PTL DEF Spec, LatchServedOnce

(* A cookie sent while the latch holds belongs to a request that was under way
   when it tripped: none that arrived later gets through. *)
THEOREM OnlyEarlierRequestsSend == Spec => OnlyPassedSendLatched
<1>1. PassedSend =>
        [\A c \in Caller :
           pc[c] # "fetching" /\ pc'[c] = "fetching" /\ Backoff!Latched
             => c \in passed]_vars
  BY DEF PassedSend
<1> QED
  BY <1>1, InitTInv, NextTInv, InitLatch, NextLatch, PTL DEF Spec, OnlyPassedSendLatched
=============================================================================
