--------------------------- MODULE RemoteVerifier ---------------------------
(***************************************************************************)
(* Mode C (_internal/remote_verifier.py): RemoteVerifier.verify and        *)
(* prepare, called by any number of concurrent requests, against an auth   *)
(* service whose sessions come to be banned and signed out meanwhile.      *)
(*                                                                         *)
(* A request goes through the local gates in one stretch: the signature,   *)
(* the negative cache, the 429 latch. Then it may wait for the readiness   *)
(* probe's lock, for its own probe, for an outbound slot, and for the      *)
(* answer. One action is one stretch between two awaits.                   *)
(***************************************************************************)
EXTENDS TaskLock, FiniteSets \* Caller is the requests

CONSTANTS
  Token,                  \* the session tokens that exist
  NoCookie,               \* what prepare() presents
  Slots,                  \* MAX_OUTBOUND_CONCURRENCY
  Ttl, MaxRemembered,     \* the negative cache
  MinBackoff, MaxBackoff, DefaultBackoff, \* the 429 latch
  RetryAfter,             \* the Retry-After values upstream may send
  ProbeRetryInterval,     \* PROBE_RETRY_INTERVAL
  ExpiresAt,              \* expiresAt of every session
  Horizon                 \* bound: the last second the clock reaches

Cookie == [token : Token, signature : {"good", "forged"}]

ASSUME RemoteAssumption ==
  /\ NoOne \notin Caller
  /\ NoCookie \notin Cookie
  /\ Slots \in Nat \ {0}
  /\ Ttl \in Nat
  /\ MaxRemembered \in Nat \ {0}
  /\ MinBackoff \in Nat \ {0}
  /\ MaxBackoff \in Nat
  /\ DefaultBackoff \in MinBackoff..MaxBackoff
  /\ RetryAfter \subseteq Seq(Int)
  /\ ProbeRetryInterval \in Nat
  /\ ExpiresAt \in Nat
  /\ Horizon \in Nat

VARIABLES
  probedOk, contractFailed,        \* what the probe has established
  probeAttemptedAt, previous,      \* its window, and the stamp to go back to
  entries,                         \* the negative cache
  blockedUntil,                    \* the 429 latch
  holders, line,                   \* the outbound limiter
  pc, cookie, answer, reply,       \* each request
  now, session,                    \* the clock and upstream's sessions
  keyring,                         \* whether the deployment set a secret
  spentAt, seen, passed            \* history, for properties

Never == -1

Cache   == INSTANCE NegativeCache
Backoff == INSTANCE BackoffLatch
Limiter == INSTANCE CapacityLimiter

probe   == <<probedOk, contractFailed, probeAttemptedAt, previous>>
limiter == <<holders, line>>
request == <<pc, cookie, answer, reply>>
world   == <<now, session, keyring>>
history == <<spentAt, seen, passed>>
vars    == <<probe, entries, blockedUntil, lock, limiter, request, world, history>>

Statuses == {"live", "banned", "gone"}
Replies  == {"none", "null", "live", "banned", "crossed", "limited"}
Answers  == {"none", "ready", "refused", "accepted", "invalid", "expired", "revoked",
             "misfit", "unavailable", "misconfigured", "raised", "cancelled"}
Places   == {"idle", "entering", "waiting", "probing", "queued", "fetching", "done"}

MutantKeyByToken(k) == k.token

\* The digest of the whole cookie value, signature included.
CacheKey(k) == k

TypeOK ==
  /\ probedOk \in BOOLEAN
  /\ contractFailed \in BOOLEAN
  /\ probeAttemptedAt \in Nat \cup {Never}
  /\ previous \in Nat \cup {Never}
  /\ entries \in Seq([key : {CacheKey(k) : k \in Cookie}, at : Nat])
  /\ blockedUntil \in Nat \cup {Never}
  /\ owner \in Caller \cup {NoOne}
  /\ waiters \in Seq(Caller)
  /\ holders \in SUBSET Caller
  /\ line \in Seq(Caller)
  /\ pc \in [Caller -> Places]
  /\ cookie \in [Caller -> Cookie \cup {NoCookie}]
  /\ answer \in [Caller -> Answers]
  /\ reply \in [Caller -> Replies]
  /\ now \in Nat
  /\ session \in [Token -> Statuses]
  /\ keyring \in BOOLEAN
  /\ spentAt \in Nat \cup {Never}
  /\ seen \in [Caller -> SUBSET Statuses]
  /\ passed \in SUBSET Caller

Init ==
  /\ probedOk = FALSE
  /\ contractFailed = FALSE
  /\ probeAttemptedAt = Never
  /\ previous = Never
  /\ entries = <<>>
  /\ blockedUntil = Never
  /\ owner = NoOne
  /\ waiters = <<>>
  /\ holders = {}
  /\ line = <<>>
  /\ pc = [c \in Caller |-> "idle"]
  /\ cookie = [c \in Caller |-> NoCookie]
  /\ answer = [c \in Caller |-> "none"]
  /\ reply = [c \in Caller |-> "none"]
  /\ now = 0
  /\ session = [t \in Token |-> "live"]
  /\ keyring \in BOOLEAN
  /\ spentAt = Never
  /\ seen = [c \in Caller |-> {}]
  /\ passed = {}
-----------------------------------------------------------------------------
(* A request begins and ends *)

Arrives(c, k) ==
  /\ pc[c] = "idle"
  /\ cookie' = [cookie EXCEPT ![c] = k]
  /\ seen' = [seen EXCEPT ![c] = IF k = NoCookie THEN {} ELSE {session[k.token]}]
  /\ UNCHANGED <<spentAt, passed>>

End(c, outcome) ==
  /\ pc' = [pc EXCEPT ![c] = "done"]
  /\ answer' = [answer EXCEPT ![c] = outcome]
  /\ reply' = [reply EXCEPT ![c] = "none"]

\* prepare() turns an unreachable upstream into a configuration error.
Unreachable(k) == IF k = NoCookie THEN "misconfigured" ELSE "unavailable"

\* null_outcome: a signature the keyring verified once named a session.
NullOutcome == IF keyring THEN "revoked" ELSE "invalid"

\* A document: whose it is, its expiry, the ban, and last whether its user
\* fits the application's model. A ban is for good here: RequestJourney has
\* those that lapse.
DocumentOutcome(r, fits) ==
  IF r = "null" THEN NullOutcome
  ELSE IF r = "crossed" THEN "invalid"
  ELSE IF now >= ExpiresAt THEN "expired"
  ELSE IF r = "banned" THEN "revoked"
  ELSE IF ~fits THEN "misfit"
  ELSE "accepted"
-----------------------------------------------------------------------------
(* The local gates, with nothing outbound *)

KnownForged(k) == keyring /\ k.signature = "forged"

\* A malformed cookie or a cross-site request: refused on its own face.
RefusedUnread(c) ==
  /\ Arrives(c, NoCookie)
  /\ End(c, "refused")
  /\ UNCHANGED <<probe, entries, blockedUntil, lock, limiter, world>>

RefusedForged(c, k) ==
  /\ Arrives(c, k)
  /\ KnownForged(k)
  /\ End(c, "invalid")
  /\ UNCHANGED <<probe, entries, blockedUntil, lock, limiter, world>>

RefusedRemembered(c, k) ==
  /\ Arrives(c, k)
  /\ ~KnownForged(k)
  /\ Cache!Holds(CacheKey(k))
  /\ End(c, NullOutcome)
  /\ UNCHANGED <<probe, entries, blockedUntil, lock, limiter, world>>

RefusedLatched(c, k) ==
  /\ Arrives(c, k)
  /\ ~KnownForged(k)
  /\ ~Cache!Holds(CacheKey(k))
  /\ Backoff!Latched
  /\ entries' = Cache!AfterAsking(CacheKey(k))
  /\ End(c, "unavailable")
  /\ UNCHANGED <<probe, blockedUntil, lock, limiter, world>>
-----------------------------------------------------------------------------
(* The readiness gate *)

MayProbe ==
  probeAttemptedAt = Never \/ now - probeAttemptedAt >= ProbeRetryInterval

\* Past the gate, prepare() is done and a request asks for a slot.
Proceed(c, k) ==
  IF k = NoCookie
  THEN End(c, "ready") /\ UNCHANGED limiter
  ELSE /\ Limiter!TakeSlot(c)
       /\ pc' = [pc EXCEPT ![c] = "queued"]
       /\ UNCHANGED <<answer, reply>>

Acquire(c) ==
  /\ IF LockIsFree
     THEN TakeLock(c) /\ pc' = [pc EXCEPT ![c] = "entering"]
     ELSE JoinLine(c) /\ pc' = [pc EXCEPT ![c] = "waiting"]
  /\ UNCHANGED <<answer, reply>>

Ready(c, k) ==
  IF probedOk THEN Proceed(c, k) /\ UNCHANGED lock
  ELSE IF contractFailed THEN End(c, "misconfigured") /\ UNCHANGED <<lock, limiter>>
  ELSE Acquire(c) /\ UNCHANGED limiter

Prepare(c) ==
  /\ Arrives(c, NoCookie)
  /\ Ready(c, NoCookie)
  /\ UNCHANGED <<probe, entries, blockedUntil, world>>

MutantAdmitLatched(c, k) ==
  /\ Arrives(c, k)
  /\ ~KnownForged(k)
  /\ ~Cache!Holds(CacheKey(k))
  /\ entries' = Cache!AfterAsking(CacheKey(k))
  /\ UNCHANGED blockedUntil
  /\ Ready(c, k)
  /\ UNCHANGED <<probe, world>>

Admit(c, k) ==
  /\ Arrives(c, k)
  /\ ~KnownForged(k)
  /\ ~Cache!Holds(CacheKey(k))
  /\ ~Backoff!Latched
  /\ entries' = Cache!AfterAsking(CacheKey(k))
  /\ blockedUntil' = Backoff!AfterAsking
  /\ Ready(c, k)
  /\ UNCHANGED <<probe, world>>

HasTurn(c) == owner = c /\ pc[c] \in {"entering", "waiting"}

\* What the one before established is looked up again under the lock.
Rechecked(c) ==
  /\ HasTurn(c)
  /\ IF probedOk THEN Proceed(c, cookie[c])
     ELSE /\ IF contractFailed THEN End(c, "misconfigured")
             ELSE ~MayProbe /\ End(c, Unreachable(cookie[c]))
          /\ UNCHANGED limiter
  /\ Release
  /\ UNCHANGED <<probe, entries, blockedUntil, cookie, world, history>>

StartProbe(c) ==
  /\ HasTurn(c)
  /\ MayProbe
  /\ previous' = probeAttemptedAt
  /\ probeAttemptedAt' = now
  /\ pc' = [pc EXCEPT ![c] = "probing"]
  /\ UNCHANGED <<probedOk, contractFailed, entries, blockedUntil, lock, limiter,
                 cookie, answer, reply, world, history>>

MutantProbeAgain(c) == StartProbe(c)

BeginProbe(c) == ~probedOk /\ ~contractFailed /\ StartProbe(c)

\* Leaving the gate with the probe answered, its window kept as stamped.
ProbeEnds(c, stamp) ==
  /\ pc[c] = "probing"
  /\ Release
  /\ previous' = Never
  /\ probeAttemptedAt' = stamp
  /\ UNCHANGED <<entries, blockedUntil, cookie, world, seen, passed>>

ProbeSucceeds(c) ==
  /\ ProbeEnds(c, probeAttemptedAt)
  /\ probedOk' = TRUE
  /\ spentAt' = probeAttemptedAt
  /\ Proceed(c, cookie[c])
  /\ UNCHANGED contractFailed

\* Anything but 200 and null, and a configuration error of the transport's own.
ProbeRefused(c) ==
  /\ ProbeEnds(c, probeAttemptedAt)
  /\ contractFailed' = TRUE
  /\ spentAt' = probeAttemptedAt
  /\ End(c, "misconfigured")
  /\ UNCHANGED <<probedOk, limiter>>

MutantProbeFailureFree(c) ==
  /\ ProbeEnds(c, previous)
  /\ spentAt' = probeAttemptedAt
  /\ \E outcome \in {Unreachable(cookie[c]), "raised"} : End(c, outcome)
  /\ UNCHANGED <<probedOk, contractFailed, limiter>>

\* A timeout or a refused connection is not remembered, but spends the window;
\* so does another of the library's errors, raised by a transport.
ProbeFails(c) ==
  /\ ProbeEnds(c, probeAttemptedAt)
  /\ spentAt' = probeAttemptedAt
  /\ \E outcome \in {Unreachable(cookie[c]), "raised"} : End(c, outcome)
  /\ UNCHANGED <<probedOk, contractFailed, limiter>>

MutantProbeLockKept(c) ==
  /\ pc[c] = "probing"
  /\ previous' = Never
  /\ probeAttemptedAt' = previous
  /\ End(c, "cancelled")
  /\ UNCHANGED <<probedOk, contractFailed, entries, blockedUntil, lock, limiter, cookie,
                 world, history>>

\* No answer came, so the window is given back as it was.
ProbeCancelled(c) ==
  /\ ProbeEnds(c, previous)
  /\ End(c, "cancelled")
  /\ UNCHANGED <<probedOk, contractFailed, limiter, spentAt>>

WaitCancelled(c) ==
  /\ pc[c] = "waiting"
  /\ Withdraw(c)
  /\ End(c, "cancelled")
  /\ UNCHANGED <<probe, entries, blockedUntil, limiter, cookie, world, history>>
-----------------------------------------------------------------------------
(* The fetch, under an outbound slot *)

Send(c) ==
  /\ pc[c] = "queued"
  /\ c \in holders
  /\ pc' = [pc EXCEPT ![c] = "fetching"]
  /\ UNCHANGED <<probe, entries, blockedUntil, lock, limiter, cookie, answer, reply,
                 world, history>>

\* queue_timeout bounds the wait for a slot; how long it is does not matter here.
QueueTimesOut(c) ==
  /\ pc[c] = "queued"
  /\ c \notin holders
  /\ Limiter!Abandon(c)
  /\ End(c, "unavailable")
  /\ UNCHANGED <<probe, entries, blockedUntil, lock, cookie, world, history>>

QueueCancelled(c) ==
  /\ pc[c] = "queued"
  /\ Limiter!Abandon(c)
  /\ End(c, "cancelled")
  /\ UNCHANGED <<probe, entries, blockedUntil, lock, cookie, world, history>>

MutantCacheBans(r) == r \in {"null", "banned"}

IsCacheable(r) == r = "null"

MutantTakeAnyDocument(c) ==
  /\ pc[c] = "fetching"
  /\ reply[c] \in {"null", "live", "banned", "crossed"}
  /\ Limiter!GiveBack(c)
  /\ entries' = IF IsCacheable(reply[c])
                THEN Cache!AfterRemembering(CacheKey(cookie[c]))
                ELSE entries
  /\ \E fits \in BOOLEAN :
       End(c, IF reply[c] = "crossed" THEN "accepted"
              ELSE DocumentOutcome(reply[c], fits))
  /\ UNCHANGED <<probe, blockedUntil, lock, cookie, world, history>>

\* A 200 with null, a session document, or one that names another token.
FetchAnswers(c) ==
  /\ pc[c] = "fetching"
  /\ reply[c] \in {"null", "live", "banned", "crossed"}
  /\ Limiter!GiveBack(c)
  /\ entries' = IF IsCacheable(reply[c])
                THEN Cache!AfterRemembering(CacheKey(cookie[c]))
                ELSE entries
  /\ \E fits \in BOOLEAN : End(c, DocumentOutcome(reply[c], fits))
  /\ UNCHANGED <<probe, blockedUntil, lock, cookie, world, history>>

\* History: the requests that are past the latch when it trips.
InFlight == {c \in Caller : pc[c] \notin {"idle", "done"}}

\* A 429 trips the latch.
FetchLimited(c, values) ==
  /\ pc[c] = "fetching"
  /\ reply[c] = "limited"
  /\ Limiter!GiveBack(c)
  /\ blockedUntil' = Backoff!AfterObserving(values)
  /\ End(c, "unavailable")
  /\ passed' = IF Backoff!Latched THEN passed ELSE InFlight
  /\ UNCHANGED <<probe, entries, lock, cookie, world, spentAt, seen>>

\* No answer to speak of, or one of the library's errors from the transport,
\* or the request was cancelled.
FetchLeft(c, outcome) ==
  /\ pc[c] = "fetching"
  /\ End(c, outcome)
  /\ UNCHANGED <<probe, entries, blockedUntil, lock, cookie, world, history>>

FetchFails(c)  == FetchLeft(c, "unavailable") /\ Limiter!GiveBack(c)
FetchRaises(c) == FetchLeft(c, "raised") /\ Limiter!GiveBack(c)

MutantSlotKept(c) == FetchLeft(c, "cancelled") /\ UNCHANGED limiter

FetchCancelled(c) == FetchLeft(c, "cancelled") /\ Limiter!GiveBack(c)

Return(c) ==
  /\ pc[c] = "done"
  /\ pc' = [pc EXCEPT ![c] = "idle"]
  /\ cookie' = [cookie EXCEPT ![c] = NoCookie]
  /\ answer' = [answer EXCEPT ![c] = "none"]
  /\ seen' = [seen EXCEPT ![c] = {}]
  /\ passed' = passed \ {c}
  /\ UNCHANGED <<probe, entries, blockedUntil, lock, limiter, reply, world, spentAt>>
-----------------------------------------------------------------------------
(* The world *)

Truth(k) ==
  IF k.signature = "forged" \/ session[k.token] = "gone" THEN "null"
  ELSE session[k.token]

\* Upstream answers what holds now, crosses two answers, or sends a 429.
UpstreamReplies(c) ==
  /\ pc[c] = "fetching"
  /\ reply[c] = "none"
  /\ \E r \in {Truth(cookie[c]), "crossed", "limited"} :
       reply' = [reply EXCEPT ![c] = r]
  /\ UNCHANGED <<probe, entries, blockedUntil, lock, limiter, pc, cookie, answer,
                 world, history>>

\* A ban and its end, or a sign-out. A token is never minted twice.
SessionChanges(t, status) ==
  /\ session[t] \notin {"gone", status}
  /\ session' = [session EXCEPT ![t] = status]
  /\ seen' = [c \in Caller |->
                IF cookie[c] # NoCookie /\ cookie[c].token = t /\ pc[c] # "done"
                THEN seen[c] \cup {status} ELSE seen[c]]
  /\ UNCHANGED <<probe, entries, blockedUntil, lock, limiter, request, now, keyring,
                 spentAt, passed>>

Tick ==
  /\ now < Horizon
  /\ now' = now + 1
  /\ UNCHANGED <<probe, entries, blockedUntil, lock, limiter, request, session, keyring,
                 history>>

Gates(c, k) ==
  \/ RefusedForged(c, k)
  \/ RefusedRemembered(c, k)
  \/ RefusedLatched(c, k)
  \/ Admit(c, k)

Turn(c) == Rechecked(c) \/ BeginProbe(c)

ProbeAnswered(c) == ProbeSucceeds(c) \/ ProbeRefused(c) \/ ProbeFails(c)

FetchEnds(c) ==
  FetchAnswers(c) \/ FetchFails(c) \/ \E values \in RetryAfter : FetchLimited(c, values)

Next ==
  \/ \E c \in Caller, k \in Cookie : Gates(c, k)
  \/ \E c \in Caller :
       \/ Prepare(c)
       \/ RefusedUnread(c)
       \/ Turn(c)
       \/ ProbeAnswered(c)
       \/ ProbeCancelled(c)
       \/ WaitCancelled(c)
       \/ Send(c)
       \/ QueueTimesOut(c)
       \/ QueueCancelled(c)
       \/ FetchEnds(c)
       \/ FetchRaises(c)
       \/ FetchCancelled(c)
       \/ UpstreamReplies(c)
       \/ Return(c)
  \/ \E t \in Token, status \in Statuses : SessionChanges(t, status)
  \/ Tick

Spec == Init /\ [][Next]_vars

\* The event loop runs every ready task, and the transport's deadline ends
\* every probe and every fetch. Nothing is assumed of upstream or of time.
Fairness ==
  \A c \in Caller : /\ WF_vars(Turn(c))
                    /\ WF_vars(ProbeAnswered(c))
                    /\ WF_vars(Send(c))
                    /\ WF_vars(FetchEnds(c))

FairSpec == Spec /\ Fairness
-----------------------------------------------------------------------------
(* Properties *)

Ended(c, outcomes) == answer[c] = "none" /\ answer'[c] \in outcomes

\* A session is granted only to a genuine cookie whose session upstream really
\* held live at some moment of this very request: no answer is carried over
\* from another request, and a crossed document is never taken.
AcceptedWasLive ==
  [][\A c \in Caller : Ended(c, {"accepted"}) =>
       /\ cookie[c].signature = "good"
       /\ "live" \in seen[c]
       /\ reply[c] # "crossed"]_vars

\* A cookie is refused as dead only if it is: forged, or its session was banned
\* or signed out at some moment of this very request. Neither the cache nor a
\* slow answer refuses a session that was live all along, an answer upstream
\* crossed being the one exception.
RefusalWasTrue ==
  [][\A c \in Caller : Ended(c, {"invalid", "revoked"}) =>
       \/ cookie'[c].signature = "forged"
       \/ seen'[c] \cap {"banned", "gone"} # {}
       \/ reply[c] = "crossed"]_vars

Dead(k) == k.signature = "forged" \/ session[k.token] = "gone"

\* The cache never stands between a live session and its user: a cookie that
\* still opens a session, banned or not, has no entry, whatever forgeries of
\* its token were sent.
NoLiveCookieRemembered ==
  \A k \in Cookie : Cache!Has(CacheKey(k)) => Dead(k)

\* However many cookies are forged, the memory of them is bounded.
CacheIsBounded == Cache!Bounded

\* Every way out of the exchange gives the slot back, once, to the next in
\* line: the slots in use are those of requests that are being served.
NoSlotLeak ==
  /\ Limiter!SlotsAreUsed({c \in Caller : pc[c] \in {"queued", "fetching"}})
  /\ \A c \in Caller : pc[c] = "fetching" => c \in holders

\* No cookie leaves the process before upstream has been shown to honour the
\* contract, and a deployment found not to honour it is never served.
FailClosed ==
  /\ contractFailed => ~probedOk
  /\ \A c \in Caller : pc[c] \in {"queued", "fetching"} => probedOk

\* Whatever the requests do, probes reach upstream one at a time and a full
\* window apart, and a cancelled one does not spend the window.
Probing == \E c \in Caller : pc[c] = "probing"

Attempt == INSTANCE ThrottledAttempt WITH
  Interval <- ProbeRetryInterval,
  running <- Probing,
  startedAt <- IF Probing THEN probeAttemptedAt ELSE Never

ProbeIsThrottled == Attempt!Spec

\* Time alone clears the latch: while it holds, no answer that comes in lifts
\* it or makes it longer.
LatchServedOnce == [][Backoff!Latched => blockedUntil' = blockedUntil]_vars

\* Whatever wait upstream names, the latch lies at most MaxBackoff ahead.
LatchIsBounded == blockedUntil <= now + MaxBackoff

\* A cookie that leaves while the latch holds belongs to a request that was
\* past the gate when it tripped; none that arrives later gets through.
OnlyPassedSendLatched ==
  [][\A c \in Caller :
       pc[c] # "fetching" /\ pc'[c] = "fetching" /\ Backoff!Latched
         => c \in passed]_vars

\* Every request that had to wait, for the probe or for a slot, is answered.
EveryRequestEnds ==
  \A c \in Caller : pc[c] \in {"waiting", "queued"} ~> pc[c] = "done"

\* The README's promise, at README.md:1057 and in remote_backoff.py:4-8: while
\* the latch holds, nothing goes out.
NoOutboundWhileLatched ==
  [][\A c \in Caller :
       pc[c] # "fetching" /\ pc'[c] = "fetching" => ~Backoff!Latched]_vars
=============================================================================
